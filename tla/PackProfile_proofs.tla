------------------------- MODULE PackProfile_proofs -------------------------
(***************************************************************************)
(* Proofs about modules Components and PackProfile, for any components,    *)
(* meta data, files and edits.                                             *)
(*                                                                         *)
(* The first part is about data: ascending sequences of numbers, rows      *)
(* selected from, inserted into and removed from a sequence, what each     *)
(* operation on a component returns, and the list that is read back from   *)
(* its file.  The second part is the invariant IInv of the list, the meta  *)
(* data, the task and the file, kept by every step.  On it rest            *)
(*   ListAndIndex        the list and its index agree,                     *)
(*   CustomIsBacked      a custom component has its file,                  *)
(*   UnreadableIsSafe    an unread list is never written,                  *)
(*   CrashLosesNothing   a clean list is what its file restores,           *)
(*   ChoicesAreKept      the resolver leaves alone what the user chose,    *)
(*   InjectionPrecedes   a dependency goes in before what requires it,     *)
(*   SuccessIsResolved   a task that succeeds leaves nothing unresolved,   *)
(*   AnswersArrive       a download finds the task and row it was for.     *)
(***************************************************************************)
EXTENDS PackProfile, SequenceTheorems, FiniteSetTheorems, TLAPS

(***************************************************************************)
(* Sets of numbers, recursive functions, ascending sequences.              *)
(***************************************************************************)
\* A set of numbers that is not empty has a smallest one.
LEMMA Least ==
  ASSUME NEW S, S \subseteq Nat, S # {}
  PROVE  \E m \in S : \A j \in S : m <= j
<1>. DEFINE R == {ss \in Nat \X Nat : ss[1] < ss[2]}
<1>1. IsWellFoundedOn(R, Nat)
  BY NatLessThanWellFounded DEF OpToRel
<1>2. PICK m \in S : \A j \in S : <<j, m>> \notin R
  <2>. HIDE DEF R
  <2>. QED
    BY <1>1, WFMin
<1>3. ASSUME NEW j \in S PROVE m <= j
  <2>1. m \in Nat /\ j \in Nat /\ <<j, m>> \in Nat \X Nat /\ <<j, m>> \notin R
    BY <1>2
  <2>2. ~(j < m)
    BY <2>1
  <2>. QED
    BY <2>1, <2>2
<1>. QED
  BY <1>3

\* Counting up: what holds of 0 and of every number after one it holds of.
LEMMA Stepwise ==
  ASSUME NEW n \in Nat, NEW G, 0 \in G, \A k \in 1..n : k - 1 \in G => k \in G
  PROVE  \A k \in 0..n : k \in G
<1>. DEFINE B == {k \in 0..n : k \notin G}
<1>. SUFFICES ASSUME B # {} PROVE FALSE
  OBVIOUS
<1>1. B \subseteq Nat
  OBVIOUS
<1>2. PICK m \in B : \A j \in B : m <= j
  <2>. HIDE DEF B
  <2>. QED
    BY <1>1, Least
<1>3. m \in Nat /\ m \in 0..n /\ m \notin G
  BY <1>2
<1>4. m \in 1..n /\ m - 1 \in Nat /\ m - 1 \in 0..n
  BY <1>3
<1>5. m - 1 \notin B
  BY <1>2, <1>3, <1>4
<1>. QED
  BY <1>3, <1>4, <1>5

\* f[k] comes from f[k - 1] by step k.
Iteration(f, n, S, base, step) ==
  /\ f \in [0..n -> S] /\ f[0] = base
  /\ \A k \in 1..n : f[k] = step[k][f[k - 1]]

\* A recursion over 0..n has a value at every number.
LEMMA Iterates ==
  ASSUME NEW n \in Nat, NEW S, NEW base \in S, NEW step \in [1..n -> [S -> S]]
  PROVE  \E f : Iteration(f, n, S, base, step)
<1>. DEFINE Good(m, f) == /\ f[0] = base
                          /\ \A k \in 1..m : f[k] = step[k][f[k - 1]]
            G == {m \in 0..n : \E f \in [0..m -> S] : Good(m, f)}
<1>1. 0 \in G
  <2>. DEFINE f == [k \in 0..0 |-> base]
  <2>1. f \in [0..0 -> S] /\ f[0] = base /\ 1..0 = {}
    OBVIOUS
  <2>. HIDE DEF f
  <2>2. Good(0, f)
    BY <2>1
  <2>. QED
    BY <2>1, <2>2
<1>2. ASSUME NEW m \in 1..n, m - 1 \in G PROVE m \in G
  <2>1. PICK f \in [0..(m-1) -> S] : Good(m - 1, f)
    BY <1>2
  <2>. DEFINE g == [k \in 0..m |-> IF k = m THEN step[m][f[m - 1]] ELSE f[k]]
  <2>2. g \in [0..m -> S]
    <3>1. f[m - 1] \in S
      BY <2>1
    <3>2. step[m][f[m - 1]] \in S
      BY <3>1
    <3>3. \A k \in 0..m : k # m => f[k] \in S
      BY <2>1
    <3>. QED
      BY <3>2, <3>3
  <2>3. g[0] = base
    BY <2>1
  <2>4. ASSUME NEW k \in 1..m PROVE g[k] = step[k][g[k - 1]]
    <3>1. k - 1 \in 0..m /\ k - 1 # m /\ k \in 0..m
      OBVIOUS
    <3>2. g[k - 1] = f[k - 1]
      BY <3>1
    <3>3. CASE k = m
      <4>1. m \in 0..m /\ g[m] = step[m][f[m - 1]]
        OBVIOUS
      <4>. HIDE DEF g
      <4>. QED
        BY <4>1, <3>2, <3>3
    <3>4. CASE k # m
      <4>1. g[k] = f[k] /\ k \in 1..(m-1)
        BY <3>1, <3>4
      <4>. QED
        BY <4>1, <3>2, <2>1
    <3>. QED
      BY <3>3, <3>4
  <2>. HIDE DEF g
  <2>5. Good(m, g) /\ m \in 0..n
    BY <2>3, <2>4
  <2>. QED
    BY <2>2, <2>5
<1>3. n \in G
  <2>. HIDE DEF G
  <2>1. \A k \in 0..n : k \in G
    BY <1>1, <1>2, Stepwise
  <2>. QED
    BY <2>1
<1>. QED
  BY <1>3 DEF Iteration

Ascends(s, S) == /\ s \in [1..Cardinality(S) -> S]
                 /\ \A i, j \in DOMAIN s : i < j => s[i] < s[j]

\* A finite set of numbers can be put in ascending order: its smallest, then the rest.
LEMMA AscendingExists ==
  ASSUME NEW S, S \subseteq Nat, IsFiniteSet(S)
  PROVE  \E s : Ascends(s, S)
<1>. DEFINE n == Cardinality(S)
            G == {k \in 0..n : \A T \in SUBSET S : Cardinality(T) = k => \E s : Ascends(s, T)}
<1>1. n \in Nat
  BY FS_CardinalityType
<1>2. 0 \in G
  <2>1. ASSUME NEW T \in SUBSET S, Cardinality(T) = 0 PROVE \E s : Ascends(s, T)
    <3>1. Ascends(<<>>, T)
      BY <2>1 DEF Ascends
    <3>. QED
      BY <3>1
  <2>. QED
    BY <2>1, <1>1
<1>3. ASSUME NEW k \in 1..n, k - 1 \in G PROVE k \in G
  <2>1. ASSUME NEW T \in SUBSET S, Cardinality(T) = k PROVE \E s : Ascends(s, T)
    <3>1. IsFiniteSet(T) /\ T \subseteq Nat /\ T # {}
      <4>1. IsFiniteSet(T)
        BY FS_Subset
      <4>2. Cardinality({}) = 0 /\ k # 0
        BY FS_EmptySet, <1>1
      <4>. QED
        BY <4>1, <4>2, <2>1
    <3>2. PICK m \in T : \A j \in T : m <= j
      BY <3>1, Least
    <3>. DEFINE U == T \ {m}
    <3>3. Cardinality(U) = k - 1 /\ U \in SUBSET S
      BY <3>1, <3>2, <2>1, FS_RemoveElement
    <3>4. PICK r : Ascends(r, U)
      BY <1>3, <3>3
    <3>. DEFINE s == [i \in 1..k |-> IF i = 1 THEN m ELSE r[i - 1]]
    <3>5. r \in [1..(k-1) -> U] /\ \A i, j \in 1..(k-1) : i < j => r[i] < r[j]
      BY <3>3, <3>4 DEF Ascends
    <3>6. \A i \in 1..k : i # 1 => r[i - 1] \in U
      BY <3>5
    <3>7. s \in [1..k -> T]
      BY <3>6
    <3>8. ASSUME NEW i \in 1..k, NEW j \in 1..k, i < j PROVE s[i] < s[j]
      <4>1. j # 1 /\ s[j] = r[j - 1] /\ r[j - 1] \in U
        BY <3>6, <3>8
      <4>2. CASE i = 1
        <5>1. m <= r[j - 1] /\ m # r[j - 1] /\ m \in Nat /\ r[j - 1] \in Nat
          BY <3>1, <3>2, <4>1
        <5>. QED
          BY <4>1, <4>2, <5>1
      <4>3. CASE i # 1
        BY <3>5, <3>8, <4>1, <4>3
      <4>. QED
        BY <4>2, <4>3
    <3>9. DOMAIN s = 1..k
      OBVIOUS
    <3>. HIDE DEF s
    <3>10. Ascends(s, T)
      BY <3>7, <3>8, <3>9, <2>1 DEF Ascends
    <3>. QED
      BY <3>10
  <2>. QED
    BY <2>1
<1>4. n \in G
  <2>. HIDE DEF G, n
  <2>1. \A k \in 0..n : k \in G
    BY <1>1, <1>2, <1>3, Stepwise
  <2>. QED
    BY <2>1, <1>1
<1>. QED
  BY <1>4, <1>1

\* What Ascending returns: every number of the set once, the smaller ones first.
LEMMA AscendingProperties ==
  ASSUME NEW S, S \subseteq Nat, IsFiniteSet(S)
  PROVE  /\ Cardinality(S) \in Nat
         /\ Ascending(S) \in [1..Cardinality(S) -> S]
         /\ Ascending(S) \in Seq(S) /\ Len(Ascending(S)) = Cardinality(S)
         /\ DOMAIN Ascending(S) = 1..Cardinality(S)
         /\ \A i, j \in 1..Cardinality(S) : i < j => Ascending(S)[i] < Ascending(S)[j]
         /\ \A i, j \in 1..Cardinality(S) : Ascending(S)[i] = Ascending(S)[j] => i = j
         /\ \A x \in S : \E i \in 1..Cardinality(S) : Ascending(S)[i] = x
<1>. DEFINE n == Cardinality(S)
            a == Ascending(S)
<1>1. n \in Nat
  BY FS_CardinalityType
<1>2. a \in [1..n -> S] /\ \A i, j \in DOMAIN a : i < j => a[i] < a[j]
  <2>1. \E s \in [1..n -> S] : \A i, j \in DOMAIN s : i < j => s[i] < s[j]
    BY AscendingExists DEF Ascends
  <2>. QED
    BY <2>1 DEF Ascending
<1>3. DOMAIN a = 1..n /\ \A i \in 1..n : a[i] \in Nat
  BY <1>2
<1>. HIDE DEF a
<1>4. \A i, j \in 1..n : a[i] = a[j] => i = j
  <2>1. ASSUME NEW i \in 1..n, NEW j \in 1..n, a[i] = a[j], i # j PROVE FALSE
    <3>1. i < j \/ j < i
      BY <1>1, <2>1
    <3>2. a[i] < a[j] \/ a[j] < a[i]
      BY <1>2, <1>3, <3>1
    <3>. QED
      BY <1>3, <2>1, <3>2
  <2>. QED
    BY <2>1
<1>5. a \in Surjection(1..n, S)
  <2>1. a \in Injection(1..n, S)
    BY <1>2, <1>3, <1>4 DEF Injection, IsInjective
  <2>2. IsFiniteSet(1..n) /\ Cardinality(1..n) = n
    BY <1>1, FS_Interval
  <2>. QED
    BY <2>1, <2>2, FS_Injection
<1>6. a \in Seq(S) /\ Len(a) = n
  BY <1>1, <1>2, SeqDef
<1>. QED
  BY <1>1, <1>2, <1>3, <1>4, <1>5, <1>6 DEF Surjection, a

\* The largest number of a finite set, as Max finds it, and the smallest, as Min does.
LEMMA Extremes ==
  ASSUME NEW S, S \subseteq Nat, IsFiniteSet(S), S # {}
  PROVE  /\ Max(S) \in S /\ \A j \in S : Max(S) >= j
         /\ Min(S) \in S /\ \A j \in S : Min(S) <= j
<1>. DEFINE n == Cardinality(S)
            a == Ascending(S)
<1>1. /\ n \in Nat /\ a \in [1..n -> S]
      /\ \A i, j \in 1..n : i < j => a[i] < a[j]
      /\ \A x \in S : \E i \in 1..n : a[i] = x
  BY AscendingProperties
<1>. HIDE DEF n, a
<1>2. n \in 1..n
  <2>1. \E i \in 1..n : TRUE
    BY <1>1
  <2>. QED
    BY <2>1, <1>1
<1>3. a[n] \in S
  BY <1>1, <1>2
<1>4. ASSUME NEW j \in S PROVE a[n] >= j
  <2>1. PICK i \in 1..n : a[i] = j
    BY <1>1
  <2>2. CASE i = n
    <3>1. a[n] = j /\ a[n] \in Nat
      BY <1>3, <2>1, <2>2
    <3>. QED
      BY <3>1
  <2>3. CASE i # n
    <3>1. i < n
      BY <1>1, <2>3
    <3>2. j < a[n] /\ a[n] \in Nat /\ j \in Nat
      BY <1>1, <1>2, <1>3, <2>1, <3>1
    <3>. QED
      BY <3>2
  <2>. QED
    BY <2>2, <2>3
<1>5. Max(S) \in S /\ \A j \in S : Max(S) >= j
  <2>1. \E x \in S : \A j \in S : x >= j
    BY <1>3, <1>4
  <2>. QED
    BY <2>1 DEF Max
<1>6. \E x \in S : \A j \in S : x <= j
  BY Least
<1>. QED
  BY <1>5, <1>6 DEF Min

\* There is one way only to put a set in ascending order.
LEMMA AscendingUnique ==
  ASSUME NEW S, S \subseteq Nat, IsFiniteSet(S), NEW n \in Nat, NEW s \in [1..n -> S],
         \A i, j \in 1..n : i < j => s[i] < s[j],
         \A x \in S : \E i \in 1..n : s[i] = x
  PROVE  n = Cardinality(S) /\ s = Ascending(S)
<1>. DEFINE a == Ascending(S)
<1>1. \A i \in 1..n : s[i] \in Nat
  OBVIOUS
<1>2. \A i, j \in 1..n : s[i] = s[j] => i = j
  <2>1. ASSUME NEW i \in 1..n, NEW j \in 1..n, s[i] = s[j], i # j PROVE FALSE
    <3>1. i < j \/ j < i
      BY <2>1
    <3>2. s[i] < s[j] \/ s[j] < s[i]
      BY <3>1
    <3>. QED
      BY <1>1, <2>1, <3>2
  <2>. QED
    BY <2>1
<1>3. n = Cardinality(S)
  <2>1. s \in Bijection(1..n, S)
    BY <1>2 DEF Bijection, Injection, Surjection, IsInjective
  <2>2. ExistsBijection(1..n, S)
    BY <2>1 DEF ExistsBijection
  <2>. QED
    BY <2>2, FS_CountingElements
<1>4. /\ a \in [1..n -> S]
      /\ \A i, j \in 1..n : i < j => a[i] < a[j]
      /\ \A i, j \in 1..n : a[i] = a[j] => i = j
      /\ \A x \in S : \E i \in 1..n : a[i] = x
  BY <1>3, AscendingProperties
<1>. HIDE DEF a
<1>. DEFINE G == {k \in 0..n : \A j \in 1..k : s[j] = a[j]}
<1>5. 0 \in G
  OBVIOUS
<1>6. ASSUME NEW k \in 1..n, k - 1 \in G PROVE k \in G
  <2>1. \A j \in 1..(k-1) : s[j] = a[j]
    BY <1>6
  <2>2. a[k] \in S /\ s[k] \in S /\ a[k] \in Nat /\ s[k] \in Nat
    BY <1>4
  <2>3. ~(s[k] < a[k])
    <3>1. PICK j \in 1..n : a[j] = s[k]
      BY <1>4, <2>2
    <3>2. ~(j < k)
      BY <2>1, <1>2, <3>1
    <3>3. j = k \/ k < j
      BY <3>2
    <3>4. a[j] = a[k] \/ a[k] < a[j]
      BY <1>4, <3>3
    <3>. QED
      BY <2>2, <3>1, <3>4
  <2>4. ~(a[k] < s[k])
    <3>1. PICK j \in 1..n : s[j] = a[k]
      BY <2>2
    <3>2. ~(j < k)
      BY <2>1, <1>4, <3>1
    <3>3. j = k \/ k < j
      BY <3>2
    <3>4. s[j] = s[k] \/ s[k] < s[j]
      BY <3>3
    <3>. QED
      BY <2>2, <3>1, <3>4
  <2>5. s[k] = a[k]
    BY <2>2, <2>3, <2>4
  <2>6. \A j \in 1..k : j \in 1..(k-1) \/ j = k
    OBVIOUS
  <2>. QED
    BY <2>1, <2>5, <2>6
<1>7. n \in G
  <2>. HIDE DEF G
  <2>1. \A k \in 0..n : k \in G
    BY <1>5, <1>6, Stepwise
  <2>. QED
    BY <2>1
<1>8. \A j \in 1..n : s[j] = a[j]
  BY <1>7
<1>. QED
  BY <1>3, <1>4, <1>8 DEF a

--------------------------------------------------------------------------------
(***************************************************************************)
(* Lists of rows.                                                          *)
(***************************************************************************)

\* The rows that are selected, in their order.
LEMMA SelectProperties ==
  ASSUME NEW T, NEW cs \in Seq(T), NEW rows, rows \subseteq DOMAIN cs
  PROVE  /\ IsFiniteSet(rows) /\ rows \subseteq Nat /\ Cardinality(rows) \in Nat
         /\ Ascending(rows) \in [1..Cardinality(rows) -> rows]
         /\ \A i, j \in 1..Cardinality(rows) : i < j => Ascending(rows)[i] < Ascending(rows)[j]
         /\ \A i, j \in 1..Cardinality(rows) :
              Ascending(rows)[i] = Ascending(rows)[j] => i = j
         /\ \A x \in rows : \E i \in 1..Cardinality(rows) : Ascending(rows)[i] = x
         /\ Select(cs, rows) \in Seq(T) /\ Len(Select(cs, rows)) = Cardinality(rows)
         /\ DOMAIN Select(cs, rows) = 1..Cardinality(rows)
         /\ \A k \in 1..Cardinality(rows) : Select(cs, rows)[k] = cs[Ascending(rows)[k]]
<1>1. Len(cs) \in Nat /\ DOMAIN cs = 1..Len(cs)
  BY LenProperties
<1>2. IsFiniteSet(rows) /\ rows \subseteq Nat
  <2>1. IsFiniteSet(1..Len(cs)) /\ rows \in SUBSET (1..Len(cs))
    BY <1>1, FS_Interval
  <2>. QED
    BY <1>1, <2>1, FS_Subset
<1>. DEFINE n == Cardinality(rows)
            a == Ascending(rows)
            s == Select(cs, rows)
<1>3. /\ n \in Nat /\ a \in [1..n -> rows]
      /\ \A i, j \in 1..n : i < j => a[i] < a[j]
      /\ \A i, j \in 1..n : a[i] = a[j] => i = j
      /\ \A x \in rows : \E i \in 1..n : a[i] = x
  BY <1>2, AscendingProperties
<1>4. s = [k \in 1..n |-> cs[a[k]]]
  BY DEF Select
<1>. HIDE DEF n, a, s
<1>5. \A k \in 1..n : cs[a[k]] \in T
  <2>1. ASSUME NEW k \in 1..n PROVE cs[a[k]] \in T
    <3>1. a[k] \in 1..Len(cs)
      BY <1>1, <1>3
    <3>. QED
      BY <3>1, ElementOfSeq
  <2>. QED
    BY <2>1
<1>6. s \in [1..n -> T]
  BY <1>4, <1>5
<1>7. s \in Seq(T) /\ Len(s) = n /\ DOMAIN s = 1..n
  BY <1>3, <1>6, SeqDef
<1>. QED
  BY <1>2, <1>3, <1>4, <1>7 DEF n, a, s

LEMMA RemoveAtProperties ==
  ASSUME NEW T, NEW cs \in Seq(T), NEW i \in 1..Len(cs)
  PROVE  /\ RemoveAt(cs, i) \in Seq(T)
         /\ Len(RemoveAt(cs, i)) = Len(cs) - 1
         /\ \A k \in 1..Len(cs) - 1 :
              RemoveAt(cs, i)[k] = IF k < i THEN cs[k] ELSE cs[k + 1]
<1>. DEFINE n == Len(cs)
            x == SubSeq(cs, 1, i - 1)
            y == SubSeq(cs, i + 1, n)
<1>1. n \in Nat /\ i \in Nat /\ i >= 1 /\ i <= n
  BY LenProperties
<1>2. \A k \in 1..n : cs[k] \in T
  BY ElementOfSeq
<1>3. /\ x \in Seq(T) /\ Len(x) = i - 1
      /\ \A k \in 1..(i - 1) : x[k] = cs[k]
  <2>1. \A k \in 1..(i - 1) : cs[k] \in T
    BY <1>1, <1>2
  <2>2. /\ x \in Seq(T) /\ Len(x) = IF 1 <= i - 1 THEN i - 1 - 1 + 1 ELSE 0
        /\ \A k \in 1..(i - 1 - 1 + 1) : x[k] = cs[1 + k - 1]
    BY <1>1, <2>1, SubSeqProperties
  <2>. HIDE DEF x
  <2>. QED
    BY <1>1, <2>2
<1>4. /\ y \in Seq(T) /\ Len(y) = n - i
      /\ \A k \in 1..(n - i) : y[k] = cs[i + k]
  <2>1. \A k \in (i + 1)..n : cs[k] \in T
    BY <1>1, <1>2
  <2>2. /\ y \in Seq(T) /\ Len(y) = IF i + 1 <= n THEN n - (i + 1) + 1 ELSE 0
        /\ \A k \in 1..(n - (i + 1) + 1) : y[k] = cs[i + 1 + k - 1]
    BY <1>1, <2>1, SubSeqProperties
  <2>. HIDE DEF y
  <2>. QED
    BY <1>1, <2>2
<1>5. RemoveAt(cs, i) = x \o y
  BY DEF RemoveAt
<1>. HIDE DEF x, y
<1>6. /\ x \o y \in Seq(T) /\ Len(x \o y) = n - 1
      /\ \A k \in 1..(n - 1) : (x \o y)[k] = IF k <= i - 1 THEN x[k] ELSE y[k - (i - 1)]
  <2>1. /\ x \o y \in Seq(T) /\ Len(x \o y) = Len(x) + Len(y)
        /\ \A k \in 1..(Len(x) + Len(y)) :
             (x \o y)[k] = IF k <= Len(x) THEN x[k] ELSE y[k - Len(x)]
    BY <1>3, <1>4, ConcatProperties
  <2>2. Len(x) = i - 1 /\ Len(x) + Len(y) = n - 1
    BY <1>1, <1>3, <1>4
  <2>. QED
    BY <2>1, <2>2
<1>7. ASSUME NEW k \in 1..(n - 1)
      PROVE  (x \o y)[k] = IF k < i THEN cs[k] ELSE cs[k + 1]
  <2>1. CASE k < i
    BY <1>1, <1>3, <1>6, <2>1
  <2>2. CASE ~(k < i)
    <3>1. k - (i - 1) \in 1..(n - i) /\ i + (k - (i - 1)) = k + 1 /\ ~(k <= i - 1)
      BY <1>1, <2>2
    <3>. QED
      BY <1>4, <1>6, <2>2, <3>1
  <2>. QED
    BY <2>1, <2>2
<1>. QED
  BY <1>5, <1>6, <1>7

LEMMA InsertAtProperties ==
  ASSUME NEW T, NEW cs \in Seq(T), NEW i \in 1..Len(cs) + 1, NEW e \in T
  PROVE  /\ InsertAt(cs, i, e) \in Seq(T)
         /\ Len(InsertAt(cs, i, e)) = Len(cs) + 1
         /\ InsertAt(cs, i, e)[i] = e
         /\ \A k \in 1..Len(cs) : k < i => InsertAt(cs, i, e)[k] = cs[k]
         /\ \A k \in 1..Len(cs) : k >= i => InsertAt(cs, i, e)[k + 1] = cs[k]
<1>. DEFINE n == Len(cs)
            x == SubSeq(cs, 1, i - 1)
            y == SubSeq(cs, i, n)
            z == x \o <<e>>
<1>1. n \in Nat /\ i \in Nat /\ i >= 1 /\ i <= n + 1
  BY LenProperties
<1>2. \A k \in 1..n : cs[k] \in T
  BY ElementOfSeq
<1>3. /\ x \in Seq(T) /\ Len(x) = i - 1
      /\ \A k \in 1..(i - 1) : x[k] = cs[k]
  <2>1. \A k \in 1..(i - 1) : cs[k] \in T
    BY <1>1, <1>2
  <2>2. /\ x \in Seq(T) /\ Len(x) = IF 1 <= i - 1 THEN i - 1 - 1 + 1 ELSE 0
        /\ \A k \in 1..(i - 1 - 1 + 1) : x[k] = cs[1 + k - 1]
    BY <1>1, <2>1, SubSeqProperties
  <2>. HIDE DEF x
  <2>. QED
    BY <1>1, <2>2
<1>4. /\ y \in Seq(T) /\ Len(y) = n - i + 1
      /\ \A k \in 1..(n - i + 1) : y[k] = cs[i + k - 1]
  <2>1. \A k \in i..n : cs[k] \in T
    BY <1>1, <1>2
  <2>2. /\ y \in Seq(T) /\ Len(y) = IF i <= n THEN n - i + 1 ELSE 0
        /\ \A k \in 1..(n - i + 1) : y[k] = cs[i + k - 1]
    BY <1>1, <2>1, SubSeqProperties
  <2>. HIDE DEF y
  <2>. QED
    BY <1>1, <2>2
<1>5. InsertAt(cs, i, e) = z \o y
  BY DEF InsertAt
<1>6. <<e>> \in Seq(T) /\ Len(<<e>>) = 1 /\ <<e>>[1] = e
  OBVIOUS
<1>. HIDE DEF x, y
<1>7. /\ z \in Seq(T) /\ Len(z) = i
      /\ z[i] = e /\ \A k \in 1..(i - 1) : z[k] = x[k]
  <2>1. /\ z \in Seq(T) /\ Len(z) = i - 1 + 1
        /\ \A k \in 1..(i - 1 + 1) : z[k] = IF k <= i - 1 THEN x[k] ELSE <<e>>[k - (i - 1)]
    BY <1>1, <1>3, <1>6, ConcatProperties
  <2>2. i \in 1..(i - 1 + 1) /\ ~(i <= i - 1) /\ i - (i - 1) = 1
    BY <1>1
  <2>3. z[i] = e
    BY <1>6, <2>1, <2>2
  <2>. HIDE DEF z
  <2>. QED
    BY <1>1, <2>1, <2>3
<1>. HIDE DEF z
<1>8. /\ z \o y \in Seq(T) /\ Len(z \o y) = n + 1
      /\ \A k \in 1..(n + 1) : (z \o y)[k] = IF k <= i THEN z[k] ELSE y[k - i]
  <2>1. /\ z \o y \in Seq(T) /\ Len(z \o y) = Len(z) + Len(y)
        /\ \A k \in 1..(Len(z) + Len(y)) :
             (z \o y)[k] = IF k <= Len(z) THEN z[k] ELSE y[k - Len(z)]
    BY <1>4, <1>7, ConcatProperties
  <2>2. Len(z) = i /\ Len(z) + Len(y) = n + 1
    BY <1>1, <1>4, <1>7
  <2>. QED
    BY <2>1, <2>2
<1>9. (z \o y)[i] = e
  BY <1>1, <1>7, <1>8
<1>10. ASSUME NEW k \in 1..n, k < i PROVE (z \o y)[k] = cs[k]
  <2>1. k \in 1..(n + 1) /\ k <= i /\ k \in 1..(i - 1)
    BY <1>1, <1>10
  <2>. QED
    BY <2>1, <1>3, <1>7, <1>8
<1>11. ASSUME NEW k \in 1..n, k >= i PROVE (z \o y)[k + 1] = cs[k]
  <2>1. /\ k + 1 \in 1..(n + 1) /\ ~(k + 1 <= i) /\ k + 1 - i \in 1..(n - i + 1)
        /\ i + (k + 1 - i) - 1 = k
    BY <1>1, <1>11
  <2>. QED
    BY <2>1, <1>4, <1>8
<1>. QED
  BY <1>5, <1>8, <1>9, <1>10, <1>11

--------------------------------------------------------------------------------
(***************************************************************************)
(* Components.                                                             *)
(***************************************************************************)
LEMMA VersionTypes ==
  /\ NoVersion \in AnyVersion /\ NoMeta \notin AnyVersion
  /\ AnyVersion \subseteq Nat /\ Versions \subseteq AnyVersion
  /\ NoRequires \in Requires
  /\ \A v \in AnyVersion : EmptyFile(v) \in VersionFile
  /\ NoFile \notin VersionFile
<1>1. NoVersion \in AnyVersion /\ NoMeta \notin AnyVersion
      /\ AnyVersion \subseteq Nat /\ Versions \subseteq AnyVersion
  BY ComponentsAssumption DEF AnyVersion, NoVersion, NoMeta
<1>2. NoRequires \in Requires
  <2>1. NoRequires \in [{} -> Require] /\ {} \in SUBSET Uids
    BY DEF NoRequires
  <2>. QED
    BY <2>1 DEF Requires
<1>3. \A v \in AnyVersion : EmptyFile(v) \in VersionFile
  BY <1>2 DEF EmptyFile, VersionFile
<1>. QED
  BY <1>1, <1>2, <1>3, ComponentsAssumption

LEMMA MetadataType ==
  ASSUME NEW e \in Published
  PROVE  /\ e \in Uids \X Versions /\ Metadata[e] \in VersionFile
         /\ Metadata[e].version = e[2]
BY ComponentsAssumption

LEMMA NewComponentType ==
  ASSUME NEW u \in Uids, NEW v \in AnyVersion, NEW dep \in BOOLEAN, NEW imp \in BOOLEAN
  PROVE  /\ NewComponent(u, v, dep, imp) \in Component
         /\ NewComponent(u, v, dep, imp).uid = u
         /\ NewComponent(u, v, dep, imp).version = v
         /\ NewComponent(u, v, dep, imp).dependencyOnly = dep
         /\ NewComponent(u, v, dep, imp).file = NoFile
         /\ NewComponent(u, v, dep, imp).metaVersion = NoMeta
         /\ NewComponent(u, v, dep, imp).loaded = FALSE
         /\ NewComponent(u, v, dep, imp).requires = NoRequires
BY VersionTypes DEF NewComponent, Component

LEMMA FileComponentType ==
  ASSUME NEW u \in Uids, NEW f \in VersionFile
  PROVE  /\ FileComponent(u, f) \in Component
         /\ FileComponent(u, f).uid = u /\ FileComponent(u, f).file = f
         /\ FileComponent(u, f).metaVersion = NoMeta
<1>1. NewComponent(u, NoVersion, FALSE, FALSE) \in Component
  BY VersionTypes, NewComponentType
<1>2. f.version \in AnyVersion
  BY DEF VersionFile
<1>. QED
  BY <1>1, <1>2 DEF FileComponent, Component, NewComponent

LEMMA SetEnabledType ==
  ASSUME NEW c \in Component, NEW state \in BOOLEAN
  PROVE  /\ SetEnabled(c, state) \in Component
         /\ SetEnabled(c, state) = [c EXCEPT !.disabled = SetEnabled(c, state).disabled]
         /\ SetEnabled(c, state).uid = c.uid /\ SetEnabled(c, state).file = c.file
BY DEF SetEnabled, Component, CanBeDisabled, IsRemovable

\* Meta data of a version is only there if the version is published.
OnlyPublished(es) == es \cap (Uids \X AnyVersion) \subseteq Published

LEMMA FileOfType ==
  ASSUME NEW c \in Component, NEW avail, OnlyPublished(avail)
  PROVE  FileOf(c, avail) \in VersionFile \cup {NoFile}
<1>1. CASE c.metaVersion = NoMeta \/ Entity(c) \notin avail
  BY <1>1 DEF FileOf, Component
<1>2. CASE c.metaVersion # NoMeta /\ Entity(c) \in avail
  <2>1. Entity(c) \in Uids \X AnyVersion
    BY <1>2 DEF Entity, Component
  <2>2. Entity(c) \in Published
    BY <1>2, <2>1 DEF OnlyPublished
  <2>. QED
    BY <1>2, <2>2, MetadataType DEF FileOf
<1>. QED
  BY <1>1, <1>2

\* What the handlers leave alone: who a component is and what the user chose.
SameRow(c, d) == /\ d.uid = c.uid /\ d.version = c.version
                 /\ d.dependencyOnly = c.dependencyOnly
                 /\ d.important = c.important

LEMMA UpdateCachedDataType ==
  ASSUME NEW c \in Component, NEW avail, OnlyPublished(avail)
  PROVE  /\ UpdateCachedData(c, avail) \in Component
         /\ SameRow(c, UpdateCachedData(c, avail))
         /\ UpdateCachedData(c, avail).file = c.file
         /\ UpdateCachedData(c, avail).metaVersion = c.metaVersion
         /\ UpdateCachedData(c, avail).loaded = c.loaded
         /\ UpdateCachedData(c, avail).requires =
              IF FileOf(c, avail) = NoFile THEN NoRequires ELSE FileOf(c, avail).requires
<1>. DEFINE f == FileOf(c, avail)
<1>1. f \in VersionFile \cup {NoFile}
  BY FileOfType
<1>2. UpdateCachedData(c, avail) =
        IF f = NoFile THEN [c EXCEPT !.requires = NoRequires]
        ELSE [c EXCEPT !.cachedVersion = f.version, !.requires = f.requires,
                       !.volatile = f.volatile]
  BY DEF UpdateCachedData
<1>. HIDE DEF f
<1>3. CASE f = NoFile
  BY <1>2, <1>3, VersionTypes DEF Component, SameRow, f
<1>4. CASE f # NoFile
  <2>1. f.version \in AnyVersion /\ f.requires \in Requires /\ f.volatile \in BOOLEAN
    BY <1>1, <1>4 DEF VersionFile
  <2>. QED
    BY <1>2, <1>4, <2>1 DEF Component, SameRow, f
<1>. QED
  BY <1>3, <1>4

LEMMA SetVersionType ==
  ASSUME NEW c \in Component, NEW v \in AnyVersion, NEW avail, OnlyPublished(avail)
  PROVE  /\ SetVersion(c, v, avail) \in Component
         /\ SetVersion(c, v, avail).uid = c.uid
         /\ SetVersion(c, v, avail).version = v
         /\ SetVersion(c, v, avail).dependencyOnly = c.dependencyOnly
         /\ SetVersion(c, v, avail).important = c.important
         /\ SetVersion(c, v, avail).file = c.file
<1>. DEFINE named == [c EXCEPT !.version = v]
            known == <<c.uid, v>> \in avail
            d == [named EXCEPT !.cachedVersion = v,
                               !.metaVersion = IF known THEN v ELSE NoMeta,
                               !.loaded = known]
<1>1. named \in Component /\ named.uid = c.uid /\ named.version = v
      /\ named.dependencyOnly = c.dependencyOnly /\ named.important = c.important
      /\ named.file = c.file
  BY DEF Component
<1>2. d \in Component /\ d.uid = c.uid /\ d.version = v
      /\ d.dependencyOnly = c.dependencyOnly /\ d.important = c.important
      /\ d.file = c.file
  <2>1. known \in BOOLEAN /\ (IF known THEN v ELSE NoMeta) \in AnyVersion \cup {NoMeta}
    OBVIOUS
  <2>. HIDE DEF known
  <2>. QED
    BY <2>1 DEF Component
<1>3. SetVersion(c, v, avail) =
        IF v = c.version \/ ~c.loaded \/ IsCustom(c) THEN named
        ELSE UpdateCachedData(d, avail)
  BY DEF SetVersion
<1>. HIDE DEF d, named
<1>4. /\ UpdateCachedData(d, avail) \in Component /\ SameRow(d, UpdateCachedData(d, avail))
      /\ UpdateCachedData(d, avail).file = d.file
  BY <1>2, UpdateCachedDataType
<1>. QED
  BY <1>1, <1>2, <1>3, <1>4 DEF SameRow

LEMMA RevertType ==
  ASSUME NEW c \in Component, NEW avail
  PROVE  /\ Revert(c, avail) \in Component
         /\ SameRow(c, Revert(c, avail))
         /\ Revert(c, avail).file = NoFile
<1>. DEFINE known == <<c.uid, c.version>> \in avail
<1>1. known \in BOOLEAN
  OBVIOUS
<1>2. Revert(c, avail) = IF ~IsCustom(c) THEN c
        ELSE [c EXCEPT !.file = NoFile, !.metaVersion = IF known THEN c.version ELSE NoMeta,
                       !.loaded = c.loaded /\ known]
  BY DEF Revert, Component
<1>. HIDE DEF known
<1>. QED
  BY <1>1, <1>2 DEF Component, SameRow, IsCustom

LEMMA CustomizeType ==
  ASSUME NEW c \in Component, NEW avail, OnlyPublished(avail)
  PROVE  /\ Customize(c, avail) \in Component
         /\ SameRow(c, Customize(c, avail))
         /\ Customize(c, avail).file = FileOf(c, avail)
<1>1. FileOf(c, avail) \in VersionFile \cup {NoFile}
  BY FileOfType
<1>. QED
  BY <1>1 DEF Customize, Component, SameRow

LEMMA ToJsonType ==
  ASSUME NEW c \in Component
  PROVE  ComponentToJson(c) \in PersistedComponent /\ ComponentToJson(c).uid = c.uid
BY DEF ComponentToJson, PersistedComponent, Component

LEMMA FromJsonType ==
  ASSUME NEW p \in PersistedComponent
  PROVE  /\ ComponentFromJson(p) \in Component
         /\ ComponentFromJson(p).uid = p.uid /\ ComponentFromJson(p).file = NoFile
         /\ ComponentFromJson(p).metaVersion = NoMeta
         /\ ComponentFromJson(p).loaded = FALSE
<1>. DEFINE c == [NewComponent(p.uid, p.version, p.dependencyOnly, p.important)
                    EXCEPT !.cachedVersion = p.cachedVersion,
                           !.requires = p.requires, !.volatile = FALSE]
<1>1. /\ p.uid \in Uids /\ p.version \in AnyVersion /\ p.dependencyOnly \in BOOLEAN
      /\ p.important \in BOOLEAN /\ p.cachedVersion \in AnyVersion
      /\ p.requires \in Requires /\ p.disabled \in BOOLEAN
  BY DEF PersistedComponent
<1>2. c \in Component /\ c.uid = p.uid /\ c.file = NoFile /\ c.metaVersion = NoMeta
      /\ c.loaded = FALSE
  BY <1>1 DEF Component, NewComponent
<1>3. ComponentFromJson(p) = SetEnabled(c, ~p.disabled)
  BY DEF ComponentFromJson
<1>. HIDE DEF c
<1>4. PICK b \in BOOLEAN : SetEnabled(c, ~p.disabled) = [c EXCEPT !.disabled = b]
  BY DEF SetEnabled, CanBeDisabled
<1>5. [c EXCEPT !.disabled = b] \in Component
  BY <1>2 DEF Component
<1>. QED
  BY <1>2, <1>3, <1>4, <1>5 DEF Component

--------------------------------------------------------------------------------
(***************************************************************************)
(* Component lists.                                                        *)
(***************************************************************************)
Distinct(cs) == \A i, j \in DOMAIN cs : cs[i].uid = cs[j].uid => i = j

\* IndexOf finds the row of a uid that is listed.
LEMMA IndexOfProperties ==
  ASSUME NEW cs, NEW u, u \in UidsOf(cs)
  PROVE  IndexOf(cs, u) \in DOMAIN cs /\ cs[IndexOf(cs, u)].uid = u
<1>1. \E i \in DOMAIN cs : cs[i].uid = u
  BY DEF UidsOf
<1>. QED
  BY <1>1 DEF IndexOf

LEMMA RowsOfList ==
  ASSUME NEW cs \in Seq(Component)
  PROVE  /\ Len(cs) \in Nat /\ DOMAIN cs = 1..Len(cs) /\ IsFiniteSet(DOMAIN cs)
         /\ \A i \in DOMAIN cs : cs[i] \in Component
         /\ UidsOf(cs) \subseteq Uids
<1>1. Len(cs) \in Nat /\ DOMAIN cs = 1..Len(cs)
  BY LenProperties
<1>2. \A i \in DOMAIN cs : cs[i] \in Component
  BY <1>1, ElementOfSeq
<1>3. IsFiniteSet(DOMAIN cs)
  BY <1>1, FS_Interval
<1>4. UidsOf(cs) \subseteq Uids
  BY <1>2 DEF UidsOf, Component
<1>. QED
  BY <1>1, <1>2, <1>3, <1>4

\* A list that is changed row by row.
LEMMA RowByRow ==
  ASSUME NEW cs \in Seq(Component), NEW ds, DOMAIN ds = DOMAIN cs,
         ds = [i \in DOMAIN cs |-> ds[i]],
         \A i \in DOMAIN cs : ds[i] \in Component /\ ds[i].uid = cs[i].uid
  PROVE  /\ ds \in Seq(Component) /\ Len(ds) = Len(cs)
         /\ UidsOf(ds) = UidsOf(cs)
         /\ Distinct(cs) => Distinct(ds)
<1>1. Len(cs) \in Nat /\ DOMAIN cs = 1..Len(cs)
  BY LenProperties
<1>2. ds \in [1..Len(cs) -> Component]
  BY <1>1
<1>3. ds \in Seq(Component) /\ Len(ds) = Len(cs)
  BY <1>1, <1>2, SeqDef
<1>. QED
  BY <1>3 DEF UidsOf, Distinct

\* The writer.
LEMMA SaveListType ==
  ASSUME NEW cs \in Seq(Component)
  PROVE  /\ SaveList(cs) \in Seq(PersistedComponent)
         /\ Len(SaveList(cs)) = Len(cs) /\ DOMAIN SaveList(cs) = DOMAIN cs
         /\ \A i \in DOMAIN cs : SaveList(cs)[i] = ComponentToJson(cs[i])
<1>1. Len(cs) \in Nat /\ DOMAIN cs = 1..Len(cs) /\ \A i \in DOMAIN cs : cs[i] \in Component
  BY RowsOfList
<1>2. SaveList(cs) \in [1..Len(cs) -> PersistedComponent]
  BY <1>1, ToJsonType DEF SaveList
<1>3. SaveList(cs) \in Seq(PersistedComponent) /\ Len(SaveList(cs)) = Len(cs)
  BY <1>1, <1>2, SeqDef
<1>. QED
  BY <1>1, <1>3 DEF SaveList

\* The reader: the first entry of every uid.
LEMMA LoadListProperties ==
  ASSUME NEW ps \in Seq(PersistedComponent)
  PROVE  /\ LoadList(ps) \in Seq(Component)
         /\ Distinct(LoadList(ps))
         /\ \A k \in DOMAIN LoadList(ps) :
              \E i \in Fresh(ps) : LoadList(ps)[k] = ComponentFromJson(ps[i])
<1>. DEFINE rows == Fresh(ps)
            n == Cardinality(rows)
            a == Ascending(rows)
            kept == Select(ps, rows)
            cs == LoadList(ps)
<1>1. Len(ps) \in Nat /\ DOMAIN ps = 1..Len(ps)
  BY LenProperties
<1>2. rows \subseteq DOMAIN ps
  BY DEF Fresh
<1>3. /\ n \in Nat /\ a \in [1..n -> rows]
      /\ \A i, j \in 1..n : a[i] = a[j] => i = j
      /\ kept \in Seq(PersistedComponent) /\ DOMAIN kept = 1..n
      /\ \A k \in 1..n : kept[k] = ps[a[k]]
  BY <1>2, SelectProperties
<1>4. cs = [k \in DOMAIN kept |-> ComponentFromJson(kept[k])]
  BY DEF LoadList
<1>. HIDE DEF rows, n, a, kept, cs
<1>5. \A k \in 1..n : a[k] \in rows /\ ps[a[k]] \in PersistedComponent
  <2>1. ASSUME NEW k \in 1..n PROVE a[k] \in rows /\ ps[a[k]] \in PersistedComponent
    <3>1. a[k] \in rows /\ a[k] \in 1..Len(ps)
      BY <1>1, <1>2, <1>3
    <3>. QED
      BY <3>1, ElementOfSeq
  <2>. QED
    BY <2>1
<1>6. DOMAIN cs = 1..n /\ \A k \in 1..n : cs[k] = ComponentFromJson(ps[a[k]])
  BY <1>3, <1>4
<1>7. cs \in Seq(Component)
  <2>1. cs \in [1..n -> Component]
    BY <1>3, <1>4, <1>5, FromJsonType
  <2>. QED
    BY <1>3, <2>1, SeqDef
<1>8. Distinct(cs)
  <2>1. ASSUME NEW i \in 1..n, NEW j \in 1..n, cs[i].uid = cs[j].uid PROVE i = j
    <3>1. ps[a[i]].uid = ps[a[j]].uid
      BY <1>5, <1>6, <2>1, FromJsonType
    <3>2. a[i] \in 1..Len(ps) /\ a[j] \in 1..Len(ps)
      BY <1>1, <1>2, <1>5
    <3>3. ~(a[i] < a[j]) /\ ~(a[j] < a[i])
      <4>1. a[i] \in rows /\ a[j] \in rows
        BY <1>5
      <4>2. a[i] < a[j] => a[i] \in 1..(a[j] - 1)
        BY <3>2
      <4>3. a[j] < a[i] => a[j] \in 1..(a[i] - 1)
        BY <3>2
      <4>. QED
        BY <3>1, <4>1, <4>2, <4>3 DEF rows, Fresh
    <3>4. a[i] = a[j]
      BY <3>2, <3>3
    <3>. QED
      BY <1>3, <3>4
  <2>. QED
    BY <2>1, <1>6 DEF Distinct
<1>. QED
  BY <1>5, <1>6, <1>7, <1>8 DEF cs, rows

\* A set of numbers 1..n in ascending order is itself.
LEMMA AscendingInterval ==
  ASSUME NEW n \in Nat
  PROVE  Cardinality(1..n) = n /\ Ascending(1..n) = [k \in 1..n |-> k]
<1>. DEFINE s == [k \in 1..n |-> k]
<1>1. IsFiniteSet(1..n) /\ 1..n \subseteq Nat
  BY FS_Interval
<1>2. /\ s \in [1..n -> 1..n]
      /\ \A i, j \in 1..n : i < j => s[i] < s[j]
      /\ \A x \in 1..n : \E i \in 1..n : s[i] = x
  OBVIOUS
<1>. HIDE DEF s
<1>. QED
  BY <1>1, <1>2, AscendingUnique DEF s

LEMMA SelectAll ==
  ASSUME NEW T, NEW cs \in Seq(T)
  PROVE  Select(cs, DOMAIN cs) = cs
<1>1. Len(cs) \in Nat /\ DOMAIN cs = 1..Len(cs) /\ cs = [k \in 1..Len(cs) |-> cs[k]]
  BY LenProperties
<1>2. Cardinality(1..Len(cs)) = Len(cs) /\ Ascending(1..Len(cs)) = [k \in 1..Len(cs) |-> k]
  BY <1>1, AscendingInterval
<1>. QED
  BY <1>1, <1>2 DEF Select

\* Entries with different uids are all read.
LEMMA LoadDistinct ==
  ASSUME NEW ps \in Seq(PersistedComponent), \A i, j \in DOMAIN ps : ps[i].uid = ps[j].uid => i = j
  PROVE  LoadList(ps) = [k \in DOMAIN ps |-> ComponentFromJson(ps[k])]
<1>1. Len(ps) \in Nat /\ DOMAIN ps = 1..Len(ps)
  BY LenProperties
<1>2. Fresh(ps) = DOMAIN ps
  <2>1. ASSUME NEW i \in DOMAIN ps, NEW j \in 1..(i-1) PROVE ps[j].uid # ps[i].uid
    <3>1. j \in DOMAIN ps /\ j # i
      BY <1>1
    <3>. QED
      BY <3>1
  <2>. QED
    BY <2>1 DEF Fresh
<1>3. Select(ps, Fresh(ps)) = ps
  BY <1>2, SelectAll
<1>. QED
  BY <1>3 DEF LoadList

\* What the reader made of an entry is what it makes of it again.
LEMMA ReadAgain ==
  ASSUME NEW p \in PersistedComponent
  PROVE  ComponentFromJson(ComponentToJson(ComponentFromJson(p))) = ComponentFromJson(p)
<1>. DEFINE base == [NewComponent(p.uid, p.version, p.dependencyOnly, p.important)
                       EXCEPT !.cachedVersion = p.cachedVersion,
                              !.requires = p.requires, !.volatile = FALSE]
            c == ComponentFromJson(p)
            q == ComponentToJson(c)
<1>1. c = SetEnabled(base, ~p.disabled)
  BY DEF ComponentFromJson
<1>2. base.important \in BOOLEAN /\ base.dependencyOnly \in BOOLEAN /\ p.disabled \in BOOLEAN
      /\ base.important = p.important /\ base.dependencyOnly = p.dependencyOnly
  BY DEF NewComponent, PersistedComponent
<1>3. /\ c = [base EXCEPT !.disabled = CanBeDisabled(base) /\ p.disabled]
      /\ (CanBeDisabled(base) /\ p.disabled) \in BOOLEAN
  BY <1>1, <1>2 DEF SetEnabled, CanBeDisabled
<1>4. PICK b \in BOOLEAN : b = (CanBeDisabled(base) /\ p.disabled)
  BY <1>3
<1>5. b = (~p.important /\ ~p.dependencyOnly /\ p.disabled)
  BY <1>2, <1>4 DEF CanBeDisabled, IsRemovable
<1>6. c = [base EXCEPT !.disabled = b]
  BY <1>3, <1>4
<1>. HIDE DEF c
<1>7. /\ q.uid = p.uid /\ q.version = p.version /\ q.dependencyOnly = p.dependencyOnly
      /\ q.important = p.important /\ q.disabled = b /\ q.cachedVersion = p.cachedVersion
      /\ q.requires = p.requires
  BY <1>6 DEF ComponentToJson, NewComponent
<1>8. ComponentFromJson(q) = SetEnabled(base, ~q.disabled)
  BY <1>7 DEF ComponentFromJson
<1>9. SetEnabled(base, ~q.disabled) = [base EXCEPT !.disabled = CanBeDisabled(base) /\ ~(~b)]
  BY <1>7 DEF SetEnabled
<1>10. (CanBeDisabled(base) /\ ~(~b)) = b
  BY <1>2, <1>5 DEF CanBeDisabled, IsRemovable
<1>. QED
  BY <1>6, <1>8, <1>9, <1>10 DEF c

\* Saving a list that was just loaded and loading it again changes nothing.
LEMMA LoadAgain ==
  ASSUME NEW ps \in Seq(PersistedComponent)
  PROVE  LoadList(SaveList(LoadList(ps))) = LoadList(ps)
<1>. DEFINE cs == LoadList(ps)
            qs == SaveList(cs)
<1>1. /\ cs \in Seq(Component) /\ Distinct(cs)
      /\ \A k \in DOMAIN cs : \E i \in Fresh(ps) : cs[k] = ComponentFromJson(ps[i])
  BY LoadListProperties
<1>. HIDE DEF cs
<1>2. /\ qs \in Seq(PersistedComponent) /\ DOMAIN qs = DOMAIN cs
      /\ \A i \in DOMAIN cs : qs[i] = ComponentToJson(cs[i])
  BY <1>1, SaveListType
<1>. HIDE DEF qs
<1>3. \A i \in DOMAIN cs : cs[i] \in Component /\ qs[i].uid = cs[i].uid
  BY <1>1, <1>2, RowsOfList, ToJsonType
<1>4. LoadList(qs) = [k \in DOMAIN qs |-> ComponentFromJson(qs[k])]
  <2>1. \A i, j \in DOMAIN qs : qs[i].uid = qs[j].uid => i = j
    BY <1>1, <1>2, <1>3 DEF Distinct
  <2>. QED
    BY <1>2, <2>1, LoadDistinct
<1>5. ASSUME NEW k \in DOMAIN cs PROVE ComponentFromJson(qs[k]) = cs[k]
  <2>1. PICK i \in Fresh(ps) : cs[k] = ComponentFromJson(ps[i])
    BY <1>1
  <2>2. ps[i] \in PersistedComponent
    <3>1. i \in 1..Len(ps)
      BY LenProperties DEF Fresh
    <3>. QED
      BY <3>1, ElementOfSeq
  <2>. QED
    BY <1>2, <2>1, <2>2, ReadAgain
<1>6. cs = [k \in DOMAIN cs |-> cs[k]]
  BY <1>1, LenProperties
<1>. QED
  BY <1>2, <1>4, <1>5, <1>6 DEF cs, qs

--------------------------------------------------------------------------------
(***************************************************************************)
(* The resolver's changes of the list.                                     *)
(***************************************************************************)
Gathered == [equals : AnyVersion, suggests : AnyVersion, first : Nat]

LEMMA RequiresType ==
  ASSUME NEW r \in Requires
  PROVE  DOMAIN r \subseteq Uids /\ \A u \in DOMAIN r : r[u] \in Require
BY DEF Requires

LEMMA DependeesProperties ==
  ASSUME NEW cs \in Seq(Component), NEW u \in RequiredUids(cs)
  PROVE  /\ u \in Uids
         /\ Dependees(cs, u) \subseteq DOMAIN cs /\ Dependees(cs, u) # {}
         /\ Dependees(cs, u) \subseteq Nat /\ IsFiniteSet(Dependees(cs, u))
         /\ \A i \in Dependees(cs, u) : cs[i].requires[u] \in Require
<1>1. DOMAIN cs = 1..Len(cs) /\ IsFiniteSet(DOMAIN cs) /\ \A i \in DOMAIN cs : cs[i] \in Component
  BY RowsOfList
<1>2. PICK i \in DOMAIN cs : u \in DOMAIN cs[i].requires
  BY DEF RequiredUids
<1>3. \A j \in DOMAIN cs : cs[j].requires \in Requires
  BY <1>1 DEF Component
<1>4. u \in Uids
  BY <1>2, <1>3, RequiresType
<1>5. Dependees(cs, u) \subseteq DOMAIN cs /\ Dependees(cs, u) # {}
  BY <1>2 DEF Dependees
<1>6. IsFiniteSet(Dependees(cs, u))
  BY <1>1, <1>5, FS_Subset
<1>7. \A j \in Dependees(cs, u) : cs[j].requires[u] \in Require
  BY <1>3, RequiresType DEF Dependees
<1>. QED
  BY <1>1, <1>4, <1>5, <1>6, <1>7

\* What is gathered for a uid: versions of its requirements, and the place of the first.
LEMMA GatherType ==
  ASSUME NEW cs \in Seq(Component), NEW u \in RequiredUids(cs)
  PROVE  /\ DOMAIN GatherRequirements(cs) = RequiredUids(cs)
         /\ GatherRequirements(cs)[u] \in Gathered
         /\ GatherRequirements(cs)[u].first \in Dependees(cs, u)
         /\ \A d \in Dependees(cs, u) : GatherRequirements(cs)[u].first <= d
<1>. DEFINE D == Dependees(cs, u)
            S == {cs[i].requires[u].suggests : i \in D}
<1>1. /\ D \subseteq DOMAIN cs /\ D # {} /\ D \subseteq Nat /\ IsFiniteSet(D)
      /\ \A i \in D : cs[i].requires[u] \in Require
  BY DependeesProperties
<1>2. ExactVersions(cs, u) \subseteq AnyVersion
  BY <1>1 DEF ExactVersions, Require
<1>. HIDE DEF D
<1>3. S \subseteq AnyVersion /\ S # {}
  BY <1>1 DEF Require
<1>4. IsFiniteSet(S)
  <2>. DEFINE f == [i \in D |-> cs[i].requires[u].suggests]
  <2>1. f \in Surjection(D, S)
    BY DEF Surjection
  <2>. HIDE DEF f, S
  <2>. QED
    BY <1>1, <2>1, FS_Surjection
<1>. HIDE DEF S
<1>5. Max(S) \in AnyVersion
  BY <1>3, <1>4, VersionTypes, Extremes
<1>6. Min(D) \in D /\ \A d \in D : Min(D) <= d
  BY <1>1, Extremes
<1>7. (IF ExactVersions(cs, u) = {} THEN NoVersion
       ELSE CHOOSE v \in ExactVersions(cs, u) : TRUE) \in AnyVersion
  BY <1>2, VersionTypes
<1>8. GatherRequirements(cs)[u] =
        [equals |-> IF ExactVersions(cs, u) = {} THEN NoVersion
                    ELSE CHOOSE v \in ExactVersions(cs, u) : TRUE,
         suggests |-> Max(S), first |-> Min(D)]
  BY DEF GatherRequirements, S, D
<1>9. DOMAIN GatherRequirements(cs) = RequiredUids(cs)
  BY DEF GatherRequirements
<1>. QED
  BY <1>1, <1>5, <1>6, <1>7, <1>8, <1>9 DEF Gathered, D

LEMMA VersionToAddType ==
  ASSUME NEW cs \in Seq(Component), NEW u \in Uids, NEW req \in Gathered
  PROVE  VersionToAdd(cs, u, req) \in AnyVersion
<1>1. Minecraft \in UidsOf(cs) => cs[IndexOf(cs, Minecraft)] \in Component
  BY IndexOfProperties, RowsOfList
<1>. QED
  BY <1>1, ComponentsAssumption DEF VersionToAdd, Gathered, Component

\* The list l is cs with new components for the uids of `added`: what was there stands
\* in its old order, and each new component before everything that requires it.
\* A row that AddDependencies has made.
IsNew(c) == c.dependencyOnly /\ c.file = NoFile /\ c.metaVersion = NoMeta /\ c.loaded = FALSE

Embeds(cs, l, added, e) ==
  /\ e \in [DOMAIN cs -> DOMAIN l]
  /\ \A i, j \in DOMAIN cs : i < j => e[i] < e[j]
  /\ \A i \in DOMAIN cs : e[i] >= i /\ l[e[i]] = cs[i]
  /\ \A i \in DOMAIN l :
       \/ \E j \in DOMAIN cs : e[j] = i
       \/ /\ l[i].uid \in added /\ IsNew(l[i])
          /\ \A d \in Dependees(cs, l[i].uid) : i < e[d]

Enlarged(cs, l, added) ==
  /\ l \in Seq(Component) /\ Len(l) >= Len(cs) /\ Distinct(l)
  /\ UidsOf(l) = UidsOf(cs) \cup added
  /\ \E e : Embeds(cs, l, added, e)

LEMMA InsertType ==
  ASSUME NEW l \in Seq(Component), NEW reqs, NEW u \in Uids, reqs[u] \in Gathered,
         NEW p \in 1..Len(l) + 1
  PROVE  /\ Insert(l, reqs, u, p) \in Seq(Component)
         /\ Len(Insert(l, reqs, u, p)) = Len(l) + 1
         /\ \E c \in Component :
              /\ c.uid = u /\ IsNew(c)
              /\ Insert(l, reqs, u, p)[p] = c
         /\ \A k \in 1..Len(l) : k < p => Insert(l, reqs, u, p)[k] = l[k]
         /\ \A k \in 1..Len(l) : k >= p => Insert(l, reqs, u, p)[k + 1] = l[k]
<1>. DEFINE c == NewComponent(u, VersionToAdd(l, u, reqs[u]), TRUE, FALSE)
<1>1. VersionToAdd(l, u, reqs[u]) \in AnyVersion
  BY VersionToAddType
<1>2. c \in Component /\ c.uid = u /\ IsNew(c)
  BY <1>1, NewComponentType DEF IsNew
<1>3. Insert(l, reqs, u, p) = InsertAt(l, p, c)
  BY DEF Insert
<1>. HIDE DEF c
<1>. QED
  BY <1>2, <1>3, InsertAtProperties

LEMMA InsertEnlarges ==
  ASSUME NEW cs \in Seq(Component), NEW l, NEW added, Enlarged(cs, l, added),
         NEW u \in RequiredUids(cs), u \notin UidsOf(cs), u \notin added
  PROVE  LET reqs == GatherRequirements(cs) IN
         Enlarged(cs, Insert(l, reqs, u, reqs[u].first), added \cup {u})
<1>. DEFINE reqs == GatherRequirements(cs)
            p == reqs[u].first
            m == Insert(l, reqs, u, p)
<1>1. /\ u \in Uids /\ Dependees(cs, u) \subseteq DOMAIN cs /\ reqs[u] \in Gathered
      /\ p \in Dependees(cs, u) /\ \A d \in Dependees(cs, u) : p <= d
  BY DependeesProperties, GatherType
<1>2. /\ l \in Seq(Component) /\ Len(l) >= Len(cs) /\ Distinct(l)
      /\ UidsOf(l) = UidsOf(cs) \cup added
  BY DEF Enlarged
<1>3. PICK e : Embeds(cs, l, added, e)
  BY DEF Enlarged
<1>4. /\ Len(cs) \in Nat /\ DOMAIN cs = 1..Len(cs)
      /\ Len(l) \in Nat /\ DOMAIN l = 1..Len(l)
  BY <1>2, LenProperties
<1>5. p \in 1..Len(cs) /\ p \in 1..Len(l) + 1 /\ p \in Nat
  BY <1>1, <1>2, <1>4
<1>. HIDE DEF p, reqs
<1>6. /\ m \in Seq(Component) /\ Len(m) = Len(l) + 1
      /\ \A k \in 1..Len(l) : k < p => m[k] = l[k]
      /\ \A k \in 1..Len(l) : k >= p => m[k + 1] = l[k]
      /\ m[p].uid = u /\ IsNew(m[p])
  BY <1>1, <1>2, <1>5, InsertType
<1>. HIDE DEF m
<1>7. DOMAIN m = 1..Len(l) + 1
  BY <1>6, LenProperties
\* Where a row of l stands in m.
<1>. DEFINE at(k) == IF k < p THEN k ELSE k + 1
<1>8. ASSUME NEW k \in 1..Len(l)
      PROVE  at(k) \in DOMAIN m /\ m[at(k)] = l[k] /\ at(k) # p /\ at(k) >= k
  BY <1>4, <1>5, <1>6, <1>7
<1>9. ASSUME NEW k \in DOMAIN m, k # p
      PROVE  \E h \in 1..Len(l) : k = at(h) /\ m[k] = l[h]
  <2>1. CASE k < p
    <3>1. k \in 1..Len(l) /\ k = at(k)
      BY <1>4, <1>5, <1>7, <2>1
    <3>. QED
      BY <3>1, <1>8
  <2>2. CASE ~(k < p)
    <3>1. k - 1 \in 1..Len(l) /\ k = at(k - 1)
      BY <1>4, <1>5, <1>7, <1>9, <2>2
    <3>2. m[at(k - 1)] = l[k - 1]
      BY <3>1, <1>8
    <3>. QED
      BY <3>1, <3>2
  <2>. QED
    BY <2>1, <2>2
<1>10. \A k, h \in 1..Len(l) : k < h => at(k) < at(h)
  BY <1>4, <1>5
<1>. HIDE DEF at
<1>11. UidsOf(m) = UidsOf(cs) \cup (added \cup {u})
  <2>1. UidsOf(m) = UidsOf(l) \cup {u}
    <3>1. ASSUME NEW k \in DOMAIN m PROVE m[k].uid \in UidsOf(l) \cup {u}
      <4>1. CASE k = p
        BY <1>6, <4>1
      <4>2. CASE k # p
        BY <1>4, <1>9, <4>2 DEF UidsOf
      <4>. QED
        BY <4>1, <4>2
    <3>2. ASSUME NEW k \in DOMAIN l PROVE l[k].uid \in UidsOf(m)
      BY <1>4, <1>8 DEF UidsOf
    <3>3. p \in DOMAIN m /\ u \in UidsOf(m)
      BY <1>5, <1>6, <1>7 DEF UidsOf
    <3>. QED
      BY <3>1, <3>2, <3>3 DEF UidsOf
  <2>. QED
    BY <1>2, <2>1
<1>12. Distinct(m)
  <2>1. u \notin UidsOf(l)
    BY <1>2
  <2>2. \A k \in 1..Len(l) : l[k].uid # u
    BY <1>4, <2>1 DEF UidsOf
  <2>3. ASSUME NEW i \in DOMAIN m, NEW j \in DOMAIN m, m[i].uid = m[j].uid, i # j PROVE FALSE
    <3>1. i # p /\ j # p
      BY <1>6, <1>9, <2>2, <2>3
    <3>2. PICK h \in 1..Len(l) : i = at(h) /\ m[i] = l[h]
      BY <1>9, <3>1
    <3>3. PICK k \in 1..Len(l) : j = at(k) /\ m[j] = l[k]
      BY <1>9, <3>1
    <3>. QED
      BY <1>2, <1>4, <2>3, <3>2, <3>3 DEF Distinct
  <2>. QED
    BY <2>3 DEF Distinct
<1>. DEFINE f == [i \in DOMAIN cs |-> at(e[i])]
<1>13. \A i \in DOMAIN cs : /\ e[i] \in 1..Len(l) /\ e[i] >= i /\ l[e[i]] = cs[i]
                            /\ f[i] = at(e[i])
  BY <1>3, <1>4 DEF Embeds
<1>14. f \in [DOMAIN cs -> DOMAIN m]
  BY <1>8, <1>13
<1>15. \A i, j \in DOMAIN cs : i < j => f[i] < f[j]
  BY <1>3, <1>10, <1>13 DEF Embeds
<1>16. ASSUME NEW i \in DOMAIN cs PROVE f[i] >= i /\ m[f[i]] = cs[i]
  <2>1. e[i] \in Nat /\ i \in Nat /\ at(e[i]) \in Nat
    BY <1>4, <1>7, <1>8, <1>13
  <2>2. at(e[i]) >= e[i] /\ e[i] >= i
    BY <1>8, <1>13
  <2>3. m[f[i]] = cs[i]
    BY <1>8, <1>13
  <2>4. f[i] >= i
    BY <1>13, <2>1, <2>2
  <2>. QED
    BY <2>3, <2>4
<1>17. ASSUME NEW i \in DOMAIN m
       PROVE  \/ \E j \in DOMAIN cs : f[j] = i
              \/ /\ m[i].uid \in added \cup {u} /\ IsNew(m[i])
                 /\ \A d \in Dependees(cs, m[i].uid) : i < f[d]
  <2>1. CASE i = p
    <3>1. ASSUME NEW d \in Dependees(cs, u) PROVE p < f[d]
      <4>1. d \in DOMAIN cs /\ p <= d /\ f[d] >= d
        BY <1>1, <1>16
      <4>2. f[d] # p /\ f[d] \in Nat /\ d \in Nat
        BY <1>4, <1>7, <1>8, <1>13, <4>1
      <4>. QED
        BY <1>5, <4>1, <4>2
    <3>. QED
      BY <2>1, <3>1, <1>6
  <2>2. CASE i # p
    <3>1. PICK h \in 1..Len(l) : i = at(h) /\ m[i] = l[h]
      BY <1>9, <2>2
    <3>2. CASE \E j \in DOMAIN cs : e[j] = h
      BY <1>13, <3>1, <3>2
    <3>3. CASE ~\E j \in DOMAIN cs : e[j] = h
      <4>1. /\ l[h].uid \in added /\ IsNew(l[h])
            /\ \A d \in Dependees(cs, l[h].uid) : h < e[d]
        BY <1>3, <1>4, <3>3 DEF Embeds
      <4>2. ASSUME NEW d \in Dependees(cs, l[h].uid) PROVE i < f[d]
        <5>1. d \in DOMAIN cs
          BY DEF Dependees
        <5>. QED
          BY <1>10, <1>13, <3>1, <4>1, <5>1
      <4>. QED
        BY <3>1, <4>1, <4>2
    <3>. QED
      BY <3>2, <3>3
  <2>. QED
    BY <2>1, <2>2
<1>. HIDE DEF f
<1>18. Embeds(cs, m, added \cup {u}, f)
  BY <1>14, <1>15, <1>16, <1>17 DEF Embeds
<1>19. Len(m) >= Len(cs)
  BY <1>2, <1>4, <1>6
<1>20. Enlarged(cs, m, added \cup {u})
  BY <1>6, <1>11, <1>12, <1>18, <1>19 DEF Enlarged
<1>. QED
  BY <1>20 DEF m, p, reqs

LEMMA ToAddProperties ==
  ASSUME NEW cs \in Seq(Component)
  PROVE  LET reqs == GatherRequirements(cs) IN
         /\ ToAdd(cs, reqs) = RequiredUids(cs) \ UidsOf(cs)
         /\ ToAdd(cs, reqs) \subseteq Uids /\ IsFiniteSet(ToAdd(cs, reqs))
<1>1. ToAdd(cs, GatherRequirements(cs)) = RequiredUids(cs) \ UidsOf(cs)
  BY DEF ToAdd, GatherRequirements
<1>2. RequiredUids(cs) \subseteq Uids
  BY DependeesProperties
<1>3. ToAdd(cs, GatherRequirements(cs)) \in SUBSET Uids
  BY <1>1, <1>2
<1>. QED
  BY <1>1, <1>3, FS_Subset, ComponentsAssumption

\* All of the new components are inserted.
LEMMA AddDependenciesEnlarges ==
  ASSUME NEW cs \in Seq(Component), Distinct(cs)
  PROVE  LET reqs == GatherRequirements(cs) IN
         Enlarged(cs, AddDependencies(cs, reqs), ToAdd(cs, reqs))
<1>. DEFINE reqs == GatherRequirements(cs)
            A == ToAdd(cs, reqs)
            n == Cardinality(A)
            new == Ascending(A)
            Lists == {l \in Seq(Component) : Len(l) >= Len(cs)}
            Step(k, l) == Insert(l, reqs, new[k], reqs[new[k]].first)
            add == CHOOSE f : f = [k \in 0..Len(new) |-> IF k = 0 THEN cs ELSE Step(k, f[k - 1])]
<1>1. A = RequiredUids(cs) \ UidsOf(cs) /\ A \subseteq Uids /\ IsFiniteSet(A)
  BY ToAddProperties
<1>2. A \subseteq Nat
  BY <1>1, ComponentsAssumption
<1>3. /\ n \in Nat /\ new \in [1..n -> A] /\ Len(new) = n
      /\ \A i, j \in 1..n : new[i] = new[j] => i = j
      /\ \A x \in A : \E i \in 1..n : new[i] = x
  BY <1>1, <1>2, AscendingProperties
<1>4. AddDependencies(cs, reqs) = add[Len(new)]
  BY DEF AddDependencies
<1>. HIDE DEF reqs, A, n, new
<1>5. ASSUME NEW k \in 1..n, NEW l \in Lists PROVE Step(k, l) \in Lists
  <2>1. new[k] \in RequiredUids(cs) /\ new[k] \in Uids
    BY <1>1, <1>3
  <2>2. /\ reqs[new[k]] \in Gathered
        /\ reqs[new[k]].first \in Dependees(cs, new[k]) /\ Dependees(cs, new[k]) \subseteq DOMAIN cs
    BY <2>1, GatherType, DependeesProperties DEF reqs
  <2>3. Len(l) \in Nat /\ Len(cs) \in Nat /\ DOMAIN cs = 1..Len(cs)
    BY LenProperties
  <2>4. reqs[new[k]].first \in 1..Len(l) + 1
    BY <2>2, <2>3
  <2>5. Step(k, l) \in Seq(Component) /\ Len(Step(k, l)) = Len(l) + 1
    BY <2>1, <2>2, <2>4, InsertType
  <2>. HIDE DEF Step
  <2>. QED
    BY <2>3, <2>5
<1>6. cs \in Lists
  <2>1. Len(cs) \in Nat
    BY LenProperties
  <2>. QED
    BY <2>1
<1>. HIDE DEF Lists, Step
<1>7. \E f : f = [k \in 0..n |-> IF k = 0 THEN cs ELSE Step(k, f[k - 1])]
  <2>. DEFINE step == [k \in 1..n |-> [l \in Lists |-> Step(k, l)]]
  <2>1. step \in [1..n -> [Lists -> Lists]]
    BY <1>5
  <2>2. \A k \in 1..n, l \in Lists : step[k][l] = Step(k, l)
    OBVIOUS
  <2>. HIDE DEF step
  <2>3. PICK f : Iteration(f, n, Lists, cs, step)
    BY <1>3, <1>6, <2>1, Iterates
  <2>4. ASSUME NEW k \in 0..n PROVE f[k] = IF k = 0 THEN cs ELSE Step(k, f[k - 1])
    <3>1. CASE k = 0
      BY <2>3, <3>1 DEF Iteration
    <3>2. CASE k # 0
      <4>1. k \in 1..n /\ k - 1 \in 0..n
        BY <1>3, <3>2
      <4>2. f[k - 1] \in Lists /\ f[k] = step[k][f[k - 1]]
        BY <2>3, <4>1 DEF Iteration
      <4>. QED
        BY <2>2, <3>2, <4>1, <4>2
    <3>. QED
      BY <3>1, <3>2
  <2>5. f = [k \in 0..n |-> IF k = 0 THEN cs ELSE Step(k, f[k - 1])]
    BY <2>3, <2>4 DEF Iteration
  <2>. QED
    BY <2>5
<1>8. add = [k \in 0..n |-> IF k = 0 THEN cs ELSE Step(k, add[k - 1])]
  BY <1>3, <1>7
<1>. HIDE DEF add
<1>9. add[0] = cs /\ \A k \in 1..n : add[k] = Step(k, add[k - 1])
  BY <1>3, <1>8
<1>. DEFINE in(k) == {new[i] : i \in 1..k}
            G == {k \in 0..n : Enlarged(cs, add[k], in(k))}
<1>10. 0 \in G
  <2>. DEFINE e == [i \in DOMAIN cs |-> i]
  <2>1. Len(cs) \in Nat /\ DOMAIN cs = 1..Len(cs)
    BY LenProperties
  <2>2. Embeds(cs, cs, {}, e)
    BY <2>1 DEF Embeds
  <2>. HIDE DEF e
  <2>3. Enlarged(cs, cs, {})
    BY <2>1, <2>2 DEF Enlarged
  <2>4. in(0) = {} /\ 0 \in 0..n
    BY <1>3
  <2>. QED
    BY <1>9, <2>3, <2>4
<1>11. ASSUME NEW k \in 1..n, k - 1 \in G PROVE k \in G
  <2>1. Enlarged(cs, add[k - 1], in(k - 1))
    BY <1>11
  <2>2. new[k] \in RequiredUids(cs) /\ new[k] \notin UidsOf(cs)
    BY <1>1, <1>3
  <2>3. new[k] \notin in(k - 1)
    BY <1>3
  <2>4. in(k) = in(k - 1) \cup {new[k]}
    <3>1. \A i \in 1..k : i \in 1..(k - 1) \/ i = k
      OBVIOUS
    <3>2. 1..(k - 1) \subseteq 1..k /\ k \in 1..k
      OBVIOUS
    <3>. QED
      BY <3>1, <3>2
  <2>. HIDE DEF in
  <2>5. Enlarged(cs, Step(k, add[k - 1]), in(k - 1) \cup {new[k]})
    BY <2>1, <2>2, <2>3, InsertEnlarges DEF Step, reqs
  <2>6. k \in 0..n
    BY <1>3
  <2>. QED
    BY <1>9, <2>4, <2>5, <2>6
<1>12. n \in G
  <2>. HIDE DEF G
  <2>1. \A k \in 0..n : k \in G
    BY <1>3, <1>10, <1>11, Stepwise
  <2>. QED
    BY <1>3, <2>1
<1>13. in(n) = A
  BY <1>3
<1>14. Enlarged(cs, add[n], A)
  BY <1>12, <1>13
<1>. QED
  BY <1>3, <1>4, <1>14 DEF A, reqs

\* Changing versions touches nothing but the rows of the uids that are changed.
LEMMA ChangeVersionsType ==
  ASSUME NEW l \in Seq(Component), NEW reqs, NEW avail, OnlyPublished(avail),
         NEW change, \A u \in change : reqs[u].equals \in AnyVersion
  PROVE  LET m == ChangeVersions(l, reqs, avail, change) IN
         /\ m \in Seq(Component) /\ Len(m) = Len(l) /\ DOMAIN m = DOMAIN l
         /\ UidsOf(m) = UidsOf(l) /\ (Distinct(l) => Distinct(m))
         /\ \A i \in DOMAIN l :
              /\ m[i].uid = l[i].uid /\ m[i].dependencyOnly = l[i].dependencyOnly
              /\ m[i].file = l[i].file
              /\ l[i].uid \notin change => m[i] = l[i]
<1>. DEFINE m == ChangeVersions(l, reqs, avail, change)
<1>1. DOMAIN m = DOMAIN l /\ m = [i \in DOMAIN l |-> m[i]]
  BY DEF ChangeVersions
<1>2. ASSUME NEW i \in DOMAIN l
      PROVE  /\ m[i] \in Component /\ m[i].uid = l[i].uid
             /\ m[i].dependencyOnly = l[i].dependencyOnly
             /\ m[i].file = l[i].file
             /\ l[i].uid \notin change => m[i] = l[i]
  <2>1. l[i] \in Component
    BY RowsOfList
  <2>2. m[i] = IF l[i].uid \in change THEN SetVersion(l[i], reqs[l[i].uid].equals, avail)
               ELSE l[i]
    BY DEF ChangeVersions
  <2>. HIDE DEF m
  <2>. QED
    BY <2>1, <2>2, SetVersionType
<1>. HIDE DEF m
<1>3. m \in Seq(Component) /\ Len(m) = Len(l) /\ UidsOf(m) = UidsOf(l)
      /\ (Distinct(l) => Distinct(m))
  BY <1>1, <1>2, RowByRow
<1>. QED
  BY <1>1, <1>2, <1>3 DEF m

--------------------------------------------------------------------------------
(***************************************************************************)
(* The list, its index and the patches folder.                             *)
(***************************************************************************)
Patches == [Uids -> VersionFile \cup {NoFile}]

\* A patch file stands for the file of a component if it is the same, or was cut short.
Backs(patch, file) == patch = file \/ (PatchesMayFail /\ patch = Truncated)

CustomFits(cs, ps) ==
  \A i \in DOMAIN cs : cs[i].file # NoFile => Backs(ps[cs[i].uid], cs[i].file)

RowsFit(cs, index, ps) ==
  /\ cs \in Seq(Component) /\ UidsOf(cs) = index /\ Distinct(cs)
  /\ ps \in Patches /\ CustomFits(cs, ps)

\* Every row stays what it is, or takes the file that is in the patches folder.
LEMMA RowsKept ==
  ASSUME NEW cs, NEW index, NEW ps, RowsFit(cs, index, ps), NEW ds,
         DOMAIN ds = DOMAIN cs, ds = [i \in DOMAIN cs |-> ds[i]],
         \A i \in DOMAIN cs : /\ ds[i] \in Component /\ ds[i].uid = cs[i].uid
                              /\ ds[i].file = cs[i].file \/ ds[i].file = ps[cs[i].uid]
  PROVE  RowsFit(ds, index, ps)
<1>1. ds \in Seq(Component) /\ UidsOf(ds) = UidsOf(cs) /\ Distinct(ds)
  BY RowByRow DEF RowsFit
<1>2. CustomFits(ds, ps)
  BY DEF CustomFits, RowsFit, Backs
<1>. QED
  BY <1>1, <1>2 DEF RowsFit

\* One row changes, and with it the patch file of its uid.
LEMMA RowChanged ==
  ASSUME NEW cs, NEW index, NEW ps, RowsFit(cs, index, ps),
         NEW i \in DOMAIN cs, NEW d \in Component, d.uid = cs[i].uid, NEW qs \in Patches,
         \A u \in Uids : u # cs[i].uid => qs[u] = ps[u],
         d.file # NoFile => Backs(qs[d.uid], d.file)
  PROVE  RowsFit([cs EXCEPT ![i] = d], index, qs)
<1>. DEFINE ds == [cs EXCEPT ![i] = d]
<1>1. /\ cs \in Seq(Component) /\ UidsOf(cs) = index /\ Distinct(cs)
      /\ DOMAIN cs = 1..Len(cs) /\ \A j \in DOMAIN cs : cs[j] \in Component
  BY RowsOfList DEF RowsFit
<1>2. DOMAIN ds = DOMAIN cs /\ ds = [j \in DOMAIN cs |-> ds[j]]
      /\ \A j \in DOMAIN cs : ds[j] = IF j = i THEN d ELSE cs[j]
  OBVIOUS
<1>. HIDE DEF ds
<1>3. ds \in Seq(Component) /\ UidsOf(ds) = index /\ Distinct(ds)
  <2>1. \A j \in DOMAIN cs : ds[j] \in Component /\ ds[j].uid = cs[j].uid
    BY <1>1, <1>2
  <2>. QED
    BY <1>1, <1>2, <2>1, RowByRow
<1>4. CustomFits(ds, qs)
  <2>1. ASSUME NEW j \in DOMAIN cs, ds[j].file # NoFile PROVE Backs(qs[ds[j].uid], ds[j].file)
    <3>1. CASE j = i
      BY <1>2, <2>1, <3>1
    <3>2. CASE j # i
      <4>1. ds[j] = cs[j] /\ cs[j].uid \in Uids /\ cs[j].uid # cs[i].uid
        BY <1>1, <1>2, <3>2 DEF Distinct, Component
      <4>2. Backs(ps[cs[j].uid], cs[j].file)
        BY <2>1, <4>1 DEF RowsFit, CustomFits
      <4>. QED
        BY <4>1, <4>2
    <3>. QED
      BY <3>1, <3>2
  <2>. QED
    BY <1>2, <2>1 DEF CustomFits
<1>. QED
  BY <1>3, <1>4 DEF RowsFit, ds

\* A component is appended, with its patch file.
LEMMA RowAppended ==
  ASSUME NEW cs, NEW index, NEW ps, RowsFit(cs, index, ps),
         NEW d \in Component, d.uid \notin index, NEW qs \in Patches,
         \A u \in Uids : u # d.uid => qs[u] = ps[u],
         d.file # NoFile => Backs(qs[d.uid], d.file)
  PROVE  RowsFit(Append(cs, d), index \cup {d.uid}, qs)
<1>. DEFINE ds == Append(cs, d)
<1>1. /\ cs \in Seq(Component) /\ UidsOf(cs) = index /\ Distinct(cs)
      /\ Len(cs) \in Nat /\ DOMAIN cs = 1..Len(cs) /\ \A j \in DOMAIN cs : cs[j] \in Component
  BY RowsOfList DEF RowsFit
<1>2. /\ ds \in Seq(Component) /\ Len(ds) = Len(cs) + 1
      /\ \A j \in 1..Len(cs) : ds[j] = cs[j]
      /\ ds[Len(cs) + 1] = d
  BY <1>1, AppendProperties
<1>. HIDE DEF ds
<1>3. DOMAIN ds = 1..(Len(cs) + 1)
  BY <1>2, LenProperties
<1>4. \A j \in DOMAIN ds : (j \in DOMAIN cs /\ ds[j] = cs[j]) \/ (j = Len(cs) + 1 /\ ds[j] = d)
  BY <1>1, <1>2, <1>3
<1>5. \A j \in DOMAIN cs : j \in DOMAIN ds /\ ds[j] = cs[j] /\ cs[j].uid # d.uid
  BY <1>1, <1>2, <1>3 DEF UidsOf
<1>6. Len(cs) + 1 \in DOMAIN ds
  BY <1>1, <1>3
<1>7. UidsOf(ds) = index \cup {d.uid}
  BY <1>1, <1>2, <1>4, <1>5, <1>6 DEF UidsOf
<1>8. Distinct(ds)
  BY <1>1, <1>4, <1>5 DEF Distinct
<1>9. CustomFits(ds, qs)
  <2>1. ASSUME NEW j \in DOMAIN ds, ds[j].file # NoFile PROVE Backs(qs[ds[j].uid], ds[j].file)
    <3>1. CASE ds[j] = d
      BY <2>1, <3>1
    <3>2. CASE j \in DOMAIN cs /\ ds[j] = cs[j]
      <4>1. cs[j].uid \in Uids /\ cs[j].uid # d.uid
        BY <1>1, <1>5, <3>2 DEF Component
      <4>2. Backs(ps[cs[j].uid], cs[j].file)
        BY <2>1, <3>2 DEF RowsFit, CustomFits
      <4>. QED
        BY <3>2, <4>1, <4>2
    <3>. QED
      BY <1>4, <3>1, <3>2
  <2>. QED
    BY <2>1 DEF CustomFits
<1>. QED
  BY <1>2, <1>7, <1>8, <1>9 DEF RowsFit, ds

\* Row k of ds is row m[k] of cs, and the rows that are left out are those of `gone`.
Subrows(ds, cs, m, gone) ==
  /\ \A k \in DOMAIN ds : m[k] \in DOMAIN cs /\ ds[k] = cs[m[k]]
  /\ \A k, h \in DOMAIN ds : m[k] = m[h] => k = h
  /\ \A i \in DOMAIN cs : cs[i].uid \notin gone <=> \E k \in DOMAIN ds : m[k] = i

\* Rows go away, with the patch files of their uids at most.
LEMMA RowsGone ==
  ASSUME NEW cs, NEW index, NEW ps, RowsFit(cs, index, ps),
         NEW ds \in Seq(Component), NEW qs \in Patches,
         NEW m, NEW gone, Subrows(ds, cs, m, gone),
         \A u \in Uids : u \in gone \/ qs[u] = ps[u]
  PROVE  RowsFit(ds, index \ gone, qs)
<1>1. /\ UidsOf(cs) = index /\ Distinct(cs) /\ CustomFits(cs, ps)
      /\ \A j \in DOMAIN cs : cs[j] \in Component
  BY RowsOfList DEF RowsFit
<1>2. UidsOf(ds) = index \ gone
  BY <1>1 DEF UidsOf, Subrows
<1>3. Distinct(ds)
  BY <1>1 DEF Distinct, Subrows
<1>4. CustomFits(ds, qs)
  <2>1. ASSUME NEW k \in DOMAIN ds, ds[k].file # NoFile PROVE Backs(qs[ds[k].uid], ds[k].file)
    <3>1. m[k] \in DOMAIN cs /\ ds[k] = cs[m[k]] /\ ds[k].uid \in Uids \ gone
      BY <1>1 DEF Component, Subrows
    <3>. QED
      BY <1>1, <2>1, <3>1 DEF CustomFits
  <2>. QED
    BY <2>1 DEF CustomFits
<1>. QED
  BY <1>2, <1>3, <1>4 DEF RowsFit

LEMMA RowRemoved ==
  ASSUME NEW cs, NEW index, NEW ps, RowsFit(cs, index, ps), NEW i \in DOMAIN cs
  PROVE  RowsFit(RemoveAt(cs, i), index \ {cs[i].uid}, [ps EXCEPT ![cs[i].uid] = NoFile])
<1>. DEFINE ds == RemoveAt(cs, i)
            qs == [ps EXCEPT ![cs[i].uid] = NoFile]
            m == [k \in 1..Len(cs) - 1 |-> IF k < i THEN k ELSE k + 1]
<1>1. /\ cs \in Seq(Component) /\ Distinct(cs) /\ ps \in Patches
      /\ Len(cs) \in Nat /\ DOMAIN cs = 1..Len(cs) /\ \A j \in DOMAIN cs : cs[j] \in Component
  BY RowsOfList DEF RowsFit
<1>2. /\ ds \in Seq(Component) /\ Len(ds) = Len(cs) - 1
      /\ \A k \in 1..Len(cs) - 1 : ds[k] = IF k < i THEN cs[k] ELSE cs[k + 1]
  BY <1>1, RemoveAtProperties
<1>. HIDE DEF ds
<1>3. DOMAIN ds = 1..Len(cs) - 1
  BY <1>2, LenProperties
<1>4. qs \in Patches /\ \A u \in Uids : u \in {cs[i].uid} \/ qs[u] = ps[u]
  BY <1>1 DEF Patches
<1>5. \A k \in DOMAIN ds : m[k] \in DOMAIN cs /\ ds[k] = cs[m[k]] /\ m[k] # i
  BY <1>1, <1>2, <1>3
<1>6. \A k, h \in DOMAIN ds : m[k] = m[h] => k = h
  BY <1>1, <1>3
<1>7. ASSUME NEW j \in DOMAIN cs PROVE cs[j].uid \notin {cs[i].uid} <=> \E k \in DOMAIN ds : m[k] = j
  <2>1. CASE j = i
    BY <1>5, <2>1
  <2>2. CASE j # i
    <3>1. cs[j].uid # cs[i].uid
      BY <1>1, <2>2 DEF Distinct
    <3>2. \E k \in DOMAIN ds : m[k] = j
      <4>1. CASE j < i
        <5>1. j \in DOMAIN ds /\ m[j] = j
          BY <1>1, <1>3, <4>1
        <5>. QED
          BY <5>1
      <4>2. CASE ~(j < i)
        <5>1. j - 1 \in DOMAIN ds /\ m[j - 1] = j
          BY <1>1, <1>3, <2>2, <4>2
        <5>. QED
          BY <5>1
      <4>. QED
        BY <4>1, <4>2
    <3>. QED
      BY <3>1, <3>2
  <2>. QED
    BY <2>1, <2>2
<1>. HIDE DEF m, qs
<1>8. Subrows(ds, cs, m, {cs[i].uid})
  BY <1>5, <1>6, <1>7 DEF Subrows
<1>. QED
  BY <1>2, <1>4, <1>8, RowsGone DEF ds, qs

Kept(cs, gone) == {i \in DOMAIN cs : cs[i].uid \notin gone}

LEMMA WithoutProperties ==
  ASSUME NEW cs \in Seq(Component), NEW gone
  PROVE  /\ Without(cs, gone) \in Seq(Component)
         /\ DOMAIN Without(cs, gone) = 1..Cardinality(Kept(cs, gone))
         /\ Cardinality(Kept(cs, gone)) \in Nat
         /\ Subrows(Without(cs, gone), cs, Ascending(Kept(cs, gone)), gone)
         /\ \A k, h \in DOMAIN Without(cs, gone) :
              k < h => Ascending(Kept(cs, gone))[k] < Ascending(Kept(cs, gone))[h]
<1>. DEFINE rows == Kept(cs, gone)
            n == Cardinality(rows)
            m == Ascending(rows)
            ds == Without(cs, gone)
<1>1. rows \subseteq DOMAIN cs
  BY DEF Kept
<1>2. ds = Select(cs, rows)
  BY DEF Without, Kept
<1>3. /\ n \in Nat /\ m \in [1..n -> rows]
      /\ \A i, j \in 1..n : i < j => m[i] < m[j]
      /\ \A i, j \in 1..n : m[i] = m[j] => i = j
      /\ \A x \in rows : \E i \in 1..n : m[i] = x
      /\ ds \in Seq(Component) /\ DOMAIN ds = 1..n
      /\ \A k \in 1..n : ds[k] = cs[m[k]]
  BY <1>1, <1>2, SelectProperties
<1>. HIDE DEF n, m, ds, rows
<1>4. \A k \in 1..n : m[k] \in rows
  BY <1>3
<1>5. \A i \in DOMAIN cs : cs[i].uid \notin gone <=> i \in rows
  BY DEF rows, Kept
<1>6. Subrows(ds, cs, m, gone)
  BY <1>1, <1>3, <1>4, <1>5 DEF Subrows
<1>. QED
  BY <1>3, <1>6 DEF n, m, ds, rows

LEMMA RowsWithout ==
  ASSUME NEW cs, NEW index, NEW ps, RowsFit(cs, index, ps), NEW gone
  PROVE  RowsFit(Without(cs, gone), index \ gone,
                 [u \in Uids |-> IF u \in gone THEN NoFile ELSE ps[u]])
<1>. DEFINE qs == [u \in Uids |-> IF u \in gone THEN NoFile ELSE ps[u]]
<1>1. cs \in Seq(Component) /\ ps \in Patches
  BY DEF RowsFit
<1>2. /\ Without(cs, gone) \in Seq(Component)
      /\ Subrows(Without(cs, gone), cs, Ascending(Kept(cs, gone)), gone)
  BY <1>1, WithoutProperties
<1>3. qs \in Patches /\ \A u \in Uids : u \in gone \/ qs[u] = ps[u]
  BY <1>1 DEF Patches
<1>. HIDE DEF qs
<1>4. RowsFit(Without(cs, gone), index \ gone, qs)
  BY <1>2, <1>3, RowsGone
<1>. QED
  BY <1>4 DEF qs

\* Two rows change places.
LEMMA RowsSwapped ==
  ASSUME NEW cs, NEW index, NEW ps, RowsFit(cs, index, ps),
         NEW i \in DOMAIN cs, NEW j \in DOMAIN cs, i # j
  PROVE  RowsFit([cs EXCEPT ![i] = cs[j], ![j] = cs[i]], index, ps)
<1>. DEFINE ds == [cs EXCEPT ![i] = cs[j], ![j] = cs[i]]
            m == [k \in DOMAIN cs |-> IF k = i THEN j ELSE IF k = j THEN i ELSE k]
<1>1. /\ cs \in Seq(Component) /\ ps \in Patches
      /\ Len(cs) \in Nat /\ DOMAIN cs = 1..Len(cs) /\ \A k \in DOMAIN cs : cs[k] \in Component
  BY RowsOfList DEF RowsFit
<1>2. /\ DOMAIN ds = DOMAIN cs /\ ds = [k \in DOMAIN cs |-> ds[k]]
      /\ \A k \in DOMAIN cs : m[k] \in DOMAIN cs /\ ds[k] = cs[m[k]]
      /\ \A k, h \in DOMAIN cs : m[k] = m[h] => k = h
      /\ \A k \in DOMAIN cs : m[m[k]] = k
  <2>1. /\ DOMAIN ds = DOMAIN cs /\ ds = [k \in DOMAIN cs |-> ds[k]]
        /\ \A k \in DOMAIN cs : ds[k] = IF k = j THEN cs[i] ELSE IF k = i THEN cs[j] ELSE cs[k]
    OBVIOUS
  <2>2. \A k \in DOMAIN cs : m[k] = IF k = i THEN j ELSE IF k = j THEN i ELSE k
    OBVIOUS
  <2>. HIDE DEF ds, m
  <2>. QED
    BY <2>1, <2>2
<1>. HIDE DEF ds, m
<1>3. ds \in Seq(Component)
  <2>1. ds \in [1..Len(cs) -> Component]
    BY <1>1, <1>2
  <2>. QED
    BY <1>1, <2>1, SeqDef
<1>4. Subrows(ds, cs, m, {})
  BY <1>2 DEF Subrows
<1>5. RowsFit(ds, index \ {}, ps)
  BY <1>1, <1>3, <1>4, RowsGone
<1>. QED
  BY <1>5 DEF ds

\* A list that is read has no custom component yet.
LEMMA RowsRead ==
  ASSUME NEW saved \in Seq(PersistedComponent), NEW ps \in Patches
  PROVE  RowsFit(LoadList(saved), UidsOf(LoadList(saved)), ps)
<1>1. /\ LoadList(saved) \in Seq(Component) /\ Distinct(LoadList(saved))
      /\ \A k \in DOMAIN LoadList(saved) :
           \E i \in Fresh(saved) : LoadList(saved)[k] = ComponentFromJson(saved[i])
  BY LoadListProperties
<1>2. \A i \in Fresh(saved) : saved[i] \in PersistedComponent
  BY LenProperties, ElementOfSeq DEF Fresh
<1>3. \A k \in DOMAIN LoadList(saved) : LoadList(saved)[k].file = NoFile
  <2>1. ASSUME NEW k \in DOMAIN LoadList(saved) PROVE LoadList(saved)[k].file = NoFile
    <3>1. PICK i \in Fresh(saved) : LoadList(saved)[k] = ComponentFromJson(saved[i])
      BY <1>1
    <3>. QED
      BY <1>2, <3>1, FromJsonType
  <2>. QED
    BY <2>1
<1>. QED
  BY <1>1, <1>3 DEF RowsFit, CustomFits

\* The changes of the resolver.
LEMMA RowsResolved ==
  ASSUME NEW cs, NEW index, NEW ps, RowsFit(cs, index, ps), NEW avail, OnlyPublished(avail)
  PROVE  LET reqs == GatherRequirements(cs) IN
         RowsFit(ChangeVersions(AddDependencies(cs, reqs), reqs, avail, ToChange(cs, reqs)),
                 index \cup ToAdd(cs, reqs), ps)
<1>. DEFINE reqs == GatherRequirements(cs)
            l == AddDependencies(cs, reqs)
            change == ToChange(cs, reqs)
            ds == ChangeVersions(l, reqs, avail, change)
<1>1. cs \in Seq(Component) /\ UidsOf(cs) = index /\ Distinct(cs) /\ ps \in Patches
      /\ CustomFits(cs, ps)
  BY DEF RowsFit
<1>2. Enlarged(cs, l, ToAdd(cs, reqs))
  BY <1>1, AddDependenciesEnlarges
<1>3. \A u \in change : reqs[u].equals \in AnyVersion
  <2>1. \A u \in change : u \in RequiredUids(cs)
    BY DEF ToChange, GatherRequirements
  <2>. QED
    BY <1>1, <2>1, GatherType DEF Gathered
<1>. HIDE DEF l, reqs, change
<1>4. /\ l \in Seq(Component) /\ Distinct(l)
      /\ UidsOf(l) = index \cup ToAdd(cs, reqs)
  BY <1>1, <1>2 DEF Enlarged
<1>5. /\ ds \in Seq(Component) /\ DOMAIN ds = DOMAIN l /\ UidsOf(ds) = UidsOf(l) /\ Distinct(ds)
      /\ \A i \in DOMAIN l : ds[i].uid = l[i].uid /\ ds[i].file = l[i].file
  BY <1>3, <1>4, ChangeVersionsType
<1>6. CustomFits(l, ps)
  <2>1. PICK e : Embeds(cs, l, ToAdd(cs, reqs), e)
    BY <1>2 DEF Enlarged
  <2>2. ASSUME NEW i \in DOMAIN l, l[i].file # NoFile PROVE Backs(ps[l[i].uid], l[i].file)
    <3>1. PICK j \in DOMAIN cs : e[j] = i
      BY <2>1, <2>2 DEF Embeds, IsNew
    <3>2. l[i] = cs[j]
      BY <2>1, <3>1 DEF Embeds
    <3>. QED
      BY <1>1, <2>2, <3>2 DEF CustomFits
  <2>. QED
    BY <2>2 DEF CustomFits
<1>. HIDE DEF ds
<1>7. CustomFits(ds, ps)
  BY <1>5, <1>6 DEF CustomFits
<1>8. RowsFit(ds, index \cup ToAdd(cs, reqs), ps)
  BY <1>1, <1>4, <1>5, <1>7 DEF RowsFit
<1>. QED
  BY <1>8 DEF ds, l, reqs, change

--------------------------------------------------------------------------------
(***************************************************************************)
(* The invariant.                                                          *)
(***************************************************************************)
ListInv == RowsFit(components, componentIndex, patches)

Stocked == ready \subseteq Published \cup {Index} /\ local \subseteq Published \cup {Index}

MetaInv ==
  /\ Stocked
  /\ inFlight \subseteq Entities /\ orphans \subseteq inFlight
  /\ fault = "none" => AwaitedBy(task) \subseteq inFlight

TaskInv ==
  /\ task \in Task \cup {NoTask}
  /\ phase \in {"idle", "loading", "waiting", "resolving"}
  /\ (phase = "idle") = (task = NoTask)
  /\ result \in {"none", "succeeded", "failed"}

\* Only a list that was read from its file is loaded, and only such a list waits to
\* be saved.
RestInv ==
  /\ dirty \in BOOLEAN /\ saveTimer \in BOOLEAN /\ loaded \in BOOLEAN
  /\ dirty \/ saveTimer => loaded
  /\ loaded => disk \in Seq(PersistedComponent)
  /\ fault \in {"none", "dangling", "null"}
  /\ disk \in Seq(PersistedComponent) \cup {NoList, BadList}
  /\ edits \in 0..MaxEdits /\ crashes \in 0..MaxCrashes /\ disturbed \in BOOLEAN

IInv == ListInv /\ MetaInv /\ TaskInv /\ RestInv

LEMMA IInvImplies ==
  ASSUME IInv
  PROVE  IndexMatchesList /\ CustomMatchesPatch
<1>1. componentIndex \subseteq Uids
  BY RowsOfList DEF IInv, ListInv, RowsFit
<1>2. ready \subseteq Entities /\ local \subseteq Entities
  <2>1. Published \subseteq Uids \X AnyVersion
    BY ComponentsAssumption, VersionTypes
  <2>. QED
    BY <2>1 DEF IInv, MetaInv, Stocked, Entities
<1>3. TypeOK
  BY <1>1, <1>2 DEF IInv, ListInv, RowsFit, MetaInv, TaskInv, RestInv, TypeOK, Patches
<1>. QED
  BY <1>3 DEF IndexMatchesList, CustomMatchesPatch, IsCustom, IInv, ListInv, RowsFit,
              Distinct, CustomFits, Backs

LEMMA StockedReadable ==
  ASSUME NEW es, es \subseteq Published \cup {Index}
  PROVE  OnlyPublished(es)
BY PackProfileAssumption, ComponentsAssumption DEF OnlyPublished

--------------------------------------------------------------------------------
(***************************************************************************)
(* What every step does to the list.                                       *)
(***************************************************************************)

LEMMA LoadComponentType ==
  ASSUME Stocked, patches \in Patches, NEW c \in Component
  PROVE  /\ LoadComponent(c) \in Component /\ SameRow(c, LoadComponent(c))
         /\ LoadComponent(c).file = c.file \/ LoadComponent(c).file = patches[c.uid]
<1>1. ReadyAfterLoad \subseteq Published \cup {Index}
  BY DEF Stocked, ReadyAfterLoad
<1>2. /\ Prepared(c) \in Component /\ SameRow(c, Prepared(c))
      /\ Prepared(c).file = c.file \/ Prepared(c).file = patches[c.uid]
  <2>1. c.uid \in Uids /\ patches[c.uid] \in VersionFile \cup {NoFile}
    BY DEF Component, Patches
  <2>. DEFINE b == MetaOf(c) \in ready
  <2>2. b \in BOOLEAN
    OBVIOUS
  <2>3. Prepared(c) = IF c.loaded THEN c
          ELSE IF patches[c.uid] # NoFile
          THEN [c EXCEPT !.file = patches[c.uid], !.loaded = TRUE]
          ELSE [c EXCEPT !.metaVersion = c.version, !.loaded = b]
    BY DEF Prepared
  <2>. HIDE DEF b
  <2>. QED
    BY <2>1, <2>2, <2>3 DEF Component, SameRow
<1>3. /\ UpdateCachedData(Prepared(c), ReadyAfterLoad) \in Component
      /\ SameRow(Prepared(c), UpdateCachedData(Prepared(c), ReadyAfterLoad))
      /\ UpdateCachedData(Prepared(c), ReadyAfterLoad).file = Prepared(c).file
  BY <1>1, <1>2, StockedReadable, UpdateCachedDataType
<1>. QED
  BY <1>2, <1>3 DEF LoadComponent, SameRow

LEMMA LoadingList ==
  ASSUME IInv, LoadComponents
  PROVE  ListInv'
<1>1. components' = [i \in DOMAIN components |-> LoadComponent(components[i])]
      /\ UNCHANGED <<componentIndex, patches>>
  BY DEF LoadComponents
<1>2. Stocked /\ patches \in Patches /\ RowsFit(components, componentIndex, patches)
  BY DEF IInv, ListInv, MetaInv, RowsFit
<1>3. \A i \in DOMAIN components : components[i] \in Component
  BY <1>2, RowsOfList DEF RowsFit
<1>4. \A i \in DOMAIN components :
        /\ LoadComponent(components[i]) \in Component
        /\ LoadComponent(components[i]).uid = components[i].uid
        /\ \/ LoadComponent(components[i]).file = components[i].file
           \/ LoadComponent(components[i]).file = patches[components[i].uid]
  BY <1>2, <1>3, LoadComponentType DEF SameRow
<1>5. RowsFit([i \in DOMAIN components |-> LoadComponent(components[i])], componentIndex, patches)
  BY <1>2, <1>4, RowsKept
<1>. QED
  BY <1>1, <1>5 DEF ListInv

LEMMA AnsweredList ==
  ASSUME IInv, NEW e \in inFlight, RemoteSucceeds(e) \/ RemoteFails(e)
  PROVE  ListInv'
<1>1. CASE UNCHANGED <<components, componentIndex, patches>>
  BY <1>1 DEF IInv, ListInv
<1>2. CASE /\ components' = RemoteLoadSucceeded(e, ready')
           /\ UNCHANGED <<componentIndex, patches>>
           /\ ready' \subseteq Published \cup {Index}
  <2>1. RowsFit(components, componentIndex, patches)
    BY DEF IInv, ListInv
  <2>2. OnlyPublished(ready')
    BY <1>2, StockedReadable
  <2>. DEFINE ds == RemoteLoadSucceeded(e, ready')
  <2>3. \A i \in DOMAIN components : components[i] \in Component
    BY <2>1, RowsOfList DEF RowsFit
  <2>4. DOMAIN ds = DOMAIN components /\ ds = [i \in DOMAIN components |-> ds[i]]
    BY DEF RemoteLoadSucceeded
  <2>5. ASSUME NEW i \in DOMAIN components
        PROVE  ds[i] \in Component /\ ds[i].uid = components[i].uid
               /\ ds[i].file = components[i].file
    <3>. DEFINE d == [components[i] EXCEPT !.loaded = TRUE]
    <3>1. d \in Component /\ d.uid = components[i].uid /\ d.file = components[i].file
      BY <2>3 DEF Component
    <3>2. ds[i] = UpdateCachedData(d, ready') \/ ds[i] = components[i]
      BY DEF RemoteLoadSucceeded
    <3>. HIDE DEF d, ds
    <3>3. /\ UpdateCachedData(d, ready') \in Component
          /\ SameRow(d, UpdateCachedData(d, ready'))
          /\ UpdateCachedData(d, ready').file = d.file
      BY <2>2, <3>1, UpdateCachedDataType
    <3>. QED
      BY <2>3, <3>1, <3>2, <3>3 DEF SameRow
  <2>. HIDE DEF ds
  <2>6. RowsFit(ds, componentIndex, patches)
    BY <2>1, <2>4, <2>5, RowsKept
  <2>. QED
    BY <1>2, <2>6 DEF ListInv, ds
<1>3. CASE RemoteFails(e)
  BY <1>1, <1>3 DEF RemoteFails, RemoteAnswer
<1>4. CASE RemoteSucceeds(e)
  <2>1. ready' \subseteq Published \cup {Index}
    BY <1>4 DEF RemoteSucceeds, IInv, MetaInv, Stocked
  <2>2. CASE RemoteAnswer(e) /\ components' = RemoteLoadSucceeded(e, ready')
    BY <1>2, <2>1, <2>2 DEF RemoteAnswer
  <2>3. CASE UNCHANGED <<listVars, patches>>
    BY <1>1, <2>3 DEF listVars
  <2>. QED
    BY <1>4, <2>2, <2>3 DEF RemoteSucceeds
<1>. QED
  BY <1>3, <1>4

LEMMA ResolvingList ==
  ASSUME IInv, RemoveObsolete \/ ApplyChanges \/ ResolutionFails \/ ResolutionSucceeds
  PROVE  ListInv'
<1>1. CASE RemoveObsolete
  <2>1. PICK gone : /\ components' = Without(components, gone)
                    /\ componentIndex' = componentIndex \ gone
                    /\ patches' = [u \in Uids |-> IF u \in gone THEN NoFile ELSE patches[u]]
    BY <1>1 DEF RemoveObsolete
  <2>. QED
    BY <2>1, RowsWithout DEF IInv, ListInv
<1>2. CASE ApplyChanges
  <2>1. OnlyPublished(ready)
    BY StockedReadable DEF IInv, MetaInv, Stocked
  <2>2. RowsFit(ChangeVersions(AddDependencies(components, Reqs), Reqs, ready,
                               ToChange(components, Reqs)),
                componentIndex \cup ToAdd(components, Reqs), patches)
    BY <2>1, RowsResolved DEF IInv, ListInv, Reqs
  <2>. QED
    BY <1>2, <2>2 DEF ApplyChanges, ListInv
<1>3. CASE ResolutionFails \/ ResolutionSucceeds
  BY <1>3 DEF ResolutionFails, ResolutionSucceeds, IInv, ListInv, listVars
<1>. QED
  BY <1>1, <1>2, <1>3

\* A reload reads the file, or leaves the list that was edited before.
LEMMA ReloadedList ==
  ASSUME NEW m, NEW cs, NEW index, NEW wasDirty, Reload(m, cs, index, wasDirty),
         disk \in Seq(PersistedComponent) \cup {BadList}, cs \in Seq(Component),
         RowsFit(cs, index, patches')
  PROVE  ListInv'
<1>1. CASE components' = cs /\ componentIndex' = index
  BY <1>1 DEF ListInv
<1>2. CASE /\ components' = LoadList(disk') /\ componentIndex' = UidsOf(components')
           /\ disk' \in Seq(PersistedComponent)
  <2>1. patches' \in Patches
    BY DEF RowsFit
  <2>2. RowsFit(LoadList(disk'), UidsOf(LoadList(disk')), patches')
    BY <1>2, <2>1, RowsRead
  <2>. QED
    BY <1>2, <2>2 DEF ListInv
<1>3. disk' # BadList /\ task = NoTask => disk' \in Seq(PersistedComponent)
  <2>1. SaveList(cs) \in Seq(PersistedComponent)
    BY SaveListType
  <2>. QED
    BY <2>1 DEF Reload, Written
<1>. QED
  BY <1>1, <1>2, <1>3 DEF Reload

LEMMA ReloadListList ==
  ASSUME IInv, NEW m \in Netmodes, ReloadList(m)
  PROVE  ListInv'
<1>1. RowsFit(components, componentIndex, patches') /\ components \in Seq(Component)
  BY DEF ReloadList, IInv, ListInv, RowsFit
<1>2. disk \in Seq(PersistedComponent) \cup {BadList}
  BY DEF ReloadList, IInv, RestInv
<1>. QED
  BY <1>1, <1>2, ReloadedList DEF ReloadList

LEMMA RemoveComponentList ==
  ASSUME IInv, NEW i \in DOMAIN components, RemoveComponent(i)
  PROVE  ListInv'
<1>. DEFINE c == components[i]
<1>1. PICK stuck \in StuckPatches :
        /\ Reload("Online",
                  IF Refused(c, stuck) THEN components ELSE RemoveAt(components, i),
                  IF Refused(c, stuck) THEN componentIndex ELSE componentIndex \ {c.uid},
                  dirty \/ (loaded /\ ~Refused(c, stuck)))
        /\ patches' = IF Refused(c, stuck) THEN patches ELSE [patches EXCEPT ![c.uid] = NoFile]
  BY DEF RemoveComponent
<1>2. disk \in Seq(PersistedComponent) \cup {BadList}
  BY DEF RemoveComponent, IInv, RestInv
<1>3. RowsFit(components, componentIndex, patches)
  BY DEF IInv, ListInv
<1>4. CASE Refused(c, stuck)
  <2>1. /\ Reload("Online", components, componentIndex, dirty \/ (loaded /\ ~Refused(c, stuck)))
        /\ patches' = patches
    BY <1>1, <1>4
  <2>2. RowsFit(components, componentIndex, patches') /\ components \in Seq(Component)
    BY <1>3, <2>1 DEF RowsFit
  <2>. QED
    BY <1>2, <2>1, <2>2, ReloadedList
<1>5. CASE ~Refused(c, stuck)
  <2>1. /\ Reload("Online", RemoveAt(components, i), componentIndex \ {c.uid},
                  dirty \/ (loaded /\ ~Refused(c, stuck)))
        /\ patches' = [patches EXCEPT ![c.uid] = NoFile]
    BY <1>1, <1>5
  <2>2. RowsFit(RemoveAt(components, i), componentIndex \ {c.uid}, patches')
    BY <1>3, <2>1, RowRemoved
  <2>3. RemoveAt(components, i) \in Seq(Component)
    BY <2>2 DEF RowsFit
  <2>. QED
    BY <1>2, <2>1, <2>2, <2>3, ReloadedList
<1>. QED
  BY <1>4, <1>5

LEMMA MoveList ==
  ASSUME IInv, NEW i \in DOMAIN components, NEW above \in BOOLEAN, MoveComponent(i, above)
  PROVE  ListInv'
<1>. DEFINE j == Neighbour(i, above)
<1>1. RowsFit(components, componentIndex, patches)
  BY DEF IInv, ListInv
<1>2. Len(components) \in Nat /\ DOMAIN components = 1..Len(components)
  BY <1>1, RowsOfList DEF RowsFit
<1>3. j \in DOMAIN components
  BY <1>2 DEF Neighbour
<1>4. /\ i # j /\ UNCHANGED <<componentIndex, patches>>
      /\ components' = [components EXCEPT ![i] = components[j], ![j] = components[i]]
  BY DEF MoveComponent
<1>. HIDE DEF j
<1>5. RowsFit([components EXCEPT ![i] = components[j], ![j] = components[i]],
              componentIndex, patches)
  BY <1>1, <1>3, <1>4, RowsSwapped
<1>. QED
  BY <1>4, <1>5 DEF ListInv

LEMMA ToggleList ==
  ASSUME IInv, NEW i \in DOMAIN components, ToggleEnabled(i)
  PROVE  ListInv'
<1>. DEFINE c == components[i]
            d == SetEnabled(c, ~IsEnabled(c))
<1>1. RowsFit(components, componentIndex, patches)
  BY DEF IInv, ListInv
<1>2. c \in Component /\ patches \in Patches /\ (c.file # NoFile => Backs(patches[c.uid], c.file))
  BY <1>1, RowsOfList DEF RowsFit, CustomFits
<1>3. d \in Component /\ d.uid = c.uid /\ d.file = c.file
  <2>1. (~IsEnabled(c)) \in BOOLEAN
    BY DEF IsEnabled
  <2>. QED
    BY <1>2, <2>1, SetEnabledType
<1>4. components' = [components EXCEPT ![i] = d] /\ UNCHANGED <<componentIndex, patches>>
  BY DEF ToggleEnabled
<1>. HIDE DEF d
<1>5. RowsFit([components EXCEPT ![i] = d], componentIndex, patches)
  BY <1>1, <1>2, <1>3, RowChanged
<1>. QED
  BY <1>4, <1>5 DEF ListInv

LEMMA CustomizeList ==
  ASSUME IInv, NEW i \in DOMAIN components, CustomizeComponent(i)
  PROVE  ListInv'
<1>. DEFINE c == components[i]
            d == Customize(c, ready)
            qs == [patches EXCEPT ![c.uid] = FileOf(c, ready)]
<1>1. RowsFit(components, componentIndex, patches) /\ OnlyPublished(ready)
  BY StockedReadable DEF IInv, ListInv, MetaInv, Stocked
<1>2. c \in Component /\ patches \in Patches /\ c.uid \in Uids
  BY <1>1, RowsOfList DEF RowsFit, Component
<1>3. d \in Component /\ d.uid = c.uid /\ d.file = FileOf(c, ready)
  BY <1>1, <1>2, CustomizeType DEF SameRow
<1>4. FileOf(c, ready) \in VersionFile \cup {NoFile}
  BY <1>1, <1>2, FileOfType
<1>5. /\ qs \in Patches /\ Backs(qs[c.uid], FileOf(c, ready))
      /\ \A u \in Uids : u # c.uid => qs[u] = patches[u]
  BY <1>2, <1>4 DEF Patches, Backs
<1>6. components' = [components EXCEPT ![i] = d] /\ patches' = qs /\ UNCHANGED componentIndex
  BY DEF CustomizeComponent
<1>. HIDE DEF d, qs
<1>7. RowsFit([components EXCEPT ![i] = d], componentIndex, qs)
  BY <1>1, <1>3, <1>5, RowChanged
<1>. QED
  BY <1>6, <1>7 DEF ListInv

LEMMA RevertList ==
  ASSUME IInv, NEW i \in DOMAIN components, RevertComponent(i)
  PROVE  ListInv'
<1>. DEFINE c == components[i]
            d == Revert(c, ready)
            qs == [patches EXCEPT ![c.uid] = NoFile]
<1>1. RowsFit(components, componentIndex, patches)
  BY DEF IInv, ListInv
<1>2. c \in Component /\ patches \in Patches /\ c.uid \in Uids
  BY <1>1, RowsOfList DEF RowsFit, Component
<1>3. d \in Component /\ d.uid = c.uid /\ d.file = NoFile
  BY <1>2, RevertType DEF SameRow
<1>4. qs \in Patches /\ \A u \in Uids : u # c.uid => qs[u] = patches[u]
  BY <1>2 DEF Patches
<1>5. components' = [components EXCEPT ![i] = d] /\ patches' = qs /\ UNCHANGED componentIndex
  BY DEF RevertComponent
<1>. HIDE DEF d, qs
<1>6. RowsFit([components EXCEPT ![i] = d], componentIndex, qs)
  BY <1>1, <1>3, <1>4, RowChanged
<1>. QED
  BY <1>5, <1>6 DEF ListInv

LEMMA PublishedVersionType ==
  ASSUME NEW u \in Uids, NEW v \in PublishedVersions(u)
  PROVE  v \in AnyVersion
BY VersionTypes DEF PublishedVersions

LEMMA ChangeVersionList ==
  ASSUME IInv, NEW u \in Uids, NEW v \in PublishedVersions(u), ChangeVersion(u, v)
  PROVE  ListInv'
<1>. DEFINE imp == u = Minecraft
            set(c) == [SetVersion(Revert(c, ready), v, ready) EXCEPT !.important = imp]
<1>1. RowsFit(components, componentIndex, patches) /\ OnlyPublished(ready)
  BY StockedReadable DEF IInv, ListInv, MetaInv, Stocked
<1>2. v \in AnyVersion /\ imp \in BOOLEAN
  BY PublishedVersionType
<1>3. CASE u \notin componentIndex
  <2>. DEFINE d == NewComponent(u, v, FALSE, imp)
  <2>1. d \in Component /\ d.uid = u /\ d.file = NoFile
    BY <1>2, NewComponentType
  <2>2. components' = Append(components, d) /\ componentIndex' = componentIndex \cup {u}
        /\ UNCHANGED patches
    BY <1>3 DEF ChangeVersion
  <2>. HIDE DEF d
  <2>3. patches \in Patches
    BY <1>1 DEF RowsFit
  <2>4. RowsFit(Append(components, d), componentIndex \cup {d.uid}, patches)
    BY <1>1, <1>3, <2>1, <2>3, RowAppended
  <2>. QED
    BY <2>1, <2>2, <2>4 DEF ListInv
<1>4. CASE u \in componentIndex
  <2>. DEFINE i == IndexOf(components, u)
  <2>1. i \in DOMAIN components /\ components[i].uid = u
    BY <1>1, <1>4, IndexOfProperties DEF RowsFit
  <2>2. components[i] \in Component /\ patches \in Patches
    BY <1>1, <2>1, RowsOfList DEF RowsFit
  <2>. DEFINE d == set(components[i])
  <2>3. d \in Component /\ d.uid = u /\ d.file = NoFile
    <3>. DEFINE r == Revert(components[i], ready)
                s == SetVersion(r, v, ready)
    <3>1. r \in Component /\ r.uid = u /\ r.file = NoFile
      BY <2>1, <2>2, RevertType DEF SameRow
    <3>. HIDE DEF r
    <3>2. s \in Component /\ s.uid = u /\ s.file = NoFile
      BY <1>1, <1>2, <3>1, SetVersionType
    <3>3. d = [s EXCEPT !.important = imp]
      BY DEF r
    <3>. HIDE DEF s, d, imp
    <3>. QED
      BY <1>2, <3>2, <3>3 DEF Component
  <2>4. PICK stuck \in StuckPatches :
          LET refused == IsCustom(components[i]) /\ u \in stuck IN
          /\ components' = IF refused THEN components ELSE [components EXCEPT ![i] = d]
          /\ patches' = IF refused \/ ~IsCustom(components[i]) THEN patches
                        ELSE [patches EXCEPT ![u] = NoFile]
          /\ UNCHANGED componentIndex
    <3>1. [components EXCEPT ![i] = set(@)] = [components EXCEPT ![i] = set(components[i])]
      BY <2>1
    <3>. QED
      BY <1>4, <3>1 DEF ChangeVersion
  <2>. HIDE DEF d, i
  <2>5. CASE IsCustom(components[i]) /\ u \in stuck
    BY <1>1, <2>4, <2>5 DEF ListInv
  <2>6. CASE ~(IsCustom(components[i]) /\ u \in stuck)
    <3>1. patches' \in Patches /\ \A w \in Uids : w # u => patches'[w] = patches[w]
      BY <2>2, <2>4 DEF Patches
    <3>2. RowsFit([components EXCEPT ![i] = d], componentIndex, patches')
      BY <1>1, <2>1, <2>3, <3>1, RowChanged
    <3>. QED
      BY <2>4, <2>6, <3>2 DEF ListInv
  <2>. QED
    BY <2>5, <2>6
<1>. QED
  BY <1>3, <1>4

LEMMA InstallList ==
  ASSUME IInv, NEW u \in Uids, InstallLocal(u)
  PROVE  ListInv'
<1>. DEFINE f == EmptyFile(CHOOSE v \in Versions : TRUE)
            d == FileComponent(u, f)
<1>1. RowsFit(components, componentIndex, patches) /\ patches \in Patches
  BY DEF IInv, ListInv, RowsFit
<1>2. f \in VersionFile /\ Truncated \in VersionFile
  <2>1. (CHOOSE v \in Versions : TRUE) \in AnyVersion
    BY ComponentsAssumption, VersionTypes
  <2>. QED
    BY <2>1, VersionTypes DEF Truncated
<1>3. PICK written \in {f} \cup (IF PatchesMayFail THEN {Truncated} ELSE {}) :
        /\ u \notin componentIndex /\ patches' = [patches EXCEPT ![u] = written]
        /\ components' = Append(components, d) /\ componentIndex' = componentIndex \cup {u}
  BY DEF InstallLocal
<1>. DEFINE qs == [patches EXCEPT ![u] = written]
<1>. HIDE DEF f
<1>4. d \in Component /\ d.uid = u /\ d.file = f
  BY <1>2, FileComponentType
<1>5. qs \in Patches /\ Backs(qs[u], f) /\ \A w \in Uids : w # u => qs[w] = patches[w]
  BY <1>1, <1>2, <1>3 DEF Patches, Backs
<1>. HIDE DEF d
<1>6. RowsFit(Append(components, d), componentIndex \cup {d.uid}, qs)
  BY <1>1, <1>3, <1>4, <1>5, RowAppended
<1>. QED
  BY <1>3, <1>4, <1>6 DEF ListInv

LEMMA RestartList ==
  ASSUME IInv, Restart
  PROVE  ListInv'
<1>1. RowsFit(<<>>, {}, patches)
  BY DEF IInv, ListInv, RowsFit, UidsOf, Distinct, CustomFits
<1>. QED
  BY <1>1 DEF Restart, ListInv

LEMMA ListKept ==
  ASSUME IInv, [Next]_vars
  PROVE  ListInv'
<1>1. CASE UNCHANGED <<components, componentIndex, patches>>
  BY <1>1 DEF IInv, ListInv
<1>2. CASE \/ \E i \in DOMAIN components : DrawRow(i)
           \/ SaveTimeout
           \/ \E v \in PublishedVersions(Minecraft) : CreateInstance(v)
           \/ UNCHANGED vars
  BY <1>1, <1>2 DEF DrawRow, SaveTimeout, CreateInstance, vars, listVars
<1>3. CASE Exit \/ Crash
  BY <1>3, RestartList DEF Exit, Crash
<1>4. CASE ResolverStep
  BY <1>4, LoadingList, ResolvingList DEF ResolverStep
<1>5. CASE NetworkStep
  BY <1>5, AnsweredList DEF NetworkStep
<1>6. CASE UserStep
  BY <1>6, ReloadListList, RemoveComponentList, MoveList, ToggleList, CustomizeList,
     RevertList, ChangeVersionList, InstallList DEF UserStep
<1>. QED
  BY <1>2, <1>3, <1>4, <1>5, <1>6 DEF Next

--------------------------------------------------------------------------------
(***************************************************************************)
(* What every step does to the task and the meta data.                     *)
(***************************************************************************)
LEMMA EntityTypes ==
  ASSUME IInv
  PROVE  /\ Published \subseteq Entities /\ Index \in Entities
         /\ ready \subseteq Entities /\ local \subseteq Entities
         /\ Requested \subseteq Entities /\ Revisited \subseteq Entities
         /\ \A cs, es : cs \subseteq Component => Lacking(cs, es) \subseteq Entities
<1>1. Published \subseteq Entities /\ Index \in Entities
  BY ComponentsAssumption, VersionTypes DEF Entities
<1>2. ready \subseteq Entities /\ local \subseteq Entities
  BY <1>1 DEF IInv, MetaInv, Stocked
<1>3. \A i \in DOMAIN components : components[i] \in Component
  BY RowsOfList DEF IInv, ListInv, RowsFit
<1>4. Requested \subseteq Entities
  BY <1>1, <1>3 DEF Requested, MetaOf, Component, Entities
<1>5. \A cs, es : cs \subseteq Component => Lacking(cs, es) \subseteq Entities
  <2>1. ASSUME NEW cs, NEW es, cs \subseteq Component PROVE Lacking(cs, es) \subseteq Entities
    <3>1. \A d \in cs : d.metaVersion # NoMeta => Entity(d) \in Entities
      BY <2>1 DEF Entity, Component, Entities
    <3>. QED
      BY <3>1 DEF Lacking
  <2>. QED
    BY <2>1
<1>6. Revisited \subseteq Entities
  <2>1. {c \in Range(components) : c.loaded} \subseteq Component
    BY <1>3 DEF Range
  <2>. QED
    BY <1>5, <2>1 DEF Revisited
<1>. QED
  BY <1>1, <1>2, <1>4, <1>5, <1>6

\* A slot that waits for a running download, for the index or for its row.
AwaitingSlots ==
  {s \in Slot : /\ s.entity \in Requested \cap InFlightAfterLoad
                /\ s.finished = FALSE
                /\ \/ s.position = 0 /\ s.entity = Index
                   \/ /\ s.position \in DOMAIN components
                      /\ IsRemote(components[s.position])
                      /\ s.entity = MetaOf(components[s.position])}

\* The slots of a task wait for downloads that are running, for the index or the row
\* they stand for.
LEMMA SlotsType ==
  ASSUME IInv, task # NoTask
  PROVE  /\ Slots \in Seq(Slot)
         /\ \A k \in DOMAIN Slots :
              /\ Slots[k].entity \in Requested \cap InFlightAfterLoad
              /\ Slots[k].finished = FALSE
              /\ \/ Slots[k].position = 0 /\ Slots[k].entity = Index
                 \/ /\ Slots[k].position \in DOMAIN components
                    /\ IsRemote(components[Slots[k].position])
                    /\ Slots[k].entity = MetaOf(components[Slots[k].position])
         /\ \A i \in DOMAIN components :
              IsRemote(components[i]) => \E k \in DOMAIN Slots : Slots[k].position = i
<1>. DEFINE rows == {i \in DOMAIN components : IsRemote(components[i])}
            waiting == Ascending(rows)
            n == Cardinality(rows)
            slot(e, i) == [entity |-> e, position |-> i, finished |-> FALSE]
            x == IF Index \in Requested \cap InFlightAfterLoad THEN <<slot(Index, 0)>> ELSE <<>>
            y == [k \in DOMAIN waiting |-> slot(MetaOf(components[waiting[k]]), waiting[k])]

<1>1. /\ DOMAIN components = 1..Len(components) /\ IsFiniteSet(DOMAIN components)
      /\ Len(components) \in Nat
  BY RowsOfList DEF IInv, ListInv, RowsFit
<1>2. rows \subseteq Nat /\ rows \subseteq DOMAIN components /\ IsFiniteSet(rows)
  BY <1>1, FS_Subset
<1>3. /\ n \in Nat /\ waiting \in [1..n -> rows] /\ DOMAIN waiting = 1..n
      /\ \A i \in rows : \E k \in 1..n : waiting[k] = i
  BY <1>2, AscendingProperties
<1>4. Slots = x \o y
  BY DEF Slots
<1>. HIDE DEF waiting, n
<1>5. \A i \in rows : slot(MetaOf(components[i]), i) \in AwaitingSlots
  <2>1. ASSUME NEW i \in rows PROVE slot(MetaOf(components[i]), i) \in AwaitingSlots
    <3>1. MetaOf(components[i]) \in Requested \cap InFlightAfterLoad
      BY <2>1 DEF IsRemote
    <3>2. MetaOf(components[i]) \in Entities /\ i \in Nat
      BY <1>2, <3>1, EntityTypes
    <3>. QED
      BY <2>1, <3>1, <3>2, <1>2 DEF Slot, AwaitingSlots
  <2>. QED
    BY <2>1
<1>6. Index \in Requested \cap InFlightAfterLoad => slot(Index, 0) \in AwaitingSlots
  BY EntityTypes DEF Slot, AwaitingSlots
<1>7. y \in [1..n -> AwaitingSlots]
  BY <1>3, <1>5
<1>8. y \in Seq(AwaitingSlots) /\ Len(y) = n
  BY <1>3, <1>7, SeqDef
<1>9. x \in Seq(AwaitingSlots) /\ Len(x) \in Nat
  <2>1. <<>> \in Seq(AwaitingSlots) /\ Len(<<>>) = 0
    OBVIOUS
  <2>. DEFINE s == slot(Index, 0)
  <2>2. Index \in Requested \cap InFlightAfterLoad => s \in AwaitingSlots
    BY <1>6
  <2>3. x = IF Index \in Requested \cap InFlightAfterLoad THEN <<s>> ELSE <<>>
    OBVIOUS
  <2>. HIDE DEF x, s
  <2>4. s \in AwaitingSlots => <<s>> \in Seq(AwaitingSlots) /\ Len(<<s>>) = 1
    OBVIOUS
  <2>. QED
    BY <2>1, <2>2, <2>3, <2>4
<1>r. \A k \in 1..n : y[k] = slot(MetaOf(components[waiting[k]]), waiting[k])
  BY <1>3
<1>. HIDE DEF x, y
<1>10. /\ x \o y \in Seq(AwaitingSlots) /\ Len(x \o y) = Len(x) + n
       /\ \A k \in 1..Len(x) + n : (x \o y)[k] = IF k <= Len(x) THEN x[k] ELSE y[k - Len(x)]
  BY <1>8, <1>9, ConcatProperties
<1>11. Slots \in Seq(AwaitingSlots) /\ DOMAIN Slots = 1..Len(x) + n
  BY <1>4, <1>10, LenProperties
<1>12. Slots \in Seq(Slot)
  <2>1. AwaitingSlots \subseteq Slot
    BY DEF AwaitingSlots
  <2>2. \A k \in DOMAIN Slots : Slots[k] \in AwaitingSlots
    BY <1>11, LenProperties, ElementOfSeq
  <2>. HIDE DEF AwaitingSlots
  <2>. QED
    BY <1>11, <2>1, SeqMonotonic
<1>13. \A k \in DOMAIN Slots : Slots[k] \in AwaitingSlots
  BY <1>11, LenProperties, ElementOfSeq
<1>14. ASSUME NEW i \in DOMAIN components, IsRemote(components[i])
       PROVE  \E k \in DOMAIN Slots : Slots[k].position = i
  <2>1. PICK k \in 1..n : waiting[k] = i
    BY <1>3, <1>14
  <2>1a. y[k] = slot(MetaOf(components[i]), i)
    BY <1>r, <2>1
  <2>2. y[k].position = i
    BY <2>1a
  <2>. DEFINE p == k + Len(x)
  <2>3. p \in 1..Len(x) + n /\ ~(p <= Len(x)) /\ p - Len(x) = k
    BY <1>3, <1>9
  <2>. HIDE DEF p
  <2>4. (x \o y)[p] = y[k]
    BY <1>10, <2>3
  <2>5. p \in DOMAIN Slots /\ Slots[p].position = i
    BY <1>4, <1>11, <2>2, <2>3, <2>4
  <2>. QED
    BY <2>5
<1>. QED
  BY <1>12, <1>13, <1>14 DEF AwaitingSlots

LEMMA SlotOf ==
  ASSUME TaskInv, task # NoTask
  PROVE  /\ task \in Task /\ task.slots \in Seq(Slot)
         /\ Len(task.slots) \in Nat /\ DOMAIN task.slots = 1..Len(task.slots)
         /\ \A k \in DOMAIN task.slots : task.slots[k] \in Slot
<1>1. task \in Task /\ task.slots \in Seq(Slot)
  BY DEF TaskInv, Task
<1>. QED
  BY <1>1, LenProperties, ElementOfSeq

LEMMA FinishedType ==
  ASSUME TaskInv, task # NoTask, NEW e
  PROVE  /\ Finished(e) \in Seq(Slot) /\ DOMAIN Finished(e) = DOMAIN task.slots
         /\ \A k \in DOMAIN task.slots :
              /\ Finished(e)[k].entity = task.slots[k].entity
              /\ Finished(e)[k].position = task.slots[k].position
              /\ Finished(e)[k].finished <=> task.slots[k].finished \/ task.slots[k].entity = e
<1>1. /\ Len(task.slots) \in Nat /\ DOMAIN task.slots = 1..Len(task.slots)
      /\ \A k \in DOMAIN task.slots : task.slots[k] \in Slot
  BY SlotOf
<1>. DEFINE F == Finished(e)
<1>2. /\ DOMAIN F = DOMAIN task.slots
      /\ F = [k \in DOMAIN task.slots |->
                [task.slots[k] EXCEPT !.finished = task.slots[k].finished \/ k \in SlotsFor(e)]]
  BY <1>1 DEF Finished, Slot
<1>3. ASSUME NEW k \in DOMAIN task.slots
      PROVE  /\ F[k] \in Slot
             /\ F[k].entity = task.slots[k].entity /\ F[k].position = task.slots[k].position
             /\ F[k].finished <=> task.slots[k].finished \/ task.slots[k].entity = e
  <2>1. task.slots[k].finished \in BOOLEAN
    BY <1>1 DEF Slot
  <2>2. k \in SlotsFor(e) <=> task.slots[k].entity = e /\ ~task.slots[k].finished
    BY DEF SlotsFor
  <2>. DEFINE b == task.slots[k].finished \/ k \in SlotsFor(e)
  <2>3. b \in BOOLEAN /\ (b <=> task.slots[k].finished \/ task.slots[k].entity = e)
    BY <2>1, <2>2
  <2>4. F[k] = [task.slots[k] EXCEPT !.finished = b]
    BY <1>2
  <2>. HIDE DEF b, F
  <2>. QED
    BY <1>1, <2>3, <2>4 DEF Slot
<1>. HIDE DEF F
<1>4. F \in [1..Len(task.slots) -> Slot]
  BY <1>1, <1>2, <1>3
<1>5. F \in Seq(Slot)
  BY <1>1, <1>4, SeqDef
<1>. QED
  BY <1>2, <1>3, <1>5 DEF F

NewTask(m) == [netmode |-> m, checkOnly |-> FALSE, slots |-> <<>>, ok |-> TRUE, again |-> FALSE]

LEMMA StartTaskKeeps ==
  ASSUME IInv, NEW m \in {"Online", "Offline"}, StartTask(m), fault = "none",
         UNCHANGED <<ready, local, inFlight, fault>>
  PROVE  TaskInv' /\ MetaInv'
<1>1. NewTask(m) \in Task
  BY DEF NewTask, Task
<1>2. task' = NewTask(m) /\ task' # NoTask /\ phase' = "loading" /\ result' = result
  BY <1>1, PackProfileAssumption DEF StartTask, NewTask
<1>3. AwaitedBy(task') = {}
  BY <1>2 DEF AwaitedBy, NewTask
<1>4. TaskInv'
  BY <1>1, <1>2 DEF TaskInv, IInv
<1>5. orphans' \subseteq inFlight'
  BY DEF StartTask, IInv, MetaInv
<1>. QED
  BY <1>3, <1>4, <1>5 DEF IInv, MetaInv, Stocked

LEMMA EndTaskKeeps ==
  ASSUME IInv, NEW r \in {"none", "succeeded", "failed"}, EndTask(r)
  PROVE  TaskInv' /\ AwaitedBy(task') = {}
BY DEF EndTask, TaskInv, AwaitedBy

LEMMA LoadingMeta ==
  ASSUME IInv, LoadComponents
  PROVE  TaskInv' /\ MetaInv'
<1>1. task \in Task /\ task # NoTask /\ phase = "loading"
  BY DEF LoadComponents, IInv, TaskInv
<1>2. /\ Slots \in Seq(Slot)
      /\ \A k \in DOMAIN Slots : Slots[k].entity \in InFlightAfterLoad
  BY <1>1, SlotsType
<1>3. Stocked'
  BY DEF LoadComponents, IInv, MetaInv, Stocked, ReadyAfterLoad
<1>4. inFlight' = InFlightAfterLoad /\ inFlight \subseteq InFlightAfterLoad
      /\ InFlightAfterLoad \subseteq Entities
  BY EntityTypes DEF LoadComponents, InFlightAfterLoad, IInv, MetaInv
<1>5. CASE EndTask("failed") /\ orphans' = orphans \cup {Slots[k].entity : k \in DOMAIN Slots}
  <2>1. TaskInv' /\ AwaitedBy(task') = {}
    BY <1>5, EndTaskKeeps
  <2>2. orphans' \subseteq inFlight'
    BY <1>2, <1>4, <1>5 DEF IInv, MetaInv
  <2>. QED
    BY <1>3, <1>4, <2>1, <2>2 DEF MetaInv
<1>6. CASE /\ task' = [task EXCEPT !.slots = Slots, !.ok = TRUE,
                                   !.checkOnly = task.netmode = "Offline" /\ Slots = <<>>]
           /\ phase' = IF Slots = <<>> THEN "resolving" ELSE "waiting"
           /\ UNCHANGED <<result, orphans>>
  <2>. DEFINE b == task.netmode = "Offline" /\ Slots = <<>>
  <2>1. b \in BOOLEAN
    OBVIOUS
  <2>2. task' = [task EXCEPT !.slots = Slots, !.ok = TRUE, !.checkOnly = b]
    BY <1>6
  <2>. HIDE DEF b
  <2>3. task' \in Task /\ task'.slots = Slots
    BY <1>1, <1>2, <2>1, <2>2 DEF Task
  <2>4. task' # NoTask
    BY <2>3, PackProfileAssumption
  <2>5. TaskInv'
    BY <1>6, <2>3, <2>4 DEF TaskInv, IInv
  <2>6. AwaitedBy(task') \subseteq inFlight'
    BY <1>2, <1>4, <2>3, <2>4 DEF AwaitedBy
  <2>7. orphans' \subseteq inFlight'
    BY <1>4, <1>6 DEF IInv, MetaInv
  <2>. QED
    BY <1>3, <1>4, <2>5, <2>6, <2>7 DEF MetaInv
<1>. QED
  BY <1>5, <1>6 DEF LoadComponents

\* An answer finishes the slots that wait for it, and nothing waits for it any more.
LEMMA AnsweredKeeps ==
  ASSUME IInv, NEW e, NEW success \in BOOLEAN, Answered(e, success)
  PROVE  /\ TaskInv' /\ AwaitedBy(task') \subseteq AwaitedBy(task) \ {e}
         /\ orphans' = orphans \ {e}
<1>1. orphans' = orphans \ {e}
  BY DEF Answered
<1>2. CASE SlotsFor(e) = {}
  <2>1. UNCHANGED <<task, phase, result>>
    BY <1>2 DEF Answered, taskVars
  <2>2. e \notin AwaitedBy(task)
    BY <1>2 DEF SlotsFor, AwaitedBy
  <2>. QED
    BY <1>1, <2>1, <2>2 DEF IInv, TaskInv
<1>3. CASE SlotsFor(e) # {}
  <2>1. task # NoTask /\ task \in Task /\ TaskInv
    BY <1>3 DEF SlotsFor, IInv, TaskInv
  <2>2. /\ Finished(e) \in Seq(Slot) /\ DOMAIN Finished(e) = DOMAIN task.slots
        /\ \A k \in DOMAIN task.slots :
              /\ Finished(e)[k].entity = task.slots[k].entity
              /\ Finished(e)[k].finished <=> task.slots[k].finished \/ task.slots[k].entity = e
    BY <2>1, FinishedType
  <2>3. phase # "idle" /\ task.ok \in BOOLEAN /\ (task.ok /\ success) \in BOOLEAN
    BY <2>1 DEF IInv, TaskInv, Task
  <2>4. CASE task' = [task EXCEPT !.slots = Finished(e), !.ok = task.ok /\ success]
             /\ UNCHANGED <<phase, result>>
    <3>. DEFINE b == task.ok /\ success
    <3>1. task' = [task EXCEPT !.slots = Finished(e), !.ok = b] /\ b \in BOOLEAN
      BY <2>3, <2>4
    <3>. HIDE DEF b
    <3>2. task' \in Task /\ task'.slots = Finished(e)
      BY <2>1, <2>2, <3>1 DEF Task
    <3>3. task' # NoTask
      BY <3>2, PackProfileAssumption
    <3>4. TaskInv'
      BY <2>3, <2>4, <3>2, <3>3 DEF TaskInv, IInv
    <3>5. AwaitedBy(task') \subseteq AwaitedBy(task) \ {e}
      BY <2>1, <2>2, <3>2, <3>3 DEF AwaitedBy
    <3>. QED
      BY <1>1, <3>4, <3>5
  <2>5. CASE task' = [task EXCEPT !.slots = <<>>, !.checkOnly = FALSE]
             /\ phase' = "resolving" /\ UNCHANGED result
    <3>. DEFINE none == <<>>
    <3>0. none \in Seq(Slot) /\ none = <<>>
      OBVIOUS
    <3>1. task' = [task EXCEPT !.slots = none, !.checkOnly = FALSE]
      BY <2>5
    <3>. HIDE DEF none
    <3>1a. task' \in Task /\ task'.slots = none
      BY <2>1, <3>0, <3>1 DEF Task
    <3>2. task' # NoTask
      BY <3>1a, PackProfileAssumption
    <3>3. TaskInv' /\ AwaitedBy(task') = {}
      BY <2>5, <3>0, <3>1a, <3>2 DEF TaskInv, IInv, AwaitedBy
    <3>. QED
      BY <1>1, <3>3
  <2>6. CASE EndTask("failed")
    BY <1>1, <2>6, EndTaskKeeps
  <2>. QED
    BY <1>3, <2>4, <2>5, <2>6 DEF Answered
<1>. QED
  BY <1>2, <1>3

LEMMA AnswersMeta ==
  ASSUME IInv, NEW e \in inFlight, RemoteSucceeds(e) \/ RemoteFails(e)
  PROVE  TaskInv' /\ MetaInv'
<1>0. fault = "none"
  BY DEF RemoteSucceeds, RemoteFails, RemoteAnswer, Free
<1>1. CASE RemoteFails(e)
  <2>1. Answered(e, FALSE) /\ inFlight' = inFlight \ {e} /\ UNCHANGED <<ready, local>>
    BY <1>1 DEF RemoteFails
  <2>2. /\ TaskInv' /\ AwaitedBy(task') \subseteq AwaitedBy(task) \ {e}
        /\ orphans' = orphans \ {e}
    BY <2>1, AnsweredKeeps
  <2>. QED
    BY <1>0, <2>1, <2>2 DEF IInv, MetaInv, Stocked
<1>2. CASE RemoteSucceeds(e)
  <2>1. Stocked'
    BY <1>2 DEF RemoteSucceeds, IInv, MetaInv, Stocked
  <2>2. CASE /\ inFlight' = (inFlight \ {e}) \cup AskedAgain(e, ready \cup {e})
             /\ Answered(e, TRUE)
    <3>1. AskedAgain(e, ready \cup {e}) \subseteq Entities
      <4>1. Attributed(e) \subseteq Component
        BY RowsOfList DEF Attributed, IInv, ListInv, RowsFit
      <4>. QED
        BY <4>1, EntityTypes DEF AskedAgain
    <3>2. /\ TaskInv' /\ AwaitedBy(task') \subseteq AwaitedBy(task) \ {e}
          /\ orphans' = orphans \ {e}
      BY <2>2, AnsweredKeeps
    <3>. QED
      BY <1>0, <2>1, <2>2, <3>1, <3>2 DEF IInv, MetaInv
  <2>3. CASE fault' = "null" /\ inFlight' = inFlight \ {e} /\ orphans' = orphans \ {e}
             /\ UNCHANGED taskVars
    BY <2>1, <2>3 DEF IInv, MetaInv, TaskInv, taskVars
  <2>. QED
    BY <1>2, <2>2, <2>3 DEF RemoteSucceeds
<1>. QED
  BY <1>1, <1>2

\* A turn of the removal loop leaves the task what it is.
LEMMA TurnedTask ==
  ASSUME IInv, RemoveObsolete
  PROVE  /\ task' # NoTask /\ task' \in Task /\ task'.slots = task.slots
         /\ task'.checkOnly = task.checkOnly
         /\ result' = result /\ phase = "resolving" /\ phase' = phase
<1>1. task \in Task /\ phase = "resolving"
  BY DEF IInv, TaskInv, RemoveObsolete, Resolving
<1>2. PICK b \in BOOLEAN : task' = [task EXCEPT !.again = b]
  <2>1. PICK gone : task' = [task EXCEPT !.again = IF gone = {} THEN ~@ ELSE @]
    BY DEF RemoveObsolete
  <2>. DEFINE b == IF gone = {} THEN ~task.again ELSE task.again
  <2>2. b \in BOOLEAN
    BY <1>1 DEF Task
  <2>3. task' = [task EXCEPT !.again = b]
    BY <1>1, <2>1 DEF Task
  <2>. QED
    BY <2>2, <2>3
<1>3. task' \in Task /\ task'.slots = task.slots /\ task'.checkOnly = task.checkOnly
  BY <1>1, <1>2 DEF Task
<1>. QED
  BY <1>1, <1>3, PackProfileAssumption DEF RemoveObsolete

LEMMA ResolvingMeta ==
  ASSUME IInv, RemoveObsolete \/ ApplyChanges \/ ResolutionFails \/ ResolutionSucceeds
  PROVE  TaskInv' /\ MetaInv'
<1>1. UNCHANGED <<ready, local, inFlight, orphans, fault>>
  BY DEF RemoveObsolete, ApplyChanges, ResolutionFails, ResolutionSucceeds, metaVars
<1>2. CASE ApplyChanges
  <2>1. /\ task' = task /\ result' = result /\ phase = "resolving"
        /\ phase' = "loading"
    BY <1>2 DEF ApplyChanges, Resolving
  <2>. QED
    BY <1>1, <2>1 DEF IInv, TaskInv, MetaInv, Stocked
<1>2a. CASE RemoveObsolete
  <2>1. /\ task' # NoTask /\ task' \in Task /\ task'.slots = task.slots
        /\ result' = result /\ phase = "resolving" /\ phase' = phase
    BY <1>2a, TurnedTask
  <2>2. AwaitedBy(task') \subseteq AwaitedBy(task)
    BY <2>1 DEF AwaitedBy, IInv, TaskInv
  <2>. QED
    BY <1>1, <2>1, <2>2 DEF IInv, TaskInv, MetaInv, Stocked
<1>3. CASE ResolutionFails \/ ResolutionSucceeds
  <2>1. EndTask("failed") \/ EndTask("succeeded")
    BY <1>3 DEF ResolutionFails, ResolutionSucceeds
  <2>2. TaskInv' /\ AwaitedBy(task') = {}
    BY <2>1, EndTaskKeeps
  <2>. QED
    BY <1>1, <2>2 DEF IInv, MetaInv, Stocked
<1>. QED
  BY <1>2, <1>2a, <1>3

LEMMA ReloadMeta ==
  ASSUME IInv, NEW m \in {"Online", "Offline"}, NEW cs, NEW index, NEW wasDirty,
         Reload(m, cs, index, wasDirty), fault = "none",
         UNCHANGED <<ready, local, inFlight, fault>>
  PROVE  TaskInv' /\ MetaInv'
<1>1. CASE UNCHANGED <<task, phase, result, orphans>>
  BY <1>1 DEF IInv, TaskInv, MetaInv, Stocked
<1>2. CASE StartTask(m)
  BY <1>2, StartTaskKeeps
<1>. QED
  BY <1>1, <1>2 DEF Reload, taskVars

LEMMA UserMeta ==
  ASSUME IInv, UserStep
  PROVE  TaskInv' /\ MetaInv'
<1>1. ASSUME NEW m \in Netmodes, ReloadList(m) PROVE TaskInv' /\ MetaInv'
  BY <1>1, ReloadMeta, PackProfileAssumption DEF ReloadList, Edit, Free
<1>2. ASSUME NEW i \in DOMAIN components, RemoveComponent(i) PROVE TaskInv' /\ MetaInv'
  <2>1. \E cs, index, wasDirty : Reload("Online", cs, index, wasDirty)
    BY <1>2 DEF RemoveComponent
  <2>2. fault = "none" /\ UNCHANGED <<ready, local, inFlight, fault>>
    BY <1>2 DEF RemoveComponent, Edit, Free
  <2>. QED
    BY <2>1, <2>2, ReloadMeta
<1>3. CASE UNCHANGED <<taskVars, metaVars, fault>>
  BY <1>3 DEF IInv, TaskInv, MetaInv, Stocked, taskVars, metaVars
<1>4. ASSUME NEW i \in DOMAIN components,
             \/ \E above \in BOOLEAN : MoveComponent(i, above)
             \/ ToggleEnabled(i) \/ CustomizeComponent(i) \/ RevertComponent(i)
      PROVE  TaskInv' /\ MetaInv'
  BY <1>3, <1>4 DEF MoveComponent, ToggleEnabled, CustomizeComponent, RevertComponent, Edit
<1>5. ASSUME NEW u \in Uids, NEW v, ChangeVersion(u, v) PROVE TaskInv' /\ MetaInv'
  <2>1. /\ StartTask("Online") /\ fault = "none"
        /\ UNCHANGED <<ready, local, inFlight, fault>>
    BY <1>5 DEF ChangeVersion, Edit, Free
  <2>. QED
    BY <2>1, StartTaskKeeps
<1>6. ASSUME NEW u \in Uids, InstallLocal(u) PROVE TaskInv' /\ MetaInv'
  BY <1>3, <1>6 DEF InstallLocal, Edit
<1>. QED
  BY <1>1, <1>2, <1>4, <1>5, <1>6 DEF UserStep

LEMMA MetaKept ==
  ASSUME IInv, [Next]_vars
  PROVE  TaskInv' /\ MetaInv'
<1>1. CASE UNCHANGED <<taskVars, metaVars, fault>>
  BY <1>1 DEF IInv, TaskInv, MetaInv, Stocked, taskVars, metaVars
<1>2. CASE \/ SaveTimeout
           \/ \E v \in PublishedVersions(Minecraft) : CreateInstance(v)
           \/ UNCHANGED vars
  BY <1>1, <1>2 DEF SaveTimeout, CreateInstance, vars
<1>3. ASSUME NEW i \in DOMAIN components, DrawRow(i) PROVE TaskInv' /\ MetaInv'
  <2>1. Lacking({components[i]}, ready) \subseteq Entities
    BY EntityTypes, RowsOfList DEF IInv, ListInv, RowsFit
  <2>. QED
    BY <1>3, <2>1 DEF DrawRow, IInv, TaskInv, MetaInv, Stocked, taskVars
<1>4. CASE Exit \/ Crash
  <2>1. Restart
    BY <1>4 DEF Exit, Crash
  <2>2. TaskInv' /\ AwaitedBy(task') = {}
    BY <2>1, EndTaskKeeps DEF Restart
  <2>. QED
    BY <2>1, <2>2 DEF Restart, IInv, MetaInv, Stocked
<1>5. CASE ResolverStep
  BY <1>5, LoadingMeta, ResolvingMeta DEF ResolverStep
<1>6. CASE NetworkStep
  BY <1>6, AnswersMeta DEF NetworkStep
<1>. QED
  BY <1>2, <1>3, <1>4, <1>5, <1>6, UserMeta DEF Next

--------------------------------------------------------------------------------
(***************************************************************************)
(* What every step does to the flags, the file and the bounds.             *)
(***************************************************************************)
LEMMA ScheduleSaveType ==
  ASSUME RestInv, NEW change, ScheduleSave(loaded, change), loaded' = loaded
  PROVE  /\ dirty' \in BOOLEAN /\ saveTimer' \in BOOLEAN
         /\ dirty' \/ saveTimer' => loaded'
         /\ dirty' <=> dirty \/ (loaded /\ change)
<1>. DEFINE b == dirty \/ (loaded /\ change)
            t == saveTimer \/ (loaded /\ change)
<1>1. b \in BOOLEAN /\ t \in BOOLEAN
  OBVIOUS
<1>2. dirty' = b /\ saveTimer' = t
  BY DEF ScheduleSave
<1>. QED
  BY <1>1, <1>2 DEF RestInv

LEMMA WrittenType ==
  ASSUME NEW old \in Seq(PersistedComponent), NEW cs \in Seq(Component),
         NEW new \in Written(old, cs)
  PROVE  new \in Seq(PersistedComponent)
BY SaveListType DEF Written

SameRest == UNCHANGED <<loaded, fault, disk, edits, crashes>>

LEMMA ScheduledRest ==
  ASSUME RestInv, NEW change, ScheduleSave(loaded, change), SameRest, disturbed' \in BOOLEAN
  PROVE  RestInv'
<1>1. loaded' = loaded
  BY DEF SameRest
<1>2. /\ dirty' \in BOOLEAN /\ saveTimer' \in BOOLEAN
      /\ dirty' \/ saveTimer' => loaded'
  BY <1>1, ScheduleSaveType
<1>. QED
  BY <1>2 DEF SameRest, RestInv

LEMMA UnchangedRest ==
  ASSUME RestInv, UNCHANGED saveVars, UNCHANGED <<loaded, disk, boundVars>>,
         fault' \in {"none", "dangling", "null"}
  PROVE  RestInv'
BY DEF RestInv, saveVars, boundVars

LEMMA ResolverRest ==
  ASSUME IInv, ResolverStep
  PROVE  RestInv'
<1>. RestInv
  BY DEF IInv
<1>1. CASE LoadComponents
  <2>1. SameRest /\ \E change : ScheduleSave(loaded, change)
    BY <1>1 DEF LoadComponents, SameRest
  <2>2. disturbed' \in BOOLEAN
    <3>. DEFINE b == disturbed \/ Slots # <<>>
    <3>1. b \in BOOLEAN
      OBVIOUS
    <3>2. disturbed' = b \/ disturbed' = disturbed
      BY <1>1 DEF LoadComponents
    <3>. HIDE DEF b
    <3>. QED
      BY <3>1, <3>2 DEF RestInv
  <2>. QED
    BY <2>1, <2>2, ScheduledRest
<1>2. CASE RemoveObsolete
  <2>1. SameRest /\ disturbed' \in BOOLEAN /\ \E change : ScheduleSave(loaded, change)
    BY <1>2 DEF RemoveObsolete, SameRest, boundVars, RestInv
  <2>. QED
    BY <2>1, ScheduledRest
<1>3. CASE ApplyChanges
  <2>1. SameRest /\ disturbed' \in BOOLEAN /\ \E change : ScheduleSave(loaded, change)
    BY <1>3 DEF ApplyChanges, SameRest, boundVars, RestInv
  <2>. QED
    BY <2>1, ScheduledRest
<1>4. CASE ResolutionFails \/ ResolutionSucceeds
  BY <1>4, UnchangedRest DEF ResolutionFails, ResolutionSucceeds, RestInv
<1>. QED
  BY <1>1, <1>2, <1>3, <1>4 DEF ResolverStep

LEMMA NetworkRest ==
  ASSUME IInv, NEW e \in inFlight, RemoteSucceeds(e) \/ RemoteFails(e)
  PROVE  RestInv'
<1>. RestInv
  BY DEF IInv
<1>1. CASE RemoteFails(e)
  BY <1>1, UnchangedRest DEF RemoteFails, RemoteAnswer
<1>2. CASE RemoteSucceeds(e)
  <2>1. CASE UNCHANGED <<saveVars, loaded, disk, boundVars>> /\ fault' = "null"
    BY <2>1, UnchangedRest
  <2>2. CASE /\ RemoteAnswer(e)
             /\ ScheduleSave(loaded, \/ SaveList(components') # SaveList(components)
                                     \/ Lacking(Attributed(e), ready') # {})
    <3>1. UNCHANGED <<loaded, disk, boundVars>> /\ fault' \in {"none", "dangling", "null"}
      BY <2>2 DEF RemoteAnswer
    <3>2. /\ dirty' \in BOOLEAN /\ saveTimer' \in BOOLEAN
          /\ dirty' \/ saveTimer' => loaded'
      BY <2>2, <3>1, ScheduleSaveType
    <3>. QED
      BY <3>1, <3>2 DEF RestInv, boundVars
  <2>. QED
    BY <1>2, <2>1, <2>2 DEF RemoteSucceeds
<1>. QED
  BY <1>1, <1>2

LEMMA ReloadRest ==
  ASSUME RestInv, NEW m, NEW cs \in Seq(Component), NEW index, NEW wasDirty \in BOOLEAN,
         wasDirty => loaded, disk # NoList, Reload(m, cs, index, wasDirty),
         fault' = fault, edits' = edits + 1, edits < MaxEdits, crashes' = crashes,
         disturbed' \in BOOLEAN
  PROVE  RestInv'
<1>1. edits' \in 0..MaxEdits /\ crashes' \in 0..MaxCrashes
  BY PackProfileAssumption DEF RestInv
<1>2. CASE UNCHANGED <<disk, loaded>> /\ dirty' = wasDirty /\ saveTimer' = wasDirty
  BY <1>1, <1>2 DEF RestInv
<1>3. CASE /\ disk' \in IF wasDirty THEN Written(disk, cs) ELSE {disk}
           /\ dirty' = FALSE /\ saveTimer' = FALSE
           /\ IF disk' = BadList THEN loaded' = loaded ELSE loaded' = TRUE
  <2>1. loaded => disk' \in Seq(PersistedComponent)
    BY <1>3, WrittenType DEF RestInv
  <2>2. ~loaded => disk' = disk
    BY <1>3
  <2>3. loaded => disk' # BadList
    BY <2>1, PackProfileAssumption
  <2>4. disk' \in Seq(PersistedComponent) \/ (disk' = BadList /\ loaded' = loaded /\ ~loaded)
    BY <1>3, <2>1, <2>2, <2>3 DEF RestInv
  <2>5. /\ loaded' \in BOOLEAN /\ (loaded' => disk' \in Seq(PersistedComponent))
        /\ disk' \in Seq(PersistedComponent) \cup {NoList, BadList}
    <3>1. CASE disk' = BadList /\ loaded' = loaded /\ ~loaded
      <4>1. loaded = FALSE
        BY <3>1 DEF RestInv
      <4>. QED
        BY <3>1, <4>1
    <3>2. CASE disk' \in Seq(PersistedComponent)
      <4>1. loaded' \in BOOLEAN
        BY <1>3 DEF RestInv
      <4>. QED
        BY <3>2, <4>1
    <3>. QED
      BY <2>4, <3>1, <3>2
  <2>6. /\ dirty' \in BOOLEAN /\ saveTimer' \in BOOLEAN
        /\ dirty' \/ saveTimer' => loaded'
    BY <1>3
  <2>7. fault' \in {"none", "dangling", "null"}
    BY DEF RestInv
  <2>. QED
    BY <1>1, <2>5, <2>6, <2>7 DEF RestInv
<1>. QED
  BY <1>2, <1>3 DEF Reload

LEMMA EditRest ==
  ASSUME RestInv, NEW disturbs, Edit(disturbs)
  PROVE  /\ edits' \in 0..MaxEdits /\ edits' = edits + 1 /\ edits < MaxEdits
         /\ crashes' = crashes /\ fault' = fault /\ fault = "none"
         /\ disturbed' \in BOOLEAN
<1>. DEFINE b == disturbed \/ (disturbs /\ phase = "waiting")
<1>1. b \in BOOLEAN /\ disturbed' = b
  BY DEF Edit
<1>. QED
  BY <1>1, PackProfileAssumption DEF Edit, Free, RestInv

LEMMA UserRest ==
  ASSUME IInv, UserStep
  PROVE  RestInv'
<1>. RestInv /\ components \in Seq(Component)
  BY DEF IInv, ListInv, RowsFit
<1>1. ASSUME NEW m \in Netmodes, ReloadList(m) PROVE RestInv'
  BY <1>1, ReloadRest, EditRest DEF ReloadList, RestInv
<1>2. ASSUME NEW i \in DOMAIN components, RemoveComponent(i) PROVE RestInv'
  <2>1. PICK stuck \in StuckPatches :
          Reload("Online",
                 IF Refused(components[i], stuck) THEN components
                 ELSE RemoveAt(components, i),
                 IF Refused(components[i], stuck) THEN componentIndex
                 ELSE componentIndex \ {components[i].uid},
                 dirty \/ (loaded /\ ~Refused(components[i], stuck)))
    BY <1>2 DEF RemoveComponent
  <2>. DEFINE r == Refused(components[i], stuck)
              cs == IF r THEN components ELSE RemoveAt(components, i)
              ix == IF r THEN componentIndex ELSE componentIndex \ {components[i].uid}
              w == dirty \/ (loaded /\ ~r)
  <2>2. i \in 1..Len(components)
    BY RowsOfList
  <2>3. cs \in Seq(Component)
    BY <2>2, RemoveAtProperties
  <2>4. w \in BOOLEAN /\ (w => loaded)
    BY DEF RestInv
  <2>5. /\ disk # NoList /\ fault' = fault /\ edits' = edits + 1 /\ edits < MaxEdits
        /\ crashes' = crashes /\ disturbed' \in BOOLEAN
    BY <1>2, EditRest DEF RemoveComponent
  <2>6. Reload("Online", cs, ix, w)
    BY <2>1
  <2>. HIDE DEF r, cs, ix, w
  <2>. QED
    BY <2>3, <2>4, <2>5, <2>6, ReloadRest
<1>3. ASSUME NEW change, ScheduleSave(loaded, change), NEW disturbs, Edit(disturbs),
             UNCHANGED <<loaded, disk>>
      PROVE  RestInv'
  <2>1. /\ edits' \in 0..MaxEdits /\ crashes' = crashes /\ fault' = fault
        /\ disturbed' \in BOOLEAN
    BY <1>3, EditRest
  <2>2. /\ dirty' \in BOOLEAN /\ saveTimer' \in BOOLEAN
        /\ dirty' \/ saveTimer' => loaded'
    BY <1>3, ScheduleSaveType
  <2>. QED
    BY <1>3, <2>1, <2>2 DEF RestInv
<1>4. ASSUME NEW i \in DOMAIN components, NEW above \in BOOLEAN, MoveComponent(i, above)
      PROVE  RestInv'
  BY <1>3, <1>4 DEF MoveComponent
<1>5. ASSUME NEW i \in DOMAIN components, ToggleEnabled(i) PROVE RestInv'
  BY <1>3, <1>5 DEF ToggleEnabled
<1>6. ASSUME NEW i \in DOMAIN components, CustomizeComponent(i) \/ RevertComponent(i)
      PROVE  RestInv'
  BY <1>3, <1>6 DEF CustomizeComponent, RevertComponent
<1>7. ASSUME NEW u \in Uids, NEW v, ChangeVersion(u, v) PROVE RestInv'
  <2>1. Edit(TRUE) /\ UNCHANGED <<loaded, disk>> /\ \E change : ScheduleSave(loaded, change)
    BY <1>7 DEF ChangeVersion
  <2>. QED
    BY <1>3, <2>1
<1>8. ASSUME NEW u \in Uids, InstallLocal(u) PROVE RestInv'
  BY <1>3, <1>8 DEF InstallLocal
<1>. QED
  BY <1>1, <1>2, <1>4, <1>5, <1>6, <1>7, <1>8 DEF UserStep

LEMMA RestKept ==
  ASSUME IInv, [Next]_vars
  PROVE  RestInv'
<1>. RestInv /\ components \in Seq(Component)
  BY DEF IInv, ListInv, RowsFit
<1>1. CASE (\E i \in DOMAIN components : DrawRow(i)) \/ UNCHANGED vars
  BY <1>1, UnchangedRest DEF DrawRow, vars, RestInv
<1>2. CASE SaveTimeout
  <2>1. loaded => disk' \in Seq(PersistedComponent)
    BY <1>2, WrittenType DEF SaveTimeout, RestInv
  <2>2. loaded
    BY <1>2 DEF SaveTimeout, RestInv
  <2>. QED
    BY <1>2, <2>1, <2>2 DEF SaveTimeout, RestInv, boundVars
<1>3. ASSUME NEW v \in PublishedVersions(Minecraft), CreateInstance(v) PROVE RestInv'
  <2>1. v \in AnyVersion /\ Minecraft \in Uids
    BY PublishedVersionType, ComponentsAssumption
  <2>. DEFINE c == NewComponent(Minecraft, v, FALSE, TRUE)
  <2>2. c \in Component
    BY <2>1, NewComponentType
  <2>3. disk' = SaveList(<<c>>)
    BY <1>3 DEF CreateInstance
  <2>. HIDE DEF c
  <2>4. <<c>> \in Seq(Component)
    BY <2>2
  <2>5. disk' \in Seq(PersistedComponent)
    BY <2>3, <2>4, SaveListType
  <2>. QED
    BY <1>3, <2>5 DEF CreateInstance, RestInv, saveVars, boundVars
<1>4. CASE Exit \/ Crash
  <2>1. disk' \in Seq(PersistedComponent) \cup {NoList, BadList}
    BY <1>4, WrittenType DEF Exit, Crash, RestInv
  <2>2. crashes' \in 0..MaxCrashes /\ edits' = edits
    BY <1>4, PackProfileAssumption DEF Exit, Crash, Restart, RestInv
  <2>. QED
    BY <1>4, <2>1, <2>2 DEF Exit, Crash, Restart, RestInv
<1>5. CASE NetworkStep
  BY <1>5, NetworkRest DEF NetworkStep
<1>. QED
  BY <1>1, <1>2, <1>3, <1>4, <1>5, ResolverRest, UserRest DEF Next

LEMMA InitIInv == Init => IInv
<1>. SUFFICES ASSUME Init PROVE IInv
  OBVIOUS
<1>1. ListInv
  <2>. DEFINE none == <<>>
  <2>1. none \in Seq(Component) /\ DOMAIN none = {}
    OBVIOUS
  <2>2. components = none /\ componentIndex = {} /\ patches \in Patches
    BY PackProfileAssumption DEF Init, Patches
  <2>. HIDE DEF none
  <2>. QED
    BY <2>1, <2>2 DEF ListInv, RowsFit, UidsOf, Distinct, CustomFits
<1>2. MetaInv /\ TaskInv
  BY DEF Init, MetaInv, Stocked, TaskInv, AwaitedBy
<1>3. RestInv
  <2>1. disk \in Seq(PersistedComponent) \cup {NoList, BadList}
    BY PackProfileAssumption DEF Init
  <2>2. 0 \in 0..MaxEdits /\ 0 \in 0..MaxCrashes
    BY PackProfileAssumption
  <2>. QED
    BY <2>1, <2>2 DEF Init, RestInv
<1>. QED
  BY <1>1, <1>2, <1>3 DEF IInv

\* The types, the list with its index and patches, the meta data, the task, the flags and
\* the file fit together after every step of the program.
THEOREM Invariance == Spec => []IInv
<1>1. Init => IInv
  BY InitIInv
<1>2. IInv /\ [Next]_vars => IInv'
  <2>. SUFFICES ASSUME IInv, [Next]_vars PROVE IInv'
    OBVIOUS
  <2>1. ListInv'
    BY ListKept
  <2>2. TaskInv' /\ MetaInv'
    BY MetaKept
  <2>3. RestInv'
    BY RestKept
  <2>. QED
    BY <2>1, <2>2, <2>3 DEF IInv
<1>. QED
  BY <1>1, <1>2, PTL DEF Spec

\* d->components and d->componentIndex agree: whatever is loaded, injected, removed,
\* replaced or moved, no uid is listed twice, none that is listed is missing from the
\* index, and the index finds none that is not listed.
THEOREM ListAndIndex == Spec => []IndexMatchesList
<1>1. IInv => IndexMatchesList
  BY IInvImplies
<1>. QED
  BY <1>1, Invariance, PTL

\* A component that claims to be custom (isCustom()) has its file in the patches folder,
\* with the same contents, even when removing a patch file fails; but for a file that an
\* installation wrote, and whose writing, which is not checked, was cut short.
THEOREM CustomIsBacked == Spec => []CustomMatchesPatch
<1>1. IInv => CustomMatchesPatch
  BY IInvImplies
<1>. QED
  BY <1>1, Invariance, PTL

--------------------------------------------------------------------------------
(***************************************************************************)
(* The file is only written from a list that was read.                     *)
(***************************************************************************)
LEMMA WrittenWhenLoaded ==
  ASSUME IInv, [Next]_vars
  PROVE  disk' # disk => loaded \/ disk = NoList
<1>1. dirty \/ saveTimer => loaded
  BY DEF IInv, RestInv
<1>2. ASSUME NEW m, NEW cs, NEW index, NEW wasDirty, wasDirty => loaded,
             Reload(m, cs, index, wasDirty)
      PROVE  disk' # disk => loaded
  BY <1>2 DEF Reload
<1>3. CASE UserStep
  <2>1. ASSUME NEW i \in DOMAIN components, RemoveComponent(i) PROVE disk' # disk => loaded
    BY <1>1, <1>2, <2>1 DEF RemoveComponent
  <2>2. ASSUME NEW m \in Netmodes, ReloadList(m) PROVE disk' # disk => loaded
    BY <1>1, <1>2, <2>2 DEF ReloadList
  <2>3. CASE \E u \in Uids : \E v \in PublishedVersions(u) : ChangeVersion(u, v)
    BY <2>3 DEF ChangeVersion
  <2>. QED
    BY <1>3, <2>1, <2>2, <2>3
       DEF UserStep, MoveComponent, ToggleEnabled, CustomizeComponent, RevertComponent,
           InstallLocal
<1>4. CASE ResolverStep
  BY <1>4 DEF ResolverStep, LoadComponents, RemoveObsolete, ResolutionFails,
              ResolutionSucceeds, ApplyChanges
<1>5. CASE NetworkStep
  BY <1>5 DEF NetworkStep, RemoteSucceeds, RemoteFails, RemoteAnswer
<1>6. CASE SaveTimeout \/ Exit \/ Crash \/ UNCHANGED vars
  BY <1>1, <1>6 DEF SaveTimeout, Exit, Crash, Restart, vars
<1>7. CASE \/ \E i \in DOMAIN components : DrawRow(i)
           \/ \E v \in PublishedVersions(Minecraft) : CreateInstance(v)
  BY <1>7 DEF DrawRow, CreateInstance
<1>. QED
  BY <1>3, <1>4, <1>5, <1>6, <1>7 DEF Next

\* "should never save if it didn't successfully load": whatever is edited, resolved,
\* answered, reloaded or ended, mmc-pack.json is only written from a list that was read
\* from it, or when it does not exist.
THEOREM UnreadableIsSafe == Spec => UnloadedListNotSaved
<1>1. IInv /\ [Next]_vars => [disk' # disk => loaded \/ disk = NoList]_vars
  BY WrittenWhenLoaded
<1>. QED
  BY <1>1, Invariance, PTL DEF Spec, UnloadedListNotSaved

--------------------------------------------------------------------------------
(***************************************************************************)
(* With every write succeeding, a clean list is what the file restores.    *)
(***************************************************************************)
LEMMA ScheduledClean ==
  ASSUME IInv, NothingLostWhenClean, NEW change, ScheduleSave(loaded, change),
         UNCHANGED <<loaded, disk>>, fault' = "none" => fault = "none",
         ~change => SaveList(components') = SaveList(components)
  PROVE  NothingLostWhenClean'
<1>1. dirty' <=> dirty \/ (loaded /\ change)
  BY ScheduleSaveType DEF IInv
<1>. QED
  BY <1>1 DEF NothingLostWhenClean

LEMMA UnchangedClean ==
  ASSUME NothingLostWhenClean, UNCHANGED <<components, dirty, loaded, disk>>,
         fault' = "none" => fault = "none"
  PROVE  NothingLostWhenClean'
BY DEF NothingLostWhenClean

LEMMA ReloadClean ==
  ASSUME ~WritesMayFail, IInv, NothingLostWhenClean, NEW m, NEW cs \in Seq(Component),
         NEW index, NEW wasDirty \in BOOLEAN, wasDirty => loaded, disk # NoList,
         ~wasDirty => ~loaded \/ (cs = components /\ ~dirty),
         Reload(m, cs, index, wasDirty), fault' = fault
  PROVE  NothingLostWhenClean'
<1>. RestInv
  BY DEF IInv
<1>1. CASE components' = cs /\ dirty' = wasDirty /\ UNCHANGED <<disk, loaded>>
  BY <1>1 DEF NothingLostWhenClean
<1>2. CASE /\ disk' \in IF wasDirty THEN Written(disk, cs) ELSE {disk}
           /\ disk' = BadList /\ loaded' = loaded
  <2>1. ~loaded
    BY <1>2, WrittenType, PackProfileAssumption DEF RestInv
  <2>. QED
    BY <1>2, <2>1 DEF NothingLostWhenClean
<1>3. CASE /\ disk' \in IF wasDirty THEN Written(disk, cs) ELSE {disk}
           /\ disk' # BadList /\ components' = LoadList(disk')
  <2>1. disk' \in Seq(PersistedComponent)
    BY <1>3, WrittenType DEF RestInv
  <2>2. LoadList(SaveList(components')) = components'
    BY <1>3, <2>1, LoadAgain
  <2>. QED
    BY <1>3, <2>2 DEF NothingLostWhenClean
<1>. QED
  BY <1>1, <1>2, <1>3 DEF Reload

LEMMA ResolverClean ==
  ASSUME IInv, NothingLostWhenClean, ResolverStep
  PROVE  NothingLostWhenClean'
<1>1. CASE LoadComponents
  BY <1>1, ScheduledClean DEF LoadComponents
<1>2. CASE RemoveObsolete
  <2>1. PICK gone : /\ components' = Without(components, gone)
                    /\ ScheduleSave(loaded, gone # {})
    BY <1>2 DEF RemoveObsolete
  <2>2. gone = {} => components' = components
    <3>1. {i \in DOMAIN components : components[i].uid \notin {}} = DOMAIN components
      OBVIOUS
    <3>2. components \in Seq(Component)
      BY DEF IInv, ListInv, RowsFit
    <3>3. Select(components, DOMAIN components) = components
      BY <3>2, SelectAll
    <3>. QED
      BY <2>1, <3>1, <3>3 DEF Without
  <2>. QED
    BY <1>2, <2>1, <2>2, ScheduledClean DEF RemoveObsolete
<1>3. CASE ApplyChanges
  BY <1>3, ScheduledClean DEF ApplyChanges
<1>4. CASE ResolutionFails \/ ResolutionSucceeds
  BY <1>4, UnchangedClean DEF ResolutionFails, ResolutionSucceeds, listVars, saveVars
<1>. QED
  BY <1>1, <1>2, <1>3, <1>4 DEF ResolverStep

LEMMA NetworkClean ==
  ASSUME IInv, NothingLostWhenClean, NEW e \in inFlight, RemoteSucceeds(e) \/ RemoteFails(e)
  PROVE  NothingLostWhenClean'
<1>0. fault = "none"
  BY DEF RemoteSucceeds, RemoteFails, RemoteAnswer, Free
<1>1. CASE RemoteFails(e)
  BY <1>0, <1>1, UnchangedClean DEF RemoteFails, RemoteAnswer, saveVars
<1>2. CASE RemoteSucceeds(e)
  <2>1. CASE UNCHANGED <<listVars, saveVars, loaded, disk>>
    BY <1>0, <2>1, UnchangedClean DEF listVars, saveVars
  <2>2. CASE /\ RemoteAnswer(e)
             /\ ScheduleSave(loaded, \/ SaveList(components') # SaveList(components)
                                     \/ Lacking(Attributed(e), ready') # {})
    BY <1>0, <2>2, ScheduledClean DEF RemoteAnswer
  <2>. QED
    BY <1>2, <2>1, <2>2 DEF RemoteSucceeds
<1>. QED
  BY <1>1, <1>2

LEMMA UserClean ==
  ASSUME ~WritesMayFail, IInv, NothingLostWhenClean, UserStep
  PROVE  NothingLostWhenClean'
<1>. RestInv /\ components \in Seq(Component)
  BY DEF IInv, ListInv, RowsFit
<1>1. ASSUME NEW m \in Netmodes, ReloadList(m) PROVE NothingLostWhenClean'
  BY <1>1, ReloadClean DEF ReloadList, Edit, RestInv
<1>2. ASSUME NEW i \in DOMAIN components, RemoveComponent(i) PROVE NothingLostWhenClean'
  <2>1. PICK stuck \in StuckPatches :
          Reload("Online",
                 IF Refused(components[i], stuck) THEN components
                 ELSE RemoveAt(components, i),
                 IF Refused(components[i], stuck) THEN componentIndex
                 ELSE componentIndex \ {components[i].uid},
                 dirty \/ (loaded /\ ~Refused(components[i], stuck)))
    BY <1>2 DEF RemoveComponent
  <2>. DEFINE r == Refused(components[i], stuck)
              cs == IF r THEN components ELSE RemoveAt(components, i)
              ix == IF r THEN componentIndex ELSE componentIndex \ {components[i].uid}
              w == dirty \/ (loaded /\ ~r)
  <2>2. i \in 1..Len(components)
    BY RowsOfList
  <2>3. cs \in Seq(Component)
    BY <2>2, RemoveAtProperties
  <2>4. w \in BOOLEAN /\ (w => loaded) /\ (~w => ~loaded \/ (cs = components /\ ~dirty))
    BY DEF RestInv
  <2>5. disk # NoList /\ fault' = fault
    BY <1>2 DEF RemoveComponent, Edit
  <2>6. Reload("Online", cs, ix, w)
    BY <2>1
  <2>. HIDE DEF r, cs, ix, w
  <2>. QED
    BY <2>3, <2>4, <2>5, <2>6, ReloadClean
<1>3. ASSUME NEW change, ScheduleSave(loaded, change), NEW disturbs, Edit(disturbs),
             UNCHANGED <<loaded, disk>>, ~change => components' = components
      PROVE  NothingLostWhenClean'
  BY <1>3, ScheduledClean DEF Edit
<1>4. ASSUME NEW i \in DOMAIN components, NEW above \in BOOLEAN, MoveComponent(i, above)
      PROVE  NothingLostWhenClean'
  BY <1>3, <1>4 DEF MoveComponent
<1>5. ASSUME NEW i \in DOMAIN components, ToggleEnabled(i) PROVE NothingLostWhenClean'
  BY <1>3, <1>5 DEF ToggleEnabled
<1>6. ASSUME NEW i \in DOMAIN components, CustomizeComponent(i) \/ RevertComponent(i)
      PROVE  NothingLostWhenClean'
  BY <1>3, <1>6 DEF CustomizeComponent, RevertComponent
<1>7. ASSUME NEW u \in Uids, NEW v, ChangeVersion(u, v) PROVE NothingLostWhenClean'
  <2>1. Edit(TRUE) /\ UNCHANGED <<loaded, disk>>
        /\ (ScheduleSave(loaded, TRUE) \/ ScheduleSave(loaded, components' # components))
    BY <1>7 DEF ChangeVersion
  <2>. QED
    BY <1>3, <2>1
<1>8. ASSUME NEW u \in Uids, InstallLocal(u) PROVE NothingLostWhenClean'
  BY <1>3, <1>8 DEF InstallLocal
<1>. QED
  BY <1>1, <1>2, <1>4, <1>5, <1>6, <1>7, <1>8 DEF UserStep

LEMMA CleanKept ==
  ASSUME ~WritesMayFail, IInv, NothingLostWhenClean, [Next]_vars
  PROVE  NothingLostWhenClean'
<1>1. CASE (\E i \in DOMAIN components : DrawRow(i)) \/ UNCHANGED vars
  BY <1>1, UnchangedClean DEF DrawRow, vars, listVars, saveVars
<1>2. CASE SaveTimeout
  BY <1>2 DEF SaveTimeout, Written, NothingLostWhenClean, listVars
<1>3. CASE \/ \E v \in PublishedVersions(Minecraft) : CreateInstance(v)
           \/ Exit \/ Crash
  BY <1>3 DEF CreateInstance, Exit, Crash, Restart, NothingLostWhenClean
<1>4. CASE NetworkStep
  BY <1>4, NetworkClean DEF NetworkStep
<1>. QED
  BY <1>1, <1>2, <1>3, <1>4, ResolverClean, UserClean DEF Next

\* As long as mmc-pack.json can be written: when scheduleSave() has nothing pending, load()
\* would restore from the file exactly the list in memory, so a crash loses no edit.
THEOREM CrashLosesNothing ==
  ASSUME ~WritesMayFail
  PROVE  Spec => []NothingLostWhenClean
<1>1. Init => NothingLostWhenClean
  BY DEF Init, NothingLostWhenClean
<1>2. IInv /\ NothingLostWhenClean /\ [Next]_vars => NothingLostWhenClean'
  BY CleanKept
<1>. QED
  BY <1>1, <1>2, Invariance, PTL DEF Spec

--------------------------------------------------------------------------------
(***************************************************************************)
(* What the resolver may do to the rows.                                   *)
(***************************************************************************)
Mine(cs) == {i \in DOMAIN cs : ~cs[i].dependencyOnly}

\* Row i of cs stands at e[i] in ds, in the same order; the user's rows are all there.
Carries(cs, ds, e) ==
  /\ e \in [Mine(cs) -> Mine(ds)]
  /\ \A i, j \in Mine(cs) : i < j => e[i] < e[j]
  /\ \A j \in Mine(ds) : \E i \in Mine(cs) : e[i] = j
  /\ \A i \in Mine(cs) : ds[e[i]].uid = cs[i].uid /\ ds[e[i]].version = cs[i].version

LEMMA SameChoices ==
  ASSUME NEW cs \in Seq(Component), NEW ds \in Seq(Component), NEW e, Carries(cs, ds, e)
  PROVE  UserChoices(ds) = UserChoices(cs)
<1>. DEFINE n == Cardinality(Mine(cs))
            a == Ascending(Mine(cs))
            p == Cardinality(Mine(ds))
            b == Ascending(Mine(ds))
            s == [k \in 1..n |-> e[a[k]]]
            x == Select(cs, Mine(cs))
            y == Select(ds, Mine(ds))
<1>0. Mine(cs) \subseteq DOMAIN cs /\ Mine(ds) \subseteq DOMAIN ds
  BY DEF Mine
<1>1. /\ n \in Nat /\ a \in [1..n -> Mine(cs)]
      /\ \A i, j \in 1..n : i < j => a[i] < a[j]
      /\ \A i \in Mine(cs) : \E k \in 1..n : a[k] = i
      /\ DOMAIN x = 1..n /\ \A k \in 1..n : x[k] = cs[a[k]]
  <2>. DEFINE rows == Mine(cs)
  <2>1. rows \subseteq DOMAIN cs
    BY <1>0
  <2>. HIDE DEF rows
  <2>2. /\ Cardinality(rows) \in Nat /\ Ascending(rows) \in [1..Cardinality(rows) -> rows]
        /\ \A i, j \in 1..Cardinality(rows) : i < j => Ascending(rows)[i] < Ascending(rows)[j]
        /\ \A i \in rows : \E k \in 1..Cardinality(rows) : Ascending(rows)[k] = i
        /\ DOMAIN Select(cs, rows) = 1..Cardinality(rows)
        /\ \A k \in 1..Cardinality(rows) : Select(cs, rows)[k] = cs[Ascending(rows)[k]]
    BY <2>1, SelectProperties
  <2>. QED
    BY <2>2 DEF rows
<1>2. /\ IsFiniteSet(Mine(ds)) /\ Mine(ds) \subseteq Nat
      /\ DOMAIN y = 1..p /\ \A k \in 1..p : y[k] = ds[b[k]]
  BY <1>0, SelectProperties
<1>3. UserChoices(cs) = [k \in DOMAIN x |-> <<x[k].uid, x[k].version>>]
  BY DEF UserChoices, Mine
<1>4. UserChoices(ds) = [k \in DOMAIN y |-> <<y[k].uid, y[k].version>>]
  BY DEF UserChoices, Mine
<1>. HIDE DEF n, a, p, b, x, y
<1>5. s \in [1..n -> Mine(ds)]
  BY <1>1 DEF Carries
<1>6. \A i, j \in 1..n : i < j => s[i] < s[j]
  BY <1>1 DEF Carries
<1>7. \A j \in Mine(ds) : \E k \in 1..n : s[k] = j
  <2>1. ASSUME NEW j \in Mine(ds) PROVE \E k \in 1..n : s[k] = j
    <3>1. PICK i \in Mine(cs) : e[i] = j
      BY DEF Carries
    <3>2. PICK k \in 1..n : a[k] = i
      BY <1>1
    <3>3. s[k] = j
      BY <3>1, <3>2
    <3>. QED
      BY <3>3
  <2>. QED
    BY <2>1
<1>8. \A k \in 1..n : s[k] = e[a[k]]
  OBVIOUS
<1>. HIDE DEF s
<1>9. n = p /\ s = b
  <2>1. n \in Nat /\ IsFiniteSet(Mine(ds)) /\ Mine(ds) \subseteq Nat
    BY <1>1, <1>2
  <2>2. n = Cardinality(Mine(ds)) /\ s = Ascending(Mine(ds))
    BY <1>5, <1>6, <1>7, <2>1, AscendingUnique
  <2>. QED
    BY <2>2 DEF p, b
<1>10. ASSUME NEW k \in 1..n PROVE y[k].uid = x[k].uid /\ y[k].version = x[k].version
  <2>1. a[k] \in Mine(cs) /\ y[k] = ds[e[a[k]]] /\ x[k] = cs[a[k]]
    BY <1>1, <1>2, <1>8, <1>9
  <2>. QED
    BY <2>1 DEF Carries
<1>. QED
  BY <1>1, <1>2, <1>3, <1>4, <1>9, <1>10

\* The rows of cs after one turn of the resolver, which adds the rows of `added`.
Turns(cs, ds, added, e) ==
  /\ e \in [DOMAIN cs -> DOMAIN ds]
  /\ \A i, j \in DOMAIN cs : i < j => e[i] < e[j]
  /\ \A i \in DOMAIN cs : /\ ds[e[i]].uid = cs[i].uid
                          /\ ds[e[i]].dependencyOnly = cs[i].dependencyOnly
                          /\ ~cs[i].dependencyOnly => ds[e[i]] = cs[i]
  /\ \A i \in DOMAIN ds :
       \/ \E j \in DOMAIN cs : e[j] = i
       \/ /\ ds[i].uid \in added /\ ds[i].dependencyOnly
          /\ \A d \in Dependees(cs, ds[i].uid) : i < e[d]

LEMMA ResolverTurns ==
  ASSUME NEW cs \in Seq(Component), Distinct(cs), NEW avail, OnlyPublished(avail)
  PROVE  LET reqs == GatherRequirements(cs)
             ds == ChangeVersions(AddDependencies(cs, reqs), reqs, avail, ToChange(cs, reqs))
         IN /\ ds \in Seq(Component) /\ Distinct(ds)
            /\ \E e : Turns(cs, ds, ToAdd(cs, reqs), e)
<1>. DEFINE reqs == GatherRequirements(cs)
            l == AddDependencies(cs, reqs)
            change == ToChange(cs, reqs)
            added == ToAdd(cs, reqs)
            ds == ChangeVersions(l, reqs, avail, change)
<1>1. Enlarged(cs, l, added)
  BY AddDependenciesEnlarges
<1>2. \A u \in change : reqs[u].equals \in AnyVersion
  <2>1. \A u \in change : u \in RequiredUids(cs)
    BY DEF ToChange, GatherRequirements
  <2>. QED
    BY <2>1, GatherType DEF Gathered
<1>3. \A i \in DOMAIN cs : cs[i].uid \in change => cs[i].dependencyOnly
  <2>1. ASSUME NEW i \in DOMAIN cs, cs[i].uid \in change PROVE cs[i].dependencyOnly
    <3>1. MayChange(cs[IndexOf(cs, cs[i].uid)])
      BY <2>1 DEF ToChange
    <3>2. cs[i].uid \in UidsOf(cs)
      BY DEF UidsOf
    <3>3. IndexOf(cs, cs[i].uid) = i
      BY <3>2, IndexOfProperties DEF Distinct
    <3>. QED
      BY <3>1, <3>3 DEF MayChange
  <2>. QED
    BY <2>1
<1>. HIDE DEF l, reqs, change, added
<1>4. l \in Seq(Component) /\ Distinct(l)
  BY <1>1 DEF Enlarged
<1>5. /\ ds \in Seq(Component) /\ DOMAIN ds = DOMAIN l /\ Distinct(ds)
      /\ \A i \in DOMAIN l : /\ ds[i].uid = l[i].uid
                             /\ ds[i].dependencyOnly = l[i].dependencyOnly
                             /\ l[i].uid \notin change => ds[i] = l[i]
  BY <1>2, <1>4, ChangeVersionsType
<1>. HIDE DEF ds
<1>6. PICK e : Embeds(cs, l, added, e)
  BY <1>1 DEF Enlarged
<1>7. e \in [DOMAIN cs -> DOMAIN ds] /\ \A i, j \in DOMAIN cs : i < j => e[i] < e[j]
  BY <1>5, <1>6 DEF Embeds
<1>8. ASSUME NEW i \in DOMAIN cs
      PROVE  /\ ds[e[i]].uid = cs[i].uid
             /\ ds[e[i]].dependencyOnly = cs[i].dependencyOnly
             /\ ~cs[i].dependencyOnly => ds[e[i]] = cs[i]
  <2>1. e[i] \in DOMAIN l /\ l[e[i]] = cs[i]
    BY <1>6 DEF Embeds
  <2>. QED
    BY <1>3, <1>5, <2>1
<1>9. ASSUME NEW i \in DOMAIN ds
      PROVE  \/ \E j \in DOMAIN cs : e[j] = i
             \/ /\ ds[i].uid \in added /\ ds[i].dependencyOnly
                /\ \A d \in Dependees(cs, ds[i].uid) : i < e[d]
  <2>1. i \in DOMAIN l /\ ds[i].uid = l[i].uid /\ ds[i].dependencyOnly = l[i].dependencyOnly
    BY <1>5
  <2>. QED
    BY <1>6, <2>1 DEF Embeds, IsNew
<1>10. Turns(cs, ds, added, e)
  BY <1>7, <1>8, <1>9 DEF Turns
<1>. QED
  BY <1>5, <1>10 DEF l, reqs, change, added, ds

LEMMA LoadKeepsChoices ==
  ASSUME IInv, LoadComponents
  PROVE  UserChoices(components') = UserChoices(components)
<1>. DEFINE ds == components'
            e == [i \in Mine(components) |-> i]
<1>1. components \in Seq(Component) /\ Stocked /\ patches \in Patches
  BY DEF IInv, ListInv, RowsFit, MetaInv
<1>2. /\ DOMAIN ds = DOMAIN components /\ ds = [i \in DOMAIN components |-> ds[i]]
      /\ \A i \in DOMAIN components : ds[i] = LoadComponent(components[i])
  BY DEF LoadComponents
<1>3. \A i \in DOMAIN components : ds[i] \in Component /\ SameRow(components[i], ds[i])
  BY <1>1, <1>2, RowsOfList, LoadComponentType
<1>4. ds \in Seq(Component)
  BY <1>1, <1>2, <1>3, RowByRow DEF SameRow
<1>. HIDE DEF ds
<1>5. Mine(ds) = Mine(components)
  BY <1>2, <1>3 DEF Mine, SameRow
<1>6. Mine(components) \subseteq DOMAIN components
  BY DEF Mine
<1>7. Carries(components, ds, e)
  BY <1>3, <1>5, <1>6 DEF Carries, SameRow
<1>. HIDE DEF e
<1>. QED
  BY <1>1, <1>4, <1>7, SameChoices DEF ds

LEMMA RemovalKeepsChoices ==
  ASSUME IInv, RemoveObsolete
  PROVE  /\ UserChoices(components') = UserChoices(components)
         /\ UidsOf(components') \subseteq UidsOf(components)
<1>1. components \in Seq(Component) /\ Distinct(components)
  BY DEF IInv, ListInv, RowsFit
<1>2. PICK stuck : components' = Without(components,
                     {c.uid : c \in {r \in TrivialRemovals(components) : ~Refused(r, stuck)}})
  BY DEF RemoveObsolete
<1>. DEFINE gone == {c.uid : c \in {r \in TrivialRemovals(components) : ~Refused(r, stuck)}}
            ds == components'
            m == Ascending(Kept(components, gone))
            e == [k \in Mine(ds) |-> m[k]]
<1>3. \A i \in DOMAIN components : components[i].uid \in gone => components[i].dependencyOnly
  <2>1. ASSUME NEW i \in DOMAIN components, components[i].uid \in gone
        PROVE  components[i].dependencyOnly
    <3>1. PICK j \in DOMAIN components : /\ components[j].dependencyOnly
                                         /\ components[j].uid = components[i].uid
      BY <2>1 DEF TrivialRemovals
    <3>. QED
      BY <1>1, <3>1 DEF Distinct
  <2>. QED
    BY <2>1
<1>4. ds = Without(components, gone)
  BY <1>2
<1>. HIDE DEF gone, ds
<1>5. /\ ds \in Seq(Component) /\ Subrows(ds, components, m, gone)
      /\ \A k, h \in DOMAIN ds : k < h => m[k] < m[h]
  BY <1>1, <1>4, WithoutProperties
<1>. HIDE DEF m
<1>6. \A k \in DOMAIN ds : m[k] \in DOMAIN components /\ ds[k] = components[m[k]]
  BY <1>5 DEF Subrows
<1>7. Mine(ds) \subseteq DOMAIN ds
  BY DEF Mine
<1>8. e \in [Mine(ds) -> Mine(components)]
  BY <1>6, <1>7 DEF Mine
<1>9. ASSUME NEW j \in Mine(components) PROVE \E k \in Mine(ds) : e[k] = j
  <2>1. j \in DOMAIN components /\ components[j].uid \notin gone
    BY <1>3 DEF Mine
  <2>2. PICK k \in DOMAIN ds : m[k] = j
    BY <1>5, <2>1 DEF Subrows
  <2>3. k \in Mine(ds)
    BY <1>6, <2>2 DEF Mine
  <2>. QED
    BY <2>2, <2>3
<1>10. Carries(ds, components, e)
  <2>1. \A i, j \in Mine(ds) : i < j => e[i] < e[j]
    BY <1>5, <1>7
  <2>2. \A i \in Mine(ds) : /\ components[e[i]].uid = ds[i].uid
                            /\ components[e[i]].version = ds[i].version
    BY <1>6, <1>7
  <2>. HIDE DEF e
  <2>. QED
    BY <1>8, <1>9, <2>1, <2>2 DEF Carries
<1>. HIDE DEF e
<1>11. UserChoices(components) = UserChoices(ds)
  BY <1>1, <1>5, <1>10, SameChoices
<1>12. UidsOf(ds) \subseteq UidsOf(components)
  BY <1>6 DEF UidsOf
<1>. QED
  BY <1>11, <1>12 DEF ds

LEMMA TurnKeepsChoices ==
  ASSUME NEW cs \in Seq(Component), NEW ds \in Seq(Component), NEW added, NEW f,
         Turns(cs, ds, added, f)
  PROVE  UserChoices(ds) = UserChoices(cs)
<1>. DEFINE e == [i \in Mine(cs) |-> f[i]]
<1>1. \A i \in Mine(cs) : i \in DOMAIN cs /\ f[i] \in DOMAIN ds /\ ds[f[i]] = cs[i]
  BY DEF Mine, Turns
<1>2. e \in [Mine(cs) -> Mine(ds)]
  BY <1>1 DEF Mine
<1>3. \A i, j \in Mine(cs) : i < j => e[i] < e[j]
  BY <1>1 DEF Turns
<1>4. ASSUME NEW j \in Mine(ds) PROVE \E i \in Mine(cs) : e[i] = j
  <2>1. j \in DOMAIN ds /\ ~ds[j].dependencyOnly
    BY DEF Mine
  <2>2. PICK i \in DOMAIN cs : f[i] = j
    BY <2>1 DEF Turns
  <2>3. i \in Mine(cs)
    BY <2>1, <2>2 DEF Turns, Mine
  <2>. QED
    BY <2>2, <2>3
<1>5. \A i \in Mine(cs) : ds[e[i]].uid = cs[i].uid /\ ds[e[i]].version = cs[i].version
  BY <1>1
<1>. HIDE DEF e
<1>6. Carries(cs, ds, e)
  BY <1>2, <1>3, <1>4, <1>5 DEF Carries
<1>. QED
  BY <1>6, SameChoices

LEMMA ChangesTurn ==
  ASSUME IInv, ApplyChanges
  PROVE  /\ components' \in Seq(Component) /\ Distinct(components')
         /\ \E e : Turns(components, components', ToAdd(components, Reqs), e)
<1>1. /\ components \in Seq(Component) /\ Distinct(components)
      /\ OnlyPublished(ready)
  BY StockedReadable DEF IInv, ListInv, RowsFit, MetaInv, Stocked
<1>2. components' = ChangeVersions(AddDependencies(components, Reqs), Reqs, ready,
                                   ToChange(components, Reqs))
  BY DEF ApplyChanges
<1>. QED
  BY <1>1, <1>2, ResolverTurns DEF Reqs

\* While an update task is inside its handler, only its own steps and the end of the
\* program happen.
LEMMA OnlyTheTask ==
  ASSUME [Next]_vars, phase \in {"loading", "resolving"}
  PROVE  ResolverStep \/ Crash \/ UNCHANGED vars
<1>1. ~Free
  BY DEF Free
<1>2. ~NetworkStep
  BY <1>1 DEF NetworkStep, RemoteSucceeds, RemoteFails, RemoteAnswer
<1>3. ~\E disturbs : Edit(disturbs)
  BY <1>1 DEF Edit
<1>4. ~UserStep
  BY <1>3 DEF UserStep, ReloadList, RemoveComponent, MoveComponent, ToggleEnabled,
     CustomizeComponent, RevertComponent, ChangeVersion, InstallLocal
<1>5. ~SaveTimeout /\ ~Exit /\ ~\E i \in DOMAIN components : DrawRow(i)
  BY <1>1 DEF SaveTimeout, Exit, DrawRow
<1>6. ~\E v \in PublishedVersions(Minecraft) : CreateInstance(v)
  BY <1>1 DEF CreateInstance
<1>. QED
  BY <1>2, <1>4, <1>5, <1>6 DEF Next

LEMMA ListOfTheTask ==
  ASSUME [Next]_vars, phase \in {"loading", "resolving"}
  PROVE  \/ LoadComponents \/ RemoveObsolete \/ ApplyChanges \/ Crash
         \/ UNCHANGED components
<1>1. ResolutionFails \/ ResolutionSucceeds \/ UNCHANGED vars => UNCHANGED components
  BY DEF ResolutionFails, ResolutionSucceeds, vars, listVars
<1>. QED
  BY <1>1, OnlyTheTask DEF ResolverStep

\* resolveDependencies() and loadComponents() neither remove, re-version nor reorder a
\* component that the user put into the list.
THEOREM ChoicesAreKept == Spec => UpdateKeepsUserChoices
<1>. DEFINE Keeps == phase \in {"loading", "resolving"} /\ crashes' = crashes
                       => UserChoices(components') = UserChoices(components)
<1>1. IInv /\ [Next]_vars => [Keeps]_vars
  <2>. SUFFICES ASSUME IInv, [Next]_vars, phase \in {"loading", "resolving"},
                       crashes' = crashes
                PROVE  UserChoices(components') = UserChoices(components)
    OBVIOUS
  <2>1. CASE ApplyChanges
    <3>1. components \in Seq(Component)
      BY DEF IInv, ListInv, RowsFit
    <3>. QED
      BY <2>1, <3>1, ChangesTurn, TurnKeepsChoices
  <2>2. ~Crash
    BY PackProfileAssumption DEF Crash, Restart, IInv, RestInv
  <2>3. CASE UNCHANGED components
    BY <2>3
  <2>. QED
    BY <2>1, <2>2, <2>3, ListOfTheTask, LoadKeepsChoices, RemovalKeepsChoices
<1>2. Spec => [][Keeps]_vars
  BY <1>1, Invariance, PTL DEF Spec
<1>. QED
  BY <1>2 DEF UpdateKeepsUserChoices

\* A component that resolveDependencies() injects stands before every component that
\* required it when the requirements were gathered ("needs to be injected before the
\* dependee(s)"), however many are injected in one turn.
THEOREM InjectionPrecedes == Spec => InjectedBeforeDependees
<1>. DEFINE Precedes ==
       phase = "resolving" =>
         \A i, j \in DOMAIN components' : \A d \in Dependees(components, components'[i].uid) :
           /\ components'[i].uid \notin UidsOf(components)
           /\ components'[j].uid = components[d].uid
           => i < j
<1>1. IInv /\ [Next]_vars => [Precedes]_vars
  <2>. SUFFICES ASSUME IInv, [Next]_vars, phase = "resolving",
                       NEW i \in DOMAIN components', NEW j \in DOMAIN components',
                       NEW d \in Dependees(components, components'[i].uid),
                       components'[i].uid \notin UidsOf(components),
                       components'[j].uid = components[d].uid
                PROVE  i < j
    OBVIOUS
  <2>1. components'[i].uid \in UidsOf(components')
    BY DEF UidsOf
  <2>2. ~LoadComponents /\ ~RemoveObsolete /\ components' # components
    BY <2>1, RemovalKeepsChoices DEF LoadComponents
  <2>3. ~Crash
    <3>1. DOMAIN <<>> = {}
      OBVIOUS
    <3>. QED
      BY <3>1 DEF Crash, Restart
  <2>4. ApplyChanges
    BY <2>2, <2>3, ListOfTheTask
  <2>5. PICK e : Turns(components, components', ToAdd(components, Reqs), e)
    BY <2>4, ChangesTurn
  <2>6. d \in DOMAIN components
    BY DEF Dependees
  <2>7. ~\E k \in DOMAIN components : e[k] = i
    BY <2>5 DEF Turns, UidsOf
  <2>8. i < e[d]
    BY <2>5, <2>7 DEF Turns
  <2>9. e[d] \in DOMAIN components' /\ components'[e[d]].uid = components[d].uid
    BY <2>5, <2>6 DEF Turns
  <2>10. Distinct(components')
    BY <2>4, ChangesTurn
  <2>11. j = e[d]
    BY <2>9, <2>10 DEF Distinct
  <2>. QED
    BY <2>8, <2>11
<1>2. Spec => [][Precedes]_vars
  BY <1>1, Invariance, PTL DEF Spec
<1>. QED
  BY <1>2 DEF InjectedBeforeDependees

--------------------------------------------------------------------------------
(***************************************************************************)
(* What a row has been loaded from.                                        *)
(***************************************************************************)

\* A loaded row has a file or a meta version, and the meta version it has is loaded;
\* a row has no meta version while there is a patch file for it.
SoundRow(c, ps, rd) ==
  /\ c.loaded => c.file # NoFile \/ c.metaVersion # NoMeta
  /\ c.metaVersion # NoMeta => ps[c.uid] = NoFile
  /\ c.loaded /\ c.metaVersion # NoMeta => Entity(c) \in rd

\* The file of the row can be had, and the requirements are the ones it states.
Current(c, rd) == FileOf(c, rd) # NoFile /\ c.requires = FileOf(c, rd).requires

\* Row c waits for entity e: it has it as its meta version, or a file that was taken from
\* it since.
Waits(c, e, rd) ==
  /\ MetaOf(c) = e
  /\ IF c.file = NoFile THEN c.metaVersion = c.version ELSE c.metaVersion = NoMeta /\ e \in rd

LEMMA CachedSound ==
  ASSUME NEW c \in Component, NEW ps, NEW rd, OnlyPublished(rd), NEW avail, OnlyPublished(avail)
  PROVE  /\ SoundRow(c, ps, rd) => SoundRow(UpdateCachedData(c, avail), ps, rd)
         /\ Entity(UpdateCachedData(c, avail)) = Entity(c)
         /\ FileOf(c, avail) # NoFile => Current(UpdateCachedData(c, avail), avail)
<1>. DEFINE d == UpdateCachedData(c, avail)
<1>1. /\ d \in Component /\ d.uid = c.uid /\ d.file = c.file
      /\ d.metaVersion = c.metaVersion /\ d.loaded = c.loaded
      /\ d.requires = IF FileOf(c, avail) = NoFile THEN NoRequires ELSE FileOf(c, avail).requires
  BY UpdateCachedDataType DEF SameRow
<1>. HIDE DEF d
<1>2. Entity(d) = Entity(c)
  BY <1>1 DEF Entity
<1>3. FileOf(d, avail) = FileOf(c, avail)
  BY <1>1, <1>2 DEF FileOf
<1>4. SoundRow(c, ps, rd) => SoundRow(d, ps, rd)
  BY <1>1, <1>2 DEF SoundRow
<1>5. FileOf(c, avail) # NoFile => Current(d, avail)
  BY <1>1, <1>3 DEF Current
<1>. QED
  BY <1>2, <1>4, <1>5 DEF d

LEMMA UnloadedSound ==
  ASSUME NEW c, c.loaded = FALSE, c.metaVersion = NoMeta, NEW ps, NEW rd
  PROVE  SoundRow(c, ps, rd)
BY DEF SoundRow

\* More meta data is loaded and patch files go away.
LEMMA MoreSound ==
  ASSUME NEW c, NEW ps, NEW rd, NEW qs, NEW more, rd \subseteq more,
         qs[c.uid] = ps[c.uid] \/ qs[c.uid] = NoFile
  PROVE  /\ SoundRow(c, ps, rd) => SoundRow(c, qs, more)
         /\ Current(c, rd) => Current(c, more)
BY DEF SoundRow, Current, FileOf

LEMMA SetVersionSound ==
  ASSUME NEW c \in Component, NEW ps, NEW rd, OnlyPublished(rd), SoundRow(c, ps, rd),
         NEW v \in AnyVersion
  PROVE  SoundRow(SetVersion(c, v, rd), ps, rd)
<1>. DEFINE known == <<c.uid, v>> \in rd
            named == [c EXCEPT !.version = v]
            d == [named EXCEPT !.cachedVersion = v,
                               !.metaVersion = IF known THEN v ELSE NoMeta, !.loaded = known]
<1>1. named \in Component /\ SoundRow(named, ps, rd)
  <2>1. /\ named \in Component /\ named.uid = c.uid /\ named.file = c.file
        /\ named.metaVersion = c.metaVersion /\ named.loaded = c.loaded
    BY DEF Component
  <2>. HIDE DEF named
  <2>. QED
    BY <2>1 DEF SoundRow, Entity
<1>2. CASE v = c.version \/ ~c.loaded \/ IsCustom(c)
  BY <1>1, <1>2 DEF SetVersion
<1>3. CASE ~(v = c.version \/ ~c.loaded \/ IsCustom(c))
  <2>1. ps[c.uid] = NoFile
    BY <1>3 DEF SoundRow, IsCustom
  <2>2. known \in BOOLEAN /\ v # NoMeta
    BY VersionTypes
  <2>3. SetVersion(c, v, rd) = UpdateCachedData(d, rd)
    BY <1>3 DEF SetVersion
  <2>4. <<c.uid, v>> \in rd <=> known
    OBVIOUS
  <2>. HIDE DEF known
  <2>5. /\ d \in Component /\ d.uid = c.uid /\ d.loaded = known
        /\ d.metaVersion = IF known THEN v ELSE NoMeta
    BY <1>1, <2>2 DEF Component
  <2>. HIDE DEF d
  <2>6. SoundRow(d, ps, rd)
    BY <2>1, <2>2, <2>4, <2>5 DEF SoundRow, Entity
  <2>. QED
    BY <2>3, <2>5, <2>6, CachedSound
<1>. QED
  BY <1>2, <1>3

LEMMA RevertSound ==
  ASSUME NEW c \in Component, NEW ps, NEW rd, SoundRow(c, ps, rd), NEW qs,
         IF IsCustom(c) THEN qs[c.uid] = NoFile ELSE qs[c.uid] = ps[c.uid]
  PROVE  SoundRow(Revert(c, rd), qs, rd)
<1>. DEFINE known == <<c.uid, c.version>> \in rd
            b == c.loaded /\ known
            d == [c EXCEPT !.file = NoFile,
                           !.metaVersion = IF known THEN c.version ELSE NoMeta, !.loaded = b]
<1>1. CASE ~IsCustom(c)
  BY <1>1 DEF Revert, SoundRow
<1>2. CASE IsCustom(c)
  <2>1. Revert(c, rd) = d
    BY <1>2 DEF Revert
  <2>2. c.version # NoMeta /\ b \in BOOLEAN /\ (b => known)
    BY VersionTypes DEF Component
  <2>3. <<c.uid, c.version>> \in rd <=> known
    OBVIOUS
  <2>. HIDE DEF b, known
  <2>4. d.uid = c.uid /\ d.loaded = b /\ d.metaVersion = IF known THEN c.version ELSE NoMeta
    BY DEF Component
  <2>. HIDE DEF d
  <2>5. SoundRow(d, qs, rd)
    BY <1>2, <2>2, <2>3, <2>4 DEF SoundRow, Entity
  <2>. QED
    BY <2>1, <2>5
<1>. QED
  BY <1>1, <1>2

\* loadComponents() on one row: a row that a download is started for waits for it, any
\* other that is not missing is up to date.
LEMMA LoadSound ==
  ASSUME Stocked, patches \in Patches, NEW c \in Component, SoundRow(c, patches, ready),
         NeedsMeta(c) => MetaOf(c) \in ready \cup Requested
  PROVE  /\ SoundRow(LoadComponent(c), patches, ReadyAfterLoad)
         /\ IsRemote(c) /\ c.file = NoFile => Waits(LoadComponent(c), MetaOf(c), ReadyAfterLoad)
         /\ IsRemote(c) \/ IsMissing(c) \/ Current(LoadComponent(c), ReadyAfterLoad)
<1>1. ready \subseteq ReadyAfterLoad /\ OnlyPublished(ReadyAfterLoad)
  <2>1. ReadyAfterLoad \subseteq Published \cup {Index}
    BY DEF Stocked, ReadyAfterLoad
  <2>. QED
    BY <2>1, StockedReadable DEF ReadyAfterLoad
<1>. DEFINE p == Prepared(c)
<1>2. CASE c.loaded
  <2>1. p = c /\ ~IsRemote(c) /\ ~IsMissing(c)
    BY <1>2 DEF Prepared, IsRemote, IsMissing, NeedsMeta
  <2>2. LoadComponent(c) = UpdateCachedData(c, ReadyAfterLoad)
    BY <2>1 DEF LoadComponent
  <2>3. SoundRow(c, patches, ReadyAfterLoad)
    BY <1>1, MoreSound
  <2>4. FileOf(c, ReadyAfterLoad) # NoFile
    <3>1. CASE c.metaVersion = NoMeta
      BY <1>2, <3>1 DEF SoundRow, FileOf
    <3>2. CASE c.metaVersion # NoMeta
      <4>1. Entity(c) \in ReadyAfterLoad /\ Entity(c) \in Uids \X AnyVersion
        BY <1>2, <2>3, <3>2 DEF SoundRow, Entity, Component
      <4>2. Metadata[Entity(c)] # NoFile
        BY <1>1, <4>1, MetadataType, VersionTypes DEF OnlyPublished
      <4>. QED
        BY <3>2, <4>1, <4>2 DEF FileOf
    <3>. QED
      BY <3>1, <3>2
  <2>. QED
    BY <1>1, <2>1, <2>2, <2>3, <2>4, CachedSound
<1>3. CASE ~c.loaded /\ patches[c.uid] # NoFile
  <2>1. ~IsRemote(c) /\ ~IsMissing(c)
    BY <1>3 DEF IsRemote, IsMissing, NeedsMeta
  <2>2. LoadComponent(c) = UpdateCachedData(p, ReadyAfterLoad)
    BY <2>1 DEF LoadComponent
  <2>3. c.metaVersion = NoMeta
    BY <1>3 DEF SoundRow
  <2>4. /\ p \in Component /\ p.uid = c.uid /\ p.file = patches[c.uid] /\ p.loaded = TRUE
        /\ p.metaVersion = NoMeta
    <3>1. patches[c.uid] \in VersionFile \cup {NoFile}
      BY DEF Component, Patches
    <3>2. p = [c EXCEPT !.file = patches[c.uid], !.loaded = TRUE]
      BY <1>3 DEF Prepared
    <3>. HIDE DEF p
    <3>. QED
      BY <2>3, <3>1, <3>2 DEF Component
  <2>. HIDE DEF p
  <2>5. SoundRow(p, patches, ReadyAfterLoad) /\ FileOf(p, ReadyAfterLoad) # NoFile
    BY <1>3, <2>4 DEF SoundRow, FileOf
  <2>. QED
    BY <1>1, <2>1, <2>2, <2>4, <2>5, CachedSound
<1>4. CASE ~c.loaded /\ patches[c.uid] = NoFile
  <2>. DEFINE b == MetaOf(c) \in ready
  <2>1. b \in BOOLEAN /\ (b <=> MetaOf(c) \in ready)
    OBVIOUS
  <2>2. p = [c EXCEPT !.metaVersion = c.version, !.loaded = b]
    BY <1>4 DEF Prepared
  <2>. HIDE DEF b
  <2>3. /\ p \in Component /\ p.uid = c.uid /\ p.file = c.file /\ p.version = c.version
        /\ p.metaVersion = c.version /\ p.loaded = b
    <3>. HIDE DEF p
    <3>. QED
      BY <2>1, <2>2 DEF Component
  <2>4. c.version # NoMeta
    BY VersionTypes DEF Component
  <2>. HIDE DEF p
  <2>5. p.metaVersion # NoMeta /\ Entity(p) = MetaOf(c) /\ MetaOf(c) \in Uids \X AnyVersion
    BY <2>3, <2>4 DEF Entity, MetaOf, Component
  <2>6. SoundRow(p, patches, ReadyAfterLoad)
    BY <1>1, <1>4, <2>1, <2>3, <2>5 DEF SoundRow
  <2>7. CASE IsRemote(c) \/ IsMissing(c)
    <3>1. LoadComponent(c) = p
      BY <2>7 DEF LoadComponent, p
    <3>2. c.file = NoFile => Waits(p, MetaOf(c), ReadyAfterLoad)
      BY <2>3 DEF Waits, MetaOf
    <3>. QED
      BY <2>6, <2>7, <3>1, <3>2
  <2>8. CASE ~IsRemote(c) /\ ~IsMissing(c)
    <3>1. LoadComponent(c) = UpdateCachedData(p, ReadyAfterLoad)
      BY <2>8 DEF LoadComponent, p
    <3>2. MetaOf(c) \in ReadyAfterLoad
      <4>1. NeedsMeta(c)
        BY <1>4 DEF NeedsMeta
      <4>2. MetaOf(c) \in Requested => MetaOf(c) \notin InFlightAfterLoad
        BY <2>8, <4>1 DEF IsRemote
      <4>3. MetaOf(c) \in ReadyAfterLoad \cup InFlightAfterLoad
        BY <2>8, <4>1 DEF IsMissing
      <4>. QED
        BY <1>1, <4>1, <4>2, <4>3
    <3>3. FileOf(p, ReadyAfterLoad) # NoFile
      <4>1. Metadata[MetaOf(c)] # NoFile
        BY <1>1, <2>5, <3>2, MetadataType, VersionTypes DEF OnlyPublished
      <4>. QED
        BY <2>5, <3>2, <4>1 DEF FileOf
    <3>. QED
      BY <1>1, <2>3, <2>5, <2>6, <2>8, <3>1, <3>3, CachedSound
  <2>. QED
    BY <2>7, <2>8
<1>. QED
  BY <1>2, <1>3, <1>4

RowsSound(cs, ps, rd) == \A i \in DOMAIN cs : SoundRow(cs[i], ps, rd)

LEMMA SoundChanged ==
  ASSUME NEW cs, NEW index, NEW ps, RowsFit(cs, index, ps), NEW rd, RowsSound(cs, ps, rd),
         NEW i \in DOMAIN cs, NEW d, NEW qs, SoundRow(d, qs, rd),
         \A u \in Uids : u # cs[i].uid => qs[u] = ps[u]
  PROVE  RowsSound([cs EXCEPT ![i] = d], qs, rd)
<1>. DEFINE ds == [cs EXCEPT ![i] = d]
<1>1. Distinct(cs) /\ \A j \in DOMAIN cs : cs[j] \in Component
  BY RowsOfList DEF RowsFit
<1>2. DOMAIN ds = DOMAIN cs /\ \A j \in DOMAIN cs : ds[j] = IF j = i THEN d ELSE cs[j]
  OBVIOUS
<1>. HIDE DEF ds
<1>3. ASSUME NEW j \in DOMAIN cs, j # i PROVE SoundRow(ds[j], qs, rd)
  <2>1. cs[j].uid \in Uids /\ cs[j].uid # cs[i].uid /\ ds[j] = cs[j]
    BY <1>1, <1>2, <1>3 DEF Distinct, Component
  <2>2. qs[cs[j].uid] = ps[cs[j].uid]
    BY <2>1
  <2>. QED
    BY <2>1, <2>2, MoreSound DEF RowsSound
<1>. QED
  BY <1>2, <1>3 DEF RowsSound, ds

LEMMA SoundAppended ==
  ASSUME NEW cs, NEW index, NEW ps, RowsFit(cs, index, ps), NEW rd, RowsSound(cs, ps, rd),
         NEW d \in Component, d.uid \notin index, NEW qs, SoundRow(d, qs, rd),
         \A u \in Uids : u # d.uid => qs[u] = ps[u]
  PROVE  RowsSound(Append(cs, d), qs, rd)
<1>. DEFINE ds == Append(cs, d)
<1>1. /\ cs \in Seq(Component) /\ UidsOf(cs) = index
      /\ Len(cs) \in Nat /\ DOMAIN cs = 1..Len(cs) /\ \A j \in DOMAIN cs : cs[j] \in Component
  BY RowsOfList DEF RowsFit
<1>2. /\ ds \in Seq(Component) /\ Len(ds) = Len(cs) + 1
      /\ \A j \in 1..Len(cs) : ds[j] = cs[j]
      /\ ds[Len(cs) + 1] = d
  BY <1>1, AppendProperties
<1>. HIDE DEF ds
<1>3. DOMAIN ds = 1..(Len(cs) + 1)
  BY <1>2, LenProperties
<1>4. \A j \in DOMAIN ds : (j \in DOMAIN cs /\ ds[j] = cs[j]) \/ ds[j] = d
  BY <1>1, <1>2, <1>3
<1>5. ASSUME NEW j \in DOMAIN cs PROVE SoundRow(cs[j], qs, rd)
  <2>1. cs[j].uid \in Uids /\ cs[j].uid # d.uid
    BY <1>1 DEF UidsOf, Component
  <2>2. qs[cs[j].uid] = ps[cs[j].uid]
    BY <2>1
  <2>. QED
    BY <2>2, MoreSound DEF RowsSound
<1>. QED
  BY <1>4, <1>5 DEF RowsSound, ds

\* Every row was there before; patch files went away at most.
LEMMA SoundSubrows ==
  ASSUME NEW cs, NEW ps, NEW rd, RowsSound(cs, ps, rd), NEW ds,
         \A k \in DOMAIN ds : \E i \in DOMAIN cs : ds[k] = cs[i],
         NEW qs, \A i \in DOMAIN cs : qs[cs[i].uid] = ps[cs[i].uid] \/ qs[cs[i].uid] = NoFile
  PROVE  RowsSound(ds, qs, rd)
<1>1. ASSUME NEW k \in DOMAIN ds PROVE SoundRow(ds[k], qs, rd)
  <2>1. PICK i \in DOMAIN cs : ds[k] = cs[i]
    OBVIOUS
  <2>. QED
    BY <2>1, MoreSound DEF RowsSound
<1>. QED
  BY <1>1 DEF RowsSound

LEMMA SoundRead ==
  ASSUME NEW saved \in Seq(PersistedComponent), NEW ps, NEW rd
  PROVE  RowsSound(LoadList(saved), ps, rd)
<1>1. ASSUME NEW k \in DOMAIN LoadList(saved) PROVE SoundRow(LoadList(saved)[k], ps, rd)
  <2>1. PICK i \in Fresh(saved) : LoadList(saved)[k] = ComponentFromJson(saved[i])
    BY LoadListProperties
  <2>2. saved[i] \in PersistedComponent
    BY LenProperties, ElementOfSeq DEF Fresh
  <2>. QED
    BY <2>1, <2>2, FromJsonType, UnloadedSound
<1>. QED
  BY <1>1 DEF RowsSound

LEMMA SoundResolved ==
  ASSUME NEW cs \in Seq(Component), Distinct(cs), NEW ps, NEW rd, OnlyPublished(rd),
         RowsSound(cs, ps, rd)
  PROVE  LET reqs == GatherRequirements(cs) IN
         RowsSound(ChangeVersions(AddDependencies(cs, reqs), reqs, rd, ToChange(cs, reqs)), ps, rd)
<1>. DEFINE reqs == GatherRequirements(cs)
            l == AddDependencies(cs, reqs)
            change == ToChange(cs, reqs)
            added == ToAdd(cs, reqs)
            ds == ChangeVersions(l, reqs, rd, change)
<1>1. Enlarged(cs, l, added)
  BY AddDependenciesEnlarges
<1>2. \A u \in change : reqs[u].equals \in AnyVersion
  <2>1. \A u \in change : u \in RequiredUids(cs)
    BY DEF ToChange, GatherRequirements
  <2>. QED
    BY <2>1, GatherType DEF Gathered
<1>. HIDE DEF l, reqs, change, added
<1>3. l \in Seq(Component) /\ \A i \in DOMAIN l : l[i] \in Component
  BY <1>1, RowsOfList DEF Enlarged
<1>4. PICK e : Embeds(cs, l, added, e)
  BY <1>1 DEF Enlarged
<1>5. ASSUME NEW i \in DOMAIN l PROVE SoundRow(l[i], ps, rd)
  <2>1. CASE \E j \in DOMAIN cs : e[j] = i
    BY <1>4, <2>1 DEF Embeds, RowsSound
  <2>2. CASE IsNew(l[i])
    BY <2>2, UnloadedSound DEF IsNew
  <2>. QED
    BY <1>4, <2>1, <2>2 DEF Embeds
<1>6. DOMAIN ds = DOMAIN l
      /\ \A i \in DOMAIN l : ds[i] = IF l[i].uid \in change
                                   THEN SetVersion(l[i], reqs[l[i].uid].equals, rd) ELSE l[i]
  BY DEF ChangeVersions
<1>. HIDE DEF ds
<1>7. ASSUME NEW i \in DOMAIN l PROVE SoundRow(ds[i], ps, rd)
  <2>1. CASE l[i].uid \in change
    BY <1>2, <1>3, <1>5, <1>6, <2>1, SetVersionSound
  <2>2. CASE l[i].uid \notin change
    BY <1>5, <1>6, <2>2
  <2>. QED
    BY <2>1, <2>2
<1>8. RowsSound(ds, ps, rd)
  BY <1>6, <1>7 DEF RowsSound
<1>. QED
  BY <1>8 DEF ds, l, reqs, change

--------------------------------------------------------------------------------
(***************************************************************************)
(* The rows a task waits for.                                              *)
(***************************************************************************)
WaitsAt(e, i) == i \in DOMAIN components /\ Waits(components[i], e, ready)

\* The slots belong to a task that waits, and those that are open to the index or to the
\* row that waits for their entity.
AwaitingInv ==
  /\ task # NoTask /\ phase # "waiting" => task.slots = <<>>
  /\ phase = "waiting" =>
       \A k \in DOMAIN task.slots :
         \/ task.slots[k].finished
         \/ task.slots[k].position = 0
         \/ WaitsAt(task.slots[k].entity, task.slots[k].position)

Open(i) == \E k \in DOMAIN task.slots : task.slots[k].position = i /\ ~task.slots[k].finished

\* While no answer was a failure, every row is up to date or has an open slot.
CurrentInv ==
  /\ phase = "resolving" => \A i \in DOMAIN components : Current(components[i], ready)
  /\ phase = "waiting" /\ task.ok =>
       \A i \in DOMAIN components : Current(components[i], ready) \/ Open(i)

SoundInv == RowsSound(components, patches, ready) /\ AwaitingInv
AnswerInv == SoundInv /\ CurrentInv

\* The rows that are waited for stay where they are and go on waiting.
RowsWait ==
  \A i \in DOMAIN components :
    i \in DOMAIN components' /\ \A e : Waits(components[i], e, ready) => Waits(components'[i], e, ready')

LEMMA SlotsStay ==
  ASSUME AwaitingInv, RowsWait, UNCHANGED <<task, phase>>
  PROVE  AwaitingInv'
<1>1. \A e, i : WaitsAt(e, i) => i \in DOMAIN components' /\ Waits(components'[i], e, ready')
  BY DEF WaitsAt, RowsWait
<1>. QED
  BY <1>1 DEF AwaitingInv, WaitsAt

LEMMA LoadedRows ==
  ASSUME IInv, RowsSound(components, patches, ready), LoadComponents
  PROVE  /\ RowsSound(components, patches, ready)'
         /\ DOMAIN components' = DOMAIN components
         /\ \A i \in DOMAIN components :
              /\ IsRemote(components[i]) =>
                   Waits(components'[i], MetaOf(components[i]), ready')
              /\ \/ IsRemote(components[i]) \/ IsMissing(components[i])
                 \/ Current(components'[i], ready')
<1>1. /\ Stocked /\ patches \in Patches /\ CustomFits(components, patches)
      /\ \A i \in DOMAIN components : components[i] \in Component
  BY RowsOfList DEF IInv, ListInv, RowsFit, MetaInv
<1>2. /\ DOMAIN components' = DOMAIN components
      /\ \A i \in DOMAIN components : components'[i] = LoadComponent(components[i])
      /\ ready' = ReadyAfterLoad /\ patches' = patches
  BY DEF LoadComponents
<1>3. \A i \in DOMAIN components :
        NeedsMeta(components[i]) => MetaOf(components[i]) \in ready \cup Requested
  BY DEF Requested
<1>4. ASSUME NEW i \in DOMAIN components
      PROVE  /\ SoundRow(components'[i], patches', ready')
             /\ IsRemote(components[i]) =>
                  Waits(components'[i], MetaOf(components[i]), ready')
             /\ \/ IsRemote(components[i]) \/ IsMissing(components[i])
                \/ Current(components'[i], ready')
  <2>1. SoundRow(components[i], patches, ready)
    BY DEF RowsSound
  <2>. DEFINE c == components[i]
  <2>2. c \in Component /\ SoundRow(c, patches, ready)
        /\ (NeedsMeta(c) => MetaOf(c) \in ready \cup Requested)
    BY <1>1, <1>3, <2>1
  <2>3. components'[i] = LoadComponent(c)
    BY <1>2
  <2>4. IsRemote(c) => c.file = NoFile
    <3>1. Truncated # NoFile
      BY VersionTypes DEF Truncated
    <3>2. c.file # NoFile => Backs(patches[c.uid], c.file)
      BY <1>1 DEF CustomFits
    <3>. QED
      BY <3>1, <3>2 DEF IsRemote, NeedsMeta, Backs
  <2>. HIDE DEF c
  <2>5. /\ SoundRow(LoadComponent(c), patches, ReadyAfterLoad)
        /\ IsRemote(c) /\ c.file = NoFile => Waits(LoadComponent(c), MetaOf(c), ReadyAfterLoad)
        /\ IsRemote(c) \/ IsMissing(c) \/ Current(LoadComponent(c), ReadyAfterLoad)
    BY <1>1, <2>2, LoadSound
  <2>. QED
    BY <1>2, <2>3, <2>4, <2>5 DEF c
<1>. QED
  BY <1>2, <1>4 DEF RowsSound

LEMMA LoadingAnswer ==
  ASSUME IInv, SoundInv, LoadComponents
  PROVE  SoundInv' /\ CurrentInv'
<1>1. /\ RowsSound(components, patches, ready)'
      /\ DOMAIN components' = DOMAIN components
      /\ \A i \in DOMAIN components :
           /\ IsRemote(components[i]) =>
                Waits(components'[i], MetaOf(components[i]), ready')
           /\ \/ IsRemote(components[i]) \/ IsMissing(components[i])
              \/ Current(components'[i], ready')
  BY LoadedRows DEF SoundInv
<1>2. task # NoTask /\ task \in Task /\ phase = "loading"
  BY DEF LoadComponents, IInv, TaskInv
<1>3. CASE EndTask("failed")
  BY <1>1, <1>3 DEF SoundInv, EndTask, AwaitingInv, CurrentInv
<1>4. CASE /\ \A i \in DOMAIN components : ~IsMissing(components[i])
           /\ task' = [task EXCEPT !.slots = Slots, !.ok = TRUE,
                                   !.checkOnly = task.netmode = "Offline" /\ Slots = <<>>]
           /\ phase' = IF Slots = <<>> THEN "resolving" ELSE "waiting"
  <2>1. /\ \A k \in DOMAIN Slots :
             /\ Slots[k].finished = FALSE
             /\ \/ Slots[k].position = 0 /\ Slots[k].entity = Index
                \/ /\ Slots[k].position \in DOMAIN components
                   /\ IsRemote(components[Slots[k].position])
                   /\ Slots[k].entity = MetaOf(components[Slots[k].position])
        /\ \A i \in DOMAIN components :
             IsRemote(components[i]) => \E k \in DOMAIN Slots : Slots[k].position = i
    BY <1>2, SlotsType
  <2>2. task'.slots = Slots
    BY <1>2, <1>4 DEF Task
  <2>3. AwaitingInv'
    <3>1. \A k \in DOMAIN Slots :
            \/ Slots[k].position = 0
            \/ /\ Slots[k].position \in DOMAIN components'
               /\ Waits(components'[Slots[k].position], Slots[k].entity, ready')
      BY <1>1, <2>1
    <3>. QED
      BY <1>4, <2>2, <3>1 DEF AwaitingInv, WaitsAt
  <2>4. CurrentInv'
    <3>1. CASE Slots = <<>>
      <4>1. \A i \in DOMAIN components : ~IsRemote(components[i])
        BY <2>1, <3>1
      <4>. QED
        BY <1>1, <1>4, <3>1, <4>1 DEF CurrentInv
    <3>2. CASE Slots # <<>>
      <4>1. \A i \in DOMAIN components : Current(components'[i], ready') \/ Open(i)'
        BY <1>1, <1>4, <2>1, <2>2 DEF Open
      <4>. QED
        BY <1>1, <1>4, <3>2, <4>1 DEF CurrentInv
    <3>. QED
      BY <3>1, <3>2
  <2>. QED
    BY <1>1, <2>3, <2>4 DEF SoundInv
<1>. QED
  BY <1>3, <1>4 DEF LoadComponents

\* The rows an answer was requested for take it; no other row changes.
AnsweredRows(e, success) ==
  /\ DOMAIN components' = DOMAIN components
  /\ \A i \in DOMAIN components :
       /\ Current(components[i], ready) => Current(components'[i], ready')
       /\ success /\ (\E k \in SlotsFor(e) : task.slots[k].position = i)
            => Current(components'[i], ready')

LEMMA AnsweredAnswer ==
  ASSUME IInv, SoundInv, NEW e, NEW success \in BOOLEAN, Answered(e, success), Free,
         AnsweredRows(e, success), RowsWait, RowsSound(components, patches, ready)'
  PROVE  SoundInv' /\ (CurrentInv => CurrentInv')
<1>1. phase \in {"idle", "waiting"} /\ TaskInv
  BY DEF Free, IInv
<1>2. CASE SlotsFor(e) = {}
  <2>1. UNCHANGED <<task, phase>>
    BY <1>2 DEF Answered, taskVars
  <2>2. AwaitingInv'
    BY <2>1, SlotsStay DEF SoundInv
  <2>3. CurrentInv => CurrentInv'
    <3>1. \A i : Open(i)' <=> Open(i)
      BY <2>1 DEF Open
    <3>. QED
      BY <1>1, <2>1, <3>1 DEF CurrentInv, AnsweredRows
  <2>. QED
    BY <2>2, <2>3 DEF SoundInv
<1>3. CASE SlotsFor(e) # {}
  <2>1. task # NoTask /\ task \in Task /\ phase = "waiting"
    BY <1>1, <1>3 DEF SlotsFor, TaskInv
  <2>2. /\ Finished(e) \in Seq(Slot) /\ DOMAIN Finished(e) = DOMAIN task.slots
        /\ \A k \in DOMAIN task.slots :
             /\ Finished(e)[k].entity = task.slots[k].entity
             /\ Finished(e)[k].position = task.slots[k].position
             /\ Finished(e)[k].finished <=> task.slots[k].finished \/ task.slots[k].entity = e
    BY <1>1, <2>1, FinishedType
  <2>3. task.ok \in BOOLEAN /\ (phase = "waiting" => task # NoTask)
    BY <2>1 DEF Task
  <2>4. ASSUME CurrentInv, task.ok, success, NEW i \in DOMAIN components
        PROVE  \/ Current(components'[i], ready')
               \/ \E k \in DOMAIN task.slots :
                    Finished(e)[k].position = i /\ ~Finished(e)[k].finished
    <3>1. CASE Current(components[i], ready)
      BY <3>1 DEF AnsweredRows
    <3>2. CASE Open(i)
      <4>1. PICK k \in DOMAIN task.slots : task.slots[k].position = i /\ ~task.slots[k].finished
        BY <3>2 DEF Open
      <4>2. CASE task.slots[k].entity = e
        <5>1. k \in SlotsFor(e)
          BY <2>1, <4>1, <4>2 DEF SlotsFor
        <5>. QED
          BY <2>4, <4>1, <5>1 DEF AnsweredRows
      <4>3. CASE task.slots[k].entity # e
        BY <2>2, <4>1, <4>3
      <4>. QED
        BY <4>2, <4>3
    <3>. QED
      BY <2>1, <2>4, <3>1, <3>2 DEF CurrentInv
  <2>5. CASE /\ task' = [task EXCEPT !.slots = Finished(e), !.ok = task.ok /\ success]
             /\ UNCHANGED phase
    <3>. DEFINE b == task.ok /\ success
    <3>1. /\ task' = [task EXCEPT !.slots = Finished(e), !.ok = b]
          /\ b \in BOOLEAN /\ (b <=> task.ok /\ success)
      BY <2>3, <2>5
    <3>. HIDE DEF b
    <3>2. task'.slots = Finished(e) /\ task'.ok = b
      BY <2>1, <2>2, <3>1 DEF Task
    <3>3. AwaitingInv'
      <4>1. \A k \in DOMAIN task.slots :
              \/ task.slots[k].finished
              \/ task.slots[k].position = 0
              \/ WaitsAt(task.slots[k].entity, task.slots[k].position)
        BY <2>1 DEF SoundInv, AwaitingInv
      <4>2. \A k \in DOMAIN task.slots :
              \/ Finished(e)[k].finished
              \/ Finished(e)[k].position = 0
              \/ /\ Finished(e)[k].position \in DOMAIN components'
                 /\ Waits(components'[Finished(e)[k].position], Finished(e)[k].entity, ready')
        BY <2>2, <4>1 DEF WaitsAt, RowsWait
      <4>. QED
        BY <2>1, <2>2, <2>5, <3>2, <4>2 DEF AwaitingInv, WaitsAt
    <3>4. CurrentInv => CurrentInv'
      BY <2>1, <2>2, <2>4, <2>5, <3>1, <3>2 DEF CurrentInv, Open, AnsweredRows
    <3>. QED
      BY <3>3, <3>4 DEF SoundInv
  <2>6. CASE /\ task' = [task EXCEPT !.slots = <<>>, !.checkOnly = FALSE]
             /\ phase' = "resolving" /\ task.ok /\ success /\ AllFinished(e)
    <3>1. task'.slots = <<>>
      BY <2>1, <2>6 DEF Task
    <3>2. \A k \in DOMAIN task.slots : Finished(e)[k].finished
      BY <2>6 DEF AllFinished
    <3>3. CurrentInv => \A i \in DOMAIN components : Current(components'[i], ready')
      BY <2>4, <2>6, <3>2
    <3>. QED
      BY <2>6, <3>1, <3>3 DEF SoundInv, AwaitingInv, CurrentInv, AnsweredRows
  <2>7. CASE EndTask("failed")
    BY <2>7 DEF SoundInv, EndTask, AwaitingInv, CurrentInv
  <2>. QED
    BY <1>3, <2>5, <2>6, <2>7 DEF Answered
<1>. QED
  BY <1>2, <1>3

\* No answer comes for a row that is gone.
LEMMA RowsStay ==
  ASSUME IInv, SoundInv, Free, NEW e
  PROVE  /\ ~PositionGone(e)
         /\ \A k \in SlotsFor(e) : \/ task.slots[k].position = 0
                                  \/ WaitsAt(e, task.slots[k].position)
<1>1. \A k \in SlotsFor(e) : \/ task.slots[k].position = 0
                           \/ WaitsAt(e, task.slots[k].position)
  BY DEF SlotsFor, Free, IInv, TaskInv, SoundInv, AwaitingInv
<1>2. DOMAIN components = 1..Len(components) /\ Len(components) \in Nat
  BY RowsOfList DEF IInv, ListInv, RowsFit
<1>. QED
  BY <1>1, <1>2 DEF PositionGone, WaitsAt

LEMMA AnswersAnswer ==
  ASSUME IInv, SoundInv, NEW e \in inFlight, RemoteSucceeds(e) \/ RemoteFails(e)
  PROVE  SoundInv' /\ (CurrentInv => CurrentInv')
<1>1. Free
  BY DEF RemoteSucceeds, RemoteFails, RemoteAnswer
<1>2. CASE RemoteFails(e)
  <2>1. Answered(e, FALSE) /\ UNCHANGED <<components, patches, ready>>
    BY <1>2 DEF RemoteFails, RemoteAnswer
  <2>2. AnsweredRows(e, FALSE) /\ RowsWait /\ RowsSound(components, patches, ready)'
    BY <2>1 DEF AnsweredRows, RowsWait, SoundInv
  <2>. QED
    BY <1>1, <2>1, <2>2, AnsweredAnswer
<1>3. CASE RemoteSucceeds(e)
  <2>1. ~PositionGone(e)
        /\ \A k \in SlotsFor(e) : \/ task.slots[k].position = 0
                                 \/ WaitsAt(e, task.slots[k].position)
    BY <1>1, RowsStay
  <2>2. /\ e \in Published \cup {Index} /\ ready \cup {e} \subseteq ready' /\ patches' = patches
        /\ components' = RemoteLoadSucceeded(e, ready') /\ Answered(e, TRUE)
    BY <1>3, <2>1 DEF RemoteSucceeds, RemoteAnswer
  <2>3. Stocked /\ Stocked' /\ \A i \in DOMAIN components : components[i] \in Component
    BY <1>3, RowsOfList DEF RemoteSucceeds, IInv, ListInv, RowsFit, MetaInv, Stocked
  <2>4. OnlyPublished(ready) /\ OnlyPublished(ready')
    BY <2>3, StockedReadable DEF Stocked
  <2>5. /\ DOMAIN components' = DOMAIN components
        /\ \A i \in DOMAIN components :
             components'[i] = IF \E k \in SlotsFor(e) : task.slots[k].position = i
                              THEN UpdateCachedData([components[i] EXCEPT !.loaded = TRUE], ready')
                              ELSE components[i]
    BY <2>2 DEF RemoteLoadSucceeded
  <2>6. ASSUME NEW i \in DOMAIN components
        PROVE  /\ \A x : Waits(components[i], x, ready) => Waits(components'[i], x, ready')
               /\ Current(components[i], ready) => Current(components'[i], ready')
               /\ (\E k \in SlotsFor(e) : task.slots[k].position = i)
                     => Current(components'[i], ready')
               /\ SoundRow(components'[i], patches', ready')
    <3>. DEFINE c == components[i]
                d == [c EXCEPT !.loaded = TRUE]
    <3>1. c \in Component /\ SoundRow(c, patches, ready)
      BY <2>3 DEF SoundInv, RowsSound
    <3>2. CASE \E k \in SlotsFor(e) : task.slots[k].position = i
      <4>1. WaitsAt(e, i)
        <5>1. i # 0
          BY RowsOfList DEF IInv, ListInv, RowsFit
        <5>. QED
          BY <2>1, <3>2, <5>1
      <4>2. /\ Entity(c) = e \/ (c.file # NoFile /\ c.metaVersion = NoMeta)
            /\ c.file = NoFile => c.metaVersion # NoMeta
        <5>1. Waits(c, e, ready)
          BY <4>1 DEF WaitsAt
        <5>2. c.version # NoMeta
          BY <3>1, VersionTypes DEF Component
        <5>. QED
          BY <5>1, <5>2 DEF Waits, MetaOf, Entity
      <4>3. /\ d \in Component /\ d.uid = c.uid /\ d.version = c.version
            /\ d.metaVersion = c.metaVersion /\ d.file = c.file /\ d.loaded = TRUE
        BY <3>1 DEF Component
      <4>4. components'[i] = UpdateCachedData(d, ready')
        BY <2>5, <3>2
      <4>. DEFINE r == components'[i]
      <4>. HIDE DEF d, c
      <4>5. /\ r.uid = d.uid /\ r.version = d.version /\ r.file = d.file
            /\ r.metaVersion = d.metaVersion
        BY <2>4, <4>3, <4>4, UpdateCachedDataType DEF SameRow
      <4>. HIDE DEF r
      <4>6. Entity(d) = Entity(c) /\ e \in ready'
        BY <2>2, <4>3 DEF Entity
      <4>7. SoundRow(d, patches', ready')
        BY <2>2, <3>1, <4>2, <4>3, <4>6 DEF SoundRow
      <4>8. FileOf(d, ready') # NoFile
        <5>1. CASE d.metaVersion = NoMeta
          BY <4>2, <4>3, <5>1 DEF FileOf
        <5>2. CASE d.metaVersion # NoMeta
          <6>1. Entity(d) = e /\ e \in Uids \X AnyVersion
            BY <4>2, <4>3, <4>6, <5>2 DEF Entity, Component
          <6>2. Metadata[e] # NoFile
            BY <2>4, <4>6, <6>1, MetadataType, VersionTypes DEF OnlyPublished
          <6>. QED
            BY <4>6, <5>2, <6>1, <6>2 DEF FileOf
        <5>. QED
          BY <5>1, <5>2
      <4>9. SoundRow(r, patches', ready') /\ Current(r, ready')
        BY <2>4, <4>3, <4>4, <4>7, <4>8, CachedSound DEF r
      <4>10. \A x : Waits(c, x, ready) => Waits(r, x, ready')
        BY <2>2, <4>3, <4>5 DEF Waits, MetaOf
      <4>. QED
        BY <4>9, <4>10 DEF c, r
    <3>3. CASE ~\E k \in SlotsFor(e) : task.slots[k].position = i
      <4>1. components'[i] = c
        BY <2>5, <3>3
      <4>2. \A x : Waits(c, x, ready) => Waits(c, x, ready')
        BY <2>2 DEF Waits
      <4>. QED
        BY <2>2, <3>1, <3>3, <4>1, <4>2, MoreSound
    <3>. QED
      BY <3>2, <3>3
  <2>7. AnsweredRows(e, TRUE) /\ RowsWait
    BY <2>5, <2>6 DEF AnsweredRows, RowsWait
  <2>8. RowsSound(components, patches, ready)'
    BY <2>5, <2>6 DEF RowsSound
  <2>. QED
    BY <1>1, <2>2, <2>7, <2>8, AnsweredAnswer
<1>. QED
  BY <1>2, <1>3

\* Rows that only move or go, while files only go and metadata only comes.
LEMMA RowsStaySound ==
  ASSUME RowsSound(components, patches, ready), ready \subseteq ready',
         \A k \in DOMAIN components' : \E i \in DOMAIN components : components'[k] = components[i],
         \A i \in DOMAIN components :
           \/ patches'[components[i].uid] = patches[components[i].uid]
           \/ patches'[components[i].uid] = NoFile
  PROVE  RowsSound(components, patches, ready)'
<1>1. ASSUME NEW k \in DOMAIN components' PROVE SoundRow(components'[k], patches', ready')
  <2>1. PICK i \in DOMAIN components : components'[k] = components[i]
    OBVIOUS
  <2>2. SoundRow(components[i], patches, ready)
    BY DEF RowsSound
  <2>. DEFINE c == components[i]
              qs == patches'
              rd == ready'
  <2>3. qs[c.uid] = patches[c.uid] \/ qs[c.uid] = NoFile
    OBVIOUS
  <2>4. SoundRow(c, patches, ready) /\ ready \subseteq rd
    BY <2>2
  <2>. HIDE DEF c, qs, rd
  <2>5. SoundRow(c, qs, rd)
    BY <2>3, <2>4, MoreSound
  <2>. QED
    BY <2>1, <2>5 DEF c, qs, rd
<1>. QED
  BY <1>1 DEF RowsSound

LEMMA ResolvingAnswer ==
  ASSUME IInv, SoundInv, RemoveObsolete \/ ApplyChanges \/ ResolutionFails \/ ResolutionSucceeds
  PROVE  SoundInv' /\ (CurrentInv => CurrentInv')
<1>1. /\ components \in Seq(Component) /\ Distinct(components) /\ patches \in Patches
      /\ OnlyPublished(ready) /\ RowsSound(components, patches, ready)
      /\ UidsOf(components) \subseteq Uids
  BY StockedReadable, RowsOfList DEF IInv, ListInv, RowsFit, MetaInv, Stocked, SoundInv
<1>2. CASE RemoveObsolete
  <2>1. PICK gone : /\ components' = Without(components, gone)
                    /\ patches' = [u \in Uids |-> IF u \in gone THEN NoFile ELSE patches[u]]
    BY <1>2 DEF RemoveObsolete
  <2>2. phase = "resolving" /\ phase' = phase /\ ready' = ready
        /\ task' # NoTask /\ task'.slots = task.slots
    BY <1>2, TurnedTask DEF RemoveObsolete, metaVars
  <2>3. \A k \in DOMAIN components' : \E i \in DOMAIN components : components'[k] = components[i]
    BY <1>1, <2>1, WithoutProperties DEF Subrows
  <2>4. \A i \in DOMAIN components :
          \/ patches'[components[i].uid] = patches[components[i].uid]
          \/ patches'[components[i].uid] = NoFile
    BY <1>1, <2>1 DEF UidsOf
  <2>5. RowsSound(components, patches, ready)'
    BY <1>1, <2>2, <2>3, <2>4, RowsStaySound
  <2>6. CurrentInv => CurrentInv'
    BY <2>2, <2>3 DEF CurrentInv
  <2>7. AwaitingInv'
    BY <2>2 DEF SoundInv, AwaitingInv, IInv, TaskInv
  <2>. QED
    BY <2>5, <2>6, <2>7 DEF SoundInv
<1>3. CASE ApplyChanges
  <2>1. /\ phase = "resolving" /\ phase' = "loading" /\ UNCHANGED <<task, ready, patches>>
        /\ components' = ChangeVersions(AddDependencies(components, Reqs), Reqs, ready,
                                        ToChange(components, Reqs))
    BY <1>3 DEF ApplyChanges, Resolving, metaVars
  <2>2. RowsSound(components, patches, ready)'
    BY <1>1, <2>1, SoundResolved DEF Reqs
  <2>. QED
    BY <2>1, <2>2 DEF SoundInv, AwaitingInv, CurrentInv
<1>4. CASE ResolutionFails \/ ResolutionSucceeds
  <2>1. phase' = "idle" /\ task' = NoTask /\ UNCHANGED <<components, patches, ready>>
    BY <1>4 DEF ResolutionFails, ResolutionSucceeds, EndTask, listVars, metaVars
  <2>. QED
    BY <1>1, <2>1 DEF SoundInv, AwaitingInv, CurrentInv
<1>. QED
  BY <1>2, <1>3, <1>4

\* A reload reads the file, or leaves the list that was edited before.
LEMMA ReloadSound ==
  ASSUME IInv, NEW m, NEW cs \in Seq(Component), NEW index, NEW wasDirty \in BOOLEAN,
         Reload(m, cs, index, wasDirty), disk # NoList, RowsSound(cs, patches', ready')
  PROVE  RowsSound(components, patches, ready)'
<1>1. CASE components' = cs
  BY <1>1
<1>2. CASE /\ disk' \in IF wasDirty THEN Written(disk, cs) ELSE {disk}
           /\ disk' # BadList /\ components' = LoadList(disk')
  <2>1. disk' \in Seq(PersistedComponent)
    BY <1>2, SaveListType DEF Written, IInv, RestInv
  <2>. QED
    BY <1>2, <2>1, SoundRead
<1>. QED
  BY <1>1, <1>2 DEF Reload

\* The rows after anything the user does.
LEMMA UserSound ==
  ASSUME IInv, RowsSound(components, patches, ready), UserStep
  PROVE  RowsSound(components, patches, ready)'
<1>1. /\ RowsFit(components, componentIndex, patches)
      /\ components \in Seq(Component) /\ Distinct(components) /\ patches \in Patches
      /\ UidsOf(components) = componentIndex
      /\ Len(components) \in Nat /\ DOMAIN components = 1..Len(components)
      /\ \A i \in DOMAIN components : components[i] \in Component /\ components[i].uid \in Uids
      /\ OnlyPublished(ready) /\ dirty \in BOOLEAN /\ loaded \in BOOLEAN
  BY StockedReadable, RowsOfList
     DEF IInv, ListInv, RowsFit, MetaInv, Stocked, RestInv, Component
<1>2. ASSUME NEW m \in Netmodes, ReloadList(m) PROVE RowsSound(components, patches, ready)'
  <2>1. RowsSound(components, patches', ready')
    BY <1>2 DEF ReloadList
  <2>. QED
    BY <1>1, <1>2, <2>1, ReloadSound DEF ReloadList
<1>3. ASSUME NEW i \in DOMAIN components, RemoveComponent(i)
      PROVE  RowsSound(components, patches, ready)'
  <2>. DEFINE c == components[i]
  <2>1. PICK stuck \in StuckPatches :
          /\ Reload("Online",
                    IF Refused(c, stuck) THEN components ELSE RemoveAt(components, i),
                    IF Refused(c, stuck) THEN componentIndex ELSE componentIndex \ {c.uid},
                    dirty \/ (loaded /\ ~Refused(c, stuck)))
          /\ patches' = IF Refused(c, stuck) THEN patches ELSE [patches EXCEPT ![c.uid] = NoFile]
    BY <1>3 DEF RemoveComponent
  <2>. DEFINE r == Refused(c, stuck)
              cs == IF r THEN components ELSE RemoveAt(components, i)
              ix == IF r THEN componentIndex ELSE componentIndex \ {c.uid}
              w == dirty \/ (loaded /\ ~r)
  <2>2. disk # NoList /\ ready' = ready
    BY <1>3 DEF RemoveComponent
  <2>3. Reload("Online", cs, ix, w) /\ w \in BOOLEAN
    BY <2>1
  <2>4. /\ RemoveAt(components, i) \in Seq(Component)
        /\ \A k \in DOMAIN RemoveAt(components, i) :
             \E j \in DOMAIN components : RemoveAt(components, i)[k] = components[j]
    <3>. DEFINE ds == RemoveAt(components, i)
    <3>1. /\ ds \in Seq(Component) /\ Len(ds) = Len(components) - 1
          /\ \A k \in 1..Len(components) - 1 :
               ds[k] = IF k < i THEN components[k] ELSE components[k + 1]
      BY <1>1, RemoveAtProperties
    <3>. HIDE DEF ds
    <3>2. DOMAIN ds = 1..Len(components) - 1
      BY <3>1, LenProperties
    <3>3. ASSUME NEW k \in DOMAIN ds PROVE \E j \in DOMAIN components : ds[k] = components[j]
      <4>1. k \in DOMAIN components /\ k + 1 \in DOMAIN components
        BY <1>1, <3>2
      <4>. QED
        BY <3>1, <3>2, <4>1
    <3>. QED
      BY <3>1, <3>3 DEF ds
  <2>5. cs \in Seq(Component)
        /\ \A k \in DOMAIN cs : \E j \in DOMAIN components : cs[k] = components[j]
    BY <1>1, <2>4
  <2>6. \A j \in DOMAIN components :
          \/ patches'[components[j].uid] = patches[components[j].uid]
          \/ patches'[components[j].uid] = NoFile
    BY <1>1, <2>1 DEF Patches
  <2>. HIDE DEF r, cs, ix, w, c
  <2>7. RowsSound(cs, patches', ready')
    BY <2>2, <2>5, <2>6, SoundSubrows
  <2>. QED
    BY <2>2, <2>3, <2>5, <2>7, ReloadSound
<1>4. ASSUME NEW i \in DOMAIN components, NEW above \in BOOLEAN, MoveComponent(i, above)
      PROVE  RowsSound(components, patches, ready)'
  <2>. DEFINE j == Neighbour(i, above)
  <2>1. j \in DOMAIN components
    BY <1>1 DEF Neighbour
  <2>2. /\ components' = [components EXCEPT ![i] = components[j], ![j] = components[i]]
        /\ UNCHANGED <<patches, ready>>
    BY <1>4 DEF MoveComponent, metaVars
  <2>. HIDE DEF j
  <2>3. \A k \in DOMAIN components' : \E h \in DOMAIN components : components'[k] = components[h]
    BY <2>1, <2>2
  <2>. QED
    BY <2>2, <2>3, RowsStaySound
<1>5. ASSUME NEW i \in DOMAIN components, ToggleEnabled(i)
      PROVE  RowsSound(components, patches, ready)'
  <2>. DEFINE c == components[i]
              d == SetEnabled(c, ~IsEnabled(c))
  <2>1. d = [c EXCEPT !.disabled = d.disabled]
    <3>1. (~IsEnabled(c)) \in BOOLEAN
      BY DEF IsEnabled
    <3>. QED
      BY <1>1, <3>1, SetEnabledType
  <2>2. components' = [components EXCEPT ![i] = d] /\ UNCHANGED <<patches, ready>>
    BY <1>5 DEF ToggleEnabled, metaVars
  <2>. HIDE DEF d
  <2>3. SoundRow(c, patches, ready)
    BY DEF RowsSound
  <2>4. d.uid = c.uid /\ d.loaded = c.loaded /\ d.file = c.file /\ d.metaVersion = c.metaVersion
    BY <1>1, <2>1 DEF Component
  <2>. HIDE DEF c
  <2>5. SoundRow(d, patches, ready)
    BY <2>3, <2>4 DEF SoundRow, Entity
  <2>. QED
    BY <1>1, <2>2, <2>5, SoundChanged
<1>6. ASSUME NEW i \in DOMAIN components, CustomizeComponent(i)
      PROVE  RowsSound(components, patches, ready)'
  <2>. DEFINE c == components[i]
              f == FileOf(c, ready)
              d == Customize(c, ready)
  <2>1. /\ components' = [components EXCEPT ![i] = d] /\ ready' = ready
        /\ patches' = [patches EXCEPT ![c.uid] = f] /\ f # NoFile
    BY <1>6 DEF CustomizeComponent, IsCustomizable, metaVars
  <2>2. d = [c EXCEPT !.file = f, !.metaVersion = NoMeta] /\ c \in Component
    BY <1>1 DEF Customize
  <2>3. d.file = f /\ d.metaVersion = NoMeta
    <3>. HIDE DEF d, f, c
    <3>. QED
      BY <2>2 DEF Component
  <2>4. SoundRow(d, patches', ready')
    BY <2>1, <2>3 DEF SoundRow
  <2>5. \A u \in Uids : u # c.uid => patches'[u] = patches[u]
    BY <1>1, <2>1 DEF Patches
  <2>. HIDE DEF d, f
  <2>. QED
    BY <1>1, <2>1, <2>4, <2>5, SoundChanged
<1>7. ASSUME NEW i \in DOMAIN components, RevertComponent(i)
      PROVE  RowsSound(components, patches, ready)'
  <2>. DEFINE c == components[i]
              d == Revert(c, ready)
  <2>1. /\ components' = [components EXCEPT ![i] = d] /\ ready' = ready
        /\ patches' = [patches EXCEPT ![c.uid] = NoFile] /\ IsCustom(c)
    BY <1>7 DEF RevertComponent, IsRevertible, metaVars
  <2>2. c \in Component /\ SoundRow(c, patches, ready)
    BY <1>1 DEF RowsSound
  <2>3. patches'[c.uid] = NoFile /\ \A u \in Uids : u # c.uid => patches'[u] = patches[u]
    BY <1>1, <2>1 DEF Patches
  <2>4. SoundRow(d, patches', ready)
    BY <2>1, <2>2, <2>3, RevertSound
  <2>. HIDE DEF d
  <2>. QED
    BY <1>1, <2>1, <2>3, <2>4, SoundChanged
<1>8. ASSUME NEW u \in Uids, NEW v \in PublishedVersions(u), ChangeVersion(u, v)
      PROVE  RowsSound(components, patches, ready)'
  <2>. DEFINE imp == u = Minecraft
              set(c) == [SetVersion(Revert(c, ready), v, ready) EXCEPT !.important = imp]
  <2>1. v \in AnyVersion /\ imp \in BOOLEAN /\ ready' = ready
    BY <1>8, PublishedVersionType DEF ChangeVersion
  <2>2. CASE u \notin componentIndex
    <3>. DEFINE d == NewComponent(u, v, FALSE, imp)
    <3>1. d \in Component /\ d.uid = u /\ d.loaded = FALSE /\ d.metaVersion = NoMeta
      BY <2>1, NewComponentType
    <3>2. components' = Append(components, d) /\ patches' = patches
      BY <1>8, <2>2 DEF ChangeVersion
    <3>. HIDE DEF d
    <3>3. SoundRow(d, patches, ready)
      BY <3>1, UnloadedSound
    <3>. QED
      BY <1>1, <2>1, <2>2, <3>1, <3>2, <3>3, SoundAppended
  <2>3. CASE u \in componentIndex
    <3>. DEFINE i == IndexOf(components, u)
                c == components[i]
                d == set(c)
    <3>1. i \in DOMAIN components /\ c.uid = u /\ c \in Component /\ SoundRow(c, patches, ready)
      BY <1>1, <2>3, IndexOfProperties DEF RowsSound
    <3>2. PICK stuck \in StuckPatches :
            LET refused == IsCustom(c) /\ u \in stuck IN
            /\ components' = IF refused THEN components ELSE [components EXCEPT ![i] = d]
            /\ patches' = IF refused \/ ~IsCustom(c) THEN patches
                          ELSE [patches EXCEPT ![u] = NoFile]
      <4>1. [components EXCEPT ![i] = set(@)] = [components EXCEPT ![i] = set(components[i])]
        BY <3>1
      <4>. QED
        BY <1>8, <2>3, <4>1 DEF ChangeVersion
    <3>3. CASE IsCustom(c) /\ u \in stuck
      BY <2>1, <3>2, <3>3
    <3>4. CASE ~(IsCustom(c) /\ u \in stuck)
      <4>1. /\ IF IsCustom(c) THEN patches'[c.uid] = NoFile ELSE patches'[c.uid] = patches[c.uid]
            /\ \A w \in Uids : w # c.uid => patches'[w] = patches[w]
        BY <1>1, <3>1, <3>2, <3>4 DEF Patches
      <4>. DEFINE r == Revert(c, ready)
                  s == SetVersion(r, v, ready)
      <4>2. r \in Component /\ SoundRow(r, patches', ready)
        BY <3>1, <4>1, RevertSound, RevertType
      <4>3. d = [s EXCEPT !.important = imp]
        OBVIOUS
      <4>. HIDE DEF r
      <4>4. s \in Component /\ SoundRow(s, patches', ready)
        BY <1>1, <2>1, <4>2, SetVersionType, SetVersionSound
      <4>. HIDE DEF s, d, imp
      <4>5. /\ d.uid = s.uid /\ d.loaded = s.loaded /\ d.file = s.file
            /\ d.metaVersion = s.metaVersion
        BY <4>3, <4>4 DEF Component
      <4>6. SoundRow(d, patches', ready)
        BY <4>4, <4>5 DEF SoundRow, Entity
      <4>7. components' = [components EXCEPT ![i] = d]
        BY <3>2, <3>4
      <4>. HIDE DEF i
      <4>. QED
        BY <1>1, <2>1, <3>1, <4>1, <4>6, <4>7, SoundChanged
    <3>. QED
      BY <3>3, <3>4
  <2>. QED
    BY <2>2, <2>3
<1>9. ASSUME NEW u \in Uids, InstallLocal(u) PROVE RowsSound(components, patches, ready)'
  <2>. DEFINE f == EmptyFile(CHOOSE v \in Versions : TRUE)
              d == FileComponent(u, f)
  <2>1. f \in VersionFile /\ f # NoFile
    <3>1. (CHOOSE v \in Versions : TRUE) \in AnyVersion
      BY ComponentsAssumption, VersionTypes
    <3>. QED
      BY <3>1, VersionTypes
  <2>2. PICK written \in {f} \cup (IF PatchesMayFail THEN {Truncated} ELSE {}) :
          /\ u \notin componentIndex /\ patches' = [patches EXCEPT ![u] = written]
          /\ ready' = ready /\ components' = Append(components, d)
    BY <1>9 DEF InstallLocal, metaVars
  <2>. HIDE DEF f
  <2>3. d \in Component /\ d.uid = u /\ d.file = f /\ d.metaVersion = NoMeta
    BY <2>1, FileComponentType
  <2>4. \A w \in Uids : w # u => patches'[w] = patches[w]
    BY <1>1, <2>2 DEF Patches
  <2>. HIDE DEF d
  <2>5. SoundRow(d, patches', ready)
    BY <2>1, <2>3 DEF SoundRow
  <2>. DEFINE qs == patches'
  <2>6. SoundRow(d, qs, ready) /\ \A w \in Uids : w # d.uid => qs[w] = patches[w]
    BY <2>3, <2>4, <2>5
  <2>7. d.uid \notin componentIndex /\ RowsSound(components, patches, ready)
    BY <2>2, <2>3
  <2>. HIDE DEF qs
  <2>8. RowsSound(Append(components, d), qs, ready)
    BY <1>1, <2>3, <2>6, <2>7, SoundAppended
  <2>. QED
    BY <2>2, <2>8 DEF qs
<1>. QED
  BY <1>2, <1>3, <1>4, <1>5, <1>6, <1>7, <1>8, <1>9 DEF UserStep

\* What an edit does to the task: nothing, or it starts one.
LEMMA UserTask ==
  ASSUME UserStep
  PROVE  /\ Free /\ fault' = fault
         /\ \/ UNCHANGED <<task, phase, orphans>>
            \/ /\ phase' = "loading" /\ task'.slots = <<>>
               /\ orphans' = orphans \cup AwaitedBy(task)
<1>. DEFINE Started == /\ phase' = "loading" /\ task'.slots = <<>>
                       /\ orphans' = orphans \cup AwaitedBy(task)
<1>1. \E disturbs : Edit(disturbs)
  BY DEF UserStep, ReloadList, RemoveComponent, MoveComponent, ToggleEnabled,
     CustomizeComponent, RevertComponent, ChangeVersion, InstallLocal
<1>2. ASSUME NEW m, StartTask(m) PROVE Started
  BY <1>2 DEF StartTask
<1>3. ASSUME NEW m, NEW cs, NEW index, NEW wasDirty, Reload(m, cs, index, wasDirty)
      PROVE  UNCHANGED <<task, phase, orphans>> \/ Started
  <2>1. UNCHANGED <<taskVars, orphans>> \/ StartTask(m)
    BY <1>3 DEF Reload
  <2>. QED
    BY <1>2, <2>1 DEF taskVars
<1>4. CASE \E m \in Netmodes : ReloadList(m)
  BY <1>1, <1>3, <1>4 DEF ReloadList, Edit
<1>5. CASE \E i \in DOMAIN components : RemoveComponent(i)
  BY <1>1, <1>3, <1>5 DEF RemoveComponent, Edit
<1>6. CASE \/ \E i \in DOMAIN components, up \in BOOLEAN : MoveComponent(i, up)
           \/ \E i \in DOMAIN components : ToggleEnabled(i)
           \/ \E i \in DOMAIN components : CustomizeComponent(i)
           \/ \E i \in DOMAIN components : RevertComponent(i)
           \/ \E u \in Uids : InstallLocal(u)
  BY <1>1, <1>6 DEF MoveComponent, ToggleEnabled, CustomizeComponent, RevertComponent,
                    InstallLocal, Edit, taskVars, metaVars
<1>7. CASE \E u \in Uids : \E v \in PublishedVersions(u) : ChangeVersion(u, v)
  BY <1>1, <1>2, <1>7 DEF ChangeVersion, Edit
<1>. QED
  BY <1>4, <1>5, <1>6, <1>7 DEF UserStep

\* An edit while no task waits leaves no slot open and no download behind.
LEMMA IdleEdit ==
  ASSUME IInv, UserStep, phase # "waiting"
  PROVE  AwaitingInv' /\ CurrentInv' /\ orphans' = orphans
<1>1. phase = "idle" /\ task = NoTask
  BY UserTask DEF Free, IInv, TaskInv
<1>2. AwaitedBy(task) = {}
  BY <1>1 DEF AwaitedBy
<1>. QED
  BY <1>1, <1>2, UserTask DEF AwaitingInv, CurrentInv

\* An edit while a task waits, if it does not disturb it.
LEMMA WaitingEdit ==
  ASSUME IInv, UserStep, phase = "waiting", ~disturbed'
  PROVE  RowsWait /\ UNCHANGED <<task, phase, orphans>>
<1>1. /\ task # NoTask /\ DOMAIN components = 1..Len(components) /\ Len(components) \in Nat
      /\ components \in Seq(Component) /\ \A i \in DOMAIN components : components[i] \in Component
  BY RowsOfList DEF IInv, TaskInv, ListInv, RowsFit
<1>2. \A disturbs : Edit(disturbs) => ~disturbs
  BY DEF Edit
<1>3. ASSUME NEW i \in DOMAIN components, NEW d, components' = [components EXCEPT ![i] = d],
             UNCHANGED ready,
             \A e : Waits(components[i], e, ready) => Waits(d, e, ready)
      PROVE  RowsWait
  BY <1>3 DEF RowsWait
<1>4. ASSUME NEW i \in DOMAIN components, RemoveComponent(i)
      PROVE  RowsWait /\ UNCHANGED <<task, phase, orphans>>
  <2>1. PICK stuck \in StuckPatches :
          /\ Edit(~Refused(components[i], stuck))
          /\ Reload("Online",
                    IF Refused(components[i], stuck) THEN components
                    ELSE RemoveAt(components, i),
                    IF Refused(components[i], stuck) THEN componentIndex
                    ELSE componentIndex \ {components[i].uid},
                    dirty \/ (loaded /\ ~Refused(components[i], stuck)))
    BY <1>4 DEF RemoveComponent
  <2>2. Refused(components[i], stuck)
    BY <1>2, <2>1
  <2>3. UNCHANGED <<components, ready, task, phase, orphans>>
    BY <1>1, <1>4, <2>1, <2>2 DEF Reload, RemoveComponent, taskVars
  <2>. QED
    BY <2>3 DEF RowsWait
<1>5. ASSUME NEW i \in DOMAIN components, ToggleEnabled(i)
      PROVE  RowsWait /\ UNCHANGED <<task, phase, orphans>>
  <2>. DEFINE c == components[i]
              d == SetEnabled(c, ~IsEnabled(c))
  <2>1. d = [c EXCEPT !.disabled = d.disabled]
    <3>1. (~IsEnabled(c)) \in BOOLEAN
      BY DEF IsEnabled
    <3>. QED
      BY <1>1, <3>1, SetEnabledType
  <2>2. components' = [components EXCEPT ![i] = d] /\ UNCHANGED <<ready, task, phase, orphans>>
    BY <1>5 DEF ToggleEnabled, metaVars, taskVars
  <2>. HIDE DEF d
  <2>3. /\ d.uid = c.uid /\ d.version = c.version /\ d.file = c.file
        /\ d.metaVersion = c.metaVersion
    BY <1>1, <2>1 DEF Component
  <2>4. \A e : Waits(c, e, ready) => Waits(d, e, ready)
    BY <2>3 DEF Waits, MetaOf
  <2>. QED
    BY <1>3, <2>2, <2>4
<1>6. ASSUME NEW i \in DOMAIN components, CustomizeComponent(i)
      PROVE  RowsWait /\ UNCHANGED <<task, phase, orphans>>
  <2>. DEFINE c == components[i]
              f == FileOf(c, ready)
              d == Customize(c, ready)
  <2>1. /\ components' = [components EXCEPT ![i] = d] /\ UNCHANGED <<ready, task, phase, orphans>>
        /\ f # NoFile /\ c.metaVersion # NoMeta /\ c.file = NoFile
    BY <1>6 DEF CustomizeComponent, IsCustomizable, IsCustom, metaVars, taskVars
  <2>2. c \in Component /\ d = [c EXCEPT !.file = f, !.metaVersion = NoMeta]
    BY <1>1 DEF Customize
  <2>3. Entity(c) \in ready
    BY <2>1 DEF FileOf
  <2>. HIDE DEF d, f, c
  <2>4. d.uid = c.uid /\ d.version = c.version /\ d.file = f /\ d.metaVersion = NoMeta
    BY <2>2 DEF Component
  <2>5. \A e : Waits(c, e, ready) => Waits(d, e, ready)
    BY <2>1, <2>3, <2>4 DEF Waits, MetaOf, Entity
  <2>. QED
    BY <1>3, <2>1, <2>5 DEF c
<1>7. ASSUME NEW i \in DOMAIN components, RevertComponent(i)
      PROVE  RowsWait /\ UNCHANGED <<task, phase, orphans>>
  <2>. DEFINE c == components[i]
              d == Revert(c, ready)
  <2>1. /\ components' = [components EXCEPT ![i] = d] /\ UNCHANGED <<ready, task, phase, orphans>>
        /\ c.file # NoFile
    BY <1>7 DEF RevertComponent, IsRevertible, IsCustom, metaVars, taskVars
  <2>2. c \in Component
    BY <1>1
  <2>. HIDE DEF c
  <2>3. ASSUME NEW e, Waits(c, e, ready) PROVE Waits(d, e, ready)
    <3>1. e = <<c.uid, c.version>> /\ e \in ready
      BY <2>1, <2>3 DEF Waits, MetaOf
    <3>. DEFINE b == c.loaded /\ e \in ready
    <3>2. d = [c EXCEPT !.file = NoFile, !.metaVersion = c.version, !.loaded = b]
      BY <2>1, <2>2, <3>1 DEF Revert, IsCustom, Component
    <3>. HIDE DEF b, d
    <3>3. d.uid = c.uid /\ d.version = c.version /\ d.file = NoFile /\ d.metaVersion = c.version
      BY <2>2, <3>2 DEF Component
    <3>. QED
      BY <3>1, <3>3 DEF Waits, MetaOf
  <2>. HIDE DEF d
  <2>. QED
    BY <1>3, <2>1, <2>3 DEF c
<1>8. ASSUME NEW u \in Uids, InstallLocal(u)
      PROVE  RowsWait /\ UNCHANGED <<task, phase, orphans>>
  <2>1. UNCHANGED <<ready, task, phase, orphans>> /\ \E d : components' = Append(components, d)
    BY <1>8 DEF InstallLocal, metaVars, taskVars
  <2>2. \A i \in DOMAIN components : i \in DOMAIN components' /\ components'[i] = components[i]
    BY <1>1, <2>1
  <2>. QED
    BY <2>1, <2>2 DEF RowsWait
<1>9. /\ ~\E i \in DOMAIN components, up \in BOOLEAN : MoveComponent(i, up)
      /\ ~\E u \in Uids : \E v \in PublishedVersions(u) : ChangeVersion(u, v)
      /\ ~\E m \in Netmodes : ReloadList(m)
  BY <1>1, <1>2 DEF MoveComponent, ChangeVersion, ReloadList
<1>. QED
  BY <1>4, <1>5, <1>6, <1>7, <1>8, <1>9 DEF UserStep

\* Every step but the user's leaves the rows a task waits for sound, and current if they
\* were.
LEMMA OtherAnswer ==
  ASSUME IInv, SoundInv, [Next]_vars, ~UserStep
  PROVE  SoundInv' /\ (CurrentInv => CurrentInv')
<1>1. CASE UNCHANGED <<components, patches, ready, task, phase>>
  BY <1>1 DEF SoundInv, AwaitingInv, CurrentInv, WaitsAt, Open
<1>2. CASE \/ SaveTimeout
           \/ \E v \in PublishedVersions(Minecraft) : CreateInstance(v)
           \/ UNCHANGED vars
  BY <1>1, <1>2 DEF SaveTimeout, CreateInstance, vars, listVars, taskVars, metaVars
<1>3. ASSUME NEW i \in DOMAIN components, DrawRow(i)
      PROVE  SoundInv' /\ (CurrentInv => CurrentInv')
  <2>1. UNCHANGED <<components, patches, task, phase>> /\ ready \subseteq ready'
    BY <1>3 DEF DrawRow, listVars, taskVars
  <2>2. RowsSound(components, patches, ready)'
    BY <2>1, RowsStaySound DEF SoundInv
  <2>3. CurrentInv => CurrentInv'
    <3>1. \A j \in DOMAIN components :
            Current(components[j], ready) => Current(components[j], ready')
      BY <2>1 DEF Current, FileOf
    <3>. QED
      BY <2>1, <3>1 DEF CurrentInv, Open
  <2>4. AwaitingInv'
    <3>1. RowsWait
      BY <2>1 DEF RowsWait, Waits
    <3>. QED
      BY <2>1, <3>1, SlotsStay DEF SoundInv
  <2>. QED
    BY <2>2, <2>3, <2>4 DEF SoundInv
<1>4. CASE Exit \/ Crash
  <2>1. components' = <<>> /\ task' = NoTask /\ phase' = "idle"
    BY <1>4 DEF Exit, Crash, Restart, EndTask
  <2>2. DOMAIN components' = {}
    BY <2>1
  <2>. QED
    BY <2>1, <2>2 DEF SoundInv, AwaitingInv, CurrentInv, RowsSound
<1>5. CASE ResolverStep
  BY <1>5, LoadingAnswer, ResolvingAnswer DEF ResolverStep
<1>6. CASE NetworkStep
  BY <1>6, AnswersAnswer DEF NetworkStep
<1>. QED
  BY <1>2, <1>3, <1>4, <1>5, <1>6 DEF Next

LEMMA AnswerKept ==
  ASSUME ~EditsDuringUpdate, IInv, AnswerInv, [Next]_vars
  PROVE  AnswerInv'
<1>1. CASE UserStep
  <2>1. \E disturbs : Edit(disturbs)
    BY <1>1 DEF UserStep, ReloadList, RemoveComponent, MoveComponent, ToggleEnabled,
       CustomizeComponent, RevertComponent, ChangeVersion, InstallLocal
  <2>2. phase # "waiting"
    BY <2>1 DEF Edit
  <2>. QED
    BY <1>1, <2>2, IdleEdit, UserSound DEF AnswerInv, SoundInv
<1>2. CASE ~UserStep
  BY <1>2, OtherAnswer DEF AnswerInv
<1>. QED
  BY <1>1, <1>2

LEMMA AnswerInit == Init => AnswerInv
<1>. SUFFICES ASSUME Init PROVE AnswerInv
  OBVIOUS
<1>1. components = <<>> /\ task = NoTask /\ phase = "idle"
  BY DEF Init
<1>2. DOMAIN components = {}
  BY <1>1
<1>. QED
  BY <1>1, <1>2 DEF AnswerInv, SoundInv, RowsSound, AwaitingInv, CurrentInv

LEMMA AnswerInvariance ==
  ASSUME ~EditsDuringUpdate
  PROVE  Spec => []AnswerInv
<1>1. IInv /\ AnswerInv /\ [Next]_vars => AnswerInv'
  BY AnswerKept
<1>. QED
  BY <1>1, AnswerInit, Invariance, PTL DEF Spec

\* Without a conflict the exact version gathered is the one each dependee asks for.
LEMMA GatheredExactly ==
  ASSUME NEW cs \in Seq(Component), ConflictFree(cs), NEW u \in RequiredUids(cs),
         NEW d \in Dependees(cs, u), cs[d].requires[u].equals # NoVersion
  PROVE  GatherRequirements(cs)[u].equals = cs[d].requires[u].equals
<1>. DEFINE E == ExactVersions(cs, u)
            D == Dependees(cs, u)
            e == cs[d].requires[u].equals
            all == {cs[i].requires[u].equals : i \in D}
<1>1. e \in E /\ E = all \ {NoVersion}
  BY DEF ExactVersions
<1>2. IsFiniteSet(all)
  <2>. DEFINE f == [i \in D |-> cs[i].requires[u].equals]
  <2>1. IsFiniteSet(D)
    BY DependeesProperties
  <2>2. f \in Surjection(D, all)
    BY DEF Surjection
  <2>. HIDE DEF f, D, all
  <2>. QED
    BY <2>1, <2>2, FS_Surjection
<1>3. Cardinality(E) <= 1
  BY DEF ConflictFree
<1>4. GatherRequirements(cs)[u].equals = CHOOSE v \in E : TRUE
  BY <1>1 DEF GatherRequirements
<1>. HIDE DEF E, all, e
<1>5. IsFiniteSet(E)
  BY <1>1, <1>2, FS_Difference
<1>6. IsFiniteSet(E \ {e}) /\ Cardinality(E \ {e}) = Cardinality(E) - 1
  BY <1>1, <1>5, FS_RemoveElement
<1>7. Cardinality(E) \in Nat /\ Cardinality(E \ {e}) \in Nat
  BY <1>5, <1>6, FS_CardinalityType
<1>8. Cardinality(E \ {e}) = 0
  BY <1>3, <1>6, <1>7
<1>9. E \ {e} = {}
  BY <1>6, <1>8, FS_EmptySet
<1>10. (CHOOSE v \in E : TRUE) \in E
  BY <1>1
<1>. QED
  BY <1>4, <1>9, <1>10 DEF e

LEMMA SettledIsResolved ==
  ASSUME IInv, AnswerInv, ResolutionSucceeds
  PROVE  Resolved(components)
<1>1. /\ components \in Seq(Component) /\ phase = "resolving" /\ ConflictFree(components)
      /\ Locked(components, Reqs) = {} /\ ToAdd(components, Reqs) = {}
      /\ ToChange(components, Reqs) = {}
  BY DEF IInv, ListInv, RowsFit, ResolutionSucceeds, Resolving, Settled, Changes
<1>2. DOMAIN Reqs = RequiredUids(components)
  BY DEF Reqs, GatherRequirements
<1>3. ASSUME NEW i \in DOMAIN components, NEW u \in DOMAIN components[i].requires
      PROVE  Meets(components, u, components[i].requires[u])
  <2>1. u \in RequiredUids(components) /\ i \in Dependees(components, u)
    BY DEF RequiredUids, Dependees
  <2>2. u \in UidsOf(components)
    BY <1>1, <1>2, <2>1 DEF ToAdd
  <2>3. ASSUME components[i].requires[u].equals # NoVersion
        PROVE  components[IndexOf(components, u)].cachedVersion
                 = components[i].requires[u].equals
    <3>1. Reqs[u].equals = components[i].requires[u].equals
      BY <1>1, <2>1, <2>3, GatheredExactly DEF Reqs
    <3>2. ~VersionDiffers(components, Reqs, u)
      BY <1>1, <1>2, <2>1 DEF Locked, ToChange
    <3>. QED
      BY <2>2, <2>3, <3>1, <3>2 DEF VersionDiffers
  <2>. QED
    BY <2>2, <2>3 DEF Meets
<1>4. \A i \in DOMAIN components : Current(components[i], ready)
  BY <1>1 DEF AnswerInv, CurrentInv
<1>. QED
  BY <1>3, <1>4 DEF Resolved, Current

\* When a ComponentUpdateTask emits succeeded, each component has a version file, and
\* what that file requires is in the list, in the exact version if it names one; provided
\* that nobody edits the list while the task waits for downloads.
THEOREM SuccessIsResolved ==
  ASSUME ~EditsDuringUpdate
  PROVE  Spec => SuccessMeansResolved
<1>. DEFINE Holds == phase = "resolving" /\ phase' = "idle" /\ result' = "succeeded"
                       => Resolved(components)
<1>1. IInv /\ AnswerInv /\ [Next]_vars => [Holds]_vars
  <2>. SUFFICES ASSUME IInv, AnswerInv, [Next]_vars, phase = "resolving", phase' = "idle",
                       result' = "succeeded"
                PROVE  Resolved(components)
    OBVIOUS
  <2>1. ~Crash /\ ~(UNCHANGED vars)
    BY DEF Crash, Restart, EndTask, vars, taskVars
  <2>2. ~LoadComponents /\ ~RemoveObsolete /\ ~ApplyChanges /\ ~ResolutionFails
    BY DEF LoadComponents, RemoveObsolete, ApplyChanges, ResolutionFails, EndTask, taskVars
  <2>3. ResolutionSucceeds
    BY <2>1, <2>2, OnlyTheTask DEF ResolverStep
  <2>. QED
    BY <2>3, SettledIsResolved
<1>. QED
  BY <1>1, Invariance, AnswerInvariance, PTL DEF SuccessMeansResolved, Spec

\* As long as nothing was disturbed, every row that is waited for is there, and no task
\* that is gone is connected to a download.
ArrivalInv == ~disturbed => SoundInv /\ orphans = {} /\ fault = "none"

LEMMA ArrivalKept ==
  ASSUME IInv, ArrivalInv, [Next]_vars
  PROVE  ArrivalInv'
<1>1. CASE Exit \/ Crash
  <2>1. /\ components' = <<>> /\ task' = NoTask /\ phase' = "idle"
        /\ orphans' = {} /\ fault' = "none"
    BY <1>1 DEF Exit, Crash, Restart, EndTask
  <2>2. DOMAIN components' = {}
    BY <2>1
  <2>. QED
    BY <2>1, <2>2 DEF ArrivalInv, SoundInv, AwaitingInv, RowsSound
<1>2. ASSUME ~disturbed', ~Exit, ~Crash
      PROVE  SoundInv' /\ orphans' = {} /\ fault' = "none"
  <2>1. CASE UserStep
    <3>1. ~disturbed
      BY <1>2, <2>1 DEF UserStep, ReloadList, RemoveComponent, MoveComponent, ToggleEnabled,
         CustomizeComponent, RevertComponent, ChangeVersion, InstallLocal, Edit
    <3>2. SoundInv /\ orphans = {} /\ fault = "none"
      BY <3>1 DEF ArrivalInv
    <3>3. RowsSound(components, patches, ready)'
      BY <2>1, <3>2, UserSound DEF SoundInv
    <3>4. AwaitingInv' /\ orphans' = orphans
      <4>1. CASE phase = "waiting"
        BY <1>2, <2>1, <3>2, <4>1, WaitingEdit, SlotsStay DEF SoundInv
      <4>2. CASE phase # "waiting"
        BY <2>1, <4>2, IdleEdit
      <4>. QED
        BY <4>1, <4>2
    <3>5. fault' = fault
      BY <2>1, UserTask
    <3>. QED
      BY <3>2, <3>3, <3>4, <3>5 DEF SoundInv
  <2>2. CASE ~UserStep
    <3>1. ~disturbed
      <4>1. ResolverStep => disturbed' = disturbed \/ (disturbed => disturbed')
        BY DEF ResolverStep, LoadComponents, RemoveObsolete, ResolutionFails,
               ResolutionSucceeds, ApplyChanges, boundVars
      <4>2. NetworkStep => disturbed' = disturbed
        BY DEF NetworkStep, RemoteSucceeds, RemoteFails, RemoteAnswer, boundVars
      <4>3. \/ \E i \in DOMAIN components : DrawRow(i)
            \/ SaveTimeout
            \/ \E v \in PublishedVersions(Minecraft) : CreateInstance(v)
            \/ UNCHANGED vars
            => disturbed' = disturbed
        BY DEF DrawRow, SaveTimeout, CreateInstance, vars, boundVars
      <4>. QED
        BY <1>2, <2>2, <4>1, <4>2, <4>3 DEF Next
    <3>2. SoundInv /\ orphans = {} /\ fault = "none"
      BY <3>1 DEF ArrivalInv
    <3>3. SoundInv'
      BY <2>2, <3>2, OtherAnswer
    <3>4. CASE LoadComponents
      <4>1. \/ orphans' = orphans
            \/ /\ orphans' = orphans \cup {Slots[k].entity : k \in DOMAIN Slots}
               /\ Slots = <<>>
        BY <1>2, <3>4 DEF LoadComponents
      <4>2. fault' = fault
        BY <3>4 DEF LoadComponents
      <4>. QED
        BY <3>2, <3>3, <4>1, <4>2
    <3>5. CASE NetworkStep
      <4>1. PICK e \in inFlight : RemoteSucceeds(e) \/ RemoteFails(e)
        BY <3>5 DEF NetworkStep
      <4>2. Free
        BY <4>1 DEF RemoteSucceeds, RemoteFails, RemoteAnswer
      <4>3. ~PositionGone(e)
        BY <3>2, <4>2, RowsStay
      <4>4. RemoteAnswer(e) /\ \E success : Answered(e, success)
        BY <4>1, <4>3 DEF RemoteSucceeds, RemoteFails
      <4>5. fault' = "none" /\ orphans' = {}
        BY <3>2, <4>4 DEF RemoteAnswer, Answered
      <4>. QED
        BY <3>3, <4>5
    <3>6. CASE \/ RemoveObsolete \/ ResolutionFails \/ ResolutionSucceeds \/ ApplyChanges
               \/ \E i \in DOMAIN components : DrawRow(i)
               \/ SaveTimeout
               \/ \E v \in PublishedVersions(Minecraft) : CreateInstance(v)
               \/ UNCHANGED vars
      <4>1. UNCHANGED <<orphans, fault>>
        BY <3>6 DEF RemoveObsolete, ResolutionFails, ResolutionSucceeds, ApplyChanges,
                    DrawRow, SaveTimeout, CreateInstance, vars, metaVars
      <4>. QED
        BY <3>2, <3>3, <4>1
    <3>. QED
      BY <1>2, <2>2, <3>4, <3>5, <3>6 DEF Next, ResolverStep
  <2>. QED
    BY <2>1, <2>2
<1>. QED
  BY <1>1, <1>2 DEF ArrivalInv

\* Unless rows were moved or removed or the task was replaced while it waited, or it failed
\* while it was starting downloads, no answer reaches a task that is gone or a row that is
\* gone, and no component counts as loaded whose own meta data never arrived; whatever else
\* the user does meanwhile, with any lists, meta data, network modes and failures.
THEOREM AnswersArrive == Spec => []AnswersFindTheirRow
<1>1. Init => ArrivalInv
  BY AnswerInit DEF AnswerInv, ArrivalInv, Init
<1>2. IInv /\ ArrivalInv /\ [Next]_vars => ArrivalInv'
  BY ArrivalKept
<1>3. ArrivalInv => AnswersFindTheirRow
  BY DEF ArrivalInv, SoundInv, RowsSound, SoundRow, AnswersFindTheirRow,
         AnswersMarkTheirComponent, TaskStaysInControl
<1>. QED
  BY <1>1, <1>2, <1>3, Invariance, PTL DEF Spec
=============================================================================
