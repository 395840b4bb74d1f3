-------------------------- MODULE ModFolder_proofs --------------------------
(***************************************************************************)
(* Proofs about module ModFolder, for any mods and any number of changes.  *)
(*                                                                         *)
(* The first part is about data: rows cut from a list one after another,   *)
(* and tickets, dates and places that are free.  The second says what rows *)
(* the list has when a reading of the folder is done with (finishUpdate):  *)
(* one for each file that was read, and the old one where it still fits.   *)
(* The third is the invariant IInv of the folder, the reader, the rows and *)
(* the tickets, kept by every step, up to the mishaps that break it.  On   *)
(* it rest                                                                 *)
(*   ListAndIndex     the list and its index agree,                        *)
(*   ListShowsFolder  the list at rest shows the folder.                   *)
(***************************************************************************)
EXTENDS ModFolder, SequenceTheorems, FiniteSetTheorems, TLAPS

(***************************************************************************)
(* Recursion, and rows that are cut from a list.                           *)
(***************************************************************************)
\* A set of numbers that is not empty has a smallest one.
LEMMA Least ==
  ASSUME NEW S, S \subseteq Nat, S # {}
  PROVE  \E m \in S : \A j \in S : m <= j
<1>. DEFINE R == {ss \in Nat \X Nat : ss[1] < ss[2]}
<1>1. IsWellFoundedOn(R, Nat)
  BY NatLessThanWellFounded DEF OpToRel
<1>2. PICK m \in S : \A j \in S : <<j, m>> \notin R
  <2>. HIDE DEF R
  <2>. QED
    BY <1>1, WFMin
<1>3. ASSUME NEW j \in S PROVE m <= j
  <2>1. m \in Nat /\ j \in Nat /\ <<j, m>> \in Nat \X Nat /\ <<j, m>> \notin R
    BY <1>2
  <2>2. ~(j < m)
    BY <2>1
  <2>. QED
    BY <2>1, <2>2
<1>. QED
  BY <1>3

\* Counting up: what holds of 0 and of every number after one it holds of.
LEMMA Stepwise ==
  ASSUME NEW n \in Nat, NEW G, 0 \in G, \A k \in 1..n : k - 1 \in G => k \in G
  PROVE  \A k \in 0..n : k \in G
<1>. DEFINE B == {k \in 0..n : k \notin G}
<1>. SUFFICES ASSUME B # {} PROVE FALSE
  OBVIOUS
<1>1. B \subseteq Nat
  OBVIOUS
<1>2. PICK m \in B : \A j \in B : m <= j
  <2>. HIDE DEF B
  <2>. QED
    BY <1>1, Least
<1>3. m \in Nat /\ m \in 0..n /\ m \notin G
  BY <1>2
<1>4. m \in 1..n /\ m - 1 \in Nat /\ m - 1 \in 0..n
  BY <1>3
<1>5. m - 1 \notin B
  BY <1>2, <1>3, <1>4
<1>. QED
  BY <1>3, <1>4, <1>5

\* f[k] comes from f[k - 1] by step k.
Iteration(f, n, S, base, step) ==
  /\ f \in [0..n -> S] /\ f[0] = base
  /\ \A k \in 1..n : f[k] = step[k][f[k - 1]]

\* A recursion over 0..n has a value at every number.
LEMMA Iterates ==
  ASSUME NEW n \in Nat, NEW S, NEW base \in S, NEW step \in [1..n -> [S -> S]]
  PROVE  \E f : Iteration(f, n, S, base, step)
<1>. DEFINE Good(m, f) == /\ f[0] = base
                          /\ \A k \in 1..m : f[k] = step[k][f[k - 1]]
            G == {m \in 0..n : \E f \in [0..m -> S] : Good(m, f)}
<1>1. 0 \in G
  <2>. DEFINE f == [k \in 0..0 |-> base]
  <2>1. f \in [0..0 -> S] /\ f[0] = base /\ 1..0 = {}
    OBVIOUS
  <2>. HIDE DEF f
  <2>2. Good(0, f)
    BY <2>1
  <2>. QED
    BY <2>1, <2>2
<1>2. ASSUME NEW m \in 1..n, m - 1 \in G PROVE m \in G
  <2>1. PICK f \in [0..(m-1) -> S] : Good(m - 1, f)
    BY <1>2
  <2>. DEFINE g == [k \in 0..m |-> IF k = m THEN step[m][f[m - 1]] ELSE f[k]]
  <2>2. g \in [0..m -> S]
    <3>1. f[m - 1] \in S
      BY <2>1
    <3>2. step[m][f[m - 1]] \in S
      BY <3>1
    <3>3. \A k \in 0..m : k # m => f[k] \in S
      BY <2>1
    <3>. QED
      BY <3>2, <3>3
  <2>3. g[0] = base
    BY <2>1
  <2>4. ASSUME NEW k \in 1..m PROVE g[k] = step[k][g[k - 1]]
    <3>1. k - 1 \in 0..m /\ k - 1 # m /\ k \in 0..m
      OBVIOUS
    <3>2. g[k - 1] = f[k - 1]
      BY <3>1
    <3>3. CASE k = m
      <4>1. m \in 0..m /\ g[m] = step[m][f[m - 1]]
        OBVIOUS
      <4>. HIDE DEF g
      <4>. QED
        BY <4>1, <3>2, <3>3
    <3>4. CASE k # m
      <4>1. g[k] = f[k] /\ k \in 1..(m-1)
        BY <3>1, <3>4
      <4>. QED
        BY <4>1, <3>2, <2>1
    <3>. QED
      BY <3>3, <3>4
  <2>. HIDE DEF g
  <2>5. Good(m, g) /\ m \in 0..n
    BY <2>3, <2>4
  <2>. QED
    BY <2>2, <2>5
<1>3. n \in G
  <2>. HIDE DEF G
  <2>1. \A k \in 0..n : k \in G
    BY <1>1, <1>2, Stepwise
  <2>. QED
    BY <2>1
<1>. QED
  BY <1>3 DEF Iteration
\* Cutting none changes nothing.
LEMMA CutNone ==
  ASSUME NEW S, NEW rows \in Seq(S), NEW r \in 1..Len(rows)
  PROVE  Cut(rows, r, 0) = rows
<1>. DEFINE x == SubSeq(rows, 1, r - 1)
            y == SubSeq(rows, r + 0, Len(rows))
            n == Len(rows)
<1>1. n \in Nat /\ r \in Nat /\ r >= 1 /\ r <= n /\ DOMAIN rows = 1..n
  BY LenProperties
<1>2. \A k \in 1..n : rows[k] \in S
  BY ElementOfSeq
<1>3. /\ x \in Seq(S) /\ Len(x) = r - 1
      /\ \A k \in 1..(r - 1) : x[k] = rows[k]
  <2>1. \A k \in 1..(r - 1) : rows[k] \in S
    BY <1>1, <1>2
  <2>2. /\ x \in Seq(S) /\ Len(x) = IF 1 <= r - 1 THEN r - 1 - 1 + 1 ELSE 0
        /\ \A k \in 1..(r - 1 - 1 + 1) : x[k] = rows[1 + k - 1]
    BY <1>1, <2>1, SubSeqProperties
  <2>. HIDE DEF x
  <2>. QED
    BY <1>1, <2>2
<1>4. /\ y \in Seq(S) /\ Len(y) = n - r + 1
      /\ \A k \in 1..(n - r + 1) : y[k] = rows[r + k - 1]
  <2>1. \A k \in (r + 0)..n : rows[k] \in S
    BY <1>1, <1>2
  <2>2. /\ y \in Seq(S) /\ Len(y) = IF r + 0 <= n THEN n - (r + 0) + 1 ELSE 0
        /\ \A k \in 1..(n - (r + 0) + 1) : y[k] = rows[r + 0 + k - 1]
    BY <1>1, <2>1, SubSeqProperties
  <2>. HIDE DEF y
  <2>. QED
    BY <1>1, <2>2
<1>5. Cut(rows, r, 0) = x \o y
  BY DEF Cut
<1>. HIDE DEF x, y
<1>6. /\ x \o y \in Seq(S) /\ Len(x \o y) = Len(x) + Len(y)
      /\ \A k \in 1..(Len(x) + Len(y)) :
           (x \o y)[k] = IF k <= Len(x) THEN x[k] ELSE y[k - Len(x)]
  BY <1>3, <1>4, ConcatProperties
<1>7. Len(x) + Len(y) = n
  BY <1>1, <1>3, <1>4
<1>8. ASSUME NEW k \in 1..n PROVE (x \o y)[k] = rows[k]
  <2>1. CASE k <= r - 1
    BY <1>1, <1>3, <1>6, <1>7, <2>1
  <2>2. CASE ~(k <= r - 1)
    <3>1. k - (r - 1) \in 1..(n - r + 1) /\ r + (k - (r - 1)) - 1 = k
      BY <1>1, <2>2
    <3>2. y[k - (r - 1)] = rows[r + (k - (r - 1)) - 1]
      BY <1>4, <3>1
    <3>. QED
      BY <1>3, <1>6, <1>7, <2>2, <3>1, <3>2
  <2>. QED
    BY <2>1, <2>2
<1>9. x \o y = rows
  BY <1>6, <1>7, <1>8, SeqEqual
<1>. QED
  BY <1>5, <1>9

\* Cutting one leaves the others in their order.
LEMMA CutOne ==
  ASSUME NEW S, NEW rows \in Seq(S), NEW r \in 1..Len(rows)
  PROVE  /\ Cut(rows, r, 1) \in Seq(S)
         /\ Len(Cut(rows, r, 1)) = Len(rows) - 1
         /\ \A k \in 1..Len(rows) - 1 :
              Cut(rows, r, 1)[k] = IF k < r THEN rows[k] ELSE rows[k + 1]
<1>. DEFINE n == Len(rows)
            x == SubSeq(rows, 1, r - 1)
            y == SubSeq(rows, r + 1, n)
<1>1. n \in Nat /\ r \in Nat /\ r >= 1 /\ r <= n
  BY LenProperties
<1>2. \A k \in 1..n : rows[k] \in S
  BY ElementOfSeq
<1>3. /\ x \in Seq(S) /\ Len(x) = r - 1
      /\ \A k \in 1..(r - 1) : x[k] = rows[k]
  <2>1. \A k \in 1..(r - 1) : rows[k] \in S
    BY <1>1, <1>2
  <2>2. /\ x \in Seq(S) /\ Len(x) = IF 1 <= r - 1 THEN r - 1 - 1 + 1 ELSE 0
        /\ \A k \in 1..(r - 1 - 1 + 1) : x[k] = rows[1 + k - 1]
    BY <1>1, <2>1, SubSeqProperties
  <2>. HIDE DEF x
  <2>. QED
    BY <1>1, <2>2
<1>4. /\ y \in Seq(S) /\ Len(y) = n - r
      /\ \A k \in 1..(n - r) : y[k] = rows[r + k]
  <2>1. \A k \in (r + 1)..n : rows[k] \in S
    BY <1>1, <1>2
  <2>2. /\ y \in Seq(S) /\ Len(y) = IF r + 1 <= n THEN n - (r + 1) + 1 ELSE 0
        /\ \A k \in 1..(n - (r + 1) + 1) : y[k] = rows[r + 1 + k - 1]
    BY <1>1, <2>1, SubSeqProperties
  <2>. HIDE DEF y
  <2>. QED
    BY <1>1, <2>2
<1>5. Cut(rows, r, 1) = x \o y
  BY DEF Cut
<1>. HIDE DEF x, y
<1>6. /\ x \o y \in Seq(S) /\ Len(x \o y) = n - 1
      /\ \A k \in 1..(n - 1) : (x \o y)[k] = IF k <= r - 1 THEN x[k] ELSE y[k - (r - 1)]
  <2>1. /\ x \o y \in Seq(S) /\ Len(x \o y) = Len(x) + Len(y)
        /\ \A k \in 1..(Len(x) + Len(y)) :
             (x \o y)[k] = IF k <= Len(x) THEN x[k] ELSE y[k - Len(x)]
    BY <1>3, <1>4, ConcatProperties
  <2>2. Len(x) = r - 1 /\ Len(x) + Len(y) = n - 1
    BY <1>1, <1>3, <1>4
  <2>. QED
    BY <2>1, <2>2
<1>7. ASSUME NEW k \in 1..(n - 1)
      PROVE  (x \o y)[k] = IF k < r THEN rows[k] ELSE rows[k + 1]
  <2>1. CASE k < r
    BY <1>1, <1>3, <1>6, <2>1
  <2>2. CASE ~(k < r)
    <3>1. k - (r - 1) \in 1..(n - r) /\ r + (k - (r - 1)) = k + 1 /\ ~(k <= r - 1)
      BY <1>1, <2>2
    <3>. QED
      BY <1>4, <1>6, <2>2, <3>1
  <2>. QED
    BY <2>1, <2>2
<1>. QED
  BY <1>5, <1>6, <1>7

\* Of the rows after the first m those remain that are not cut, and each is there once.
IsLeft(l, rows, c, m) ==
  /\ Len(l) >= m
  /\ \A i \in 1..m : l[i] = rows[i]
  /\ \A i, j \in DOMAIN l : l[i] = l[j] => i = j
  /\ \A i \in DOMAIN l : \E r \in DOMAIN rows : l[i] = rows[r] /\ (r <= m \/ c[r] = 0)
  /\ \A r \in DOMAIN rows : r <= m \/ c[r] = 0 => \E i \in DOMAIN l : l[i] = rows[r]

\* The next row goes.
LEMMA CutKeeps ==
  ASSUME NEW S, NEW rows \in Seq(S), \A i, j \in DOMAIN rows : rows[i] = rows[j] => i = j,
         NEW c \in [DOMAIN rows -> {0, 1}], NEW m \in DOMAIN rows,
         NEW l \in Seq(S), IsLeft(l, rows, c, m)
  PROVE  Cut(l, m, c[m]) \in Seq(S) /\ IsLeft(Cut(l, m, c[m]), rows, c, m - 1)
<1>. DEFINE p == Len(l)
<1>1. /\ Len(rows) \in Nat /\ DOMAIN rows = 1..Len(rows) /\ p \in Nat /\ DOMAIN l = 1..p
      /\ m \in Nat /\ m >= 1 /\ m <= p /\ m \in 1..p /\ l[m] = rows[m]
  BY LenProperties DEF IsLeft
<1>. HIDE DEF p
<1>2. CASE c[m] = 0
  <2>1. Cut(l, m, c[m]) = l
    BY <1>1, <1>2, CutNone DEF p
  <2>2. IsLeft(l, rows, c, m - 1)
    <3>1. p >= m - 1 /\ \A i \in 1..(m - 1) : i \in 1..m
      BY <1>1
    <3>2. \A r \in DOMAIN rows : r <= m - 1 \/ c[r] = 0 <=> r <= m \/ c[r] = 0
      BY <1>1, <1>2
    <3>. QED
      BY <3>1, <3>2 DEF IsLeft, p
  <2>. QED
    BY <2>1, <2>2
<1>3. CASE c[m] = 1
  <2>. DEFINE x == Cut(l, m, 1)
              e(k) == IF k < m THEN k ELSE k + 1
  <2>1. /\ x \in Seq(S) /\ Len(x) = p - 1
        /\ \A k \in 1..(p - 1) : x[k] = IF k < m THEN l[k] ELSE l[k + 1]
    <3>1. m \in 1..Len(l)
      BY <1>1 DEF p
    <3>2. /\ x \in Seq(S) /\ Len(x) = Len(l) - 1
          /\ \A k \in 1..(Len(l) - 1) : x[k] = IF k < m THEN l[k] ELSE l[k + 1]
      BY <3>1, CutOne
    <3>. QED
      BY <3>2 DEF p
  <2>. HIDE DEF x
  <2>2. DOMAIN x = 1..(p - 1)
    BY <2>1, LenProperties
  <2>3. \A k \in DOMAIN x : e(k) \in DOMAIN l /\ e(k) # m /\ x[k] = l[e(k)]
    BY <1>1, <2>1, <2>2
  <2>4. \A k, h \in DOMAIN x : e(k) = e(h) => k = h
    BY <1>1, <2>2
  <2>5. \A i \in DOMAIN l : i # m => \E k \in DOMAIN x : x[k] = l[i]
    <3>1. ASSUME NEW i \in DOMAIN l, i # m PROVE \E k \in DOMAIN x : x[k] = l[i]
      <4>1. CASE i < m
        <5>1. i \in DOMAIN x /\ x[i] = l[i]
          BY <1>1, <2>1, <2>2, <4>1
        <5>. QED
          BY <5>1
      <4>2. CASE ~(i < m)
        <5>1. i - 1 \in DOMAIN x /\ i - 1 \in 1..(p - 1) /\ ~(i - 1 < m) /\ i - 1 + 1 = i
          BY <1>1, <2>2, <3>1, <4>2
        <5>2. x[i - 1] = l[i]
          BY <2>1, <5>1
        <5>. QED
          BY <5>1, <5>2
      <4>. QED
        BY <4>1, <4>2
    <3>. QED
      BY <3>1
  <2>. HIDE DEF e
  <2>6. Len(x) >= m - 1
    BY <1>1, <2>1
  <2>7. ASSUME NEW i \in 1..(m - 1) PROVE x[i] = rows[i]
    <3>1. i \in 1..(p - 1) /\ i < m /\ i \in 1..m
      BY <1>1
    <3>2. l[i] = rows[i]
      BY <3>1 DEF IsLeft
    <3>. QED
      BY <2>1, <3>1, <3>2
  <2>8. ASSUME NEW i \in DOMAIN x, NEW j \in DOMAIN x, x[i] = x[j] PROVE i = j
    <3>1. l[e(i)] = l[e(j)] /\ e(i) \in DOMAIN l /\ e(j) \in DOMAIN l
      BY <2>3, <2>8
    <3>2. e(i) = e(j)
      BY <3>1 DEF IsLeft
    <3>. QED
      BY <2>4, <3>2
  <2>9. ASSUME NEW i \in DOMAIN x
        PROVE  \E r \in DOMAIN rows : x[i] = rows[r] /\ (r <= m - 1 \/ c[r] = 0)
    <3>1. e(i) \in DOMAIN l /\ e(i) # m /\ x[i] = l[e(i)]
      BY <2>3
    <3>2. PICK r \in DOMAIN rows : l[e(i)] = rows[r] /\ (r <= m \/ c[r] = 0)
      BY <3>1 DEF IsLeft
    <3>3. r # m
      <4>1. SUFFICES ASSUME r = m PROVE FALSE
        OBVIOUS
      <4>2. l[e(i)] = l[m] /\ m \in DOMAIN l
        BY <1>1, <3>2, <4>1
      <4>. QED
        BY <3>1, <4>2 DEF IsLeft
    <3>4. r <= m - 1 \/ c[r] = 0
      BY <1>1, <3>2, <3>3
    <3>. QED
      BY <3>1, <3>2, <3>4
  <2>10. ASSUME NEW r \in DOMAIN rows, r <= m - 1 \/ c[r] = 0
         PROVE  \E i \in DOMAIN x : x[i] = rows[r]
    <3>1. (r <= m \/ c[r] = 0) /\ r # m
      BY <1>1, <1>3, <2>10
    <3>2. PICK i \in DOMAIN l : l[i] = rows[r]
      BY <3>1 DEF IsLeft
    <3>3. i # m
      BY <1>1, <3>1, <3>2
    <3>. QED
      BY <2>5, <3>2, <3>3
  <2>11. IsLeft(x, rows, c, m - 1)
    BY <2>6, <2>7, <2>8, <2>9, <2>10 DEF IsLeft
  <2>. QED
    BY <1>3, <2>1, <2>11 DEF x
<1>. QED
  BY <1>2, <1>3

\* What is left when each of the n rows is cut or not, from the last to the first.
CutsOf(rows, c, n) ==
  CHOOSE f : f = [k \in 0..n |-> IF k = 0 THEN rows
                                 ELSE Cut(f[k - 1], n + 1 - k, c[n + 1 - k])]

\* Those that are not cut remain, each once.
LEMMA CutsProperties ==
  ASSUME NEW S, NEW rows \in Seq(S), \A i, j \in DOMAIN rows : rows[i] = rows[j] => i = j,
         NEW c \in [DOMAIN rows -> {0, 1}], NEW n, n = Len(rows)
  PROVE  CutsOf(rows, c, n)[n] \in Seq(S) /\ IsLeft(CutsOf(rows, c, n)[n], rows, c, 0)
<1>. DEFINE Step(k, l) == Cut(l, n + 1 - k, c[n + 1 - k])
            Good(k) == {l \in Seq(S) : IsLeft(l, rows, c, n - k)}
            left == CHOOSE f : f = [k \in 0..n |-> IF k = 0 THEN rows ELSE Step(k, f[k - 1])]
<1>1. n \in Nat /\ DOMAIN rows = 1..n
  BY LenProperties
<1>2. rows \in Good(0)
  <2>1. n - 0 = n /\ \A r \in DOMAIN rows : r <= n
    BY <1>1
  <2>. QED
    BY <1>1, <2>1 DEF IsLeft
<1>3. ASSUME NEW k \in 1..n, NEW l \in Good(k - 1) PROVE Step(k, l) \in Good(k)
  <2>1. n + 1 - k \in DOMAIN rows /\ n - (k - 1) = n + 1 - k /\ n + 1 - k - 1 = n - k
    BY <1>1
  <2>2. l \in Seq(S) /\ IsLeft(l, rows, c, n + 1 - k)
    BY <2>1
  <2>3. Step(k, l) \in Seq(S) /\ IsLeft(Step(k, l), rows, c, n + 1 - k - 1)
    <3>. DEFINE m == n + 1 - k
    <3>1. m \in DOMAIN rows /\ IsLeft(l, rows, c, m)
      BY <2>1, <2>2
    <3>. HIDE DEF m
    <3>2. Cut(l, m, c[m]) \in Seq(S) /\ IsLeft(Cut(l, m, c[m]), rows, c, m - 1)
      BY <2>2, <3>1, CutKeeps
    <3>. QED
      BY <3>2 DEF m
  <2>. HIDE DEF Step
  <2>. QED
    BY <2>1, <2>3
<1>4. Good(n) = {l \in Seq(S) : IsLeft(l, rows, c, 0)} /\ \A k : Good(k) \subseteq Seq(S)
  <2>1. n - n = 0
    BY <1>1
  <2>. QED
    BY <2>1
<1>. HIDE DEF Good, Step
<1>5. \E f : f = [k \in 0..n |-> IF k = 0 THEN rows ELSE Step(k, f[k - 1])]
  <2>. DEFINE step == [k \in 1..n |-> [l \in Seq(S) |-> IF l \in Good(k - 1) THEN Step(k, l)
                                                       ELSE rows]]
  <2>1. step \in [1..n -> [Seq(S) -> Seq(S)]]
    BY <1>3, <1>4
  <2>2. \A k \in 1..n : \A l \in Good(k - 1) : step[k][l] = Step(k, l)
    BY <1>4
  <2>. HIDE DEF step
  <2>3. PICK f : Iteration(f, n, Seq(S), rows, step)
    BY <1>1, <2>1, Iterates
  <2>4. \A k \in 0..n : f[k] \in Good(k)
    <3>. DEFINE G == {k \in 0..n : f[k] \in Good(k)}
    <3>1. 0 \in G
      BY <1>1, <1>2, <2>3 DEF Iteration
    <3>2. ASSUME NEW k \in 1..n, k - 1 \in G PROVE k \in G
      <4>1. f[k - 1] \in Good(k - 1) /\ f[k] = step[k][f[k - 1]]
        BY <2>3, <3>2 DEF Iteration
      <4>2. f[k] \in Good(k) /\ k \in 0..n
        BY <1>1, <1>3, <2>2, <4>1
      <4>. QED
        BY <4>2
    <3>3. \A k \in 0..n : k \in G
      <4>. HIDE DEF G
      <4>. QED
        BY <1>1, <3>1, <3>2, Stepwise
    <3>. QED
      BY <3>3
  <2>5. ASSUME NEW k \in 0..n PROVE f[k] = IF k = 0 THEN rows ELSE Step(k, f[k - 1])
    <3>1. CASE k = 0
      BY <2>3, <3>1 DEF Iteration
    <3>2. CASE k # 0
      <4>1. k \in 1..n /\ k - 1 \in 0..n
        BY <1>1, <3>2
      <4>2. f[k - 1] \in Good(k - 1) /\ f[k] = step[k][f[k - 1]]
        BY <2>3, <2>4, <4>1 DEF Iteration
      <4>. QED
        BY <2>2, <3>2, <4>1, <4>2
    <3>. QED
      BY <3>1, <3>2
  <2>6. f = [k \in 0..n |-> IF k = 0 THEN rows ELSE Step(k, f[k - 1])]
    BY <2>3, <2>5 DEF Iteration
  <2>. QED
    BY <2>6
<1>6. left = [k \in 0..n |-> IF k = 0 THEN rows ELSE Step(k, left[k - 1])]
  BY <1>5
<1>. HIDE DEF left
<1>7. left[0] = rows
  BY <1>1, <1>6
<1>8. ASSUME NEW k \in 1..n PROVE left[k] = Step(k, left[k - 1])
  <2>1. k \in 0..n /\ k # 0
    BY <1>1
  <2>. QED
    BY <1>6, <2>1
<1>9. left[n] \in Good(n)
  <2>. DEFINE G == {k \in 0..n : left[k] \in Good(k)}
  <2>1. 0 \in G
    BY <1>1, <1>2, <1>7
  <2>2. ASSUME NEW k \in 1..n, k - 1 \in G PROVE k \in G
    <3>1. left[k] \in Good(k) /\ k \in 0..n
      BY <1>1, <1>3, <1>8, <2>2
    <3>. QED
      BY <3>1
  <2>3. \A k \in 0..n : k \in G
    <3>. HIDE DEF G
    <3>. QED
      BY <1>1, <2>1, <2>2, Stepwise
  <2>. QED
    BY <1>1, <2>3
<1>10. left[n] \in Seq(S) /\ IsLeft(left[n], rows, c, 0)
  BY <1>4, <1>9
<1>. QED
  BY <1>10 DEF left, Step, CutsOf

(***************************************************************************)
(* Numbers that are free: tickets, dates, places.                          *)
(***************************************************************************)
LEMMA IdsFinite == IsFiniteSet(Ids)
<1>1. IsFiniteSet(BOOLEAN)
  <2>1. BOOLEAN = {FALSE} \cup {TRUE}
    OBVIOUS
  <2>2. IsFiniteSet({FALSE}) /\ IsFiniteSet({TRUE})
    BY FS_Singleton
  <2>. QED
    BY <2>1, <2>2, FS_Union
<1>. QED
  BY <1>1, FS_Product, ModFolderAssumption DEF Ids

\* A mod is enabled or disabled, and switched it has the other id.
LEMMA OnOrOff ==
  ASSUME NEW id \in Ids
  PROVE  /\ id[1] \in Names /\ (id = <<id[1], TRUE>> \/ id = <<id[1], FALSE>>)
         /\ Other(id) \in Ids /\ Other(id)[1] = id[1] /\ Other(id) # id
         /\ {id, Other(id)} = {<<id[1], TRUE>>, <<id[1], FALSE>>}
<1>1. PICK a \in Names, b \in BOOLEAN : id = <<a, b>>
  BY DEF Ids
<1>2. id[1] = a /\ id[2] = b
  BY <1>1
<1>3. Other(id) = <<a, ~b>>
  BY <1>2 DEF Other
<1>4. Other(id) \in Ids /\ Other(id)[1] = a
  <2>. DEFINE c == ~b
  <2>1. c \in BOOLEAN /\ Other(id) = <<a, c>>
    BY <1>3
  <2>. HIDE DEF c
  <2>. QED
    BY <2>1 DEF Ids
<1>5. <<a, TRUE>> # <<a, FALSE>>
  <2>1. <<a, TRUE>>[2] = TRUE
    OBVIOUS
  <2>2. <<a, FALSE>>[2] = FALSE
    OBVIOUS
  <2>. QED
    BY <2>1, <2>2
<1>6. CASE b = TRUE
  <2>1. id = <<a, TRUE>>
    BY <1>1, <1>6
  <2>2. Other(id) = <<a, FALSE>>
    BY <1>3, <1>6
  <2>3. {id, Other(id)} = {<<a, TRUE>>, <<a, FALSE>>}
    BY <2>1, <2>2
  <2>. QED
    BY <1>2, <1>5, <1>4, <2>1, <2>2, <2>3
<1>7. CASE b = FALSE
  <2>1. id = <<a, FALSE>>
    BY <1>1, <1>7
  <2>2. Other(id) = <<a, TRUE>>
    BY <1>3, <1>7
  <2>3. {id, Other(id)} = {<<a, TRUE>>, <<a, FALSE>>}
    BY <2>1, <2>2
  <2>. QED
    BY <1>2, <1>5, <1>4, <2>1, <2>2, <2>3
<1>. QED
  BY <1>6, <1>7

\* A row for each of a finite set, in any order: each has one place.
LEMMA InAnyOrder ==
  ASSUME NEW T, IsFiniteSet(T), NEW s \in SetToSeqs(T)
  PROVE  /\ s \in Seq(T)
         /\ \A i, j \in DOMAIN s : s[i] = s[j] => i = j
         /\ \A x \in T : \E i \in DOMAIN s : s[i] = x
<1>. DEFINE n == Cardinality(T)
<1>1. n \in Nat /\ IsFiniteSet(1..n) /\ Cardinality(1..n) = n
  BY FS_CardinalityType, FS_Interval
<1>2. s \in [1..n -> T] /\ \A i, j \in 1..n : i # j => s[i] # s[j]
  BY DEF SetToSeqs
<1>3. DOMAIN s = 1..n
  BY <1>2
<1>. HIDE DEF n
<1>4. s \in Injection(1..n, T)
  BY <1>2 DEF Injection, IsInjective
<1>5. s \in Surjection(1..n, T)
  BY <1>1, <1>4, FS_Injection DEF n
<1>6. \A x \in T : \E i \in 1..n : s[i] = x
  BY <1>5 DEF Surjection
<1>7. s \in Seq(T)
  BY <1>1, <1>2
<1>. QED
  BY <1>2, <1>3, <1>6, <1>7

\* The number of a new ticket is one that no thread has (resolveMod).
LEMMA NewTicketIsNew ==
  ASSUME IsFiniteSet(DOMAIN parses), NEW id \in Ids
  PROVE  NewTicket(id) \in Tickets /\ NewTicket(id)[1] = id /\ NewTicket(id) \notin DOMAIN parses
<1>. DEFINE c == Cardinality(DOMAIN parses)
            f == [n \in 0..c |-> <<id, n>>]
            x == CHOOSE n \in 0..c : <<id, n>> \notin DOMAIN parses
<1>1. c \in Nat /\ IsFiniteSet(0..c) /\ Cardinality(0..c) = c + 1
  BY FS_CardinalityType, FS_Interval
<1>2. \E n \in 0..c : <<id, n>> \notin DOMAIN parses
  <2>. SUFFICES ASSUME \A n \in 0..c : <<id, n>> \in DOMAIN parses PROVE FALSE
    OBVIOUS
  <2>1. f \in Injection(0..c, DOMAIN parses)
    BY DEF Injection, IsInjective
  <2>. HIDE DEF f
  <2>2. Cardinality(0..c) <= c
    BY <2>1, FS_Injection
  <2>. QED
    BY <1>1, <2>2
<1>3. x \in 0..c /\ <<id, x>> \notin DOMAIN parses
  BY <1>2
<1>4. NewTicket(id) = <<id, x>>
  BY DEF NewTicket
<1>. HIDE DEF x
<1>5. x \in Nat
  BY <1>1, <1>3
<1>. QED
  BY <1>3, <1>4, <1>5 DEF Tickets

\* The date of a file that is put into the folder is that of no other and of no row.
LEMMA FreshDates ==
  ASSUME NEW d \in Fresh
  PROVE  d \in Dates /\ \A r \in DOMAIN mods : mods[r].date # d
<1>. DEFINE U == {disk[id] : id \in Ids} \cup {mods[r].date : r \in DOMAIN mods}
                  \cup (IF update \in {NoUpdate, Reading} THEN {} ELSE {update[id] : id \in Ids})
                  \cup {x[2] : x \in (Range(parses)
                                        \cup {mods[r].details : r \in DOMAIN mods})
                                       \ {Unread, NoDetails}}
            F == Dates \ U
            m == CHOOSE e \in F : \A h \in F : e <= h
<1>1. Fresh = IF F = {} THEN {} ELSE {m}
  BY DEF Fresh
<1>2. \A r \in DOMAIN mods : mods[r].date \in U
  OBVIOUS
<1>. HIDE DEF U
<1>3. F # {} /\ d = m
  BY <1>1
<1>4. F \subseteq Nat
  BY ModFolderAssumption DEF Dates
<1>5. m \in F
  <2>. HIDE DEF F
  <2>1. \E e \in F : \A h \in F : e <= h
    BY <1>3, <1>4, Least
  <2>. QED
    BY <2>1
<1>. QED
  BY <1>2, <1>3, <1>5

(***************************************************************************)
(* The invariant.  While no mod was switched before its details had been   *)
(* read, more is true than that list and index fit.                        *)
(***************************************************************************)
\* A row whose details are being read and the ticket that counts are each other's.
TicketsFit ==
  /\ \A r \in DOMAIN mods :
       mods[r].details = Unread => mods[r].ticket \in active /\ mods[r].ticket[1] = mods[r].id
  /\ \A t \in active : /\ t[1] \in DOMAIN index
                       /\ mods[index[t[1]]].ticket = t /\ mods[index[t[1]]].details = Unread

\* A row of the date that its file has shows, or will show, the details of that file.
DetailFits(row, file, read) ==
  LET own == <<row.id[1], row.date>>
  IN file[row.id] = row.date =>
       IF row.details = Unread THEN read[row.ticket] \in {Unread, own} ELSE row.details = own
DetailsFit == \A r \in DOMAIN mods : DetailFits(mods[r], disk, parses)

\* The rows are those of the folder.
Shows(folder) ==
  /\ \A r \in DOMAIN mods : mods[r].date = folder[mods[r].id]
  /\ There(folder) \subseteq {mods[r].id : r \in DOMAIN mods}

\* With no change left to report, what was read is the folder or is read again, and
\* with nothing to read the rows are those of the folder.
Synced ==
  watching /\ ~changed => /\ update \in Folder => scheduled \/ update = disk
                          /\ update = NoUpdate => Shows(disk)

\* The list and its index.
ListFits ==
  /\ TypeOK
  /\ DOMAIN index = {mods[r].id : r \in DOMAIN mods}
  /\ \A r \in DOMAIN mods : index[mods[r].id] = r

Fits == ListFits /\ IsFiniteSet(DOMAIN parses)

\* With the threads, the watcher and the folder.
Undisturbed == Fits /\ TicketsFit /\ DetailsFit /\ Synced

IInv ==
  /\ mishap # "muddled" => Fits
  /\ mishap = "none" => Undisturbed

\* What a step has to keep.
Kept == Fits' /\ (Undisturbed /\ mishap' = "none" => Undisturbed')

(***************************************************************************)
(* The rows when the folder has been read.                                 *)
(***************************************************************************)
LEMMA RowsProperties ==
  ASSUME ListFits
  PROVE  /\ mods \in Seq(Row) /\ Len(mods) \in Nat /\ DOMAIN mods = 1..Len(mods)
         /\ \A r \in DOMAIN mods :
              mods[r] \in Row /\ mods[r].id \in Known /\ index[mods[r].id] = r
         /\ Known \subseteq Ids
         /\ \A id \in Known : index[id] \in DOMAIN mods /\ mods[index[id]].id = id
         /\ \A r, s \in DOMAIN mods : mods[r].id = mods[s].id => r = s
<1>1. mods \in Seq(Row) /\ Len(mods) \in Nat /\ DOMAIN mods = 1..Len(mods)
      /\ \A r \in DOMAIN mods : mods[r] \in Row
  BY LenProperties, ElementOfSeq DEF ListFits, TypeOK
<1>2. Known = {mods[r].id : r \in DOMAIN mods} /\ \A r \in DOMAIN mods : index[mods[r].id] = r
  BY DEF ListFits, Known
<1>3. Known \subseteq Ids
  BY DEF ListFits, TypeOK, Known
<1>. QED
  BY <1>1, <1>2, <1>3

\* The row of a file that was read: the one there is, if it has the date of the file.
Brought(id) ==
  IF id \in Known /\ mods[index[id]].date = update[id] THEN mods[index[id]] ELSE NewRow(id)

LEMMA NewRowFits ==
  ASSUME IsFiniteSet(DOMAIN parses), update \in Folder, NEW id \in There(update)
  PROVE  NewRow(id) \in Row /\ NewRow(id).id = id /\ NewRow(id).date = update[id]
         /\ NewRow(id).details = Unread /\ NewRow(id).ticket = NewTicket(id)
<1>1. id \in Ids /\ update[id] \in Dates
  BY ModFolderAssumption DEF There, Folder, Dates
<1>2. NewTicket(id) \in Tickets
  BY <1>1, NewTicketIsNew
<1>3. Unread \in Details
  BY DEF Details
<1>. QED
  BY <1>1, <1>2, <1>3 DEF NewRow, Row

LEMMA BroughtFits ==
  ASSUME ListFits, IsFiniteSet(DOMAIN parses), update \in Folder, NEW id \in There(update)
  PROVE  Brought(id) \in Row /\ Brought(id).id = id /\ Brought(id).date = update[id]
<1>1. NewRow(id) \in Row /\ NewRow(id).id = id /\ NewRow(id).date = update[id]
  BY NewRowFits
<1>2. \A j \in Known : mods[index[j]] \in Row /\ mods[index[j]].id = j
  BY RowsProperties
<1>. QED
  BY <1>1, <1>2 DEF Brought

\* The rows whose file has another date are replaced in their place.
LEMMA RowsRenewed ==
  ASSUME ListFits, IsFiniteSet(DOMAIN parses), update \in Folder
  PROVE  /\ RenewedRows \in Seq(Row) /\ Len(RenewedRows) = Len(mods)
         /\ DOMAIN RenewedRows = DOMAIN mods
         /\ \A r \in DOMAIN mods : /\ RenewedRows[r].id = mods[r].id
                                   /\ mods[r].id \notin Gone => RenewedRows[r] = Brought(mods[r].id)
<1>. DEFINE of(r) == {id \in Renewed : index[id] = r}
            row(r) == IF of(r) = {} THEN mods[r] ELSE NewRow(CHOOSE id \in of(r) : TRUE)
<1>1. RenewedRows = [r \in DOMAIN mods |-> row(r)]
  BY DEF RenewedRows
<1>2. ASSUME NEW r \in DOMAIN mods
      PROVE  /\ row(r) \in Row /\ row(r).id = mods[r].id
             /\ mods[r].id \notin Gone => row(r) = Brought(mods[r].id)
  <2>. DEFINE id == mods[r].id
  <2>1. mods[r] \in Row /\ id \in Known /\ index[id] = r
        /\ \A j \in Known : mods[index[j]].id = j
    BY RowsProperties
  <2>. HIDE DEF id
  <2>2. Renewed \subseteq Known /\ Renewed \subseteq There(update)
    BY DEF Renewed
  <2>3. \A j \in of(r) : j = id
    <3>1. \A j \in of(r) : j \in Known /\ index[j] = r
      BY <2>2
    <3>. QED
      BY <2>1, <3>1 DEF id
  <2>4. CASE id \in Renewed
    <3>1. of(r) = {id}
      BY <2>1, <2>3, <2>4
    <3>2. row(r) = NewRow(id)
      BY <3>1
    <3>3. id \in There(update) /\ mods[index[id]].date # update[id]
      BY <2>4 DEF Renewed
    <3>4. NewRow(id) \in Row /\ NewRow(id).id = id
      BY <3>3, NewRowFits
    <3>5. Brought(id) = NewRow(id)
      BY <3>3 DEF Brought
    <3>. HIDE DEF row
    <3>. QED
      BY <3>2, <3>4, <3>5 DEF id
  <2>5. CASE id \notin Renewed
    <3>1. of(r) = {}
      BY <2>3, <2>5
    <3>2. row(r) = mods[r]
      BY <3>1
    <3>3. id \notin Gone => Brought(id) = mods[r]
      <4>1. SUFFICES ASSUME id \notin Gone PROVE Brought(id) = mods[r]
        OBVIOUS
      <4>2. id \in Known \cap There(update) /\ mods[index[id]].date = update[id]
        BY <2>1, <2>5, <4>1 DEF Gone, Renewed
      <4>. QED
        BY <2>1, <4>2 DEF Brought
    <3>. HIDE DEF row
    <3>. QED
      BY <2>1, <3>2, <3>3 DEF id
  <2>. QED
    BY <2>4, <2>5
<1>. HIDE DEF row
<1>3. DOMAIN mods = 1..Len(mods) /\ Len(mods) \in Nat
  BY RowsProperties
<1>4. RenewedRows \in Seq(Row) /\ DOMAIN RenewedRows = 1..Len(mods)
  BY <1>1, <1>2, <1>3
<1>5. Len(RenewedRows) = Len(mods)
  BY <1>3, <1>4, LenProperties
<1>. QED
  BY <1>1, <1>2, <1>3, <1>4, <1>5

\* The rows whose file is gone go, and no others.
LEMMA RowsLeftProperties ==
  ASSUME ListFits, IsFiniteSet(DOMAIN parses), update \in Folder
  PROVE  /\ RowsLeft \in Seq(Row)
         /\ \A i \in DOMAIN RowsLeft :
              \E r \in DOMAIN mods : mods[r].id \notin Gone /\ RowsLeft[i] = RenewedRows[r]
         /\ \A r \in DOMAIN mods :
              mods[r].id \notin Gone => \E i \in DOMAIN RowsLeft : RowsLeft[i] = RenewedRows[r]
         /\ \A i, j \in DOMAIN RowsLeft : RowsLeft[i] = RowsLeft[j] => i = j
<1>. DEFINE n == Len(mods)
            rows == RenewedRows
            times == [r \in 1..n |-> Cardinality({id \in Gone : index[id] = r})]
            left == CutsOf(rows, times, n)
<1>1. /\ rows \in Seq(Row) /\ Len(rows) = n /\ DOMAIN rows = DOMAIN mods
      /\ \A r \in DOMAIN mods : rows[r].id = mods[r].id
  BY RowsRenewed
<1>2. RowsLeft = left[n]
  BY DEF RowsLeft, CutsOf
<1>3. DOMAIN mods = 1..n /\ n \in Nat
      /\ \A r, s \in DOMAIN mods : mods[r].id = mods[s].id => r = s
  BY RowsProperties
<1>4. ASSUME NEW r \in 1..n
      PROVE  times[r] = IF mods[r].id \in Gone THEN 1 ELSE 0
  <2>1. Gone \subseteq Known /\ mods[r].id \in Known /\ index[mods[r].id] = r
        /\ \A id \in Known : mods[index[id]].id = id
    BY <1>3, RowsProperties DEF Gone
  <2>2. {id \in Gone : index[id] = r} = IF mods[r].id \in Gone THEN {mods[r].id} ELSE {}
    BY <2>1
  <2>3. Cardinality({mods[r].id}) = 1 /\ Cardinality({}) = 0
    BY FS_Singleton, FS_EmptySet
  <2>. QED
    BY <2>2, <2>3
<1>5. times \in [DOMAIN rows -> {0, 1}]
  <2>1. times = [r \in 1..n |-> times[r]]
    OBVIOUS
  <2>. HIDE DEF times
  <2>2. \A r \in 1..n : times[r] \in {0, 1}
    BY <1>4
  <2>. QED
    BY <1>1, <1>3, <2>1, <2>2
<1>6. \A r, s \in DOMAIN rows : rows[r] = rows[s] => r = s
  BY <1>1, <1>3
<1>. HIDE DEF n, rows, times
<1>7. left[n] \in Seq(Row) /\ IsLeft(left[n], rows, times, 0)
  BY <1>1, <1>5, <1>6, CutsProperties
<1>. HIDE DEF left
<1>8. \A r \in DOMAIN rows : r \in Nat /\ ~(r <= 0) /\ (times[r] = 0 <=> mods[r].id \notin Gone)
  BY <1>1, <1>3, <1>4
<1>9. /\ \A i \in DOMAIN left[n] :
           \E r \in DOMAIN rows : left[n][i] = rows[r] /\ (r <= 0 \/ times[r] = 0)
      /\ \A r \in DOMAIN rows : r <= 0 \/ times[r] = 0 => \E i \in DOMAIN left[n] : left[n][i] = rows[r]
      /\ \A i, j \in DOMAIN left[n] : left[n][i] = left[n][j] => i = j
  BY <1>7 DEF IsLeft
<1>. QED
  BY <1>1, <1>2, <1>7, <1>8, <1>9 DEF rows

\* A row for each file that was read, and one only.
IsBrought(l) ==
  /\ l \in Seq(Row)
  /\ \A i \in DOMAIN l : l[i].id \in There(update) /\ l[i] = Brought(l[i].id)
  /\ \A id \in There(update) : \E i \in DOMAIN l : l[i].id = id
  /\ \A i, j \in DOMAIN l : l[i].id = l[j].id => i = j

LEMMA RowsBrought ==
  ASSUME ListFits, IsFiniteSet(DOMAIN parses), update \in Folder,
         NEW added \in SetToSeqs(There(update) \ Known)
  PROVE  IsBrought(RowsLeft \o [k \in DOMAIN added |-> NewRow(added[k])])
<1>. DEFINE New == There(update) \ Known
            a == RowsLeft
            b == [k \in DOMAIN added |-> NewRow(added[k])]
            l == a \o b
<1>1. IsFiniteSet(New) /\ New \subseteq There(update)
  BY IdsFinite, FS_Subset DEF There
<1>2. /\ added \in Seq(New)
      /\ \A i, j \in DOMAIN added : added[i] = added[j] => i = j
      /\ \A x \in New : \E i \in DOMAIN added : added[i] = x
  BY <1>1, InAnyOrder
<1>3. Len(added) \in Nat /\ DOMAIN added = 1..Len(added) /\ \A i \in DOMAIN added : added[i] \in New
  BY <1>2, LenProperties, ElementOfSeq
<1>4. ASSUME NEW k \in DOMAIN added
      PROVE  b[k] \in Row /\ b[k].id = added[k] /\ b[k] = Brought(added[k])
  <2>1. added[k] \in There(update) /\ added[k] \notin Known /\ b[k] = NewRow(added[k])
    BY <1>3
  <2>2. NewRow(added[k]) \in Row /\ NewRow(added[k]).id = added[k]
    BY <2>1, NewRowFits
  <2>3. Brought(added[k]) = NewRow(added[k])
    BY <2>1 DEF Brought
  <2>. HIDE DEF b
  <2>. QED
    BY <2>1, <2>2, <2>3
<1>5. DOMAIN b = DOMAIN added
  OBVIOUS
<1>6. b \in Seq(Row) /\ Len(b) = Len(added)
  <2>1. b \in [1..Len(added) -> Row]
    <3>1. b = [k \in 1..Len(added) |-> b[k]]
      BY <1>3
    <3>. HIDE DEF b
    <3>. QED
      BY <1>3, <1>4, <3>1
  <2>. HIDE DEF b
  <2>. QED
    BY <1>3, <2>1, LenProperties
<1>7. /\ a \in Seq(Row)
      /\ \A i \in DOMAIN a : \E r \in DOMAIN mods : mods[r].id \notin Gone /\ a[i] = RenewedRows[r]
      /\ \A r \in DOMAIN mods :
           mods[r].id \notin Gone => \E i \in DOMAIN a : a[i] = RenewedRows[r]
      /\ \A i, j \in DOMAIN a : a[i] = a[j] => i = j
  BY RowsLeftProperties
<1>8. Len(a) \in Nat /\ DOMAIN a = 1..Len(a)
  BY <1>7, LenProperties
<1>. HIDE DEF New, a, b
<1>9. \A r \in DOMAIN mods :
        /\ mods[r].id \in Known /\ index[mods[r].id] = r /\ RenewedRows[r].id = mods[r].id
        /\ mods[r].id \notin Gone =>
             mods[r].id \in There(update) /\ RenewedRows[r] = Brought(mods[r].id)
  BY RowsProperties, RowsRenewed DEF Gone
<1>10. \A i \in DOMAIN a : a[i].id \in There(update) \cap Known /\ a[i] = Brought(a[i].id)
  BY <1>7, <1>9
<1>11. \A i, j \in DOMAIN a : a[i].id = a[j].id => i = j
  BY <1>7, <1>10
<1>12. ASSUME NEW id \in There(update) \cap Known PROVE \E i \in DOMAIN a : a[i].id = id
  <2>1. id \notin Gone /\ index[id] \in DOMAIN mods /\ mods[index[id]].id = id
    BY RowsProperties DEF Gone
  <2>. QED
    BY <1>7, <1>9, <2>1
<1>13. /\ l \in Seq(Row) /\ Len(l) = Len(a) + Len(b)
       /\ \A i \in 1..Len(a) + Len(b) : l[i] = IF i <= Len(a) THEN a[i] ELSE b[i - Len(a)]
  <2>1. a \in Seq(Row) /\ b \in Seq(Row)
    BY <1>6, <1>7
  <2>. QED
    BY <2>1, ConcatProperties
<1>14. DOMAIN l = 1..Len(a) + Len(added) /\ Len(b) = Len(added)
  BY <1>6, <1>13, LenProperties
<1>. HIDE DEF l
<1>15. \A i \in DOMAIN l : \/ i \in DOMAIN a /\ l[i] = a[i]
                           \/ i - Len(a) \in DOMAIN added /\ l[i] = b[i - Len(a)] /\ i \notin DOMAIN a
  BY <1>3, <1>8, <1>13, <1>14
<1>16. \A i \in DOMAIN a : i \in DOMAIN l /\ l[i] = a[i]
  BY <1>3, <1>8, <1>13, <1>14
<1>17. ASSUME NEW k \in DOMAIN added PROVE k + Len(a) \in DOMAIN l /\ l[k + Len(a)] = b[k]
  <2>1. k + Len(a) \in DOMAIN l /\ ~(k + Len(a) <= Len(a)) /\ k + Len(a) - Len(a) = k
    BY <1>3, <1>8, <1>14
  <2>. QED
    BY <1>13, <1>14, <2>1
<1>18. \A i \in DOMAIN l : l[i].id \in There(update) /\ l[i] = Brought(l[i].id)
  <2>1. New \subseteq There(update)
    BY <1>1
  <2>. QED
    BY <1>3, <1>4, <1>10, <1>15, <2>1
<1>19. ASSUME NEW id \in There(update) PROVE \E i \in DOMAIN l : l[i].id = id
  <2>1. CASE id \in Known
    BY <1>12, <1>16, <2>1
  <2>2. CASE id \notin Known
    <3>1. PICK k \in DOMAIN added : added[k] = id
      BY <1>2, <2>2 DEF New
    <3>. QED
      BY <1>4, <1>17, <3>1
  <2>. QED
    BY <2>1, <2>2
<1>20. ASSUME NEW i \in DOMAIN l, NEW j \in DOMAIN l, l[i].id = l[j].id PROVE i = j
  <2>. DEFINE h == i - Len(a)
              k == j - Len(a)
  <2>1. CASE i \in DOMAIN a /\ j \in DOMAIN a
    BY <1>11, <1>16, <1>20, <2>1
  <2>2. CASE i \notin DOMAIN a /\ j \notin DOMAIN a
    <3>1. h \in DOMAIN added /\ k \in DOMAIN added /\ l[i] = b[h] /\ l[j] = b[k]
      BY <1>15, <2>2
    <3>. HIDE DEF h, k
    <3>2. added[h] = added[k]
      BY <1>4, <1>20, <3>1
    <3>3. h = k
      BY <1>2, <3>1, <3>2
    <3>. QED
      BY <1>3, <1>8, <1>14, <3>3 DEF h, k
  <2>3. CASE (i \in DOMAIN a) # (j \in DOMAIN a)
    <3>1. \A x \in DOMAIN l : x \in DOMAIN a <=> l[x].id \in Known
      <4>1. \A y \in DOMAIN added : b[y].id \notin Known
        BY <1>3, <1>4 DEF New
      <4>. QED
        BY <1>10, <1>15, <4>1
    <3>. QED
      BY <1>20, <2>3, <3>1
  <2>. QED
    BY <2>1, <2>2, <2>3
<1>. QED
  BY <1>13, <1>18, <1>19, <1>20 DEF IsBrought, l, a, b

\* The index has each row, and no two rows have one id.
LEMMA IndexOfRows ==
  ASSUME NEW l \in Seq(Row), \A i, j \in DOMAIN l : l[i].id = l[j].id => i = j
  PROVE  /\ DOMAIN IndexOf(l) = {l[r].id : r \in DOMAIN l}
         /\ \A r \in DOMAIN l : IndexOf(l)[l[r].id] = r
<1>. DEFINE D == {l[r].id : r \in DOMAIN l}
            of(id) == {r \in DOMAIN l : l[r].id = id}
<1>1. IndexOf(l) = [id \in D |-> Max(of(id))]
  BY DEF IndexOf
<1>2. ASSUME NEW r \in DOMAIN l PROVE IndexOf(l)[l[r].id] = r
  <2>1. l[r].id \in D /\ of(l[r].id) = {r}
    OBVIOUS
  <2>2. r \in Int
    BY LenProperties
  <2>3. Max({r}) = r
    BY <2>2 DEF Max
  <2>. HIDE DEF D, of
  <2>. QED
    BY <1>1, <2>1, <2>3
<1>. QED
  BY <1>1, <1>2

(***************************************************************************)
(* The steps.                                                              *)
(***************************************************************************)

\* What a step that brings the rows in line with the folder leaves behind.
FinishFits ==
  LET new == {NewTicket(id) : id \in Renewed \cup (There(update) \ Known)}
  IN /\ IsBrought(mods') /\ index' = IndexOf(mods')
     /\ parses' = [t \in DOMAIN parses \cup new |-> IF t \in new THEN Unread ELSE parses[t]]
     /\ active' = (active \ Dropped) \cup new
     /\ update' = (IF scheduled THEN Reading ELSE NoUpdate) /\ scheduled' = FALSE
     /\ UNCHANGED <<disk, watcher, changes, visits, mishap>>

LEMMA FinishUpdateFits ==
  ASSUME Fits, FinishUpdate
  PROVE  update \in Folder /\ FinishFits
<1>1. update \in Folder
  BY DEF Fits, ListFits, TypeOK, FinishUpdate
<1>2. PICK added \in SetToSeqs(There(update) \ Known) :
        mods' = RowsLeft \o [k \in DOMAIN added |-> NewRow(added[k])]
  BY DEF FinishUpdate
<1>3. IsBrought(mods')
  BY <1>1, <1>2, RowsBrought DEF Fits
<1>. QED
  BY <1>1, <1>3 DEF FinishUpdate, FinishFits, Again

\* The files that get a new row, each with a ticket of its own.
Replaced == Renewed \cup (There(update) \ Known)

LEMMA ReplacedProperties ==
  ASSUME ListFits, IsFiniteSet(DOMAIN parses), update \in Folder
  PROVE  /\ IsFiniteSet(Replaced) /\ Replaced \subseteq There(update) /\ Replaced \subseteq Ids
         /\ \A id \in Replaced : /\ Brought(id) = NewRow(id)
                                 /\ NewTicket(id) \in Tickets /\ NewTicket(id)[1] = id
                                 /\ NewTicket(id) \notin DOMAIN parses
         /\ \A id \in There(update) \ Replaced :
              id \in Known /\ Brought(id) = mods[index[id]] /\ mods[index[id]].date = update[id]
<1>1. Replaced \subseteq There(update) /\ There(update) \subseteq Ids
  BY DEF Replaced, Renewed, There
<1>2. IsFiniteSet(Replaced)
  BY <1>1, IdsFinite, FS_Subset
<1>3. \A id \in Replaced : Brought(id) = NewRow(id)
  BY DEF Replaced, Renewed, Brought
<1>4. \A id \in There(update) \ Replaced :
        id \in Known /\ Brought(id) = mods[index[id]] /\ mods[index[id]].date = update[id]
  BY DEF Replaced, Renewed, Brought
<1>. QED
  BY <1>1, <1>2, <1>3, <1>4, NewTicketIsNew

LEMMA FinishUpdateTypes ==
  ASSUME Fits, update \in Folder, FinishFits
  PROVE  Fits'
<1>. DEFINE new == {NewTicket(id) : id \in Replaced}
<1>1. /\ IsFiniteSet(Replaced) /\ Replaced \subseteq Ids
      /\ \A id \in Replaced : /\ NewTicket(id) \in Tickets /\ NewTicket(id)[1] = id
                              /\ NewTicket(id) \notin DOMAIN parses
  BY ReplacedProperties DEF Fits
<1>2. IsFiniteSet(new)
  <2>. DEFINE f == [id \in Replaced |-> NewTicket(id)]
  <2>1. f \in Surjection(Replaced, new)
    BY DEF Surjection
  <2>. HIDE DEF f, new
  <2>. QED
    BY <1>1, <2>1, FS_Surjection
<1>3. /\ parses' = [t \in DOMAIN parses \cup new |-> IF t \in new THEN Unread ELSE parses[t]]
      /\ active' = (active \ Dropped) \cup new
  BY DEF FinishFits, Replaced
<1>4. new \subseteq Tickets
  BY <1>1
<1>. HIDE DEF new
<1>5. IsFiniteSet(DOMAIN parses')
  BY <1>2, <1>3, FS_Union DEF Fits
<1>6. mods' \in Seq(Row) /\ \A i, j \in DOMAIN mods' : mods'[i].id = mods'[j].id => i = j
  BY DEF FinishFits, IsBrought
<1>7. /\ DOMAIN index' = {mods'[r].id : r \in DOMAIN mods'}
      /\ \A r \in DOMAIN mods' : index'[mods'[r].id] = r
  <2>1. index' = IndexOf(mods')
    BY DEF FinishFits
  <2>. QED
    BY <1>6, <2>1, IndexOfRows
<1>8. \A r \in DOMAIN mods' : mods'[r].id \in Ids
  <2>1. \A r \in DOMAIN mods' : mods'[r] \in Row
    BY <1>6, ElementOfSeq, LenProperties
  <2>. QED
    BY <2>1 DEF Row
<1>9. DOMAIN parses \subseteq Tickets /\ (\A t \in DOMAIN parses : parses[t] \in Details)
      /\ active \subseteq DOMAIN parses /\ Unread \in Details
  BY DEF Fits, ListFits, TypeOK, Details
<1>10. DOMAIN parses' \subseteq Tickets /\ (\A t \in DOMAIN parses' : parses'[t] \in Details)
       /\ active' \subseteq DOMAIN parses'
  BY <1>3, <1>4, <1>9
<1>11. update' \in {Reading, NoUpdate} /\ scheduled' = FALSE
       /\ UNCHANGED <<disk, changed, watching, changes, visits, mishap>>
  BY DEF FinishFits, watcher
<1>12. TypeOK'
  <2>1. DOMAIN index' \subseteq Ids /\ \A id \in DOMAIN index' : index'[id] \in DOMAIN mods'
    BY <1>7, <1>8
  <2>2. disk \in Folder /\ changed \in BOOLEAN /\ watching \in BOOLEAN
        /\ changes \in 0..MaxChanges /\ visits \in 0..MaxVisits
        /\ mishap \in {"none", "hasty", "muddled"}
    BY DEF Fits, ListFits, TypeOK
  <2>. QED
    BY <1>6, <1>10, <1>11, <2>1, <2>2 DEF TypeOK
<1>. QED
  BY <1>5, <1>7, <1>12 DEF Fits, ListFits

LEMMA FinishUpdateKeeps == ASSUME Fits, FinishUpdate PROVE Kept
<1>. DEFINE new == {NewTicket(id) : id \in Replaced}
<1>1. update \in Folder /\ FinishFits
  BY FinishUpdateFits
<1>2. Fits'
  BY <1>1, FinishUpdateTypes
<1>. SUFFICES ASSUME Undisturbed PROVE TicketsFit' /\ DetailsFit' /\ Synced'
  BY <1>2 DEF Kept, Undisturbed
<1>3. /\ IsBrought(mods')
      /\ parses' = [t \in DOMAIN parses \cup new |-> IF t \in new THEN Unread ELSE parses[t]]
      /\ active' = (active \ Dropped) \cup new
      /\ update' = (IF scheduled THEN Reading ELSE NoUpdate) /\ scheduled' = FALSE
      /\ UNCHANGED <<disk, changed, watching, changes, visits, mishap>>
  BY <1>1 DEF FinishFits, Replaced, watcher
<1>4. /\ Replaced \subseteq There(update)
      /\ \A id \in Replaced : /\ Brought(id) = NewRow(id)
                              /\ NewTicket(id) \in Tickets /\ NewTicket(id)[1] = id
                              /\ NewTicket(id) \notin DOMAIN parses
      /\ \A id \in There(update) \ Replaced :
           id \in Known /\ Brought(id) = mods[index[id]] /\ mods[index[id]].date = update[id]
  BY <1>1, ReplacedProperties DEF Fits
<1>5. \A id \in There(update) :
        /\ id \in Ids /\ NewRow(id).id = id /\ NewRow(id).date = update[id]
        /\ NewRow(id).details = Unread /\ NewRow(id).ticket = NewTicket(id)
        /\ Brought(id).id = id /\ Brought(id).date = update[id]
  BY <1>1, NewRowFits, BroughtFits DEF Fits, There
<1>6. /\ \A r \in DOMAIN mods' : mods'[r].id \in There(update) /\ mods'[r] = Brought(mods'[r].id)
      /\ \A id \in There(update) : \E r \in DOMAIN mods' : mods'[r].id = id
      /\ \A r, s \in DOMAIN mods' : mods'[r].id = mods'[s].id => r = s
  BY <1>3 DEF IsBrought
<1>7. /\ DOMAIN index' = {mods'[r].id : r \in DOMAIN mods'}
      /\ \A r \in DOMAIN mods' : index'[mods'[r].id] = r
  BY <1>2 DEF Fits, ListFits
<1>. DEFINE n == mods'
<1>10. /\ \A r \in DOMAIN mods :
            mods[r].details = Unread => mods[r].ticket \in active /\ mods[r].ticket[1] = mods[r].id
       /\ \A t \in active : /\ t[1] \in Known
                            /\ mods[index[t[1]]].ticket = t /\ mods[index[t[1]]].details = Unread
       /\ active \subseteq DOMAIN parses
  BY DEF Undisturbed, Fits, ListFits, TypeOK, TicketsFit, Known
<1>11. \A id \in Known : index[id] \in DOMAIN mods /\ mods[index[id]].id = id
  BY RowsProperties DEF Fits
<1>12. ASSUME NEW id \in There(update) \ Replaced, mods[index[id]].details = Unread
       PROVE  mods[index[id]].ticket \in active \ Dropped
  <2>. DEFINE t == mods[index[id]].ticket
  <2>1. index[id] \in DOMAIN mods /\ mods[index[id]].id = id /\ id \in Known
    BY <1>4, <1>11
  <2>2. t \in active /\ t[1] = id
    BY <1>10, <1>12, <2>1
  <2>3. id \notin Renewed \cup Gone
    BY DEF Replaced, Gone
  <2>4. t \notin Dropped
    <3>1. SUFFICES ASSUME t \in Dropped PROVE FALSE
      OBVIOUS
    <3>2. PICK j \in Renewed \cup Gone :
            index[j] \in DOMAIN mods /\ mods[index[j]].details = Unread /\ t = mods[index[j]].ticket
      BY <3>1 DEF Dropped
    <3>3. j \in Known
      BY DEF Renewed, Gone
    <3>4. t[1] = j
      BY <1>10, <1>11, <3>2, <3>3
    <3>. QED
      BY <2>2, <2>3, <3>4
  <2>. QED
    BY <2>2, <2>4
<1>13. ASSUME NEW t \in active \ Dropped PROVE t[1] \in There(update) \ Replaced
  <2>1. t[1] \in Known /\ index[t[1]] \in DOMAIN mods
        /\ mods[index[t[1]]].ticket = t /\ mods[index[t[1]]].details = Unread
    BY <1>10, <1>11
  <2>2. t[1] \notin Renewed \cup Gone
    BY <2>1 DEF Dropped
  <2>. QED
    BY <2>1, <2>2 DEF Replaced, Gone
<1>. HIDE DEF new, n
<1>14. new = {NewTicket(id) : id \in Replaced}
  BY DEF new
<1>15. TicketsFit'
  <2>1. ASSUME NEW r \in DOMAIN mods', mods'[r].details = Unread
        PROVE  mods'[r].ticket \in active' /\ mods'[r].ticket[1] = mods'[r].id
    <3>. DEFINE id == mods'[r].id
    <3>1. id \in There(update) /\ mods'[r] = Brought(id)
      BY <1>6
    <3>. HIDE DEF id
    <3>2. CASE id \in Replaced
      <4>1. mods'[r].ticket = NewTicket(id) /\ NewTicket(id)[1] = id /\ NewTicket(id) \in new
        BY <1>4, <1>5, <1>14, <3>1, <3>2
      <4>. QED
        BY <1>3, <4>1 DEF id
    <3>3. CASE id \notin Replaced
      <4>1. mods'[r] = mods[index[id]] /\ id \in Known
        BY <1>4, <3>1, <3>3
      <4>2. mods[index[id]].details = Unread
        BY <2>1, <4>1
      <4>3. mods[index[id]].ticket \in active \ Dropped /\ mods[index[id]].ticket[1] = id
        BY <1>10, <1>11, <1>12, <3>1, <3>3, <4>1, <4>2
      <4>. QED
        BY <1>3, <4>1, <4>3 DEF id
    <3>. QED
      BY <3>2, <3>3
  <2>2. ASSUME NEW t \in active'
        PROVE  /\ t[1] \in DOMAIN index'
               /\ mods'[index'[t[1]]].ticket = t /\ mods'[index'[t[1]]].details = Unread
    <3>1. t[1] \in There(update) /\ Brought(t[1]).ticket = t /\ Brought(t[1]).details = Unread
      <4>1. CASE t \in new
        <5>1. PICK id \in Replaced : t = NewTicket(id)
          BY <1>14, <4>1
        <5>2. t[1] = id /\ id \in There(update) /\ Brought(id) = NewRow(id)
          BY <1>4, <5>1
        <5>. QED
          BY <1>5, <5>1, <5>2
      <4>2. CASE t \in active \ Dropped
        <5>1. t[1] \in There(update) \ Replaced
          BY <1>13, <4>2
        <5>2. Brought(t[1]) = mods[index[t[1]]]
          BY <1>4, <5>1
        <5>. QED
          BY <1>10, <4>2, <5>1, <5>2
      <4>. QED
        BY <1>3, <4>1, <4>2
    <3>2. PICK r \in DOMAIN mods' : mods'[r].id = t[1]
      BY <1>6, <3>1
    <3>3. t[1] \in DOMAIN index' /\ index'[t[1]] = r /\ mods'[r] = Brought(t[1])
      BY <1>6, <1>7, <3>2
    <3>. QED
      BY <3>1, <3>3
  <2>. QED
    BY <2>1, <2>2 DEF TicketsFit
<1>16. DetailsFit'
  <2>1. ASSUME NEW r \in DOMAIN mods' PROVE DetailFits(mods'[r], disk, parses')
    <3>. DEFINE id == mods'[r].id
    <3>1. id \in There(update) /\ mods'[r] = Brought(id)
      BY <1>6
    <3>. HIDE DEF id
    <3>2. CASE id \in Replaced
      <4>1. mods'[r].ticket = NewTicket(id) /\ NewTicket(id) \in new /\ mods'[r].details = Unread
        BY <1>4, <1>5, <1>14, <3>1, <3>2
      <4>2. parses'[NewTicket(id)] = Unread
        BY <1>3, <4>1
      <4>. QED
        BY <4>1, <4>2 DEF DetailFits
    <3>3. CASE id \notin Replaced
      <4>1. mods'[r] = mods[index[id]] /\ id \in Known /\ index[id] \in DOMAIN mods
        BY <1>4, <1>11, <3>1, <3>3
      <4>2. DetailFits(mods[index[id]], disk, parses)
        BY <4>1 DEF Undisturbed, DetailsFit
      <4>3. mods[index[id]].details = Unread =>
              parses'[mods[index[id]].ticket] = parses[mods[index[id]].ticket]
        <5>1. SUFFICES ASSUME mods[index[id]].details = Unread
                       PROVE  parses'[mods[index[id]].ticket] = parses[mods[index[id]].ticket]
          OBVIOUS
        <5>2. mods[index[id]].ticket \in DOMAIN parses
          BY <1>10, <4>1, <5>1
        <5>3. mods[index[id]].ticket \notin new
          BY <1>4, <1>14, <5>2
        <5>. QED
          BY <1>3, <5>2, <5>3
      <4>. QED
        BY <4>1, <4>2, <4>3 DEF DetailFits
    <3>. QED
      BY <3>2, <3>3
  <2>. QED
    BY <1>3, <2>1 DEF DetailsFit
<1>17. Synced'
  <2>1. SUFFICES ASSUME watching, ~changed, update' = NoUpdate PROVE Shows(disk)'
    BY <1>3, ModFolderAssumption DEF Synced
  <2>2. ~scheduled /\ update = disk
    BY <1>1, <1>3, <2>1, ModFolderAssumption DEF Undisturbed, Synced
  <2>3. \A r \in DOMAIN mods' : mods'[r].date = disk[mods'[r].id]
    BY <1>5, <1>6, <2>2
  <2>4. There(disk) \subseteq {mods'[r].id : r \in DOMAIN mods'}
    BY <1>6, <2>2
  <2>5. There(disk') = There(disk)
    BY <1>3
  <2>. QED
    BY <1>3, <2>3, <2>4, <2>5 DEF Shows
<1>. QED
  BY <1>15, <1>16, <1>17

\* A step that leaves the list alone.
LEMMA ListStays == ASSUME Fits, TypeOK', UNCHANGED list PROVE Fits'
<1>1. mods' = mods /\ index' = index /\ parses' = parses
  BY DEF list
<1>. QED
  BY <1>1 DEF Fits, ListFits

\* A step that leaves the list alone, and gives no row's file the date of that row.
LEMMA TicketsStay ==
  ASSUME Undisturbed, UNCHANGED list,
         \A r \in DOMAIN mods : disk'[mods[r].id] = mods[r].date => disk[mods[r].id] = mods[r].date
  PROVE  TicketsFit' /\ DetailsFit'
<1>1. mods' = mods /\ index' = index /\ parses' = parses /\ active' = active
  BY DEF list
<1>2. TicketsFit'
  BY <1>1 DEF Undisturbed, TicketsFit
<1>3. ASSUME NEW r \in DOMAIN mods PROVE DetailFits(mods[r], disk', parses)
  <2>1. DetailFits(mods[r], disk, parses)
    BY DEF Undisturbed, DetailsFit
  <2>. QED
    BY <2>1 DEF DetailFits
<1>4. DetailsFit'
  BY <1>1, <1>3 DEF DetailsFit
<1>. QED
  BY <1>2, <1>4

\* A step that leaves the folder and the list alone, and keeps what was read, or has
\* read the folder, or has the folder read again.
LEMMA ReaderKeeps ==
  ASSUME Fits, UNCHANGED <<disk, list, changes, mishap>>, visits' \in 0..MaxVisits,
         changed' \in BOOLEAN, watching' \in BOOLEAN, scheduled' \in BOOLEAN,
         \/ update' = Reading
         \/ update' = disk
         \/ update' = update /\ update # NoUpdate /\ scheduled'
         \/ update' = update /\ ~watching'
         \/ UNCHANGED <<update, scheduled, watcher>>
  PROVE  Kept
<1>1. /\ disk' = disk /\ mods' = mods /\ index' = index /\ parses' = parses /\ active' = active
      /\ changes' = changes /\ mishap' = mishap
  BY DEF list
<1>2. disk \in Folder /\ update \in Folder \cup {NoUpdate, Reading} /\ TypeOK
  BY DEF Fits, ListFits, TypeOK
<1>3. update' \in {update, disk, Reading}
  OBVIOUS
<1>4. TypeOK'
  BY <1>1, <1>2, <1>3 DEF TypeOK
<1>5. Fits'
  BY <1>1, <1>4, ListStays
<1>6. Shows(disk)' <=> Shows(disk)
  BY <1>1 DEF Shows, There
<1>7. ASSUME Undisturbed PROVE Synced'
  <2>1. CASE update' = Reading
    BY <2>1, ModFolderAssumption DEF Synced
  <2>2. CASE update' = disk
    BY <1>1, <1>2, <2>2, ModFolderAssumption DEF Synced
  <2>3. CASE update' = update /\ update # NoUpdate /\ scheduled'
    BY <2>3 DEF Synced
  <2>4. CASE update' = update /\ ~watching'
    BY <2>4 DEF Synced
  <2>5. CASE UNCHANGED <<update, scheduled, watcher>>
    BY <1>1, <1>6, <1>7, <2>5 DEF Undisturbed, Synced, watcher
  <2>. QED
    BY <2>1, <2>2, <2>3, <2>4, <2>5
<1>8. ASSUME Undisturbed PROVE TicketsFit' /\ DetailsFit'
  BY <1>1, <1>8, TicketsStay
<1>. QED
  BY <1>5, <1>7, <1>8 DEF Kept, Undisturbed

LEMMA ReadKeeps == ASSUME Fits, Read PROVE Kept
<1>1. /\ UNCHANGED <<disk, list, changes, visits, changed, watching, scheduled, mishap>>
      /\ update' = disk
  BY DEF Read, watcher
<1>2. TypeOK
  BY DEF Fits, ListFits
<1>3. visits' \in 0..MaxVisits /\ changed' \in BOOLEAN /\ watching' \in BOOLEAN
      /\ scheduled' \in BOOLEAN
  BY <1>1, <1>2 DEF TypeOK
<1>. QED
  BY <1>1, <1>3, ReaderKeeps

\* The folder is read, or read again.
LEMMA UpdateReads ==
  ASSUME Fits, Update
  PROVE  /\ scheduled' \in BOOLEAN
         /\ \/ update' = Reading
            \/ update' = update /\ update # NoUpdate /\ scheduled'
BY DEF Update, Fits, ListFits, TypeOK

LEMMA WatcherKeeps ==
  ASSUME Fits, DirectoryChanged \/ StartWatching \/ StopWatching \/ Scan
  PROVE  Kept
<1>1. TypeOK
  BY DEF Fits, ListFits
<1>2. visits + 1 \in 0..MaxVisits \/ ~(visits < MaxVisits)
  BY <1>1, ModFolderAssumption DEF TypeOK
<1>3. CASE DirectoryChanged \/ StartWatching \/ Scan
  <2>1. Update /\ UNCHANGED <<disk, list, changes, mishap>>
    BY <1>3 DEF DirectoryChanged, StartWatching, Scan
  <2>2. visits' \in 0..MaxVisits /\ changed' \in BOOLEAN /\ watching' \in BOOLEAN
    BY <1>1, <1>2, <1>3 DEF DirectoryChanged, StartWatching, Scan, TypeOK, watcher
  <2>. QED
    BY <2>1, <2>2, UpdateReads, ReaderKeeps
<1>4. CASE StopWatching
  <2>1. UNCHANGED <<disk, list, changes, mishap>> /\ update' = update /\ watching' = FALSE
    BY <1>4 DEF StopWatching, reader
  <2>2. visits' \in 0..MaxVisits /\ changed' \in BOOLEAN /\ watching' \in BOOLEAN
        /\ scheduled' \in BOOLEAN
    BY <1>1, <1>4 DEF StopWatching, TypeOK, reader
  <2>3. update' = update /\ ~watching'
    BY <2>1
  <2>. QED
    BY <2>1, <2>2, <2>3, ReaderKeeps
<1>. QED
  BY <1>3, <1>4

\* A change to the folder.  The watcher, if there is one, has it to report.
LEMMA FolderKeeps ==
  ASSUME Fits, NEW folder, Becomes(folder), folder \in Folder,
         mishap' \in {"none", "hasty", "muddled"},
         UNCHANGED visits, UNCHANGED reader \/ Update,
         mods' \in Seq(Row), DOMAIN index' \subseteq Ids,
         \A id \in DOMAIN index' : index'[id] \in DOMAIN mods',
         UNCHANGED <<parses, active>>
  PROVE  TypeOK' /\ Synced'
<1>1. disk' = folder /\ changed' = watching /\ watching' = watching /\ changes' = changes + 1
      /\ changes < MaxChanges /\ visits' = visits /\ parses' = parses /\ active' = active
  BY DEF Becomes
<1>2. TypeOK
  BY DEF Fits, ListFits
<1>3. update' \in {update, Reading} /\ scheduled' \in BOOLEAN
  BY <1>2, UpdateReads DEF reader, TypeOK
<1>4. changes' \in 0..MaxChanges
  BY <1>1, <1>2, ModFolderAssumption DEF TypeOK
<1>5. TypeOK'
  BY <1>1, <1>2, <1>3, <1>4 DEF TypeOK
<1>6. Synced'
  BY <1>1 DEF Synced
<1>. QED
  BY <1>5, <1>6

\* A file is put into the folder or removed; the list is as it was.
LEMMA FileKeeps ==
  ASSUME Fits, NEW id \in Ids, NEW d \in Fresh \cup {0},
         Becomes([disk EXCEPT ![id] = d]), UNCHANGED <<list, visits, mishap>>,
         UNCHANGED reader \/ Update
  PROVE  Kept
<1>. DEFINE folder == [disk EXCEPT ![id] = d]
<1>1. TypeOK /\ disk \in Folder /\ mishap \in {"none", "hasty", "muddled"}
  BY DEF Fits, ListFits, TypeOK
<1>2. d \in 0..MaxDate /\ \A r \in DOMAIN mods : mods[r].date # d
  <2>1. \A r \in DOMAIN mods : mods[r].date \in Dates
    BY RowsProperties DEF Fits, Row
  <2>2. 0 \in 0..MaxDate /\ 0 \notin Dates /\ \A x \in Dates : x \in 0..MaxDate
    BY ModFolderAssumption DEF Dates
  <2>. QED
    BY <2>1, <2>2, FreshDates
<1>3. folder \in Folder
  BY <1>1, <1>2 DEF Folder
<1>4. \A i \in Ids : folder[i] = IF i = id THEN d ELSE disk[i]
  BY <1>1 DEF Folder
<1>. HIDE DEF folder
<1>5. Becomes(folder) /\ disk' = folder
  BY DEF folder, Becomes
<1>6. mods' \in Seq(Row) /\ DOMAIN index' \subseteq Ids
      /\ (\A i \in DOMAIN index' : index'[i] \in DOMAIN mods') /\ UNCHANGED <<parses, active>>
  BY <1>1 DEF TypeOK, list
<1>7. TypeOK' /\ Synced'
  BY <1>1, <1>3, <1>5, <1>6, FolderKeeps
<1>8. \A r \in DOMAIN mods : disk'[mods[r].id] = mods[r].date => disk[mods[r].id] = mods[r].date
  <2>1. \A r \in DOMAIN mods : mods[r].id \in Ids
    BY RowsProperties DEF Fits
  <2>. QED
    BY <1>2, <1>4, <1>5, <2>1
<1>9. Fits'
  BY <1>7, ListStays
<1>10. ASSUME Undisturbed PROVE TicketsFit' /\ DetailsFit'
  BY <1>8, <1>10, TicketsStay
<1>. QED
  BY <1>7, <1>9, <1>10 DEF Kept, Undisturbed

LEMMA FilePutKeeps ==
  ASSUME Fits, NEW id \in Ids, NEW d \in Fresh, FilePut(id, d) PROVE Kept
<1>1. Becomes([disk EXCEPT ![id] = d]) /\ UNCHANGED <<reader, list, visits, mishap>>
  BY DEF FilePut
<1>. QED
  BY <1>1, FileKeeps

LEMMA FileRemovedKeeps ==
  ASSUME Fits, NEW id \in Ids, FileRemoved(id) PROVE Kept
<1>1. Becomes([disk EXCEPT ![id] = 0]) /\ UNCHANGED <<reader, list, visits, mishap>>
  BY DEF FileRemoved
<1>. QED
  BY <1>1, FileKeeps

LEMMA InstallModKeeps ==
  ASSUME Fits, NEW n \in Names, NEW d \in Fresh, InstallMod(n, d) PROVE Kept
<1>. DEFINE on == <<n, TRUE>>
<1>1. on \in Ids
  BY DEF Ids
<1>2. Becomes([disk EXCEPT ![on] = d]) /\ Update /\ UNCHANGED <<list, visits, mishap>>
  BY DEF InstallMod
<1>. HIDE DEF on
<1>. QED
  BY <1>1, <1>2, FileKeeps

LEMMA DeleteModKeeps ==
  ASSUME Fits, NEW r \in DOMAIN mods, DeleteMod(r) PROVE Kept
<1>. DEFINE id == mods[r].id
            folder == [disk EXCEPT ![id] = 0]
<1>1. TypeOK /\ disk \in Folder /\ mishap \in {"none", "hasty", "muddled"}
  BY DEF Fits, ListFits, TypeOK
<1>2. /\ mods \in Seq(Row) /\ DOMAIN mods = 1..Len(mods) /\ Len(mods) \in Nat
      /\ \A s \in DOMAIN mods : mods[s] \in Row /\ mods[s].id \in Ids /\ mods[s].date \in Dates
  BY RowsProperties DEF Fits, Row
<1>3. 0 \in 0..MaxDate /\ 0 \notin Dates
  BY ModFolderAssumption DEF Dates
<1>4. folder \in Folder
  BY <1>1, <1>3 DEF Folder
<1>5. \A i \in Ids : folder[i] = IF i = id THEN 0 ELSE disk[i]
  BY <1>1 DEF Folder
<1>. HIDE DEF folder
<1>6. /\ Becomes(folder) /\ mods' = [mods EXCEPT ![r].valid = FALSE]
      /\ UNCHANGED <<reader, index, parses, active, visits, mishap>>
  BY DEF DeleteMod, folder
<1>7. /\ DOMAIN mods' = DOMAIN mods
      /\ \A s \in DOMAIN mods : /\ mods'[s] \in Row
                                /\ mods'[s].id = mods[s].id /\ mods'[s].date = mods[s].date
                                /\ mods'[s].details = mods[s].details
                                /\ mods'[s].ticket = mods[s].ticket
  <2>1. DOMAIN mods' = DOMAIN mods
        /\ \A s \in DOMAIN mods :
             mods'[s] = IF s = r THEN [mods[r] EXCEPT !.valid = FALSE] ELSE mods[s]
    BY <1>2, <1>6
  <2>. QED
    BY <1>2, <2>1 DEF Row
<1>8. mods' \in Seq(Row)
  <2>1. mods' = [s \in 1..Len(mods) |-> mods'[s]]
    BY <1>2, <1>6
  <2>. QED
    BY <1>2, <1>7, <2>1
<1>9. TypeOK' /\ Synced'
  <2>1. DOMAIN index' \subseteq Ids /\ \A i \in DOMAIN index' : index'[i] \in DOMAIN mods'
    BY <1>1, <1>6, <1>7 DEF TypeOK
  <2>. QED
    BY <1>1, <1>4, <1>6, <1>8, <2>1, FolderKeeps
<1>10. Fits'
  <2>1. {mods'[s].id : s \in DOMAIN mods'} = {mods[s].id : s \in DOMAIN mods}
    BY <1>7
  <2>2. ListFits'
    BY <1>6, <1>7, <1>9, <2>1 DEF Fits, ListFits
  <2>. QED
    BY <1>6, <2>2 DEF Fits
<1>. SUFFICES ASSUME Undisturbed PROVE TicketsFit' /\ DetailsFit'
  BY <1>9, <1>10 DEF Kept, Undisturbed
<1>11. TicketsFit'
  <2>1. \A t \in active : index[t[1]] \in DOMAIN mods
    BY <1>1 DEF Undisturbed, TicketsFit, TypeOK
  <2>. QED
    BY <1>6, <1>7, <2>1 DEF Undisturbed, TicketsFit
<1>12. DetailsFit'
  <2>1. disk' = folder
    BY <1>6 DEF Becomes
  <2>2. ASSUME NEW s \in DOMAIN mods PROVE DetailFits(mods'[s], disk', parses)
    <3>1. DetailFits(mods[s], disk, parses)
      BY DEF Undisturbed, DetailsFit
    <3>2. disk'[mods[s].id] = mods[s].date => disk[mods[s].id] = mods[s].date
      BY <1>2, <1>3, <1>5, <2>1
    <3>. QED
      BY <1>7, <3>1, <3>2 DEF DetailFits
  <2>. QED
    BY <1>6, <1>7, <2>2 DEF DetailsFit
<1>. QED
  BY <1>11, <1>12

\* A mod that is switched to an id that no row has keeps its row, and the index its row.
\* If its details had been read, they are still those of its file.
LEMMA SetModStatusKeeps ==
  ASSUME Fits, NEW r \in DOMAIN mods, SetModStatus(r), mishap' # "muddled" PROVE Kept
<1>. DEFINE old == mods[r].id
            new == Other(old)
            folder == [disk EXCEPT ![old] = 0, ![new] = disk[old]]
<1>1. TypeOK /\ disk \in Folder /\ mishap \in {"none", "hasty", "muddled"}
  BY DEF Fits, ListFits, TypeOK
<1>2. /\ mods \in Seq(Row) /\ DOMAIN mods = 1..Len(mods) /\ Len(mods) \in Nat
      /\ \A s \in DOMAIN mods : mods[s] \in Row /\ mods[s].id \in Ids /\ mods[s].date \in Dates
                                /\ mods[s].id \in Known /\ index[mods[s].id] = s
      /\ \A id \in Known : index[id] \in DOMAIN mods /\ mods[index[id]].id = id
      /\ Known \subseteq Ids
  BY RowsProperties DEF Fits, Row
<1>3. old \in Ids /\ new \in Ids /\ new # old /\ new[1] = old[1]
  BY <1>2, OnOrOff
<1>4. /\ disk[old] > 0 /\ disk[new] = 0
      /\ Becomes(folder) /\ mods' = [mods EXCEPT ![r].id = new]
      /\ index' = [id \in (Known \ {old}) \cup {new} |-> IF id = new THEN r ELSE index[id]]
      /\ UNCHANGED <<reader, parses, active, visits>>
  BY DEF SetModStatus
<1>5. /\ old = mods[r].id /\ new \notin Known
      /\ mishap' \in {"none", "hasty", "muddled"}
      /\ mishap' = "none" => mods[r].details # Unread
  <2>1. mishap' = Switched(r)
    BY DEF SetModStatus
  <2>. QED
    BY <1>1, <2>1 DEF Switched
<1>. HIDE DEF old, new
<1>6. \A i \in Ids : folder[i] = IF i = old THEN 0 ELSE IF i = new THEN disk[old] ELSE disk[i]
  BY <1>1, <1>3 DEF Folder
<1>7. folder \in Folder
  BY <1>1, <1>3, ModFolderAssumption DEF Folder
<1>. HIDE DEF folder
<1>8. /\ DOMAIN mods' = DOMAIN mods
      /\ \A s \in DOMAIN mods : /\ mods'[s] \in Row
                                /\ mods'[s].id = IF s = r THEN new ELSE mods[s].id
                                /\ mods'[s].date = mods[s].date
                                /\ mods'[s].details = mods[s].details
                                /\ mods'[s].ticket = mods[s].ticket
  <2>1. DOMAIN mods' = DOMAIN mods
        /\ \A s \in DOMAIN mods :
             mods'[s] = IF s = r THEN [mods[r] EXCEPT !.id = new] ELSE mods[s]
    BY <1>2, <1>4
  <2>. QED
    BY <1>2, <1>3, <2>1 DEF Row
<1>9. mods' \in Seq(Row)
  <2>1. mods' = [s \in 1..Len(mods) |-> mods'[s]]
    BY <1>2, <1>4
  <2>. QED
    BY <1>2, <1>8, <2>1
<1>10. \A s \in DOMAIN mods : s # r => mods[s].id # old /\ mods[s].id # new
  BY <1>2, <1>5
<1>11. /\ DOMAIN index' = {mods'[s].id : s \in DOMAIN mods'}
       /\ \A s \in DOMAIN mods' : index'[mods'[s].id] = s
  <2>1. DOMAIN index' = (Known \ {old}) \cup {new}
        /\ \A id \in DOMAIN index' : index'[id] = IF id = new THEN r ELSE index[id]
    BY <1>4
  <2>2. \A s \in DOMAIN mods : mods'[s].id \in DOMAIN index' /\ index'[mods'[s].id] = s
    BY <1>2, <1>8, <1>10, <2>1
  <2>3. ASSUME NEW id \in DOMAIN index' PROVE \E s \in DOMAIN mods : mods'[s].id = id
    <3>1. CASE id = new
      BY <1>8, <3>1
    <3>2. CASE id # new
      <4>1. id \in Known /\ id # old /\ index[id] \in DOMAIN mods /\ mods[index[id]].id = id
        BY <1>2, <2>1, <3>2
      <4>2. index[id] # r
        BY <1>5, <4>1
      <4>. QED
        BY <1>8, <4>1, <4>2
    <3>. QED
      BY <3>1, <3>2
  <2>. QED
    BY <1>8, <2>2, <2>3
<1>12. TypeOK' /\ Synced'
  <2>1. DOMAIN index' \subseteq Ids
    BY <1>2, <1>3, <1>4
  <2>2. \A i \in DOMAIN index' : index'[i] \in DOMAIN mods'
    BY <1>11
  <2>. QED
    BY <1>4, <1>5, <1>7, <1>9, <2>1, <2>2, FolderKeeps
<1>13. Fits'
  BY <1>4, <1>11, <1>12 DEF Fits, ListFits
<1>. SUFFICES ASSUME Undisturbed, mods[r].details # Unread PROVE TicketsFit' /\ DetailsFit'
  BY <1>5, <1>12, <1>13 DEF Kept, Undisturbed
<1>14. TicketsFit'
  <2>1. ASSUME NEW s \in DOMAIN mods, mods'[s].details = Unread
        PROVE  mods'[s].ticket \in active /\ mods'[s].ticket[1] = mods'[s].id
    <3>1. s # r
      BY <1>8, <2>1
    <3>. QED
      BY <1>8, <2>1, <3>1 DEF Undisturbed, TicketsFit
  <2>2. ASSUME NEW t \in active
        PROVE  /\ t[1] \in DOMAIN index'
               /\ mods'[index'[t[1]]].ticket = t /\ mods'[index'[t[1]]].details = Unread
    <3>1. t[1] \in Known /\ mods[index[t[1]]].ticket = t /\ mods[index[t[1]]].details = Unread
      BY DEF Undisturbed, TicketsFit, Known
    <3>2. PICK s \in DOMAIN mods : s = index[t[1]] /\ mods[s].id = t[1]
      BY <1>2, <3>1
    <3>3. s # r
      BY <3>1, <3>2
    <3>4. mods'[s].id = t[1] /\ mods'[s].ticket = t /\ mods'[s].details = Unread
      BY <1>8, <3>1, <3>2, <3>3
    <3>5. t[1] \in DOMAIN index' /\ index'[t[1]] = s
      BY <1>8, <1>11, <3>4
    <3>. QED
      BY <3>4, <3>5
  <2>. QED
    BY <1>4, <1>8, <2>1, <2>2 DEF TicketsFit
<1>15. DetailsFit'
  <2>1. disk' = folder
    BY <1>4 DEF Becomes
  <2>2. ASSUME NEW s \in DOMAIN mods PROVE DetailFits(mods'[s], disk', parses)
    <3>1. DetailFits(mods[s], disk, parses)
      BY DEF Undisturbed, DetailsFit
    <3>2. CASE s = r
      <4>1. disk'[new] = disk[old]
        BY <1>3, <1>6, <2>1
      <4>2. mods'[s].id = new /\ mods'[s].date = mods[s].date /\ mods'[s].details = mods[s].details
        BY <1>8, <3>2
      <4>3. disk[mods[s].id] = mods[s].date => mods[s].details = <<mods[s].id[1], mods[s].date>>
        BY <3>1, <3>2 DEF DetailFits
      <4>. QED
        BY <1>3, <1>5, <3>2, <4>1, <4>2, <4>3 DEF DetailFits
    <3>3. CASE s # r
      <4>1. disk'[mods[s].id] = disk[mods[s].id] /\ mods'[s].id = mods[s].id
        BY <1>2, <1>6, <1>8, <1>10, <2>1, <3>3
      <4>. QED
        BY <1>8, <3>1, <4>1 DEF DetailFits
    <3>. QED
      BY <3>2, <3>3
  <2>. QED
    BY <1>4, <1>8, <2>2 DEF DetailsFit
<1>. QED
  BY <1>14, <1>15

\* A step that leaves alone the folder, what was read of it, and the ids and dates of
\* the rows.
LEMMA RowsStay ==
  ASSUME Undisturbed, UNCHANGED <<disk, changed, watching, update, scheduled>>,
         DOMAIN mods' = DOMAIN mods,
         \A r \in DOMAIN mods : mods'[r].id = mods[r].id /\ mods'[r].date = mods[r].date
  PROVE  Synced'
<1>1. disk' = disk /\ changed' = changed /\ watching' = watching /\ update' = update
      /\ scheduled' = scheduled
  OBVIOUS
<1>2. {mods'[r].id : r \in DOMAIN mods'} = {mods[r].id : r \in DOMAIN mods}
  OBVIOUS
<1>3. Shows(disk)' <=> Shows(disk)
  BY <1>1, <1>2 DEF Shows, There
<1>. QED
  BY <1>1, <1>3 DEF Undisturbed, Synced

\* A thread reads the details of the file that has the row's name now.
LEMMA ParseReadKeeps ==
  ASSUME Fits, NEW t \in DOMAIN parses, ParseRead(t) PROVE Kept
<1>. DEFINE read == IF disk[t[1]] > 0 THEN <<t[1][1], disk[t[1]]>> ELSE NoDetails
<1>1. TypeOK /\ disk \in Folder /\ t \in Tickets
  BY DEF Fits, ListFits, TypeOK
<1>2. t[1] \in Ids /\ t[1][1] \in Names
  <2>1. t[1] \in Ids
    BY <1>1 DEF Tickets
  <2>. QED
    BY <2>1, OnOrOff
<1>3. read \in Details
  BY <1>1, <1>2, ModFolderAssumption DEF Details, Folder, Dates
<1>4. /\ parses' = [parses EXCEPT ![t] = read] /\ parses[t] = Unread
      /\ disk' = disk /\ UNCHANGED <<changed, watching, update, scheduled, mishap>>
      /\ mods' = mods /\ index' = index /\ active' = active /\ changes' = changes /\ visits' = visits
  BY DEF ParseRead, watcher, reader
<1>. HIDE DEF read
<1>5. DOMAIN parses' = DOMAIN parses
      /\ \A u \in DOMAIN parses : parses'[u] = IF u = t THEN read ELSE parses[u]
  BY <1>4
<1>6. TypeOK'
  BY <1>1, <1>3, <1>4, <1>5 DEF TypeOK
<1>7. Fits'
  BY <1>4, <1>5, <1>6 DEF Fits, ListFits
<1>. SUFFICES ASSUME Undisturbed PROVE TicketsFit' /\ DetailsFit' /\ Synced'
  BY <1>7 DEF Kept, Undisturbed
<1>8. TicketsFit'
  BY <1>4 DEF Undisturbed, TicketsFit
<1>9. Synced'
  BY <1>4, RowsStay
<1>10. DetailsFit'
  <2>1. ASSUME NEW r \in DOMAIN mods PROVE DetailFits(mods[r], disk, parses')
    <3>1. DetailFits(mods[r], disk, parses)
      BY DEF Undisturbed, DetailsFit
    <3>2. CASE mods[r].details # Unread
      BY <3>1, <3>2 DEF DetailFits
    <3>3. CASE mods[r].details = Unread
      <4>1. mods[r].ticket \in DOMAIN parses /\ mods[r].ticket[1] = mods[r].id
        BY <1>1, <3>3 DEF Undisturbed, TicketsFit, TypeOK
      <4>2. CASE mods[r].ticket # t
        BY <1>5, <3>1, <4>1, <4>2 DEF DetailFits
      <4>3. CASE mods[r].ticket = t
        <5>1. mods[r].date > 0
          BY RowsProperties, ModFolderAssumption DEF Fits, Row, Dates
        <5>2. disk[mods[r].id] = mods[r].date => read = <<mods[r].id[1], mods[r].date>>
          BY <4>1, <4>3, <5>1 DEF read
        <5>3. parses'[mods[r].ticket] = read
          BY <1>5, <4>3
        <5>. QED
          BY <3>3, <5>2, <5>3 DEF DetailFits
      <4>. QED
        BY <4>2, <4>3
    <3>. QED
      BY <3>2, <3>3
  <2>. QED
    BY <1>4, <2>1 DEF DetailsFit
<1>. QED
  BY <1>8, <1>9, <1>10

\* What a thread has read goes into a row of that id, and if no mod was switched while
\* its details were read it is the row it was read for.
LEMMA FinishParseKeeps ==
  ASSUME Fits, NEW t \in DOMAIN parses, FinishParse(t), mishap' # "muddled" PROVE Kept
<1>1. TypeOK /\ active \subseteq DOMAIN parses
  BY DEF Fits, ListFits, TypeOK
<1>2. /\ parses' = [u \in DOMAIN parses \ {t} |-> parses[u]] /\ parses[t] # Unread
      /\ disk' = disk /\ UNCHANGED <<changed, watching, update, scheduled>>
      /\ changes' = changes /\ visits' = visits
  BY DEF FinishParse, watcher, reader
<1>3. /\ DOMAIN parses' = DOMAIN parses \ {t} /\ \A u \in DOMAIN parses' : parses'[u] = parses[u]
      /\ IsFiniteSet(DOMAIN parses')
  <2>1. DOMAIN parses' = DOMAIN parses \ {t} /\ \A u \in DOMAIN parses' : parses'[u] = parses[u]
    BY <1>2
  <2>2. IsFiniteSet(DOMAIN parses)
    BY DEF Fits
  <2>. QED
    BY <2>1, <2>2, FS_Subset
<1>4. /\ mods \in Seq(Row) /\ DOMAIN mods = 1..Len(mods) /\ Len(mods) \in Nat
      /\ \A r \in DOMAIN mods : mods[r] \in Row /\ mods[r].id \in Known /\ index[mods[r].id] = r
      /\ \A id \in Known : index[id] \in DOMAIN mods /\ mods[index[id]].id = id
  BY RowsProperties DEF Fits
<1>5. ASSUME Undisturbed
      PROVE  /\ \A r \in DOMAIN mods : mods[r].details = Unread =>
                  mods[r].ticket \in active /\ mods[r].ticket[1] = mods[r].id
             /\ \A u \in active :
                  /\ u[1] \in Known
                  /\ mods[index[u[1]]].ticket = u /\ mods[index[u[1]]].details = Unread
  BY <1>5 DEF Undisturbed, TicketsFit, Known
<1>6. CASE t \notin active
  <2>1. mods' = mods /\ index' = index /\ active' = active /\ mishap' = mishap
    BY <1>6 DEF FinishParse
  <2>2. TypeOK'
    BY <1>1, <1>2, <1>3, <1>6, <2>1 DEF TypeOK
  <2>3. Fits'
    BY <1>3, <2>1, <2>2 DEF Fits, ListFits
  <2>. SUFFICES ASSUME Undisturbed PROVE TicketsFit' /\ DetailsFit' /\ Synced'
    BY <2>3 DEF Kept, Undisturbed
  <2>4. TicketsFit'
    BY <2>1 DEF Undisturbed, TicketsFit
  <2>5. DetailsFit'
    <3>1. ASSUME NEW r \in DOMAIN mods PROVE DetailFits(mods[r], disk, parses')
      <4>1. DetailFits(mods[r], disk, parses)
        BY DEF Undisturbed, DetailsFit
      <4>2. mods[r].details = Unread => parses'[mods[r].ticket] = parses[mods[r].ticket]
        BY <1>1, <1>3, <1>5, <1>6
      <4>. QED
        BY <4>1, <4>2 DEF DetailFits
    <3>. QED
      BY <1>2, <2>1, <3>1 DEF DetailsFit
  <2>6. Synced'
    BY <1>2, <2>1, RowsStay
  <2>. QED
    BY <2>4, <2>5, <2>6
<1>7. CASE t \in active
  <2>. DEFINE row == index[t[1]]
  <2>1. t[1] \in Known /\ row \in DOMAIN mods /\ mods[row].id = t[1]
    <3>1. t[1] \in Known
      BY <1>7 DEF FinishParse
    <3>. QED
      BY <1>4, <3>1
  <2>2. /\ active' = active \ {t}
        /\ mods' = [mods EXCEPT ![row].details = parses[t]]
        /\ index' = [id \in Known \cup {t[1]} |-> IF id = t[1] THEN row ELSE index[id]]
        /\ mishap' = mishap
    BY <1>7, <2>1 DEF FinishParse
  <2>3. DOMAIN index' = Known /\ \A id \in Known : index'[id] = index[id]
    BY <2>1, <2>2
  <2>. HIDE DEF row
  <2>4. parses[t] \in Details
    BY <1>1 DEF TypeOK
  <2>5. /\ DOMAIN mods' = DOMAIN mods
        /\ \A s \in DOMAIN mods :
             /\ mods'[s] \in Row
             /\ mods'[s].id = mods[s].id /\ mods'[s].date = mods[s].date
             /\ mods'[s].ticket = mods[s].ticket
             /\ mods'[s].details = IF s = row THEN parses[t] ELSE mods[s].details
    <3>1. DOMAIN mods' = DOMAIN mods
          /\ \A s \in DOMAIN mods :
               mods'[s] = IF s = row THEN [mods[row] EXCEPT !.details = parses[t]] ELSE mods[s]
      BY <1>4, <2>1, <2>2
    <3>. QED
      BY <1>4, <2>4, <3>1 DEF Row
  <2>6. mods' \in Seq(Row)
    <3>1. mods' = [s \in 1..Len(mods) |-> mods'[s]]
      BY <1>4, <2>2
    <3>. QED
      BY <1>4, <2>5, <3>1
  <2>7. Fits'
    <3>1. active' \subseteq DOMAIN parses'
      BY <1>1, <1>3, <2>2
    <3>2. DOMAIN index' \subseteq Ids /\ \A id \in DOMAIN index' : index'[id] \in DOMAIN mods'
      BY <1>1, <1>4, <2>3, <2>5 DEF TypeOK, Known
    <3>3. TypeOK'
      BY <1>1, <1>2, <1>3, <2>2, <2>6, <3>1, <3>2 DEF TypeOK
    <3>4. {mods'[s].id : s \in DOMAIN mods'} = {mods[s].id : s \in DOMAIN mods}
      BY <2>5
    <3>5. DOMAIN index' = {mods[s].id : s \in DOMAIN mods}
      BY <2>3 DEF Fits, ListFits, Known
    <3>6. \A s \in DOMAIN mods' : index'[mods'[s].id] = s
      BY <1>4, <2>3, <2>5
    <3>. QED
      BY <1>3, <3>3, <3>4, <3>5, <3>6 DEF Fits, ListFits
  <2>. SUFFICES ASSUME Undisturbed PROVE TicketsFit' /\ DetailsFit' /\ Synced'
    BY <2>7 DEF Kept, Undisturbed
  <2>8. Synced'
    BY <1>2, <2>5, RowsStay
  <2>9. mods[row].ticket = t /\ mods[row].details = Unread
    BY <1>5, <1>7 DEF row
  <2>10. \A s \in DOMAIN mods : s # row /\ mods[s].details = Unread => mods[s].ticket # t
    BY <1>4, <1>5, <2>1
  <2>11. TicketsFit'
    <3>1. ASSUME NEW s \in DOMAIN mods, mods'[s].details = Unread
          PROVE  mods'[s].ticket \in active' /\ mods'[s].ticket[1] = mods'[s].id
      <4>1. s # row
        BY <1>2, <2>5, <3>1
      <4>. QED
        BY <1>5, <2>2, <2>5, <2>10, <3>1, <4>1
    <3>2. ASSUME NEW u \in active'
          PROVE  /\ u[1] \in DOMAIN index'
                 /\ mods'[index'[u[1]]].ticket = u /\ mods'[index'[u[1]]].details = Unread
      <4>1. u \in active /\ u # t
        BY <2>2
      <4>2. /\ u[1] \in Known /\ index[u[1]] \in DOMAIN mods
            /\ mods[index[u[1]]].ticket = u /\ mods[index[u[1]]].details = Unread
        BY <1>4, <1>5, <4>1
      <4>3. index[u[1]] # row
        BY <2>9, <4>1, <4>2
      <4>. QED
        BY <2>3, <2>5, <4>2, <4>3
    <3>. QED
      BY <2>5, <3>1, <3>2 DEF TicketsFit
  <2>12. DetailsFit'
    <3>1. ASSUME NEW s \in DOMAIN mods PROVE DetailFits(mods'[s], disk, parses')
      <4>1. DetailFits(mods[s], disk, parses)
        BY DEF Undisturbed, DetailsFit
      <4>2. CASE s = row
        BY <1>2, <2>5, <2>9, <4>1, <4>2 DEF DetailFits
      <4>3. CASE s # row
        <5>1. mods[s].details = Unread => parses'[mods[s].ticket] = parses[mods[s].ticket]
          BY <1>1, <1>3, <1>5, <2>10, <4>3
        <5>. QED
          BY <2>5, <4>1, <4>3, <5>1 DEF DetailFits
      <4>. QED
        BY <4>2, <4>3
    <3>. QED
      BY <1>2, <2>5, <3>1 DEF DetailsFit
  <2>. QED
    BY <2>8, <2>11, <2>12
<1>. QED
  BY <1>6, <1>7

LEMMA InitFits == ASSUME Init PROVE IInv
<1>1. /\ mods = <<>> /\ index = <<>> /\ parses = <<>> /\ active = {} /\ update = NoUpdate
      /\ scheduled = FALSE /\ changed = FALSE /\ watching = FALSE /\ changes = 0 /\ visits = 0
      /\ mishap = "none" /\ disk \in [Ids -> {0, 1}]
  BY DEF Init
<1>2. DOMAIN mods = {} /\ DOMAIN index = {} /\ DOMAIN parses = {} /\ mods \in Seq(Row)
  BY <1>1
<1>3. disk \in Folder /\ 0 \in 0..MaxChanges /\ 0 \in 0..MaxVisits
  <2>1. {0, 1} \subseteq 0..MaxDate /\ 0 \in 0..MaxChanges /\ 0 \in 0..MaxVisits
    BY ModFolderAssumption
  <2>. QED
    BY <1>1, <2>1 DEF Folder
<1>4. ListFits
  BY <1>1, <1>2, <1>3 DEF ListFits, TypeOK
<1>5. IsFiniteSet(DOMAIN parses)
  BY <1>2, FS_EmptySet
<1>6. TicketsFit /\ DetailsFit /\ Synced
  BY <1>1, <1>2 DEF TicketsFit, DetailsFit, Synced
<1>. QED
  BY <1>4, <1>5, <1>6 DEF IInv, Undisturbed, Fits

\* A mishap is not forgotten.
LEMMA MishapStays ==
  ASSUME Next, mishap' = "none" PROVE mishap = "none"
BY DEF Next, Threads, Signals, User, OtherPrograms, Read, ParseRead, FinishUpdate, FinishParse,
       DirectoryChanged, StartWatching, StopWatching, Scan, FilePut, FileRemoved, InstallMod,
       SetModStatus, Switched, DeleteMod

\* Every step keeps the invariant.
LEMMA NextKeeps == ASSUME IInv, [Next]_vars PROVE IInv'
<1>1. ASSUME Next, mishap' # "muddled" PROVE Kept
  <2>1. Fits
    BY <1>1 DEF IInv, Next
  <2>2. CASE Threads
    BY <2>1, <2>2, ReadKeeps, ParseReadKeeps DEF Threads
  <2>3. CASE Signals
    BY <1>1, <2>1, <2>3, FinishUpdateKeeps, WatcherKeeps, FinishParseKeeps DEF Signals
  <2>4. CASE User
    BY <1>1, <2>1, <2>4, WatcherKeeps, SetModStatusKeeps, DeleteModKeeps, InstallModKeeps DEF User
  <2>5. CASE OtherPrograms
    BY <2>1, <2>5, FileRemovedKeeps, FilePutKeeps DEF OtherPrograms
  <2>. QED
    BY <1>1, <2>2, <2>3, <2>4, <2>5 DEF Next
<1>2. CASE Next
  BY <1>1, <1>2, MishapStays DEF IInv, Kept
<1>3. CASE UNCHANGED vars
  <2>1. CASE mishap = "muddled"
    BY <1>3, <2>1 DEF IInv, vars
  <2>2. CASE mishap # "muddled"
    <3>1. UNCHANGED <<disk, list, changes, visits, changed, watching, update, scheduled, mishap>>
      BY <1>3 DEF vars, watcher, reader
    <3>2. Fits /\ TypeOK
      BY <2>2 DEF IInv, Fits, ListFits
    <3>3. visits' \in 0..MaxVisits /\ changed' \in BOOLEAN /\ watching' \in BOOLEAN
          /\ scheduled' \in BOOLEAN
      BY <3>1, <3>2 DEF TypeOK
    <3>4. UNCHANGED <<update, scheduled, watcher>>
      BY <3>1 DEF watcher
    <3>5. Kept
      BY <3>1, <3>2, <3>3, <3>4, ReaderKeeps
    <3>. QED
      BY <3>1, <3>5 DEF IInv, Kept
  <2>. QED
    BY <2>1, <2>2
<1>. QED
  BY <1>2, <1>3

\* The invariant holds throughout, for any folder, also one with a mod there both enabled
\* and disabled, and any user.  Until the index is muddled it fits the list.  Until a mod
\* is switched while its details are read, each row whose details are being read has its
\* own ticket, no answer for a file that is gone or replaced still counts, and a change to
\* the folder that the rows do not show yet is reported, being read or to be read again.
THEOREM Invariance == Spec => []IInv
<1>1. Init => IInv
  BY InitFits
<1>2. IInv /\ [Next]_vars => IInv'
  BY NextKeeps
<1>. QED
  BY <1>1, <1>2, PTL DEF Spec

(***************************************************************************)
(* What follows from the invariant.                                        *)
(***************************************************************************)

\* The list and its index agree, in whatever order the answers of threads, the reports of
\* the watcher and the switches of the user come in, until one of the two mishaps muddles
\* the index: a mod switched to the id of another row, or an answer under an id that is
\* no row's (finishUpdate, setModStatus, finishModParse).
THEOREM ListAndIndex == Spec => []IndexFits
<1>1. IInv => IndexFits
  BY DEF IInv, Fits, ListFits, IndexFits
<1>. QED
  BY <1>1, Invariance, PTL

LEMMA RestShows == ASSUME IInv PROVE ShowsFolder
<1>. SUFFICES ASSUME AtRest, mishap = "none"
     PROVE  /\ {<<mods[r].id, mods[r].date>> : r \in DOMAIN mods}
                  = {<<id, disk[id]>> : id \in There(disk)}
            /\ Len(mods) = Cardinality(There(disk))
            /\ \A r \in DOMAIN mods :
                 mods[r].details = <<mods[r].id[1], disk[mods[r].id]>>
  BY DEF ShowsFolder
<1>. Undisturbed
  BY DEF IInv
<1>1. /\ Len(mods) \in Nat /\ DOMAIN mods = 1..Len(mods)
      /\ \A r \in DOMAIN mods : mods[r].id \in Ids /\ mods[r].date \in Dates
      /\ \A r, s \in DOMAIN mods : mods[r].id = mods[s].id => r = s
  BY RowsProperties DEF Undisturbed, Fits, Row
<1>2. Shows(disk)
  BY DEF AtRest, Undisturbed, Synced
<1>3. \A r \in DOMAIN mods : mods[r].date = disk[mods[r].id] /\ mods[r].id \in There(disk)
  <2>1. \A d \in Dates : d > 0
    BY ModFolderAssumption DEF Dates
  <2>. QED
    BY <1>1, <1>2, <2>1 DEF Shows, There
<1>4. \A id \in There(disk) : \E r \in DOMAIN mods : mods[r].id = id
  BY <1>2 DEF Shows
<1>5. {<<mods[r].id, mods[r].date>> : r \in DOMAIN mods} = {<<id, disk[id]>> : id \in There(disk)}
  BY <1>3, <1>4
<1>6. Len(mods) = Cardinality(There(disk))
  <2>. DEFINE f == [r \in 1..Len(mods) |-> mods[r].id]
  <2>1. f \in Injection(1..Len(mods), There(disk))
    BY <1>1, <1>3 DEF Injection, IsInjective
  <2>2. f \in Surjection(1..Len(mods), There(disk))
    BY <1>1, <1>3, <1>4 DEF Surjection
  <2>. HIDE DEF f
  <2>3. IsFiniteSet(There(disk))
    BY IdsFinite, FS_Subset DEF There
  <2>4. Cardinality(1..Len(mods)) = Cardinality(There(disk))
    BY <2>1, <2>2, <2>3, FS_Injection
  <2>. QED
    BY <1>1, <2>4, FS_Interval
<1>7. ASSUME NEW r \in DOMAIN mods
      PROVE  mods[r].details = <<mods[r].id[1], disk[mods[r].id]>>
  <2>1. mods[r].details # Unread
    BY DEF AtRest, Undisturbed, TicketsFit
  <2>2. DetailFits(mods[r], disk, parses)
    BY DEF Undisturbed, DetailsFit
  <2>. QED
    BY <1>3, <2>1, <2>2 DEF DetailFits
<1>. QED
  BY <1>5, <1>6, <1>7

\* If no mod was switched while its details were read or to the id of another row, a list
\* at rest has a row for each file, of its date, and one only, with the details
\* of that file as it is now, not those of another mod or of a file that was replaced
\* while it was read.
THEOREM ListShowsFolder == Spec => []ShowsFolder
<1>1. IInv => ShowsFolder
  BY RestShows
<1>. QED
  BY <1>1, Invariance, PTL
================================================================================
