---------------------------- MODULE IvfPqProofs -----------------------------
(***************************************************************************)
(* What training leaves an IVF-PQ index with, and what a search of it then *)
(* returns, for any rows of any length, parts, draws, number of probes and *)
(* widths. k-means makes each point and word one of the space it is in; and*)
(* keeps each of few enough rows one of its points, so that such codes lose*)
(* nothing but what no part covers. A distance by a code is that of the row*)
(* the code stands for, as what is left of the row is its parts and an end.*)
(***************************************************************************)
EXTENDS IvfPq, SearchProofs

-----------------------------------------------------------------------------
(* IVF-PQ. Sums: P[k] is that of the first k terms.                        *)
Sums(P, c) ==
    /\ P \in [0 .. Len(c) -> Int] /\ P[0] = 0 /\ P[Len(c)] = Sum(c)
    /\ \A k \in 1 .. Len(c) : P[k] = P[k - 1] + c[k]

(* A sum has running sums, which an induction can follow.                  *)
LEMMA SumIs ==
  ASSUME NEW c \in Seq(Int)
  PROVE  Sum(c) \in Int /\ \E P : Sums(P, c)
<1> DEFINE n == Len(c)
           V == Int
           op(a, x) == a + x
           t == Sum(c)
           Steps(g) == g = [r \in SUBSET DOMAIN c |->
                          IF r = {} THEN 0 ELSE op(g[r \ {Max(r)}], c[Max(r)])]
           G == [p \in (1 .. n) \X V |-> op(p[2], c[p[1]])]
<1>1. n \in Nat /\ DOMAIN c = 1 .. n /\ 0 \in V /\ \A k \in 1 .. n : c[k] \in Int
  OBVIOUS
<1>2. /\ G \in [(1 .. n) \X V -> V]
      /\ \A k \in 1 .. n, u \in V : G[<<k, u>>] = u + c[k]
  BY <1>1
<1>3. G = [p \in (1 .. n) \X V |-> op(p[2], c[p[1]])]
  OBVIOUS
<1> HIDE DEF V, G, n
<1>4. PICK f : Solves(f, n, V, 0, G)
  BY <1>1, <1>2, FoldExists
<1>5. Steps(f)
  <2>1. \A r \in SUBSET (1 .. n) : r # {} =>
           /\ Max(r) \in 1 .. n /\ f[r \ {Max(r)}] \in V
           /\ f[r] = op(f[r \ {Max(r)}], c[Max(r)])
    BY <1>4, <1>2 DEF Solves
  <2>2. f = [r \in SUBSET (1 .. n) |-> f[r]] /\ f[{}] = 0
    BY <1>4 DEF Solves
  <2>3. f = [r \in SUBSET (1 .. n) |-> IF r = {} THEN 0 ELSE op(f[r \ {Max(r)}], c[Max(r)])]
    BY <2>1, <2>2
  <2> QED
    BY <2>3, <1>1, Zenon
<1> HIDE DEF Steps
<1>6. PICK g : Steps(g) /\ t = g[DOMAIN c]
  <2>1. \E g : Steps(g)
    BY <1>5
  <2>2. \E g : Steps(g) /\ t = g[DOMAIN c]
    BY <2>1 DEF Steps, Sum, FoldLeft, MapThenFoldSet
  <2> QED
    BY <2>2
<1> HIDE DEF t
<1>7. g[{}] = 0 /\ \A k \in 1 .. n : g[1 .. k - 1] \in V => g[1 .. k] = G[<<k, g[1 .. k - 1]>>]
  <2>1. g = [r \in SUBSET DOMAIN c |-> IF r = {} THEN 0 ELSE op(g[r \ {Max(r)}], c[Max(r)])]
    BY <1>6 DEF Steps
  <2>2. {} \in SUBSET DOMAIN c
    OBVIOUS
  <2>3. g[{}] = 0
    BY <2>1, <2>2, Zenon
  <2>4. ASSUME NEW k \in 1 .. n, g[1 .. k - 1] \in V
        PROVE  g[1 .. k] = G[<<k, g[1 .. k - 1]>>]
    <3>1. 1 .. k # {} /\ Max(1 .. k) = k /\ (1 .. k) \ {k} = 1 .. k - 1
      BY MaxUpTo
    <3>2. 1 .. k \in SUBSET DOMAIN c
      BY <1>1
    <3>3. g[1 .. k] = op(g[1 .. k - 1], c[k])
      BY <2>1, <3>1, <3>2, Zenon
    <3> QED
      BY <3>3, <2>4, <1>2
  <2> QED
    BY <2>3, <2>4
<1>8. PICK P : Runs(P, n, V, 0, G, g[1 .. n])
  BY <1>1, <1>2, <1>7, FoldRun
<1>9. /\ P \in [0 .. n -> Int] /\ P[0] = 0 /\ P[n] = t
      /\ \A k \in 1 .. n : P[k] = P[k - 1] + c[k]
  <2>1. P \in [0 .. n -> V] /\ P[0] = 0 /\ P[n] = g[1 .. n]
        /\ \A k \in 1 .. n : P[k - 1] \in V /\ P[k] = G[<<k, P[k - 1]>>]
    BY <1>8 DEF Runs
  <2>2. P[n] = t
    BY <2>1, <1>1, <1>6, Zenon
  <2> QED
    BY <2>1, <2>2, <1>2 DEF V
<1>10. Sums(P, c)
  BY <1>9 DEF Sums, n, t
<1>11. t \in Int
  BY <1>9, <1>1
<1> QED
  BY <1>10, <1>11 DEF t

(* Sums of as many terms, term by term.                                    *)
LEMMA SumsAdd ==
  ASSUME NEW a \in Seq(Int), NEW b \in Seq(Int), NEW c \in Seq(Int),
         Len(a) = Len(b), Len(a) = Len(c), \A k \in 1 .. Len(a) : a[k] + b[k] = c[k]
  PROVE  Sum(a) + Sum(b) = Sum(c)
<1> DEFINE n == Len(a)
<1>1. PICK A : Sums(A, a)
  BY SumIs
<1>2. PICK B : Sums(B, b)
  BY SumIs
<1>3. PICK C : Sums(C, c)
  BY SumIs
<1>0. /\ n \in Nat /\ Len(a) = n /\ Len(b) = n /\ Len(c) = n
      /\ \A k \in 1 .. n : a[k] \in Int /\ b[k] \in Int /\ c[k] = a[k] + b[k]
  <2>1. Len(a) = n /\ Len(b) = n /\ Len(c) = n
    BY Zenon
  <2> HIDE DEF n
  <2>2. n \in Nat /\ DOMAIN a = 1 .. n /\ DOMAIN b = 1 .. n
    BY <2>1, LenProperties
  <2>3. \A k \in 1 .. n : a[k] \in Int /\ b[k] \in Int
    BY <2>2
  <2> QED
    BY <2>1, <2>2, <2>3, Zenon
<1> HIDE DEF n
<1>4. /\ A \in [0 .. n -> Int] /\ B \in [0 .. n -> Int] /\ C \in [0 .. n -> Int]
      /\ A[0] = 0 /\ B[0] = 0 /\ C[0] = 0
      /\ \A k \in 1 .. n : A[k] = A[k - 1] + a[k] /\ B[k] = B[k - 1] + b[k] /\ C[k] = C[k - 1] + c[k]
  BY <1>0, <1>1, <1>2, <1>3, Zenon DEF Sums
<1>5. A[n] = Sum(a) /\ B[n] = Sum(b) /\ C[n] = Sum(c)
  BY <1>0, <1>1, <1>2, <1>3, Zenon DEF Sums
<1> DEFINE S == {k \in 0 .. n : A[k] + B[k] = C[k]}
<1>6. 0 \in S
  BY <1>0, <1>4
<1>7. ASSUME NEW k \in 1 .. n, k - 1 \in S PROVE k \in S
  <2>1. k \in 0 .. n /\ k - 1 \in 0 .. n /\ A[k - 1] + B[k - 1] = C[k - 1]
    BY <1>7, <1>0
  <2>2. A[k - 1] \in Int /\ B[k - 1] \in Int
    BY <2>1, <1>4
  <2>3. A[k] = A[k - 1] + a[k] /\ B[k] = B[k - 1] + b[k] /\ C[k] = C[k - 1] + (a[k] + b[k])
    BY <1>0, <1>4
  <2>4. a[k] \in Int /\ b[k] \in Int
    BY <1>0
  <2>5. A[k] + B[k] = C[k]
    <3> DEFINE u == A[k - 1]
               v == B[k - 1]
    <3>1. A[k] = u + a[k] /\ B[k] = v + b[k] /\ C[k] = (u + v) + (a[k] + b[k])
      BY <2>1, <2>3
    <3>2. u \in Int /\ v \in Int
      BY <2>2
    <3> HIDE DEF u, v
    <3> QED
      BY <2>4, <3>1, <3>2
  <2> QED
    BY <2>1, <2>5
<1>8. n \in S
  <2>1. n \in 0 .. n
    BY <1>0
  <2> HIDE DEF S
  <2> QED
    BY <2>1, <1>0, <1>6, <1>7, Induct
<1> QED
  BY <1>5, <1>8

(* A sum of terms none of which is negative is not, and is zero only when  *)
(* all of them are.                                                        *)
LEMMA SumNat ==
  ASSUME NEW c \in Seq(Int), \A k \in 1 .. Len(c) : c[k] >= 0
  PROVE  /\ Sum(c) \in Nat
         /\ Sum(c) = 0 <=> \A k \in 1 .. Len(c) : c[k] = 0
<1> DEFINE n == Len(c)
<1>1. PICK P : Sums(P, c)
  BY SumIs
<1>2. /\ n \in Nat /\ P \in [0 .. n -> Int] /\ P[0] = 0
      /\ \A k \in 1 .. n : P[k] = P[k - 1] + c[k] /\ c[k] \in Int /\ c[k] >= 0
  BY <1>1 DEF Sums
<1>3. P[n] = Sum(c)
  BY <1>1 DEF Sums
<1> DEFINE S == {k \in 0 .. n : P[k] >= 0 /\ (P[k] = 0 <=> \A j \in 1 .. k : c[j] = 0)}
<1> HIDE DEF n
<1>4. 0 \in S
  BY <1>2
<1>5. ASSUME NEW k \in 1 .. n, k - 1 \in S PROVE k \in S
  <2>1. k \in 0 .. n /\ k - 1 \in 0 .. n /\ P[k - 1] \in Int /\ P[k - 1] >= 0
        /\ (P[k - 1] = 0 <=> \A j \in 1 .. k - 1 : c[j] = 0)
    BY <1>5, <1>2
  <2>2. P[k] = P[k - 1] + c[k] /\ c[k] \in Int /\ c[k] >= 0
    BY <1>2
  <2>3. \A j \in 1 .. k : j \in 1 .. k - 1 \/ j = k
    BY <2>1
  <2>4. k \in 1 .. k /\ \A j \in 1 .. k - 1 : j \in 1 .. k
    BY <2>1
  <2>5. P[k] >= 0 /\ (P[k] = 0 <=> P[k - 1] = 0 /\ c[k] = 0)
    BY <2>1, <2>2
  <2>6. P[k] = 0 <=> \A j \in 1 .. k : c[j] = 0
    BY <2>1, <2>3, <2>4, <2>5
  <2> QED
    BY <2>1, <2>5, <2>6
<1>6. n \in S
  <2>1. n \in 0 .. n
    BY <1>2
  <2> HIDE DEF S
  <2> QED
    BY <2>1, <1>2, <1>4, <1>5, Induct
<1> QED
  BY <1>2, <1>3, <1>6 DEF n

(* A sum of equal terms, where it has one.                                 *)
LEMMA SumEqual ==
  ASSUME NEW c \in Seq(Int), NEW v \in Int, NEW T \in SUBSET (1 .. Len(c)),
         \A k \in 1 .. Len(c) : c[k] = IF k \in T THEN v ELSE 0
  PROVE  IsFiniteSet(T) /\ Cardinality(T) \in Nat /\ Sum(c) = Cardinality(T) * v
<1> DEFINE n == Len(c)
           Of(k) == T \cap (1 .. k)
<1>1. PICK P : Sums(P, c)
  BY SumIs
<1>2. /\ n \in Nat /\ P \in [0 .. n -> Int] /\ P[0] = 0
      /\ \A k \in 1 .. n : P[k] = P[k - 1] + c[k] /\ c[k] = IF k \in T THEN v ELSE 0
  BY <1>1 DEF Sums
<1>3. P[n] = Sum(c)
  BY <1>1 DEF Sums
<1> DEFINE S == {k \in 0 .. n : P[k] = Cardinality(Of(k)) * v}
<1>4. \A k \in 0 .. n : IsFiniteSet(Of(k)) /\ Cardinality(Of(k)) \in Nat
  <2> SUFFICES ASSUME NEW k \in 0 .. n PROVE IsFiniteSet(Of(k)) /\ Cardinality(Of(k)) \in Nat
    OBVIOUS
  <2>1. IsFiniteSet(1 .. k) /\ Of(k) \subseteq 1 .. k
    BY FS_Interval
  <2> QED
    BY <2>1, FS_Subset, FS_CardinalityType
<1>5. Of(n) = T
  OBVIOUS
<1> HIDE DEF n
<1>6. 0 \in S
  <2>1. Of(0) = {} /\ 0 \in 0 .. n
    BY <1>2
  <2> QED
    BY <2>1, <1>2, FS_EmptySet
<1>7. ASSUME NEW k \in 1 .. n, k - 1 \in S PROVE k \in S
  <2>1. k \in 0 .. n /\ k - 1 \in 0 .. n /\ P[k - 1] = Cardinality(Of(k - 1)) * v
        /\ P[k] = P[k - 1] + (IF k \in T THEN v ELSE 0)
    BY <1>7, <1>2
  <2>2. CASE k \in T
    <3>1. Of(k) = Of(k - 1) \cup {k} /\ k \notin Of(k - 1)
      BY <2>2
    <3>2. Cardinality(Of(k)) = Cardinality(Of(k - 1)) + 1 /\ Cardinality(Of(k - 1)) \in Nat
      BY <3>1, <2>1, <1>4, FS_AddElement
    <3> HIDE DEF Of
    <3> QED
      BY <2>1, <2>2, <3>2
  <2>3. CASE k \notin T
    <3>1. Of(k) = Of(k - 1)
      BY <2>3
    <3> HIDE DEF Of
    <3>2. Cardinality(Of(k - 1)) \in Int
      BY <2>1, <1>4
    <3> DEFINE card == Cardinality(Of(k - 1))
    <3>3. card * v \in Int
      <4> HIDE DEF card
      <4> QED
        BY <3>2 DEF card
    <3> QED
      BY <2>1, <2>3, <3>1, <3>3
  <2> QED
    BY <2>2, <2>3
<1>8. n \in S
  <2>1. n \in 0 .. n
    BY <1>2
  <2> HIDE DEF S
  <2> QED
    BY <2>1, <1>2, <1>6, <1>7, Induct
<1>9. n \in 0 .. n
  BY <1>2
<1> QED
  BY <1>3, <1>4, <1>5, <1>8, <1>9

(* The s-th of k parts of w places each.                                   *)
LEMMA Places ==
  ASSUME NEW k \in Nat, NEW w \in Nat, NEW s \in 1 .. k
  PROVE  /\ (s - 1) * w \in Nat /\ s * w \in Nat /\ (s - 1) * w + w = s * w
         /\ k * w \in Nat /\ s * w <= k * w
         /\ \A i \in 1 .. w : (s - 1) * w + i \in 1 .. k * w
<1>1. s - 1 \in Nat /\ s \in Nat /\ k - s \in Nat
  OBVIOUS
<1>2. \A a, b \in Nat : a * b \in Nat
  OBVIOUS
<1>3. (s - 1) * w \in Nat /\ s * w \in Nat /\ (k - s) * w \in Nat /\ k * w \in Nat
  BY <1>1, <1>2
<1>4. (s - 1) * w + w = s * w /\ k * w = s * w + (k - s) * w
  BY <1>1
<1> QED
  BY <1>3, <1>4

(* What is zero at the end of a sum may be left out.                       *)
LEMMA SumFirsts ==
  ASSUME NEW c \in Seq(Int), NEW m1 \in 0 .. Len(c), \A k \in m1 + 1 .. Len(c) : c[k] = 0
  PROVE  LET first == [k \in 1 .. m1 |-> c[k]]
         IN  first \in Seq(Int) /\ Len(first) = m1 /\ Sum(first) = Sum(c)
<1> DEFINE n == Len(c)
           f == [k \in 1 .. m1 |-> c[k]]
<1>1. n \in Nat /\ m1 \in Nat /\ m1 <= n /\ \A k \in 1 .. n : c[k] \in Int
  OBVIOUS
<1>2. f \in Seq(Int) /\ Len(f) = m1 /\ \A k \in 1 .. m1 : f[k] = c[k]
  <2>1. \A k \in 1 .. m1 : c[k] \in Int
    BY <1>1
  <2> QED
    BY <2>1, <1>1
<1>3. PICK P : Sums(P, c)
  BY SumIs
<1> HIDE DEF f
<1>4. PICK F : Sums(F, f)
  BY <1>2, SumIs
<1>5. /\ P \in [0 .. n -> Int] /\ P[0] = 0 /\ P[n] = Sum(c)
      /\ \A k \in 1 .. n : P[k] = P[k - 1] + c[k]
  BY <1>3 DEF Sums
<1>6. /\ F \in [0 .. m1 -> Int] /\ F[0] = 0 /\ F[m1] = Sum(f)
      /\ \A k \in 1 .. m1 : F[k] = F[k - 1] + c[k]
  BY <1>2, <1>4 DEF Sums
<1> HIDE DEF n
<1> DEFINE at(k) == IF k <= m1 THEN k ELSE m1
           S == {k \in 0 .. n : P[k] = F[at(k)]}
<1>7. 0 \in S
  BY <1>1, <1>5, <1>6
<1>8. ASSUME NEW k \in 1 .. n, k - 1 \in S PROVE k \in S
  <2>1. k \in 0 .. n /\ k - 1 \in 0 .. n /\ P[k - 1] = F[at(k - 1)] /\ P[k] = P[k - 1] + c[k]
    BY <1>5, <1>8
  <2>2. CASE k <= m1
    <3>1. at(k) = k /\ at(k - 1) = k - 1 /\ k \in 1 .. m1
      BY <2>1, <2>2, <1>1
    <3> QED
      BY <2>1, <3>1, <1>6
  <2>3. CASE ~ (k <= m1)
    <3>1. at(k) = m1 /\ at(k - 1) = m1
      <4>1. k - 1 <= m1 => k - 1 = m1
        BY <2>1, <2>3, <1>1
      <4> QED
        BY <4>1, <2>3
    <3>2. c[k] = 0
      <4>1. k \in m1 + 1 .. Len(c)
        BY <2>1, <2>3, <1>1 DEF n
      <4> QED
        BY <4>1
    <3>3. P[k - 1] \in Int
      BY <2>1, <1>5
    <3> HIDE DEF at
    <3> QED
      BY <2>1, <3>1, <3>2, <3>3
  <2> QED
    BY <2>2, <2>3
<1>9. n \in S
  <2>1. n \in 0 .. n
    BY <1>1
  <2> HIDE DEF S
  <2> QED
    BY <2>1, <1>1, <1>7, <1>8, Induct
<1>10. at(n) = m1
  BY <1>1
<1>11. Sum(f) = Sum(c)
  BY <1>5, <1>6, <1>9, <1>10
<1> QED
  BY <1>2, <1>11 DEF f

(* A sum part by part.                                                     *)
LEMMA SumParts ==
  ASSUME NEW k \in Nat, NEW w \in Nat, NEW c \in Seq(Int), Len(c) = k * w
  PROVE  LET part == [s \in 1 .. k |-> Sum([i \in 1 .. w |-> c[(s - 1) * w + i]])]
         IN  part \in Seq(Int) /\ Sum(part) = Sum(c)
<1> DEFINE of(s) == [i \in 1 .. w |-> c[(s - 1) * w + i]]
           part == [s \in 1 .. k |-> Sum(of(s))]
           n == Len(c)
<1>1. PICK P : Sums(P, c)
  BY SumIs
<1>2. /\ n \in Nat /\ P \in [0 .. n -> Int] /\ P[0] = 0 /\ P[n] = Sum(c)
      /\ \A j \in 1 .. n : P[j] = P[j - 1] + c[j] /\ c[j] \in Int
  BY <1>1 DEF Sums
<1> HIDE DEF n
<1>3. n = k * w
  BY DEF n
<1>4. ASSUME NEW s \in 1 .. k
      PROVE  of(s) \in Seq(Int) /\ Sum(of(s)) = P[s * w] - P[(s - 1) * w]
  <2> DEFINE lo == (s - 1) * w
             d == of(s)
  <2>1. /\ lo \in Nat /\ lo + w = s * w /\ lo + w <= n
        /\ \A i \in 1 .. w : lo + i \in 1 .. n
    BY <1>3, Places
  <2>d. d = [i \in 1 .. w |-> c[lo + i]]
    OBVIOUS
  <2> HIDE DEF d, lo
  <2>2. d \in Seq(Int) /\ Len(d) = w /\ \A i \in 1 .. w : d[i] = c[lo + i]
    <3>1. \A i \in 1 .. w : c[lo + i] \in Int
      BY <2>1, <1>2
    <3> QED
      BY <2>d, <3>1
  <2>3. PICK Q : Sums(Q, d)
    BY <2>2, SumIs
  <2>4. /\ Q \in [0 .. w -> Int] /\ Q[0] = 0 /\ Q[w] = Sum(d)
        /\ \A j \in 1 .. w : Q[j] = Q[j - 1] + c[lo + j]
    BY <2>2, <2>3 DEF Sums
  <2> DEFINE S == {j \in 0 .. w : Q[j] = P[lo + j] - P[lo]}
  <2>5. 0 \in S
    <3>1. P[lo] \in Int /\ lo + 0 = lo
      BY <2>1, <1>2
    <3> QED
      BY <3>1, <2>4
  <2>6. ASSUME NEW j \in 1 .. w, j - 1 \in S PROVE j \in S
    <3>1. lo + j \in 1 .. n /\ (lo + j) - 1 = lo + (j - 1) /\ lo + (j - 1) \in 0 .. n
      <4>1. lo \in Nat /\ j \in 1 .. w /\ lo + j \in 1 .. n
        BY <2>1
      <4> QED
        BY <4>1, <1>2
    <3>2. P[lo + j] = P[lo + (j - 1)] + c[lo + j]
      BY <3>1, <1>2
    <3>3. Q[j - 1] = P[lo + (j - 1)] - P[lo] /\ j \in 0 .. w
      BY <2>6
    <3>4. P[lo + (j - 1)] \in Int /\ P[lo] \in Int /\ c[lo + j] \in Int
      BY <3>1, <2>1, <1>2
    <3>5. Q[j] = Q[j - 1] + c[lo + j]
      BY <2>4
    <3> QED
      BY <3>2, <3>3, <3>4, <3>5
  <2>7. w \in S
    <3>1. w \in 0 .. w
      OBVIOUS
    <3> HIDE DEF S
    <3> QED
      BY <3>1, <2>5, <2>6, Induct
  <2>8. Sum(d) = P[s * w] - P[lo]
    BY <2>1, <2>4, <2>7
  <2> QED
    BY <2>2, <2>8 DEF d, lo
<1> HIDE DEF of
<1>5. part \in Seq(Int) /\ Len(part) = k /\ \A s \in 1 .. k : part[s] = Sum(of(s))
  BY <1>4, SumIs
<1> HIDE DEF part
<1>6. PICK R : Sums(R, part)
  BY <1>5, SumIs
<1>7. /\ R \in [0 .. k -> Int] /\ R[0] = 0 /\ R[k] = Sum(part)
      /\ \A s \in 1 .. k : R[s] = R[s - 1] + Sum(of(s))
  BY <1>5, <1>6 DEF Sums
<1> DEFINE S == {s \in 0 .. k : R[s] = P[s * w]}
<1>8. 0 \in S
  <2>1. 0 * w = 0
    OBVIOUS
  <2> QED
    BY <2>1, <1>2, <1>7
<1>9. ASSUME NEW s \in 1 .. k, s - 1 \in S PROVE s \in S
  <2>1. R[s] = R[s - 1] + (P[s * w] - P[(s - 1) * w]) /\ R[s - 1] = P[(s - 1) * w] /\ s \in 0 .. k
    BY <1>4, <1>7, <1>9
  <2>2. s * w \in 0 .. n /\ (s - 1) * w \in 0 .. n
    BY <1>3, Places
  <2>3. P[s * w] \in Int /\ P[(s - 1) * w] \in Int
    BY <2>2, <1>2
  <2> QED
    BY <2>1, <2>3
<1>10. k \in S
  <2>1. k \in 0 .. k
    OBVIOUS
  <2> HIDE DEF S
  <2> QED
    BY <2>1, <1>8, <1>9, Induct
<1>11. Sum(part) = Sum(c)
  BY <1>2, <1>3, <1>7, <1>10
<1> QED
  BY <1>5, <1>11 DEF part, of

-----------------------------------------------------------------------------
(* Vectors and their distances.                                            *)
Vec(n) == [1 .. n -> Int]

(* A square is no less than zero, and zero for zero alone.                 *)
LEMMA SquareIs ==
  ASSUME NEW k \in Int
  PROVE  Square(k) \in Nat /\ (Square(k) = 0 <=> k = 0)
BY DEF Square

(* A distance is no less than zero, and zero for equal vectors alone.      *)
LEMMA L2Is ==
  ASSUME NEW n \in Nat, NEW a \in Vec(n), NEW b \in Vec(n)
  PROVE  L2(a, b) \in Nat /\ (L2(a, b) = 0 <=> a = b)
<1> DEFINE c == [i \in DOMAIN a |-> Square(a[i] - b[i])]
<1>1. a = [i \in 1 .. n |-> a[i]] /\ b = [i \in 1 .. n |-> b[i]]
      /\ DOMAIN a = 1 .. n /\ \A i \in 1 .. n : a[i] \in Int /\ b[i] \in Int
  BY DEF Vec
<1>2. \A i \in 1 .. n : a[i] - b[i] \in Int /\ (a[i] - b[i] = 0 <=> a[i] = b[i])
  BY <1>1
<1>3. \A i \in 1 .. n : Square(a[i] - b[i]) \in Nat /\ (Square(a[i] - b[i]) = 0 <=> a[i] = b[i])
  BY <1>2, SquareIs
<1>4. c \in Seq(Int) /\ Len(c) = n /\ \A i \in 1 .. n : c[i] = Square(a[i] - b[i])
  BY <1>1, <1>3
<1> HIDE DEF c
<1>5. \A k \in 1 .. Len(c) : c[k] >= 0
  BY <1>3, <1>4
<1>6. Sum(c) \in Nat /\ (Sum(c) = 0 <=> \A k \in 1 .. n : c[k] = 0)
  BY <1>4, <1>5, SumNat
<1>7. (\A k \in 1 .. n : c[k] = 0) <=> (\A k \in 1 .. n : a[k] = b[k])
  BY <1>3, <1>4
<1>8. (\A k \in 1 .. n : a[k] = b[k]) <=> a = b
  BY <1>1
<1>9. L2(a, b) = Sum(c)
  BY DEF L2, c
<1> QED
  BY <1>6, <1>7, <1>8, <1>9

(* The nearest of some points is at least as near as any; of points that   *)
(* have q among them it is q.                                              *)
LEMMA NearestIs ==
  ASSUME NEW n \in Nat, NEW points \in Seq(Vec(n)), points # <<>>, NEW q \in Vec(n)
  PROVE  /\ Nearest(points, q) \in DOMAIN points
         /\ points[Nearest(points, q)] \in Vec(n) \cap Range(points)
         /\ q \in Range(points) => points[Nearest(points, q)] = q
         /\ \A i \in DOMAIN points : L2(q, points[Nearest(points, q)]) <= L2(q, points[i])
<1> DEFINE N == DOMAIN points
           d == DistancesTo(points, q)
           c == Nearest(points, q)
<1>1. N = 1 .. Len(points) /\ Len(points) \in Nat /\ \A i \in N : points[i] \in Vec(n)
  OBVIOUS
<1>2. \A i \in N : d[i] = L2(q, points[i]) /\ d[i] \in Nat
  BY <1>1, L2Is DEF DistancesTo
<1>3. IsFiniteSet(N) /\ N # {} /\ Measured(d, N)
  <2>1. IsFiniteSet(N)
    BY <1>1, FS_Interval
  <2>2. Len(points) # 0
    <3> DEFINE V == Vec(n)
    <3>1. points \in Seq(V)
      OBVIOUS
    <3> HIDE DEF V
    <3> QED
      BY <3>1, EmptySeq
  <2>3. N # {} /\ N \in SUBSET Int
    <3>1. 1 \in 1 .. Len(points)
      BY <2>2, <1>1
    <3>2. \A i \in 1 .. Len(points) : i \in Int
      OBVIOUS
    <3> QED
      BY <3>1, <3>2, <1>1, Zenon
  <2> QED
    BY <2>1, <2>3, <1>2 DEF Measured
<1>4. c = Closest(d, N)
  BY DEF Nearest
<1> HIDE DEF N, d, c
<1>5. c \in N /\ \A i \in N : d[c] <= d[i]
  BY <1>3, <1>4, ClosestIs
<1>6. ASSUME q \in Range(points) PROVE points[c] = q
  <2>1. PICK i \in N : points[i] = q
    BY <1>6 DEF Range, N
  <2>2. d[i] = 0
    BY <2>1, <1>2, L2Is
  <2>3. d[c] = 0
    BY <2>2, <1>2, <1>5
  <2> QED
    BY <2>3, <1>1, <1>2, <1>5, L2Is
<1>7. points[c] \in Vec(n) \cap Range(points)
  BY <1>1, <1>5 DEF Range, N
<1>8. \A i \in N : L2(q, points[c]) <= L2(q, points[i])
  BY <1>2, <1>5
<1> QED
  BY <1>5, <1>6, <1>7, <1>8 DEF N, c

-----------------------------------------------------------------------------
(* k-means: points that move among the rows of some data.                  *)
Clusters(n) == [points : Seq(Vec(n)) \ {<<>>}, draws : Nat]

Missed(points, data) == {i \in DOMAIN data : data[i] \notin Range(points)}

(* What is drawn is neither zero nor its bound.                            *)
LEMMA DrawIs ==
  ASSUME IvfPqConstants, NEW draw \in Nat
  PROVE  Draw(draw) \in 1 .. DrawBound - 1 /\ DrawBound \in Nat
<1> DEFINE k == (draw % Len(Drawn)) + 1
           S == 1 .. DrawBound - 1
<1>1. Drawn \in Seq(S) /\ Drawn # <<>> /\ DrawBound \in Nat
  BY DEF IvfPqConstants
<1> HIDE DEF S
<1>2. Len(Drawn) \in Nat \ {0}
  BY <1>1, EmptySeq
<1>3. k \in 1 .. Len(Drawn)
  BY <1>2
<1> QED
  BY <1>1, <1>3 DEF S, Draw

(* A draw picks a row of the data.                                         *)
LEMMA RowDrawnIs ==
  ASSUME IvfPqConstants, NEW n \in Nat, NEW data \in Seq(Vec(n)), data # <<>>, NEW draw \in Nat
  PROVE  RowDrawn(data, draw) \in Vec(n) /\ RowDrawn(data, draw) \in Range(data)
<1> DEFINE x == Draw(draw)
           c == Len(data)
           V == Vec(n)
           row == (x * c) \div DrawBound + 1
<1>1. c \in Nat \ {0}
  <2>1. data \in Seq(V)
    OBVIOUS
  <2> HIDE DEF V
  <2> QED
    BY <2>1, EmptySeq
<1>2. x \in 1 .. DrawBound - 1 /\ DrawBound \in Nat
  BY DrawIs
<1> HIDE DEF x, c
<1>3. x * c \in Nat /\ x * c < DrawBound * c
  <2>1. x \in Nat /\ DrawBound - x \in Nat \ {0} /\ DrawBound * c = x * c + (DrawBound - x) * c
    BY <1>1, <1>2
  <2>2. \A a, b \in Nat \ {0} : a * b > 0
    OBVIOUS
  <2>3. \A a, b \in Nat : a * b \in Nat
    OBVIOUS
  <2>4. (DrawBound - x) * c > 0 /\ (DrawBound - x) * c \in Nat
    BY <1>1, <2>1, <2>2, <2>3
  <2>5. x * c \in Nat
    BY <1>1, <2>1, <2>3
  <2> QED
    BY <2>1, <2>4, <2>5
<1>4. row \in 1 .. c
  <2> DEFINE a == x * c
             b == DrawBound
  <2>1. a \in Nat /\ b \in Nat \ {0} /\ a < b * c
    BY <1>2, <1>3
  <2> HIDE DEF a, b
  <2>2. a \div b \in Nat /\ a = b * (a \div b) + (a % b) /\ a % b \in Nat
    BY <2>1
  <2>3. a \div b < c
    <3> DEFINE e == a \div b
    <3> SUFFICES ASSUME e >= c PROVE FALSE
      BY <2>2, <1>1
    <3>1. e - c \in Nat /\ e \in Nat
      BY <2>2, <1>1
    <3>2. \A u, v \in Nat : u * v \in Nat
      OBVIOUS
    <3>3. b * (e - c) \in Nat
      BY <3>1, <3>2, <2>1
    <3>4. b * e = b * c + b * (e - c)
      BY <3>1, <2>1, <1>1
    <3>5. b * c \in Int
      BY <2>1, <1>1
    <3> QED
      BY <2>1, <2>2, <3>3, <3>4, <3>5
  <2>4. (a \div b) + 1 \in 1 .. c
    BY <2>2, <2>3, <1>1
  <2> QED
    BY <2>4 DEF a, b
<1>5. RowDrawn(data, draw) = data[row]
  BY Zenon DEF RowDrawn, x, c
<1> HIDE DEF row
<1> QED
  BY <1>4, <1>5 DEF Range, c

(* Of rows with weights, the first one with which the rows so far weigh    *)
(* enough has a weight of its own, when less than all is enough.           *)
Share(w, i) == Sum([j \in DOMAIN w |-> IF j <= i THEN w[j] ELSE 0])

LEMMA EnoughIs ==
  ASSUME NEW w \in Seq(Nat), Sum(w) # 0, NEW bound \in Nat, NEW x \in 1 .. bound - 1
  PROVE  LET S == {i \in DOMAIN w : Share(w, i) * Square(bound) >= x * Sum(w)} IN
         Min(S) \in DOMAIN w /\ w[Min(S)] # 0
<1> DEFINE n == Len(w)
           total == Sum(w)
           most == Square(bound)
           S == {i \in DOMAIN w : Share(w, i) * most >= x * total}
           cut(i) == [j \in DOMAIN w |-> IF j <= i THEN w[j] ELSE 0]
           a == Min(S)
<1>1. n \in Nat /\ DOMAIN w = 1 .. n /\ w \in Seq(Int) /\ \A i \in 1 .. n : w[i] \in Nat
  OBVIOUS
<1>2. total \in Nat \ {0}
  BY <1>1, SumNat
<1>3. ASSUME NEW i \in 0 .. n
      PROVE  /\ cut(i) = [j \in 1 .. n |-> IF j <= i THEN w[j] ELSE 0]
             /\ cut(i) \in Seq(Int) /\ Len(cut(i)) = n
             /\ \A j \in 1 .. n : cut(i)[j] = IF j <= i THEN w[j] ELSE 0
  <2>1. cut(i) = [j \in 1 .. n |-> IF j <= i THEN w[j] ELSE 0]
    BY <1>1
  <2>2. \A j \in 1 .. n : (IF j <= i THEN w[j] ELSE 0) \in Int
    BY <1>1
  <2> HIDE DEF n, cut
  <2> QED
    BY <2>1, <2>2, <1>1
<1>4. \A i : Share(w, i) = Sum(cut(i))
  BY DEF Share
<1>5. x \in Nat \ {0} /\ most \in Nat /\ most >= x
  <2>1. bound \in Nat /\ bound - 1 \in Nat /\ bound > x /\ x \in Nat \ {0}
    OBVIOUS
  <2>2. \A u, v \in Nat : u * v \in Nat
    OBVIOUS
  <2>3. most = bound + bound * (bound - 1) /\ bound * (bound - 1) \in Nat
    BY <2>1, <2>2 DEF Square
  <2> HIDE DEF most
  <2> QED
    BY <2>1, <2>3
<1> HIDE DEF most, total, cut, n
<1>6. n \in S
  <2>1. n # 0
    <3>1. n = 0 => \A k \in 1 .. Len(w) : w[k] = 0
      BY DEF n
    <3>2. \A k \in 1 .. Len(w) : w[k] >= 0
      BY <1>1 DEF n
    <3>3. total = 0 <=> \A k \in 1 .. Len(w) : w[k] = 0
      BY <3>2, <1>1, SumNat DEF total
    <3> QED
      BY <3>1, <3>3, <1>2
  <2>2. cut(n) = w
    <3>1. cut(n) = [j \in 1 .. n |-> w[j]]
      BY <1>1, <1>3
    <3>2. w = [j \in 1 .. n |-> w[j]]
      BY <1>1
    <3> QED
      BY <3>1, <3>2, Zenon
  <2>3. Share(w, n) = total
    BY <2>2, <1>4, Zenon DEF total
  <2>4. total * most >= x * total
    <3>1. total * most = x * total + total * (most - x) /\ most - x \in Nat
      BY <1>2, <1>5
    <3>2. \A u, v \in Nat : u * v \in Nat
      OBVIOUS
    <3>3. total * (most - x) \in Nat /\ x * total \in Nat
      BY <3>1, <3>2, <1>2, <1>5
    <3> QED
      BY <3>1, <3>3
  <2> QED
    BY <2>1, <2>3, <2>4, <1>1
<1>7. a \in S /\ \A i \in S : a <= i
  <2>1. S \in SUBSET (0 .. n)
    BY <1>1
  <2> HIDE DEF S
  <2> QED
    BY <2>1, <1>1, <1>6, Extremes
<1>8. a \in 1 .. n /\ Share(w, a) * most >= x * total
  BY <1>1, <1>7
<1> HIDE DEF a
<1>9. ASSUME w[a] = 0 PROVE FALSE
  <2>0. a \in 1 .. n /\ a \in 0 .. n /\ a - 1 \in 0 .. n
    BY <1>1, <1>8
  <2>1. cut(a) = cut(a - 1)
    <3>1. \A j \in 1 .. n : cut(a)[j] = cut(a - 1)[j]
      <4>1. \A j \in 1 .. n : j <= a => (j <= a - 1 \/ j = a)
        BY <2>0
      <4>2. \A j \in 1 .. n : j <= a - 1 => j <= a
        BY <2>0
      <4>3. \A j \in 1 .. n : cut(a)[j] = (IF j <= a THEN w[j] ELSE 0)
                           /\ cut(a - 1)[j] = (IF j <= a - 1 THEN w[j] ELSE 0)
        BY <2>0, <1>3
      <4> QED
        BY <4>1, <4>2, <4>3, <1>9, Zenon
    <3> DEFINE y == cut(a)
               z == cut(a - 1)
    <3>2. y \in Seq(Int) /\ z \in Seq(Int) /\ Len(y) = n /\ Len(z) = n
          /\ \A j \in 1 .. n : y[j] = z[j]
      BY <3>1, <2>0, <1>3
    <3> HIDE DEF y, z
    <3>3. y = z
      BY <3>2
    <3> QED
      BY <3>3 DEF y, z
  <2>2. Share(w, a - 1) = Share(w, a)
    BY <2>1, <1>4, Zenon
  <2>3. CASE a = 1
    <3> DEFINE z == cut(a - 1)
    <3>1. \A j \in 1 .. n : z[j] = (IF j <= a - 1 THEN w[j] ELSE 0) /\ ~ (j <= a - 1)
      BY <2>0, <2>3, <1>3
    <3>2. z \in Seq(Int) /\ Len(z) = n
      BY <2>0, <1>3
    <3>3. Sum(z) = 0
      <4> HIDE DEF z
      <4>1. \A j \in 1 .. Len(z) : z[j] = 0
        BY <3>1, <3>2, Zenon
      <4>2. \A j \in 1 .. Len(z) : z[j] >= 0
        BY <4>1
      <4>3. z \in Seq(Int)
        BY <3>2, Zenon
      <4> QED
        BY <4>1, <4>2, <4>3, SumNat
    <3>4. Share(w, a) = 0
      BY <2>2, <3>3, <1>4, Zenon
    <3>5. 0 >= x * total
      BY <3>4, <1>5, <1>8
    <3>6. \A u, v \in Nat \ {0} : u * v > 0
      OBVIOUS
    <3> QED
      BY <3>5, <3>6, <1>2, <1>5
  <2>4. CASE a # 1
    <3>1. a - 1 \in 1 .. n /\ ~ (a <= a - 1)
      BY <2>0, <2>4
    <3>2. Share(w, a - 1) * most >= x * total
      BY <2>2, <1>8, Zenon
    <3>3. a - 1 \in S
      BY <3>1, <3>2, <1>1
    <3> QED
      BY <3>1, <3>3, <1>7
  <2> QED
    BY <2>3, <2>4
<1> QED
  BY <1>1, <1>8, <1>9 DEF a, most, total

(* A point more, which is a row that was none yet while there is one.      *)
LEMMA PickedIs ==
  ASSUME IvfPqConstants, NEW n \in Nat, NEW data \in Seq(Vec(n)), data # <<>>, NEW s \in Clusters(n)
  PROVE  /\ Picked(s, data) \in Clusters(n)
         /\ Len(Picked(s, data).points) = Len(s.points) + 1
         /\ Missed(s.points, data) # {} =>
               \E x \in Missed(s.points, data) :
                  Missed(Picked(s, data).points, data) \subseteq Missed(s.points, data) \ {x}
         /\ Missed(s.points, data) = {} => Missed(Picked(s, data).points, data) = {}
<1> DEFINE U == Missed(s.points, data)
           near(i) == s.points[Nearest(s.points, data[i])]
           w == [i \in DOMAIN data |-> Square(L2(data[i], near(i)))]
           e == Min({i \in DOMAIN data : Share(w, i) * Square(DrawBound) >= Draw(s.draws) * Sum(w)})
           row == IF Sum(w) = 0 THEN RowDrawn(data, s.draws) ELSE data[e]
           t == Picked(s, data)
           V == Vec(n)
<1>1. t = [points |-> Append(s.points, row), draws |-> s.draws + 1]
  BY Zenon DEF Picked, Share
<1>2. s.points \in Seq(V) /\ s.points # <<>> /\ s.draws \in Nat /\ data \in Seq(V)
  BY DEF Clusters
<1>3. DOMAIN data = 1 .. Len(data) /\ Len(data) \in Nat /\ \A i \in DOMAIN data : data[i] \in V
  BY <1>2
<1>4. ASSUME NEW i \in DOMAIN data
      PROVE  w[i] \in Nat /\ (w[i] = 0 <=> data[i] \in Range(s.points))
  <2>1. data[i] \in V /\ near(i) \in V /\ near(i) \in Range(s.points)
        /\ (data[i] \in Range(s.points) => near(i) = data[i])
    <3>1. data[i] \in V
      BY <1>3
    <3> QED
      BY <3>1, <1>2, NearestIs
  <2>3. w[i] = Square(L2(data[i], near(i)))
    OBVIOUS
  <2> HIDE DEF near, w
  <2>2. L2(data[i], near(i)) \in Nat /\ (L2(data[i], near(i)) = 0 <=> data[i] = near(i))
    BY <2>1, L2Is
  <2> HIDE DEF V
  <2> DEFINE d == L2(data[i], near(i))
  <2>4. w[i] \in Nat /\ (w[i] = 0 <=> d = 0)
    <3>1. d \in Nat /\ w[i] = Square(d)
      BY <2>2, <2>3
    <3> HIDE DEF d
    <3>2. d \in Int
      BY <3>1
    <3> QED
      BY <3>1, <3>2, SquareIs
  <2> QED
    BY <2>1, <2>2, <2>4
<1>5. w \in Seq(Nat) /\ w \in Seq(Int) /\ Len(w) = Len(data) /\ DOMAIN w = DOMAIN data
  <2>1. w = [i \in 1 .. Len(data) |-> w[i]]
    BY <1>3
  <2> HIDE DEF w
  <2> QED
    BY <2>1, <1>3, <1>4
<1> HIDE DEF V, w
<1>6. Sum(w) = 0 <=> U = {}
  <2>1. \A k \in 1 .. Len(w) : w[k] >= 0
    BY <1>3, <1>4, <1>5
  <2>2. Sum(w) = 0 <=> \A k \in 1 .. Len(w) : w[k] = 0
    BY <2>1, <1>5, SumNat
  <2> QED
    BY <2>2, <1>3, <1>4, <1>5 DEF Missed
<1>7. U # {} => e \in U
  <2> SUFFICES ASSUME Sum(w) # 0 PROVE e \in U
    BY <1>6
  <2>1. Draw(s.draws) \in 1 .. DrawBound - 1 /\ DrawBound \in Nat
    BY <1>2, DrawIs
  <2>2. e \in DOMAIN w /\ w[e] # 0
    BY <2>1, <1>5, EnoughIs
  <2> HIDE DEF e
  <2> QED
    BY <2>2, <1>4, <1>5 DEF Missed
<1> HIDE DEF e
<1>8. row \in V
  <2>1. CASE U = {}
    <3>1. RowDrawn(data, s.draws) \in V
      BY <1>2, RowDrawnIs DEF V
    <3> QED
      BY <3>1, <2>1, <1>6, Zenon
  <2>2. CASE U # {}
    <3>1. data[e] \in V
      BY <2>2, <1>3, <1>7 DEF Missed
    <3> QED
      BY <3>1, <2>2, <1>6, Zenon
  <2> QED
    BY <2>1, <2>2
<1>9. U # {} => row = data[e]
  BY <1>6
<1> HIDE DEF row
<1>10. /\ Append(s.points, row) \in Seq(V) /\ Len(Append(s.points, row)) = Len(s.points) + 1
       /\ Range(Append(s.points, row)) = Range(s.points) \cup {row}
  BY <1>2, <1>8, AppendIs
<1>11. Append(s.points, row) # <<>>
  <2> DEFINE k == Len(s.points)
             z == Append(s.points, row)
  <2>1. k \in Nat /\ Len(<<>>) = 0 /\ Len(z) = k + 1
    BY <1>2, <1>10, EmptySeq
  <2> HIDE DEF k, z
  <2>2. z # <<>>
    BY <2>1
  <2> QED
    BY <2>2 DEF z
<1>12. t \in Clusters(n) /\ t.points = Append(s.points, row)
  BY <1>1, <1>2, <1>10, <1>11 DEF Clusters, V
<1> HIDE DEF t
<1>13. Missed(t.points, data) = {i \in U : data[i] # row}
  BY <1>10, <1>12 DEF Missed
<1>14. U # {} => \E x \in U : Missed(t.points, data) \subseteq U \ {x}
  <2>1. U # {} => Missed(t.points, data) \subseteq U \ {e}
    BY <1>9, <1>13
  <2> HIDE DEF U
  <2> QED
    BY <2>1, <1>7
<1>15. U = {} => Missed(t.points, data) = {}
  BY <1>13
<1> QED
  BY <1>10, <1>12, <1>14, <1>15 DEF t

(* The mean of some rows is a vector, and of equal rows that row.          *)
LEMMA MeanOfIs ==
  ASSUME NEW n \in Nat, NEW data \in Seq(Vec(n)), NEW S \in SUBSET DOMAIN data, S # {}
  PROVE  /\ MeanOf(data, S) \in Vec(n)
         /\ \A v \in Vec(n) : (\A i \in S : data[i] = v) => MeanOf(data, S) = v
<1> DEFINE c(d) == [i \in DOMAIN data |-> IF i \in S THEN data[i][d] ELSE 0]
           l == Len(data)
           D == DOMAIN data[1]
           mean == MeanOf(data, S)
<1>1. /\ l \in Nat /\ DOMAIN data = 1 .. l /\ \A i \in 1 .. l : data[i] \in Vec(n)
      /\ S \subseteq 1 .. l
  OBVIOUS
<1> HIDE DEF l
<1>2. D = 1 .. n
  <2>1. 1 \in 1 .. l
    <3>1. PICK i \in S : TRUE
      OBVIOUS
    <3> QED
      BY <3>1, <1>1
  <2>2. data[1] \in Vec(n)
    BY <1>1, <2>1
  <2> QED
    BY <2>2 DEF Vec
<1>3. ASSUME NEW d \in 1 .. n
      PROVE  c(d) \in Seq(Int) /\ Len(c(d)) = l
             /\ \A i \in 1 .. l : c(d)[i] = IF i \in S THEN data[i][d] ELSE 0
  <2>1. \A i \in 1 .. l : data[i][d] \in Int
    BY <1>1 DEF Vec
  <2>2. c(d) = [i \in 1 .. l |-> IF i \in S THEN data[i][d] ELSE 0]
    BY <1>1
  <2>3. \A i \in 1 .. l : (IF i \in S THEN data[i][d] ELSE 0) \in Int
    BY <2>1
  <2> HIDE DEF c
  <2> QED
    BY <2>2, <2>3, <1>1
<1>4. IsFiniteSet(S) /\ Cardinality(S) \in Nat \ {0}
  <2>1. IsFiniteSet(1 .. l)
    BY <1>1, FS_Interval
  <2>2. IsFiniteSet(S)
    BY <2>1, <1>1, FS_Subset
  <2> QED
    BY <2>2, FS_EmptySet, FS_CardinalityType
<1>5. mean = [d \in 1 .. n |-> Sum(c(d)) \div Cardinality(S)]
  BY <1>2 DEF MeanOf
<1> HIDE DEF c, mean
<1>6. \A d \in 1 .. n : Sum(c(d)) \div Cardinality(S) \in Int
  <2>1. \A d \in 1 .. n : Sum(c(d)) \in Int
    BY <1>3, SumIs
  <2> QED
    BY <2>1, <1>4
<1>7. mean \in Vec(n)
  BY <1>5, <1>6 DEF Vec
<1>8. ASSUME NEW v \in Vec(n), \A i \in S : data[i] = v PROVE mean = v
  <2>1. v = [d \in 1 .. n |-> v[d]] /\ \A d \in 1 .. n : v[d] \in Int
    BY DEF Vec
  <2>2. ASSUME NEW d \in 1 .. n PROVE Sum(c(d)) \div Cardinality(S) = v[d]
    <3> DEFINE e == c(d)
               u == v[d]
    <3>1. e \in Seq(Int) /\ Len(e) = l /\ u \in Int
          /\ \A i \in 1 .. l : e[i] = IF i \in S THEN u ELSE 0
      BY <1>3, <1>8, <2>1
    <3> HIDE DEF e, u
    <3>2. Sum(e) = Cardinality(S) * u
      BY <3>1, <1>1, SumEqual
    <3>3. \A k \in Nat \ {0}, x \in Int : (k * x) \div k = x
      OBVIOUS
    <3> QED
      BY <3>1, <3>2, <3>3, <1>4 DEF e, u
  <2> QED
    BY <2>1, <2>2, <1>5
<1> QED
  BY <1>7, <1>8 DEF mean

(* When every row is a point before the points move, every row is a point  *)
(* after: the rows nearest to a point that some row is are all this row.   *)
LEMMA MovedIs ==
  ASSUME IvfPqConstants, NEW n \in Nat, NEW data \in Seq(Vec(n)), data # <<>>, NEW s \in Clusters(n)
  PROVE  /\ Moved(s, data) \in Clusters(n)
         /\ Len(Moved(s, data).points) = Len(s.points)
         /\ Missed(s.points, data) = {} => Missed(Moved(s, data).points, data) = {}
<1> DEFINE pts == s.points
           k == Len(s.points)
           V == Vec(n)
           of == [c \in DOMAIN pts |-> {i \in DOMAIN data : Nearest(pts, data[i]) = c}]
           Empty(c) == {e \in 1 .. c : of[e] = {}}
           New(c) == IF of[c] = {} THEN RowDrawn(data, s.draws + Cardinality(Empty(c)) - 1)
                     ELSE MeanOf(data, of[c])
           t == Moved(s, data)
<1>1. /\ pts \in Seq(V) /\ pts # <<>> /\ s.draws \in Nat /\ data \in Seq(V)
      /\ k \in Nat /\ DOMAIN pts = 1 .. k
  BY DEF Clusters
<1>2. t = [points |-> [c \in DOMAIN pts |-> New(c)],
           draws |-> s.draws + Cardinality(Empty(Len(pts)))]
  BY DEF Moved
<1>3. \A c \in 1 .. k : of[c] \subseteq DOMAIN data /\ of[c] = {i \in DOMAIN data : Nearest(pts, data[i]) = c}
  BY <1>1
<1> HIDE DEF of
<1>4. ASSUME NEW c \in Nat
      PROVE  IsFiniteSet(Empty(c)) /\ Cardinality(Empty(c)) \in Nat
             /\ (c \in Empty(c) => Cardinality(Empty(c)) - 1 \in Nat)
  <2>1. IsFiniteSet(1 .. c) /\ Empty(c) \subseteq 1 .. c
    BY FS_Interval
  <2> DEFINE E == Empty(c)
  <2> HIDE DEF E
  <2>2. IsFiniteSet(E) /\ Cardinality(E) \in Nat
    BY <2>1, FS_Subset, FS_CardinalityType DEF E
  <2>3. c \in E => Cardinality(E) # 0
    BY <2>2, FS_EmptySet
  <2> QED
    BY <2>2, <2>3 DEF E
<1>5. ASSUME NEW c \in 1 .. k PROVE New(c) \in V
  <2>1. CASE of[c] = {}
    <3>1. c \in Nat /\ c \in Empty(c)
      BY <2>1
    <3> DEFINE e == Cardinality(Empty(c))
    <3>4. e \in Nat /\ e - 1 \in Nat
      BY <3>1, <1>4
    <3> HIDE DEF e
    <3>2. s.draws + e - 1 \in Nat
      BY <3>4, <1>1
    <3> USE DEF e
    <3>3. RowDrawn(data, s.draws + Cardinality(Empty(c)) - 1) \in V
      BY <3>2, RowDrawnIs
    <3> QED
      BY <2>1, <3>3, Zenon
  <2>2. CASE of[c] # {}
    <3>1. MeanOf(data, of[c]) \in V
      BY <2>2, <1>3, MeanOfIs
    <3> QED
      BY <2>2, <3>1, Zenon
  <2> QED
    BY <2>1, <2>2
<1> DEFINE moved == [c \in DOMAIN pts |-> New(c)]
<1>6. moved \in Seq(V) /\ Len(moved) = k /\ \A c \in 1 .. k : moved[c] = New(c)
  <2>1. moved = [c \in 1 .. k |-> New(c)]
    BY <1>1
  <2> HIDE DEF moved, New, k
  <2> QED
    BY <2>1, <1>1, <1>5
<1>7. k # 0
  <2> HIDE DEF V
  <2> QED
    BY <1>1, EmptySeq
<1>8. moved # <<>>
  <2> DEFINE w == moved
  <2>1. Len(w) = k /\ Len(<<>>) = 0
    BY <1>6, EmptySeq
  <2> HIDE DEF w, k
  <2>2. w # <<>>
    BY <2>1, <1>7
  <2> QED
    BY <2>2 DEF w
<1>9. s.draws + Cardinality(Empty(Len(pts))) \in Nat
  <2> DEFINE e == Cardinality(Empty(Len(pts)))
  <2>1. e \in Nat
    BY <1>1, <1>4
  <2> HIDE DEF e
  <2>2. s.draws + e \in Nat
    BY <2>1, <1>1
  <2> QED
    BY <2>2 DEF e
<1>10. t \in Clusters(n) /\ t.points = moved
  BY <1>2, <1>6, <1>8, <1>9 DEF Clusters
<1>11. ASSUME Missed(pts, data) = {}, NEW i \in DOMAIN data PROVE data[i] \in Range(moved)
  <2> DEFINE c == Nearest(pts, data[i])
  <2>1. \A j \in DOMAIN data : data[j] \in V /\ data[j] \in Range(pts)
    BY <1>1, <1>11 DEF Missed
  <2>2. \A j \in DOMAIN data : Nearest(pts, data[j]) \in 1 .. k
                               /\ pts[Nearest(pts, data[j])] = data[j]
    BY <2>1, <1>1, NearestIs
  <2>3. c \in 1 .. k /\ pts[c] = data[i]
    BY <2>2
  <2>4. i \in of[c] /\ \A j \in of[c] : data[j] = data[i]
    BY <2>2, <2>3, <1>3
  <2> HIDE DEF c
  <2>5. MeanOf(data, of[c]) = data[i]
    <3>1. of[c] # {} /\ of[c] \in SUBSET DOMAIN data /\ data[i] \in Vec(n)
      BY <2>1, <2>3, <2>4, <1>3
    <3> QED
      BY <3>1, <2>4, MeanOfIs
  <2>6. moved[c] = data[i]
    <3>1. of[c] # {}
      BY <2>4
    <3>2. New(c) = MeanOf(data, of[c])
      BY <3>1, Zenon
    <3> QED
      BY <3>2, <2>3, <2>5, <1>6
  <2>7. DOMAIN moved = 1 .. k
    BY <1>1
  <2> QED
    BY <2>3, <2>6, <2>7 DEF Range
<1> HIDE DEF t, moved
<1>12. Missed(pts, data) = {} => Missed(t.points, data) = {}
  BY <1>10, <1>11 DEF Missed
<1>13. Len(t.points) = k
  BY <1>6, <1>10
<1> QED
  BY <1>10, <1>12, <1>13 DEF t

(* The first k points are rows, and with as many as there are rows every   *)
(* row is one of them.                                                     *)
Seeded(data, k) ==
    FoldLeft(LAMBDA s, i : Picked(s, data),
             [points |-> <<RowDrawn(data, 0)>>, draws |-> 1], UpTo(k - 1))

(* Seeds are as many as was asked for, and each of few enough rows is one. *)
LEMMA SeededIs ==
  ASSUME IvfPqConstants, NEW n \in Nat, NEW data \in Seq(Vec(n)), data # <<>>, NEW k \in Nat \ {0}
  PROVE  /\ Seeded(data, k) \in Clusters(n) /\ Len(Seeded(data, k).points) = k
         /\ Len(data) <= k => Missed(Seeded(data, k).points, data) = {}
<1> DEFINE l == k - 1
           V == Clusters(n)
           b == [points |-> <<RowDrawn(data, 0)>>, draws |-> 1]
           op(s, i) == Picked(s, data)
           seq == UpTo(l)
           t == Seeded(data, k)
           Steps(g) == g = [r \in SUBSET DOMAIN seq |->
                          IF r = {} THEN b ELSE op(g[r \ {Max(r)}], seq[Max(r)])]
           G == [p \in (1 .. l) \X V |-> op(p[2], seq[p[1]])]
<1>1. l \in Nat /\ DOMAIN seq = 1 .. l /\ \A u \in V : Picked(u, data) \in V
  BY PickedIs DEF UpTo
<1>2. /\ b \in V /\ Len(b.points) = 1
      /\ Missed(b.points, data) = {} \/ Cardinality(Missed(b.points, data)) < Len(data)
  <2> DEFINE x == RowDrawn(data, 0)
             pts == <<x>>
             U == Missed(pts, data)
  <2>1. x \in Vec(n) /\ x \in Range(data)
    BY RowDrawnIs
  <2>2. IsFiniteSet(DOMAIN data) /\ Cardinality(DOMAIN data) = Len(data)
    <3>1. DOMAIN data = 1 .. Len(data) /\ Len(data) \in Nat
      OBVIOUS
    <3> QED
      BY <3>1, FS_Interval
  <2>3. PICK i \in DOMAIN data : data[i] = x
    BY <2>1 DEF Range
  <2> HIDE DEF x
  <2>4. pts \in Seq(Vec(n)) /\ Len(pts) = 1 /\ pts # <<>> /\ x \in Range(pts)
    BY <2>1 DEF Range
  <2> HIDE DEF pts
  <2>5. U \subseteq DOMAIN data /\ i \notin U
    BY <2>3, <2>4 DEF Missed
  <2> HIDE DEF U
  <2>6. Cardinality(U) < Len(data)
    <3> DEFINE W == DOMAIN data \ {i}
               N == DOMAIN data
    <3>1. U \in SUBSET W /\ i \in N /\ IsFiniteSet(N) /\ Cardinality(N) = Len(data)
          /\ W = N \ {i}
      BY <2>2, <2>3, <2>5
    <3> HIDE DEF W, N
    <3>2. IsFiniteSet(W) /\ Cardinality(W) = Cardinality(N) - 1 /\ Cardinality(N) \in Nat
      BY <3>1, FS_RemoveElement, FS_CardinalityType
    <3>3. IsFiniteSet(U) /\ Cardinality(U) <= Cardinality(W) /\ Cardinality(U) \in Nat
      BY <3>1, <3>2, FS_Subset, FS_CardinalityType
    <3> QED
      BY <3>1, <3>2, <3>3
  <2>7. b.points = pts /\ b \in V
    BY <2>4 DEF Clusters, pts, x
  <2> QED
    BY <2>4, <2>6, <2>7 DEF U
<1>3. /\ G \in [(1 .. l) \X V -> V]
      /\ \A j \in 1 .. l, u \in V : G[<<j, u>>] = Picked(u, data)
  BY <1>1
<1> HIDE DEF V, G, l, b
<1>4. PICK f : Solves(f, l, V, b, G)
  BY <1>1, <1>2, <1>3, FoldExists
<1>5. Steps(f)
  <2>1. \A r \in SUBSET (1 .. l) : r # {} =>
           /\ Max(r) \in 1 .. l /\ f[r \ {Max(r)}] \in V
           /\ f[r] = op(f[r \ {Max(r)}], seq[Max(r)])
    BY <1>4, <1>3 DEF Solves
  <2>2. f = [r \in SUBSET (1 .. l) |-> f[r]] /\ f[{}] = b
    BY <1>4 DEF Solves
  <2>3. f = [r \in SUBSET (1 .. l) |-> IF r = {} THEN b ELSE op(f[r \ {Max(r)}], seq[Max(r)])]
    BY <2>1, <2>2
  <2> QED
    BY <2>3, <1>1, Zenon
<1> HIDE DEF Steps
<1>6. PICK g : Steps(g) /\ t = g[DOMAIN seq]
  <2>1. \E g : Steps(g)
    BY <1>5
  <2>2. \E g : Steps(g) /\ t = g[DOMAIN seq]
    BY <2>1 DEF Steps, Seeded, FoldLeft, MapThenFoldSet, b, l
  <2> QED
    BY <2>2
<1> HIDE DEF t
<1>7. g[{}] = b /\ \A j \in 1 .. l : g[1 .. j - 1] \in V => g[1 .. j] = G[<<j, g[1 .. j - 1]>>]
  <2>1. g = [r \in SUBSET DOMAIN seq |-> IF r = {} THEN b ELSE op(g[r \ {Max(r)}], seq[Max(r)])]
    BY <1>6 DEF Steps
  <2>2. {} \in SUBSET DOMAIN seq
    OBVIOUS
  <2>3. g[{}] = b
    BY <2>1, <2>2, Zenon
  <2>4. ASSUME NEW j \in 1 .. l, g[1 .. j - 1] \in V
        PROVE  g[1 .. j] = G[<<j, g[1 .. j - 1]>>]
    <3>1. 1 .. j # {} /\ Max(1 .. j) = j /\ (1 .. j) \ {j} = 1 .. j - 1
      BY MaxUpTo
    <3>2. 1 .. j \in SUBSET DOMAIN seq
      BY <1>1
    <3>3. g[1 .. j] = op(g[1 .. j - 1], seq[j])
      BY <2>1, <3>1, <3>2, Zenon
    <3> QED
      BY <3>3, <2>4, <1>3
  <2> QED
    BY <2>3, <2>4
<1>8. PICK P : Runs(P, l, V, b, G, g[1 .. l])
  BY <1>1, <1>2, <1>3, <1>7, FoldRun
<1>9. /\ P[0] = b /\ P[l] = t
      /\ \A j \in 0 .. l : P[j] \in V
      /\ \A j \in 1 .. l : P[j - 1] \in V /\ P[j] = Picked(P[j - 1], data)
  <2>1. P \in [0 .. l -> V] /\ P[0] = b /\ P[l] = g[1 .. l]
        /\ \A j \in 1 .. l : P[j - 1] \in V /\ P[j] = G[<<j, P[j - 1]>>]
    BY <1>8 DEF Runs
  <2>2. P[l] = t
    BY <2>1, <1>1, <1>6, Zenon
  <2> QED
    BY <2>1, <2>2, <1>3
<1> DEFINE U(j) == Missed(P[j].points, data)
           S == {j \in 0 .. l : /\ Len(P[j].points) = j + 1
                                /\ U(j) = {} \/ Cardinality(U(j)) + j < Len(data)}
<1>10. \A j \in 0 .. l : IsFiniteSet(U(j)) /\ Cardinality(U(j)) \in Nat
  <2> SUFFICES ASSUME NEW j \in 0 .. l PROVE IsFiniteSet(U(j)) /\ Cardinality(U(j)) \in Nat
    OBVIOUS
  <2>1. U(j) \subseteq DOMAIN data /\ DOMAIN data = 1 .. Len(data) /\ Len(data) \in Nat
    BY DEF Missed
  <2> HIDE DEF U
  <2>2. IsFiniteSet(DOMAIN data)
    BY <2>1, FS_Interval
  <2> QED
    BY <2>1, <2>2, FS_Subset, FS_CardinalityType
<1>11. 0 \in S
  <2>1. 0 \in 0 .. l /\ P[0] = b
    BY <1>1, <1>9
  <2>2. Cardinality(U(0)) \in Nat
    BY <2>1, <1>10
  <2>3. U(0) = {} \/ Cardinality(U(0)) < Len(data)
    BY <2>1, <1>2
  <2> HIDE DEF U
  <2> QED
    BY <2>1, <2>2, <2>3, <1>2
<1>12. ASSUME NEW j \in 1 .. l, j - 1 \in S PROVE j \in S
  <2> DEFINE s == P[j - 1]
  <2>1. /\ j \in 0 .. l /\ j - 1 \in 0 .. l /\ s \in Clusters(n) /\ P[j] = Picked(s, data)
        /\ Len(s.points) = (j - 1) + 1
        /\ U(j - 1) = {} \/ Cardinality(U(j - 1)) + (j - 1) < Len(data)
    BY <1>1, <1>9, <1>12 DEF V
  <2> HIDE DEF s
  <2>2. /\ Len(P[j].points) = Len(s.points) + 1
        /\ Missed(s.points, data) # {} =>
              \E x \in Missed(s.points, data) :
                 Missed(P[j].points, data) \subseteq Missed(s.points, data) \ {x}
        /\ Missed(s.points, data) = {} => Missed(P[j].points, data) = {}
    <3>1. /\ Len(Picked(s, data).points) = Len(s.points) + 1
          /\ Missed(s.points, data) # {} =>
                \E x \in Missed(s.points, data) :
                   Missed(Picked(s, data).points, data) \subseteq Missed(s.points, data) \ {x}
          /\ Missed(s.points, data) = {} => Missed(Picked(s, data).points, data) = {}
      <4>1. s \in Clusters(n)
        BY <2>1
      <4> QED
        BY <4>1, PickedIs, Zenon
    <3> QED
      BY <2>1, <3>1, Zenon
  <2>3. U(j - 1) = Missed(s.points, data) /\ U(j) = Missed(P[j].points, data)
    BY DEF s
  <2> DEFINE A == U(j - 1)
             B == U(j)
  <2>4. IsFiniteSet(A) /\ IsFiniteSet(B) /\ Cardinality(A) \in Nat /\ Cardinality(B) \in Nat
    BY <2>1, <1>10
  <2>5. (A # {} => \E x \in A : B \subseteq A \ {x}) /\ (A = {} => B = {})
    BY <2>2, <2>3
  <2>6. A = {} \/ Cardinality(A) + (j - 1) < Len(data)
    BY <2>1
  <2> HIDE DEF A, B, U
  <2>7. B = {} \/ Cardinality(B) + j < Len(data)
    <3>1. CASE A = {}
      BY <3>1, <2>5
    <3>2. CASE A # {}
      <4>1. PICK x \in A : B \subseteq A \ {x}
        BY <3>2, <2>5
      <4>2. IsFiniteSet(A \ {x}) /\ Cardinality(A \ {x}) = Cardinality(A) - 1
        BY <2>4, FS_RemoveElement
      <4>3. Cardinality(B) <= Cardinality(A \ {x})
        BY <4>1, <4>2, FS_Subset
      <4>4. Len(data) \in Nat
        OBVIOUS
      <4> QED
        BY <3>2, <4>2, <4>3, <4>4, <2>4, <2>6
    <3> QED
      BY <3>1, <3>2
  <2>8. Len(P[j].points) = j + 1
    BY <2>1, <2>2
  <2> QED
    BY <2>1, <2>7, <2>8 DEF B
<1>13. l \in S
  <2>1. l \in 0 .. l
    BY <1>1
  <2> HIDE DEF S
  <2> QED
    BY <2>1, <1>1, <1>11, <1>12, Induct
<1>14. t \in V /\ Len(t.points) = l + 1
       /\ (Missed(t.points, data) = {} \/ Cardinality(Missed(t.points, data)) + l < Len(data))
  BY <1>1, <1>9, <1>13
<1>15. IsFiniteSet(Missed(t.points, data)) /\ Cardinality(Missed(t.points, data)) \in Nat
  BY <1>1, <1>9, <1>10
<1>16. Len(data) <= k => Missed(t.points, data) = {}
  <2> DEFINE M == Missed(t.points, data)
  <2>1. IsFiniteSet(M) /\ Cardinality(M) \in Nat /\ Len(data) \in Nat
        /\ (M = {} \/ Cardinality(M) + l < Len(data))
    BY <1>14, <1>15
  <2> HIDE DEF M
  <2>2. Cardinality(M) = 0 => M = {}
    BY <2>1, FS_EmptySet
  <2>3. Len(data) <= k => M = {}
    BY <2>1, <2>2 DEF l
  <2> QED
    BY <2>3 DEF M
<1> QED
  BY <1>14, <1>16 DEF t, V, l

(* The points are as many and of the same length, and what was a point of  *)
(* the rows stays one, however often they move.                            *)
LEMMA KmeansIs ==
  ASSUME IvfPqConstants, NEW n \in Nat, NEW data \in Seq(Vec(n)), data # <<>>, NEW k \in Nat \ {0}
  PROVE  /\ Kmeans(data, k) \in Seq(Vec(n)) /\ Len(Kmeans(data, k)) = k
         /\ Len(data) <= k => \A i \in DOMAIN data : data[i] \in Range(Kmeans(data, k))
<1> DEFINE l == Iterations
           Whole(s) == Len(data) <= k => Missed(s.points, data) = {}
           V == {s \in Clusters(n) : Len(s.points) = k /\ Whole(s)}
           b == Seeded(data, k)
           op(s, i) == Moved(s, data)
           seq == UpTo(l)
           t == FoldLeft(LAMBDA s, i : Moved(s, data), b, UpTo(Iterations))
           Steps(g) == g = [r \in SUBSET DOMAIN seq |->
                          IF r = {} THEN b ELSE op(g[r \ {Max(r)}], seq[Max(r)])]
           G == [p \in (1 .. l) \X V |-> op(p[2], seq[p[1]])]
<1>1. l \in Nat /\ DOMAIN seq = 1 .. l
  BY DEF UpTo, IvfPqConstants
<1>2. ASSUME NEW u \in V PROVE Moved(u, data) \in V
  <2> DEFINE w == Moved(u, data)
  <2>1. u \in Clusters(n) /\ Len(u.points) = k /\ (Len(data) <= k => Missed(u.points, data) = {})
    OBVIOUS
  <2>2. /\ w \in Clusters(n) /\ Len(w.points) = Len(u.points)
        /\ Missed(u.points, data) = {} => Missed(w.points, data) = {}
    BY <2>1, MovedIs
  <2> HIDE DEF w
  <2> QED
    BY <2>1, <2>2 DEF w
<1>3. b \in V
  <2> HIDE DEF b
  <2>1. b \in Clusters(n) /\ Len(b.points) = k
        /\ (Len(data) <= k => Missed(b.points, data) = {})
    BY SeededIs DEF b
  <2> QED
    BY <2>1
<1> HIDE DEF V, l, b
<1>4. /\ G \in [(1 .. l) \X V -> V]
      /\ \A j \in 1 .. l, u \in V : G[<<j, u>>] = op(u, seq[j])
  BY <1>2
<1> HIDE DEF G
<1>5. PICK f : Solves(f, l, V, b, G)
  BY <1>1, <1>3, <1>4, FoldExists
<1>6. Steps(f)
  <2>1. \A r \in SUBSET (1 .. l) : r # {} =>
           /\ Max(r) \in 1 .. l /\ f[r \ {Max(r)}] \in V
           /\ f[r] = op(f[r \ {Max(r)}], seq[Max(r)])
    BY <1>4, <1>5 DEF Solves
  <2>2. f = [r \in SUBSET (1 .. l) |-> f[r]] /\ f[{}] = b
    BY <1>5 DEF Solves
  <2>3. f = [r \in SUBSET (1 .. l) |-> IF r = {} THEN b ELSE op(f[r \ {Max(r)}], seq[Max(r)])]
    BY <2>1, <2>2
  <2> QED
    BY <2>3, <1>1, Zenon
<1> HIDE DEF Steps
<1>7. PICK g : Steps(g) /\ t = g[DOMAIN seq]
  <2>1. \E g : Steps(g)
    BY <1>6
  <2>2. \E g : Steps(g) /\ t = g[DOMAIN seq]
    BY <2>1 DEF Steps, FoldLeft, MapThenFoldSet, l
  <2> QED
    BY <2>2
<1>8. Kmeans(data, k) = t.points
  BY DEF Kmeans, Seeded, b
<1> HIDE DEF t
<1>9. g[{}] = b /\ \A j \in 1 .. l : g[1 .. j - 1] \in V => g[1 .. j] = G[<<j, g[1 .. j - 1]>>]
  <2>1. g = [r \in SUBSET DOMAIN seq |-> IF r = {} THEN b ELSE op(g[r \ {Max(r)}], seq[Max(r)])]
    BY <1>7 DEF Steps
  <2>2. {} \in SUBSET DOMAIN seq
    OBVIOUS
  <2>3. g[{}] = b
    BY <2>1, <2>2, Zenon
  <2>4. ASSUME NEW j \in 1 .. l, g[1 .. j - 1] \in V
        PROVE  g[1 .. j] = G[<<j, g[1 .. j - 1]>>]
    <3>1. 1 .. j # {} /\ Max(1 .. j) = j /\ (1 .. j) \ {j} = 1 .. j - 1
      <4>1. j \in Nat \ {0}
        BY <1>1
      <4> HIDE DEF l
      <4> QED
        BY <4>1, MaxUpTo
    <3>2. 1 .. j \in SUBSET DOMAIN seq
      BY <1>1
    <3>3. g[1 .. j] = op(g[1 .. j - 1], seq[j])
      BY <2>1, <3>1, <3>2, Zenon
    <3> QED
      BY <3>3, <2>4, <1>4
  <2> QED
    BY <2>3, <2>4
<1>10. PICK P : Runs(P, l, V, b, G, g[1 .. l])
  BY <1>1, <1>3, <1>4, <1>9, FoldRun
<1>11. t \in V
  <2>1. P \in [0 .. l -> V] /\ P[l] = g[1 .. l] /\ l \in 0 .. l
    BY <1>1, <1>10 DEF Runs
  <2>2. P[l] = t
    BY <2>1, <1>1, <1>7, Zenon
  <2> QED
    BY <2>1, <2>2
<1>12. t \in Clusters(n) /\ Len(t.points) = k /\ Whole(t)
  BY <1>11 DEF V
<1>13. t.points \in Seq(Vec(n))
  BY <1>12 DEF Clusters
<1>14. Len(data) <= k => \A i \in DOMAIN data : data[i] \in Range(t.points)
  BY <1>12 DEF Missed
<1> QED
  BY <1>8, <1>12, <1>13, <1>14

-----------------------------------------------------------------------------
(* Rows, their parts and their codes.                                      *)
CodedDim == Subs * SubDim

(* A row has a part at least, and no part reaches past its end.            *)
LEMMA RowsAre ==
  ASSUME IvfPqConstants
  PROVE  /\ Subs \in Nat \ {0} /\ SubDim \in Nat \ {0} /\ Dim \in Nat \ {0}
         /\ CodedDim \in Nat /\ CodedDim <= Dim
         /\ Rows \subseteq Vec(Dim)
<1>1. Dim \in Nat \ {0} /\ SubVecs \in Nat /\ Rows \subseteq Vec(Dim)
  BY DEF IvfPqConstants, Vec
<1>2. Subs \in Nat \ {0} /\ Subs <= Dim
  BY <1>1 DEF Subs, Smaller, Greater
<1>3. Dim \div Subs \in Nat /\ Dim = Subs * (Dim \div Subs) + (Dim % Subs)
      /\ Dim % Subs \in 0 .. Subs - 1
  BY <1>1, <1>2
<1>4. SubDim \in Nat /\ Dim = Subs * SubDim + (Dim % Subs)
  BY <1>3 DEF SubDim
<1> HIDE DEF Subs, SubDim
<1>5. SubDim # 0
  <2>1. Subs * 0 = 0
    BY <1>2
  <2> QED
    BY <2>1, <1>2, <1>3, <1>4
<1>6. \A a, b \in Nat : a * b \in Nat
  OBVIOUS
<1>7. CodedDim \in Nat /\ CodedDim = Subs * SubDim
  BY <1>2, <1>4, <1>6 DEF CodedDim
<1> QED
  BY <1>1, <1>2, <1>3, <1>4, <1>5, <1>7

(* The part a coordinate is in, and where in it.                           *)
LEMMA PlaceIs ==
  ASSUME NEW k \in Nat, NEW w \in Nat \ {0}
  PROVE  /\ \A j \in 1 .. k * w :
               /\ (j - 1) \div w + 1 \in 1 .. k /\ ((j - 1) % w) + 1 \in 1 .. w
               /\ ((j - 1) \div w) * w + ((j - 1) % w) + 1 = j
         /\ \A s \in 1 .. k, i \in 1 .. w :
               /\ (((s - 1) * w + i) - 1) \div w + 1 = s
               /\ ((((s - 1) * w + i) - 1) % w) + 1 = i
<1>0. \A a, b \in Nat : a * b \in Nat
  OBVIOUS
<1>1. ASSUME NEW a \in Nat
      PROVE  a \div w \in Nat /\ a % w \in 0 .. w - 1 /\ a = w * (a \div w) + (a % w)
  OBVIOUS
<1>2. ASSUME NEW j \in 1 .. k * w
      PROVE  /\ (j - 1) \div w + 1 \in 1 .. k /\ ((j - 1) % w) + 1 \in 1 .. w
             /\ ((j - 1) \div w) * w + ((j - 1) % w) + 1 = j
  <2> DEFINE a == j - 1
             e == a \div w
             r == a % w
  <2>1. a \in Nat /\ j = a + 1 /\ a < k * w
    BY <1>0
  <2> HIDE DEF a
  <2>2. e \in Nat /\ r \in 0 .. w - 1 /\ a = w * e + r
    BY <2>1, <1>1
  <2> HIDE DEF e, r
  <2>3. e < k
    <3> SUFFICES ASSUME e >= k PROVE FALSE
      BY <2>2
    <3>1. e - k \in Nat /\ w * e = w * k + w * (e - k)
      BY <2>2
    <3>2. w * (e - k) \in Nat /\ w * k \in Nat /\ w * k = k * w
      BY <3>1, <1>0
    <3> QED
      BY <2>1, <2>2, <3>1, <3>2
  <2>4. e * w = w * e /\ e * w \in Nat
    BY <2>2, <1>0
  <2>5. e + 1 \in 1 .. k /\ r + 1 \in 1 .. w /\ e * w + r + 1 = j
    BY <2>1, <2>2, <2>3, <2>4
  <2> QED
    BY <2>5 DEF e, r, a
<1>3. ASSUME NEW s \in 1 .. k, NEW i \in 1 .. w
      PROVE  /\ (((s - 1) * w + i) - 1) \div w + 1 = s
             /\ ((((s - 1) * w + i) - 1) % w) + 1 = i
  <2> DEFINE a == ((s - 1) * w + i) - 1
             e == a \div w
             r == a % w
             t == s - 1
             u == i - 1
  <2>1. t \in Nat /\ u \in 0 .. w - 1 /\ s = t + 1 /\ i = u + 1 /\ t * w \in Nat
    BY <1>0
  <2>2. a = t * w + u /\ a \in Nat
    BY <2>1
  <2> HIDE DEF a
  <2>3. e \in Nat /\ r \in 0 .. w - 1 /\ a = w * e + r
    BY <2>2, <1>1
  <2> HIDE DEF e, r, t, u
  <2>4. ASSUME e > t PROVE FALSE
    <3>1. e - t - 1 \in Nat /\ w * e = t * w + w + w * (e - t - 1)
      BY <2>1, <2>3, <2>4
    <3>2. w * (e - t - 1) \in Nat
      BY <3>1, <1>0
    <3> QED
      BY <2>1, <2>2, <2>3, <3>1, <3>2
  <2>5. ASSUME e < t PROVE FALSE
    <3>1. t - e - 1 \in Nat /\ t * w = w * e + w + w * (t - e - 1)
      BY <2>1, <2>3, <2>5
    <3>2. w * (t - e - 1) \in Nat /\ w * e \in Nat
      BY <3>1, <2>3, <1>0
    <3> QED
      BY <2>1, <2>2, <2>3, <3>1, <3>2
  <2>6. e = t
    BY <2>1, <2>3, <2>4, <2>5
  <2>7. r = u
    <3>1. w * e = t * w
      BY <2>1, <2>6
    <3> QED
      BY <3>1, <2>1, <2>2, <2>3
  <2> QED
    BY <2>1, <2>6, <2>7 DEF e, r, a
<1> QED
  BY <1>2, <1>3

(* The s-th part of a vector is a vector of its coordinates.               *)
LEMMA PartIs ==
  ASSUME IvfPqConstants, NEW x \in Vec(Dim), NEW s \in 1 .. Subs
  PROVE  /\ Part(x, s) = [i \in 1 .. SubDim |-> x[(s - 1) * SubDim + i]]
         /\ Part(x, s) \in Vec(SubDim)
         /\ \A i \in 1 .. SubDim :
               (s - 1) * SubDim + i \in 1 .. Dim /\ (s - 1) * SubDim + i \in 1 .. CodedDim
<1> DEFINE lo == (s - 1) * SubDim
<1>0. Subs \in Nat /\ SubDim \in Nat /\ CodedDim \in Nat /\ CodedDim <= Dim /\ Dim \in Nat
  BY RowsAre
<1> HIDE DEF Subs, SubDim
<1>1. /\ lo \in Nat /\ lo + SubDim = s * SubDim /\ s * SubDim <= CodedDim
      /\ \A i \in 1 .. SubDim : lo + i \in 1 .. Dim /\ lo + i \in 1 .. CodedDim
  <2>1. /\ lo \in Nat /\ lo + SubDim = s * SubDim /\ s * SubDim <= Subs * SubDim
        /\ \A i \in 1 .. SubDim : lo + i \in 1 .. Subs * SubDim
    BY <1>0, Places
  <2>2. \A j \in 1 .. CodedDim : j \in 1 .. Dim
    BY <1>0
  <2> QED
    BY <2>1, <2>2 DEF CodedDim
<1>2. \A i \in 1 .. Dim : x[i] \in Int
  BY DEF Vec
<1>3. Part(x, s) = SubSeq(x, lo + 1, lo + SubDim)
  BY <1>1 DEF Part
<1> HIDE DEF lo
<1>4. SubSeq(x, lo + 1, lo + SubDim) = [i \in 1 .. SubDim |-> x[lo + i]]
  <2>1. x \in Seq(Int)
    BY <1>0 DEF Vec
  <2>2. SubSeq(x, lo + 1, lo + SubDim) = [i \in 1 .. (1 + (lo + SubDim) - (lo + 1)) |-> x[i + (lo + 1) - 1]]
    BY <1>0, <1>1
  <2>3. 1 + (lo + SubDim) - (lo + 1) = SubDim /\ \A i \in 1 .. SubDim : i + (lo + 1) - 1 = lo + i
    BY <1>0, <1>1
  <2> QED
    BY <2>2, <2>3
<1>5. \A i \in 1 .. SubDim : x[lo + i] \in Int
  BY <1>1, <1>2
<1>6. Part(x, s) = [i \in 1 .. SubDim |-> x[lo + i]]
  BY <1>3, <1>4, Zenon
<1>7. Part(x, s) \in Vec(SubDim)
  BY <1>5, <1>6 DEF Vec
<1> QED
  BY <1>1, <1>6, <1>7 DEF lo

(* A difference is taken coordinate by coordinate.                         *)
LEMMA MinusIs ==
  ASSUME NEW n \in Nat, NEW a \in Vec(n), NEW b \in Vec(n)
  PROVE  Minus(a, b) \in Vec(n) /\ \A i \in 1 .. n : Minus(a, b)[i] = a[i] - b[i]
<1>1. DOMAIN a = 1 .. n /\ \A i \in 1 .. n : a[i] \in Int /\ b[i] \in Int
  BY DEF Vec
<1>2. Minus(a, b) = [i \in 1 .. n |-> a[i] - b[i]]
  BY <1>1 DEF Minus
<1>3. \A i \in 1 .. n : a[i] - b[i] \in Int
  BY <1>1
<1> QED
  BY <1>2, <1>3 DEF Vec

(* |q - x|^2 is |q - c|^2 and, for every coordinate with a code, what the  *)
(* table adds for x - c, which is to be zero in the others.                *)
LEMMA L2Splits ==
  ASSUME IvfPqConstants, NEW q \in Vec(Dim), NEW c \in Vec(Dim), NEW x \in Vec(Dim),
         \A j \in CodedDim + 1 .. Dim : x[j] = c[j]
  PROVE  L2(q, x) = L2(q, c) +
            Sum([s \in 1 .. Subs |->
               Sum([i \in 1 .. SubDim |->
                  Part(Minus(x, c), s)[i]
                     * (Part(Minus(x, c), s)[i] - 2 * Part(Minus(q, c), s)[i])])])
<1> DEFINE r == Minus(x, c)
           p == Minus(q, c)
           e == [j \in 1 .. Dim |-> r[j] * (r[j] - 2 * p[j])]
           a == [j \in DOMAIN q |-> Square(q[j] - c[j])]
           z == [j \in DOMAIN q |-> Square(q[j] - x[j])]
           h == [j \in 1 .. CodedDim |-> e[j]]
           of(s) == [i \in 1 .. SubDim |-> h[(s - 1) * SubDim + i]]
           given(s) == [i \in 1 .. SubDim |-> Part(r, s)[i] * (Part(r, s)[i] - 2 * Part(p, s)[i])]
<1>1. /\ Subs \in Nat /\ SubDim \in Nat /\ Dim \in Nat /\ DOMAIN q = 1 .. Dim
      /\ CodedDim \in Nat /\ CodedDim <= Dim
      /\ \A j \in 1 .. Dim : q[j] \in Int /\ c[j] \in Int /\ x[j] \in Int
  BY RowsAre DEF Vec
<1>2. /\ r \in Vec(Dim) /\ \A j \in 1 .. Dim : r[j] = x[j] - c[j]
      /\ p \in Vec(Dim) /\ \A j \in 1 .. Dim : p[j] = q[j] - c[j]
  BY RowsAre, MinusIs
<1> HIDE DEF r, p
<1>3. \A j \in 1 .. Dim : r[j] \in Int /\ p[j] \in Int
  BY <1>2 DEF Vec
<1>4. e \in Seq(Int) /\ Len(e) = Dim /\ \A j \in 1 .. Dim : e[j] = r[j] * (r[j] - 2 * p[j])
  <2>1. \A u, v \in Int : u * (u - 2 * v) \in Int
    OBVIOUS
  <2>2. \A j \in 1 .. Dim : r[j] * (r[j] - 2 * p[j]) \in Int
    BY <2>1, <1>3
  <2> QED
    BY <2>2, <1>1
<1>5. /\ a \in Seq(Int) /\ Len(a) = Dim /\ \A j \in 1 .. Dim : a[j] = Square(q[j] - c[j])
      /\ z \in Seq(Int) /\ Len(z) = Dim /\ \A j \in 1 .. Dim : z[j] = Square(q[j] - x[j])
  <2>1. \A j \in 1 .. Dim : q[j] - c[j] \in Int /\ q[j] - x[j] \in Int
    BY <1>1
  <2>2. \A u \in Int : Square(u) \in Int
    BY SquareIs
  <2>3. \A j \in 1 .. Dim : Square(q[j] - c[j]) \in Int /\ Square(q[j] - x[j]) \in Int
    BY <2>1, <2>2
  <2>4. a = [j \in 1 .. Dim |-> Square(q[j] - c[j])] /\ z = [j \in 1 .. Dim |-> Square(q[j] - x[j])]
    BY <1>1
  <2> HIDE DEF a, z
  <2>5. a \in [1 .. Dim -> Int] /\ z \in [1 .. Dim -> Int]
    BY <2>3, <2>4
  <2>6. a \in Seq(Int) /\ Len(a) = Dim /\ z \in Seq(Int) /\ Len(z) = Dim
    BY <2>5, <1>1
  <2> QED
    BY <2>4, <2>6
<1> HIDE DEF e, a, z
<1>6. ASSUME NEW j \in 1 .. Dim PROVE a[j] + e[j] = z[j]
  <2>1. \A u, v, w \in Int :
           (u - v) * (u - v) + (w - v) * ((w - v) - 2 * (u - v)) = (u - w) * (u - w)
    OBVIOUS
  <2>2. /\ a[j] = (q[j] - c[j]) * (q[j] - c[j])
        /\ z[j] = (q[j] - x[j]) * (q[j] - x[j])
        /\ e[j] = (x[j] - c[j]) * ((x[j] - c[j]) - 2 * (q[j] - c[j]))
    BY <1>2, <1>4, <1>5 DEF Square
  <2> QED
    BY <2>1, <2>2, <1>1
<1>7. Sum(a) + Sum(e) = Sum(z)
  <2>1. Len(e) = Len(a) /\ Len(z) = Len(a) /\ \A j \in 1 .. Len(a) : a[j] + e[j] = z[j]
    BY <1>4, <1>5, <1>6
  <2>2. a \in Seq(Int) /\ e \in Seq(Int) /\ z \in Seq(Int)
    BY <1>4, <1>5
  <2> QED
    BY <2>1, <2>2, SumsAdd
<1>8. L2(q, c) = Sum(a) /\ L2(q, x) = Sum(z)
  BY DEF L2, a, z
<1>9. h \in Seq(Int) /\ Len(h) = CodedDim /\ Sum(h) = Sum(e)
       /\ \A j \in 1 .. CodedDim : h[j] = e[j]
  <2>1. \A j \in CodedDim + 1 .. Dim : e[j] = 0
    <3>1. \A j \in CodedDim + 1 .. Dim : j \in 1 .. Dim
      BY <1>1
    <3>2. \A j \in CodedDim + 1 .. Dim : r[j] = 0
      BY <3>1, <1>1, <1>2
    <3>3. \A u \in Int : 0 * u = 0
      OBVIOUS
    <3> QED
      BY <3>1, <3>2, <3>3, <1>3, <1>4
  <2>2. CodedDim \in 0 .. Len(e)
    BY <1>1, <1>4
  <2> HIDE DEF h
  <2>3. h = [j \in 1 .. CodedDim |-> e[j]]
    BY DEF h
  <2> QED
    BY <2>1, <2>2, <2>3, <1>4, SumFirsts
<1> HIDE DEF h
<1>10. Sum([s \in 1 .. Subs |-> Sum(of(s))]) = Sum(e)
  <2>1. Len(h) = Subs * SubDim
    BY <1>9 DEF CodedDim
  <2>2. Subs \in Nat /\ SubDim \in Nat /\ h \in Seq(Int)
    BY <1>1, <1>9
  <2>3. Sum([s \in 1 .. Subs |-> Sum(of(s))]) = Sum(h)
    BY <2>1, <2>2, SumParts
  <2> QED
    BY <2>3, <1>9, Zenon
<1>11. ASSUME NEW s \in 1 .. Subs PROVE given(s) = of(s)
  <2>1. \A i \in 1 .. SubDim :
           /\ Part(r, s)[i] = r[(s - 1) * SubDim + i] /\ Part(p, s)[i] = p[(s - 1) * SubDim + i]
           /\ (s - 1) * SubDim + i \in 1 .. Dim /\ (s - 1) * SubDim + i \in 1 .. CodedDim
    <3>1. r \in Vec(Dim) /\ p \in Vec(Dim)
      BY <1>2
    <3> HIDE DEF r, p
    <3>2. Part(r, s) = [i \in 1 .. SubDim |-> r[(s - 1) * SubDim + i]]
      BY <3>1, PartIs, Zenon
    <3>3. Part(p, s) = [i \in 1 .. SubDim |-> p[(s - 1) * SubDim + i]]
      BY <3>1, PartIs, Zenon
    <3>4. \A i \in 1 .. SubDim :
             (s - 1) * SubDim + i \in 1 .. Dim /\ (s - 1) * SubDim + i \in 1 .. CodedDim
      BY <3>1, PartIs, Zenon
    <3> QED
      BY <3>2, <3>3, <3>4, Zenon
  <2>2. \A i \in 1 .. SubDim :
           Part(r, s)[i] * (Part(r, s)[i] - 2 * Part(p, s)[i]) = h[(s - 1) * SubDim + i]
    BY <2>1, <1>4, <1>9
  <2> QED
    BY <2>2
<1>12. [s \in 1 .. Subs |-> Sum(given(s))] = [s \in 1 .. Subs |-> Sum(of(s))]
  <2> HIDE DEF given, of
  <2> QED
    BY <1>11
<1>13. Sum([s \in 1 .. Subs |-> Sum(given(s))]) = Sum(e)
  <2> HIDE DEF given, of
  <2> QED
    BY <1>10, <1>12, Zenon
<1>14. L2(q, x) = L2(q, c) + Sum([s \in 1 .. Subs |-> Sum(given(s))])
  <2> HIDE DEF given, of
  <2> QED
    BY <1>7, <1>8, <1>13, Zenon
<1> QED
  BY <1>14 DEF r, p

(* A number has an integer root, so that there is a centroid at least.     *)
LEMMA RootIs ==
  ASSUME NEW n \in Nat
  PROVE  Root(n) \in Nat
<1> DEFINE Is(r) == r * r <= n /\ n < (r + 1) * (r + 1)
           S == {k \in 0 .. n : k * k <= n}
<1>1. \E r \in 0 .. n : Is(r)
  <2> SUFFICES ASSUME \A r \in 0 .. n : ~ Is(r) PROVE FALSE
    OBVIOUS
  <2>1. 0 \in S
    OBVIOUS
  <2>2. ASSUME NEW k \in 1 .. n, k - 1 \in S PROVE k \in S
    <3>1. k - 1 \in 0 .. n /\ (k - 1) * (k - 1) <= n /\ (k - 1) + 1 = k
      BY <2>2
    <3>2. ~ (n < k * k)
      BY <3>1
    <3>3. k * k \in Int
      OBVIOUS
    <3> QED
      BY <3>2, <3>3
  <2> HIDE DEF S
  <2>3. n \in 0 .. n /\ \A k \in 0 .. n : k \in S
    BY <2>1, <2>2, Induct
  <2>4. n * n <= n
    BY <2>3 DEF S
  <2>5. (n + 1) * (n + 1) = n * n + 2 * n + 1 /\ n * n \in Nat
    OBVIOUS
  <2>6. n < (n + 1) * (n + 1)
    BY <2>5
  <2> QED
    BY <2>3, <2>4, <2>6
<1>2. Root(n) \in 0 .. n
  BY <1>1 DEF Root
<1> QED
  BY <1>2

-----------------------------------------------------------------------------
(* What training leaves: each row in the list of its nearest centroid, and *)
(* coded by words as near as any to what is left of it, or equal to it.    *)
Listed(g, c) ==
    /\ g.lists[c] \in Seq(1 .. Len(g.store)) /\ IsInjective(g.lists[c])
    /\ Range(g.lists[c]) = {i \in 1 .. Len(g.store) : Nearest(g.centroids, g.store[i]) = c}

CodedAs(book, code, x) ==
    code \in 1 .. Words /\ \A w \in 1 .. Words : L2(x, book[code]) <= L2(x, book[w])

Coded(g, s) ==
    /\ g.books[s] \in [1 .. Words -> Vec(SubDim)]
    /\ \A i \in 1 .. Len(g.store) :
          LET left == Part(Residual(g.centroids, g.store[i]), s) IN
          /\ CodedAs(g.books[s], g.codes[i][s], left)
          /\ Len(g.store) <= Words => g.books[s][g.codes[i][s]] = left

Fitted(g) ==
    /\ g.store \in Seq(Rows) /\ Len(g.store) <= MaxRows
    /\ IF g.store = <<>> THEN g.lists = <<>> /\ g.centroids = <<>>
       ELSE /\ g.centroids \in Seq(Vec(Dim)) /\ g.centroids # <<>>
            /\ DOMAIN g.lists = 1 .. Len(g.centroids)
            /\ \A c \in 1 .. Len(g.centroids) : Listed(g, c)
            /\ \A s \in 1 .. Subs : Coded(g, s)

(* What is left of a row by its nearest centroid is a vector.              *)
LEMMA ResidualIs ==
  ASSUME IvfPqConstants, NEW centroids \in Seq(Vec(Dim)), centroids # <<>>, NEW row \in Vec(Dim)
  PROVE  /\ Nearest(centroids, row) \in 1 .. Len(centroids)
         /\ Residual(centroids, row) = Minus(row, centroids[Nearest(centroids, row)])
         /\ Residual(centroids, row) \in Vec(Dim)
<1>1. Dim \in Nat
  BY RowsAre
<1>2. Nearest(centroids, row) \in DOMAIN centroids
  BY <1>1, NearestIs
<1>3. DOMAIN centroids = 1 .. Len(centroids) /\ centroids[Nearest(centroids, row)] \in Vec(Dim)
  BY <1>2
<1>4. Residual(centroids, row) = Minus(row, centroids[Nearest(centroids, row)])
  BY DEF Residual, Assign
<1> QED
  BY <1>1, <1>2, <1>3, <1>4, MinusIs

(* Training makes an index so, whatever rows it is given.                  *)
LEMMA TrainedIs ==
  ASSUME IvfPqConstants, NEW store \in Seq(Rows), store # <<>>, Len(store) <= MaxRows
  PROVE  Fitted(Trained(store))
<1> DEFINE V == Vec(Dim)
           n == Len(store)
           k == Greater(Root(n), MinLists)
           cs == Kmeans(store, k)
           g == Trained(store)
           left(i) == Residual(cs, store[i])
           data(s) == [i \in DOMAIN store |-> Part(Residual(cs, store[i]), s)]
           out(c) == {i \in DOMAIN store : NearestCentroid(cs, store[i]) # c}
<1>1. /\ Dim \in Nat /\ SubDim \in Nat /\ Subs \in Nat
      /\ Words \in Nat \ {0} /\ MinLists \in Nat \ {0}
  BY RowsAre DEF IvfPqConstants
<1>2. /\ store \in Seq(V) /\ n \in Nat \ {0} /\ DOMAIN store = 1 .. n
      /\ \A i \in 1 .. n : store[i] \in V
  <2>1. Rows \subseteq V
    BY RowsAre
  <2> HIDE DEF V
  <2>2. store \in Seq(V) /\ n \in Nat /\ DOMAIN store = 1 .. n /\ n # 0
    BY <2>1, EmptySeq
  <2> QED
    BY <2>2, <1>1
<1>3. k \in Nat \ {0}
  <2>1. Root(n) \in Nat
    BY <1>2, RootIs
  <2> QED
    BY <2>1, <1>1 DEF Greater
<1>4. /\ g.store = store /\ g.centroids = cs /\ g.books = TrainResiduals(store, cs)
      /\ g.lists = [c \in DOMAIN cs |-> Without(UpTo(n), out(c))]
      /\ g.codes = [i \in DOMAIN store |-> EncodeRow(TrainResiduals(store, cs), left(i))]
  BY DEF Trained
<1> HIDE DEF k, n
<1>5. cs \in Seq(V) /\ Len(cs) = k
  BY <1>1, <1>2, <1>3, KmeansIs
<1> HIDE DEF cs, g
<1>6. cs # <<>> /\ DOMAIN cs = 1 .. Len(cs) /\ Len(cs) \in Nat
  <2> HIDE DEF V
  <2> QED
    BY <1>3, <1>5, EmptySeq
<1>7. ASSUME NEW i \in 1 .. n
      PROVE  Nearest(cs, store[i]) \in 1 .. Len(cs) /\ left(i) \in V
  BY <1>2, <1>5, <1>6, ResidualIs
<1>8. ASSUME NEW c \in 1 .. Len(cs) PROVE Listed(g, c)
  <2> DEFINE U == 1 .. n
             all == UpTo(n)
             l == Without(all, out(c))
  <2>1. all \in Seq(U) /\ IsInjective(all) /\ Range(all) = U
    <3>1. all = [i \in U |-> i]
      BY DEF UpTo
    <3> QED
      BY <3>1, <1>2 DEF IsInjective, Range
  <2> HIDE DEF all, out, U
  <2>2. l \in Seq(U) /\ Range(l) = U \ out(c) /\ IsInjective(l)
    BY <2>1, WithoutIs
  <2>3. U \ out(c) = {i \in U : Nearest(cs, store[i]) = c}
    BY <1>2 DEF NearestCentroid, out, U
  <2>4. g.lists[c] = l
    BY <1>4, <1>6 DEF all
  <2>5. Len(g.store) = n
    BY <1>4 DEF n
  <2> HIDE DEF l, out
  <2>6. g.centroids = cs /\ g.store = store
    BY <1>4, Zenon
  <2> QED
    BY <2>2, <2>3, <2>4, <2>5, <2>6 DEF Listed, U
<1>9. ASSUME NEW s \in 1 .. Subs PROVE Coded(g, s)
  <2> DEFINE W == Vec(SubDim)
             book == Kmeans(data(s), Words)
  <2>1. \A i \in 1 .. n : Part(left(i), s) \in W
    BY <1>7, PartIs
  <2>2. data(s) \in Seq(W) /\ Len(data(s)) = n /\ DOMAIN data(s) = 1 .. n
        /\ \A i \in 1 .. n : data(s)[i] = Part(left(i), s)
    <3>1. data(s) = [i \in 1 .. n |-> Part(left(i), s)]
      BY <1>2
    <3> HIDE DEF W, left, data
    <3> QED
      BY <2>1, <3>1, <1>2
  <2>3. data(s) # <<>>
    <3> HIDE DEF data, W
    <3> QED
      BY <2>2, <1>2, EmptySeq
  <2>4. g.books[s] = book
    <3>1. TrainResiduals(store, cs)[s] = book
      BY DEF TrainResiduals
    <3> QED
      BY <3>1, <1>4
  <2>5. /\ book \in Seq(W) /\ Len(book) = Words
        /\ Len(data(s)) <= Words => \A i \in DOMAIN data(s) : data(s)[i] \in Range(book)
    <3>1. Words \in Nat \ {0}
      BY <1>1
    <3> DEFINE x == data(s)
    <3>2. x \in Seq(W) /\ x # <<>>
      BY <2>2, <2>3
    <3> HIDE DEF x
    <3>3. /\ Kmeans(x, Words) \in Seq(W) /\ Len(Kmeans(x, Words)) = Words
          /\ Len(x) <= Words => \A i \in DOMAIN x : x[i] \in Range(Kmeans(x, Words))
      BY <3>1, <3>2, <1>1, KmeansIs
    <3> QED
      BY <3>3, Zenon DEF x
  <2> HIDE DEF book
  <2>6. /\ book # <<>> /\ DOMAIN book = 1 .. Words /\ book \in [1 .. Words -> W]
        /\ n <= Words => \A i \in 1 .. n : Part(left(i), s) \in Range(book)
    <3>1. Words \in Nat \ {0}
      BY <1>1
    <3>2. n <= Words => \A i \in 1 .. n : data(s)[i] \in Range(book)
      <4> HIDE DEF data
      <4> QED
        BY <2>2, <2>5, <1>2
    <3>3. n <= Words => \A i \in 1 .. n : Part(left(i), s) \in Range(book)
      BY <2>2, <3>2, Zenon
    <3> HIDE DEF W
    <3>4. book # <<>> /\ DOMAIN book = 1 .. Words /\ book \in [1 .. Words -> W]
      BY <2>5, <3>1, EmptySeq
    <3> QED
      BY <3>3, <3>4
  <2>7. ASSUME NEW i \in 1 .. n
        PROVE  /\ CodedAs(book, g.codes[i][s], Part(left(i), s))
               /\ n <= Words => book[g.codes[i][s]] = Part(left(i), s)
    <3>1. g.codes[i] = EncodeRow(TrainResiduals(store, cs), left(i))
      BY <1>2, <1>4
    <3>2. TrainResiduals(store, cs)[s] = book
      BY <2>4, <1>4
    <3>3. g.codes[i][s] = Nearest(book, Part(left(i), s))
      BY <3>1, <3>2 DEF EncodeRow
    <3>4. Part(left(i), s) \in W /\ (n <= Words => Part(left(i), s) \in Range(book))
      BY <2>1, <2>6
    <3> DEFINE p == Part(left(i), s)
    <3> HIDE DEF p
    <3>5. /\ Nearest(book, p) \in DOMAIN book
          /\ \A w \in DOMAIN book : L2(p, book[Nearest(book, p)]) <= L2(p, book[w])
          /\ p \in Range(book) => book[Nearest(book, p)] = p
      BY <3>4, <2>5, <2>6, <1>1, NearestIs DEF p
    <3>6. n <= Words => p \in Range(book)
      BY <3>4 DEF p
    <3> QED
      BY <3>3, <3>5, <3>6, <2>6 DEF p, CodedAs
  <2>8. g.centroids = cs /\ g.store = store /\ Len(g.store) = n
    BY <1>4 DEF n
  <2>9. \A i \in 1 .. n : /\ CodedAs(book, g.codes[i][s], Part(Residual(cs, store[i]), s))
                          /\ n <= Words => book[g.codes[i][s]] = Part(Residual(cs, store[i]), s)
    BY <2>7
  <2> HIDE DEF left, data
  <2> QED
    BY <2>4, <2>6, <2>8, <2>9 DEF Coded
<1>10. DOMAIN g.lists = 1 .. Len(cs)
  <2> HIDE DEF out
  <2> QED
    BY <1>4, <1>6
<1>11. /\ g.store = store /\ g.centroids = cs
  BY <1>4, Zenon
<1>12. g.store \in Seq(Rows) /\ Len(g.store) <= MaxRows /\ g.store # <<>>
  BY <1>11
<1>13. g.centroids \in Seq(Vec(Dim)) /\ g.centroids # <<>> /\ Len(g.centroids) = Len(cs)
  BY <1>5, <1>6, <1>11
<1>14. Fitted(g)
  BY <1>8, <1>9, <1>10, <1>12, <1>13 DEF Fitted
<1> QED
  BY <1>14 DEF g

(* An index is empty or so, from its creation on.                          *)
LEMMA FittedKept ==
  ASSUME IvfPqConstants
  PROVE  /\ Init => Fitted(ivf)
         /\ Fitted(ivf) /\ Next => Fitted(ivf')
<1>1. ASSUME Init PROVE Fitted(ivf)
  <2>1. ivf.store = <<>> /\ ivf.lists = <<>> /\ ivf.centroids = <<>>
    BY <1>1 DEF Init
  <2>2. MaxRows \in Nat
    BY DEF IvfPqConstants
  <2>3. <<>> \in Seq(Rows) /\ Len(<<>>) = 0
    OBVIOUS
  <2> QED
    BY <2>1, <2>2, <2>3 DEF Fitted
<1>2. ASSUME Fitted(ivf), Next PROVE Fitted(ivf')
  <2>1. PICK batch \in SeqOf(Rows, MaxAdded) : TrainAndBuild(batch)
    BY <1>2 DEF Next
  <2> DEFINE old == ivf.store
             all == old \o batch
  <2>2. batch \in Seq(Rows)
    <3>1. MaxAdded \in Nat
      BY DEF IvfPqConstants
    <3>2. PICK k \in 0 .. MaxAdded : batch \in [1 .. k -> Rows]
      BY DEF SeqOf
    <3> QED
      BY <3>1, <3>2
  <2>3. old \in Seq(Rows) /\ batch # <<>> /\ Len(old) + Len(batch) <= MaxRows
        /\ ivf' = Trained(all)
    BY <1>2, <2>1 DEF Fitted, TrainAndBuild
  <2> HIDE DEF old
  <2>4. all \in Seq(Rows) /\ Len(all) = Len(old) + Len(batch)
    BY <2>2, <2>3, ConcatIs
  <2>5. Len(batch) # 0 /\ Len(batch) \in Nat /\ Len(old) \in Nat
    BY <2>2, <2>3, EmptySeq
  <2> HIDE DEF all
  <2>6. all # <<>>
    BY <2>4, <2>5, EmptySeq
  <2>7. Fitted(Trained(all))
    BY <2>3, <2>4, <2>6, TrainedIs
  <2> QED
    BY <2>3, <2>7
<1> QED
  BY <1>1, <1>2

(* A code stands for a vector: of its parts, less the centroid, are its    *)
(* words, which are those of the row while there are few rows, and else as *)
(* near to it as any.                                                      *)
LEMMA DecodedIs ==
  ASSUME IvfPqConstants, Fitted(ivf), NEW i \in 1 .. Len(ivf.store)
  PROVE  /\ Centroid(i) \in Vec(Dim) /\ Decoded(i) \in Vec(Dim)
         /\ \A j \in CodedDim + 1 .. Dim : Decoded(i)[j] = Centroid(i)[j]
         /\ \A s \in 1 .. Subs :
               /\ CodedAs(ivf.books[s], ivf.codes[i][s], Part(Minus(ivf.store[i], Centroid(i)), s))
               /\ Part(Minus(Decoded(i), Centroid(i)), s) = Word(i, s)
         /\ Len(ivf.store) <= Words =>
               \A j \in 1 .. CodedDim : Decoded(i)[j] = ivf.store[i][j]
<1> DEFINE V == Vec(Dim)
           c == Centroid(i)
           x == ivf.store[i]
           y == Decoded(i)
           part(j) == (j - 1) \div SubDim + 1
           in(j) == ((j - 1) % SubDim) + 1
           at(s, e) == (s - 1) * SubDim + e
<1>1. /\ Subs \in Nat \ {0} /\ SubDim \in Nat \ {0} /\ Dim \in Nat
      /\ CodedDim \in Nat /\ CodedDim <= Dim /\ Rows \subseteq V
  BY RowsAre
<1>2. ivf.store # <<>> /\ ivf.store \in Seq(Rows)
  <2>1. ivf.store \in Seq(Rows)
    BY DEF Fitted
  <2> QED
    BY <2>1, EmptySeq
<1>3. /\ ivf.centroids \in Seq(V) /\ ivf.centroids # <<>>
      /\ \A s \in 1 .. Subs : Coded(ivf, s)
  BY <1>2 DEF Fitted
<1>4. x \in V
  BY <1>1, <1>2
<1>5. c \in V /\ Residual(ivf.centroids, x) = Minus(x, c)
  <2>1. /\ Nearest(ivf.centroids, x) \in 1 .. Len(ivf.centroids)
        /\ Residual(ivf.centroids, x) = Minus(x, ivf.centroids[Nearest(ivf.centroids, x)])
    BY <1>3, <1>4, ResidualIs
  <2>2. c = ivf.centroids[Nearest(ivf.centroids, x)]
    BY DEF Centroid, NearestCentroid
  <2> HIDE DEF V, c, x
  <2>3. c \in V
    BY <2>1, <2>2, <1>3
  <2> QED
    BY <2>1, <2>2, <2>3, Zenon
<1>6. ASSUME NEW s \in 1 .. Subs
      PROVE  /\ CodedAs(ivf.books[s], ivf.codes[i][s], Part(Minus(x, c), s))
             /\ Word(i, s) \in Vec(SubDim)
             /\ Len(ivf.store) <= Words => Word(i, s) = Part(Minus(x, c), s)
  <2>1. Coded(ivf, s)
    BY <1>3
  <2> HIDE DEF c, x
  <2>2. /\ ivf.books[s] \in [1 .. Words -> Vec(SubDim)]
        /\ CodedAs(ivf.books[s], ivf.codes[i][s], Part(Minus(x, c), s))
        /\ Len(ivf.store) <= Words => ivf.books[s][ivf.codes[i][s]] = Part(Minus(x, c), s)
    BY <2>1, <1>5 DEF Coded, x
  <2>3. ivf.codes[i][s] \in 1 .. Words
    BY <2>2 DEF CodedAs
  <2> QED
    BY <2>2, <2>3 DEF Word
<1>7. /\ \A j \in 1 .. CodedDim : part(j) \in 1 .. Subs /\ in(j) \in 1 .. SubDim
                                  /\ at(part(j), in(j)) = j
      /\ \A s \in 1 .. Subs, e \in 1 .. SubDim : part(at(s, e)) = s /\ in(at(s, e)) = e
  <2> DEFINE k == Subs
             w == SubDim
  <2>1. k \in Nat /\ w \in Nat \ {0}
    BY <1>1
  <2> HIDE DEF k, w
  <2>2. /\ \A j \in 1 .. k * w :
              /\ (j - 1) \div w + 1 \in 1 .. k /\ ((j - 1) % w) + 1 \in 1 .. w
              /\ ((j - 1) \div w) * w + ((j - 1) % w) + 1 = j
        /\ \A s \in 1 .. k, e \in 1 .. w :
              /\ (((s - 1) * w + e) - 1) \div w + 1 = s
              /\ ((((s - 1) * w + e) - 1) % w) + 1 = e
    BY <2>1, PlaceIs
  <2>3. \A j \in 1 .. k * w :
           (((j - 1) \div w + 1) - 1) * w + (((j - 1) % w) + 1) = j
    <3> TAKE j \in 1 .. k * w
    <3> DEFINE a == (j - 1) \div w
               b == (j - 1) % w
    <3>1. a + 1 \in 1 .. k /\ b + 1 \in 1 .. w /\ a * w + b + 1 = j
      BY <2>2
    <3>2. a \in Int /\ b \in Int
      BY <2>1
    <3> HIDE DEF a, b
    <3>3. (a + 1) - 1 = a
      BY <3>2
    <3>4. ((a + 1) - 1) * w + (b + 1) = j
      BY <3>1, <3>2, <3>3, <2>1
    <3> QED
      BY <3>4 DEF a, b
  <2>4. CodedDim = k * w
    BY DEF k, w, CodedDim
  <2>5. \A j \in 1 .. k * w : part(j) \in 1 .. k /\ in(j) \in 1 .. w /\ at(part(j), in(j)) = j
    BY <2>2, <2>3, Zenon DEF w
  <2>6. \A s \in 1 .. k, e \in 1 .. w : part(at(s, e)) = s /\ in(at(s, e)) = e
    BY <2>2, Zenon DEF w
  <2> HIDE DEF part, in, at
  <2> QED
    BY <2>4, <2>5, <2>6, Zenon DEF k, w
<1> HIDE DEF c, x, V, at
<1>8. /\ y = [j \in 1 .. Dim |-> y[j]]
      /\ \A j \in 1 .. Dim :
            y[j] = c[j] + (IF j > CodedDim THEN 0 ELSE Word(i, part(j))[in(j)])
  BY Zenon DEF Decoded, CodedDim, c
<1> HIDE DEF y, part, in
<1>9. \A j \in 1 .. Dim : c[j] \in Int /\ x[j] \in Int
  BY <1>4, <1>5 DEF V, Vec
<1>10. \A s \in 1 .. Subs, e \in 1 .. SubDim : Word(i, s)[e] \in Int
  BY <1>6 DEF Vec
<1>11. \A j \in CodedDim + 1 .. Dim : y[j] = c[j]
  <2>1. \A j \in CodedDim + 1 .. Dim : j \in 1 .. Dim /\ j > CodedDim
    BY <1>1
  <2> QED
    BY <2>1, <1>8, <1>9
<1>12. ASSUME NEW j \in 1 .. CodedDim
       PROVE  j \in 1 .. Dim /\ y[j] = c[j] + Word(i, part(j))[in(j)]
              /\ Word(i, part(j))[in(j)] \in Int
  <2>1. j \in 1 .. Dim /\ ~ (j > CodedDim)
    BY <1>1
  <2> QED
    BY <2>1, <1>7, <1>8, <1>10
<1>13. y \in V
  <2>1. \A j \in 1 .. Dim : y[j] \in Int
    <3> TAKE j \in 1 .. Dim
    <3>1. CASE j \in 1 .. CodedDim
      BY <3>1, <1>9, <1>12
    <3>2. CASE j \notin 1 .. CodedDim
      <4>1. j \in CodedDim + 1 .. Dim
        BY <3>2, <1>1
      <4> QED
        BY <4>1, <1>9, <1>11
    <3> QED
      BY <3>1, <3>2
  <2> QED
    BY <2>1, <1>8 DEF V, Vec
<1>14. ASSUME NEW s \in 1 .. Subs PROVE Part(Minus(y, c), s) = Word(i, s)
  <2>1. /\ Minus(y, c) \in Vec(Dim) /\ \A j \in 1 .. Dim : Minus(y, c)[j] = y[j] - c[j]
    BY <1>1, <1>5, <1>13, MinusIs DEF V
  <2>2. /\ Part(Minus(y, c), s) = [e \in 1 .. SubDim |-> Minus(y, c)[at(s, e)]]
        /\ \A e \in 1 .. SubDim : at(s, e) \in 1 .. Dim /\ at(s, e) \in 1 .. CodedDim
    BY <2>1, PartIs DEF at
  <2>3. ASSUME NEW e \in 1 .. SubDim PROVE Minus(y, c)[at(s, e)] = Word(i, s)[e]
    <3> DEFINE j == at(s, e)
               u == Word(i, s)[e]
    <3>1. j \in 1 .. Dim /\ j \in 1 .. CodedDim /\ part(j) = s /\ in(j) = e
      BY <2>2, <1>7
    <3>2. y[j] = c[j] + u /\ c[j] \in Int /\ u \in Int /\ Minus(y, c)[j] = y[j] - c[j]
      BY <3>1, <2>1, <1>9, <1>10, <1>12
    <3> HIDE DEF j, u
    <3>3. Minus(y, c)[j] = u
      BY <3>2
    <3> QED
      BY <3>3 DEF j, u
  <2>4. Word(i, s) = [e \in 1 .. SubDim |-> Word(i, s)[e]]
    BY <1>6 DEF Vec
  <2>5. [e \in 1 .. SubDim |-> Minus(y, c)[at(s, e)]] = [e \in 1 .. SubDim |-> Word(i, s)[e]]
    BY <2>3
  <2> QED
    BY <2>2, <2>4, <2>5, Zenon
<1>15. ASSUME Len(ivf.store) <= Words, NEW j \in 1 .. CodedDim PROVE y[j] = x[j]
  <2> DEFINE s == part(j)
             e == in(j)
  <2>1. s \in 1 .. Subs /\ e \in 1 .. SubDim /\ at(s, e) = j
    BY <1>7
  <2>2. Word(i, s) = Part(Minus(x, c), s)
    BY <2>1, <1>6, <1>15
  <2>3. /\ Minus(x, c) \in Vec(Dim) /\ \A k \in 1 .. Dim : Minus(x, c)[k] = x[k] - c[k]
    BY <1>1, <1>4, <1>5, MinusIs DEF V
  <2>4. Part(Minus(x, c), s) = [k \in 1 .. SubDim |-> Minus(x, c)[at(s, k)]]
    BY <2>1, <2>3, PartIs DEF at
  <2>5. Word(i, s)[e] = x[j] - c[j] /\ j \in 1 .. Dim
    BY <2>1, <2>2, <2>3, <2>4, <1>12
  <2>6. y[j] = c[j] + Word(i, s)[e]
    BY <1>12
  <2> QED
    BY <2>5, <2>6, <1>9
<1> QED
  BY <1>5, <1>6, <1>11, <1>13, <1>14, <1>15 DEF c, x, y, V

(* What a list's centroid and a row's code make is the distance of what the*)
(* code stands for.                                                        *)
LEMMA ScoredIs ==
  ASSUME IvfPqConstants, Fitted(ivf), ivf.store # <<>>, NEW q \in Rows,
         NEW c \in 1 .. Len(ivf.centroids), NEW k \in DOMAIN ivf.lists[c]
  PROVE  /\ ivf.lists[c][k] \in 1 .. Len(ivf.store)
         /\ Centroid(ivf.lists[c][k]) = ivf.centroids[c]
         /\ ScoredIn(q, c)[k] = [row |-> ivf.lists[c][k], d |-> L2(q, Decoded(ivf.lists[c][k]))]
<1> DEFINE i == ivf.lists[c][k]
           V == Vec(Dim)
           y == ivf.centroids[c]
           x == Decoded(i)
           r == Minus(x, y)
           p == Minus(q, y)
           t == AdcTable(ivf.books, p)
           code == ivf.codes[i]
           term(u, v) == Sum([e \in 1 .. SubDim |-> u[e] * (u[e] - 2 * v[e])])
<1>1. /\ ivf.store \in Seq(Rows) /\ ivf.centroids \in Seq(V) /\ ivf.centroids # <<>>
      /\ Listed(ivf, c)
  BY DEF Fitted
<1>2. Rows \subseteq V /\ Dim \in Nat
  BY RowsAre
<1>3. i \in 1 .. Len(ivf.store) /\ Nearest(ivf.centroids, ivf.store[i]) = c
  <2> DEFINE U == 1 .. Len(ivf.store)
             l == ivf.lists[c]
  <2>1. l \in Seq(U) /\ Range(l) = {e \in U : Nearest(ivf.centroids, ivf.store[e]) = c}
    BY <1>1 DEF Listed
  <2>2. l[k] \in Range(l)
    BY DEF Range
  <2> HIDE DEF U
  <2>3. l[k] \in U /\ Nearest(ivf.centroids, ivf.store[l[k]]) = c
    BY <2>1, <2>2, Zenon
  <2> QED
    BY <2>3 DEF U
<1>4. Centroid(i) = y
  BY <1>3 DEF Centroid, NearestCentroid
<1> HIDE DEF i, V, y, x, r, p, t, code
<1>5. /\ x \in V /\ y \in V /\ q \in V
      /\ \A j \in CodedDim + 1 .. Dim : x[j] = y[j]
  BY <1>2, <1>3, <1>4, DecodedIs DEF x, V
<1>6. ASSUME NEW s \in 1 .. Subs
      PROVE  code[s] \in 1 .. Words /\ ivf.books[s][code[s]] = Part(r, s)
  BY <1>3, <1>4, DecodedIs DEF x, r, code, Word, CodedAs
<1>7. ASSUME NEW s \in 1 .. Subs
      PROVE  t[s][code[s]] = term(Part(r, s), Part(p, s))
  <2>1. t[s] = [j \in 1 .. Words |-> term(ivf.books[s][j], Part(p, s))]
    BY DEF AdcTable, t
  <2>2. t[s][code[s]] = term(ivf.books[s][code[s]], Part(p, s))
    BY <2>1, <1>6
  <2> QED
    BY <2>2, <1>6, Zenon
<1>8. DistanceAdc(t, code) = Sum([s \in 1 .. Subs |-> term(Part(r, s), Part(p, s))])
  <2> DEFINE given(s) == term(Part(r, s), Part(p, s))
             read(s) == t[s][code[s]]
  <2>1. \A s \in 1 .. Subs : read(s) = given(s)
    BY <1>7
  <2>2. DistanceAdc(t, code) = Sum([s \in 1 .. Subs |-> read(s)])
    BY DEF DistanceAdc
  <2> HIDE DEF given, read
  <2>3. [s \in 1 .. Subs |-> read(s)] = [s \in 1 .. Subs |-> given(s)]
    BY <2>1
  <2>4. DistanceAdc(t, code) = Sum([s \in 1 .. Subs |-> given(s)])
    BY <2>2, <2>3, Zenon
  <2> QED
    BY <2>4 DEF given
<1>9. L2(q, x) = L2(q, y) + Sum([s \in 1 .. Subs |-> term(Part(r, s), Part(p, s))])
  BY <1>5, L2Splits DEF V, r, p
<1>10. ScoredIn(q, c)[k] = [row |-> i, d |-> L2(q, y) + DistanceAdc(t, code)]
  BY DEF ScoredIn, i, y, p, t, code
<1>11. ScoredIn(q, c)[k] = [row |-> i, d |-> L2(q, x)]
  BY <1>8, <1>9, <1>10, Zenon
<1> QED
  BY <1>3, <1>4, <1>11 DEF i, y, x

(* Lists and codes of a trained index say what AdcExact does.              *)
LEMMA FittedAdcExact ==
  ASSUME IvfPqConstants, Fitted(ivf)
  PROVE  AdcExact
<1>1. CASE ivf.store = <<>>
  <2>1. ivf.lists = <<>> /\ ivf.store = <<>>
    BY <1>1 DEF Fitted
  <2>2. DOMAIN ivf.lists = {} /\ DOMAIN ivf.store = {}
    BY <2>1
  <2> QED
    BY <2>2 DEF AdcExact
<1>2. CASE ivf.store # <<>>
  <2> DEFINE V == Vec(Dim)
  <2>1. /\ ivf.store \in Seq(Rows) /\ ivf.centroids \in Seq(V) /\ ivf.centroids # <<>>
        /\ DOMAIN ivf.lists = 1 .. Len(ivf.centroids)
        /\ \A c \in 1 .. Len(ivf.centroids) : Listed(ivf, c)
    BY <1>2 DEF Fitted
  <2>2. ASSUME NEW i \in DOMAIN ivf.store
        PROVE  Cardinality({c \in DOMAIN ivf.lists : i \in Range(ivf.lists[c])}) = 1
    <3> DEFINE e == Nearest(ivf.centroids, ivf.store[i])
    <3>1. i \in 1 .. Len(ivf.store) /\ ivf.store[i] \in V
      BY <2>1, RowsAre
    <3>2. e \in 1 .. Len(ivf.centroids)
      BY <2>1, <3>1, ResidualIs
    <3> HIDE DEF V
    <3>3. \A c \in 1 .. Len(ivf.centroids) : i \in Range(ivf.lists[c]) <=> e = c
      BY <2>1, <3>1 DEF Listed
    <3>4. {c \in DOMAIN ivf.lists : i \in Range(ivf.lists[c])} = {e}
      BY <2>1, <3>2, <3>3
    <3> QED
      BY <3>4, FS_Singleton
  <2>3. ASSUME NEW c \in DOMAIN ivf.lists, NEW k \in DOMAIN ivf.lists[c]
        PROVE  LET i == ivf.lists[c][k]
                   left == Minus(ivf.store[i], ivf.centroids[c])
               IN  /\ \A q \in Rows : ScoredIn(q, c)[k].d = L2(q, Decoded(i))
                   /\ \A s \in 1 .. Subs : \A w \in 1 .. Words :
                         L2(Part(left, s), Word(i, s)) <= L2(Part(left, s), ivf.books[s][w])
                   /\ Len(ivf.store) <= Words =>
                         \A j \in 1 .. Subs * SubDim : Decoded(i)[j] = ivf.store[i][j]
    <3> DEFINE i == ivf.lists[c][k]
               left == Minus(ivf.store[i], ivf.centroids[c])
    <3>1. c \in 1 .. Len(ivf.centroids)
      BY <2>1
    <3>2. \A q \in Rows : ScoredIn(q, c)[k] = [row |-> i, d |-> L2(q, Decoded(i))]
      BY <1>2, <3>1, ScoredIs
    <3>3. i \in 1 .. Len(ivf.store) /\ Centroid(i) = ivf.centroids[c]
      <4>1. PICK q : q \in Rows
        <5>1. ivf.store[1] \in Rows
          BY <1>2, <2>1, EmptySeq
        <5> QED
          BY <5>1
      <4> QED
        BY <4>1, <1>2, <3>1, ScoredIs
    <3> HIDE DEF i
    <3>4. \A s \in 1 .. Subs : \A w \in 1 .. Words :
             L2(Part(left, s), Word(i, s)) <= L2(Part(left, s), ivf.books[s][w])
      BY <3>3, DecodedIs DEF CodedAs, Word
    <3>5. Len(ivf.store) <= Words =>
             \A j \in 1 .. Subs * SubDim : Decoded(i)[j] = ivf.store[i][j]
      BY <3>3, DecodedIs DEF CodedDim
    <3>6. ASSUME NEW q \in Rows PROVE ScoredIn(q, c)[k].d = L2(q, Decoded(i))
      <4> DEFINE d == L2(q, Decoded(i))
      <4>1. ScoredIn(q, c)[k] = [row |-> i, d |-> d]
        BY <3>2
      <4> HIDE DEF d
      <4>2. ScoredIn(q, c)[k].d = d
        BY <4>1
      <4> QED
        BY <4>2 DEF d
    <3> QED
      BY <3>4, <3>5, <3>6 DEF i
  <2> QED
    BY <2>2, <2>3 DEF AdcExact
<1> QED
  BY <1>1, <1>2

-----------------------------------------------------------------------------
(* A search sorts what it found: the same rows, each once, by distance.    *)
LEMMA ByDistanceIs ==
  ASSUME NEW N, \A h \in N : h.d \in Int, NEW s \in Seq(N)
  PROVE  /\ ByDistance(s) \in Seq(N) /\ Len(ByDistance(s)) = Len(s)
         /\ Range(ByDistance(s)) = Range(s)
         /\ IsInjective(s) => IsInjective(ByDistance(s))
         /\ \A i, j \in 1 .. Len(s) : i < j => ByDistance(s)[i].d <= ByDistance(s)[j].d
<1> DEFINE n == Len(s)
           D == 1 .. n
           d == [k \in DOMAIN s |-> s[k].d]
           u == UpTo(n)
           order == Sorted(d, u)
           t == ByDistance(s)
<1>1. n \in Nat /\ DOMAIN s = D /\ \A k \in D : s[k] \in N
  OBVIOUS
<1>2. \A k \in D : d[k] = s[k].d /\ d[k] \in Int
  BY <1>1
<1>3. u \in Seq(D) /\ Len(u) = n /\ IsInjective(u) /\ Range(u) = D /\ DOMAIN u = D
  <2>1. u = [i \in D |-> i]
    BY DEF UpTo
  <2> HIDE DEF u
  <2>2. n \in Nat
    BY <1>1
  <2> HIDE DEF n
  <2> QED
    BY <2>1, <2>2 DEF IsInjective, Range
<1>4. t = [k \in D |-> s[order[k]]]
  BY <1>1 DEF ByDistance
<1> HIDE DEF n, d, u, t, D
<1>5. /\ order \in Seq(D) /\ Len(order) = n /\ Range(order) = D /\ IsInjective(order)
      /\ \A i, j \in D : i < j => d[order[i]] <= d[order[j]]
  <2>1. \A a \in D : d[a] \in Int
    BY <1>2
  <2>2. /\ Sorted(d, u) \in Seq(D) /\ Len(Sorted(d, u)) = Len(u)
        /\ Range(Sorted(d, u)) = Range(u)
        /\ IsInjective(u) => IsInjective(Sorted(d, u))
        /\ \A i, j \in DOMAIN u : i < j => d[Sorted(d, u)[i]] <= d[Sorted(d, u)[j]]
    BY <2>1, <1>3, SortedIs
  <2> HIDE DEF order
  <2> QED
    BY <2>2, <1>3, Zenon DEF order
<1> HIDE DEF order
<1>6. DOMAIN order = D /\ \A k \in D : order[k] \in D
  BY <1>1, <1>5 DEF D
<1>7. \A k \in D : t[k] = s[order[k]] /\ t[k] \in N
  BY <1>1, <1>4, <1>6
<1>8. t \in Seq(N) /\ Len(t) = n /\ DOMAIN t = D
  BY <1>1, <1>4, <1>7 DEF D
<1>9. Range(t) = Range(s)
  <2>1. \A k \in D : \E j \in D : order[j] = k
    BY <1>5, <1>6 DEF Range
  <2>2. ASSUME NEW h \in Range(t) PROVE h \in Range(s)
    <3>1. PICK k \in D : h = t[k]
      BY <2>2, <1>8 DEF Range
    <3> QED
      BY <3>1, <1>1, <1>6, <1>7 DEF Range
  <2>3. ASSUME NEW h \in Range(s) PROVE h \in Range(t)
    <3>1. PICK k \in D : h = s[k]
      BY <2>3, <1>1 DEF Range
    <3>2. PICK j \in D : order[j] = k
      BY <2>1
    <3>3. t[j] = h
      BY <3>1, <3>2, <1>7
    <3> QED
      BY <3>3, <1>8 DEF Range
  <2> QED
    BY <2>2, <2>3
<1>10. ASSUME IsInjective(s) PROVE IsInjective(t)
  <2> SUFFICES ASSUME NEW i \in D, NEW j \in D, t[i] = t[j] PROVE i = j
    BY <1>8 DEF IsInjective
  <2>1. order[i] = order[j]
    BY <1>1, <1>6, <1>7, <1>10 DEF IsInjective
  <2> QED
    BY <2>1, <1>5, <1>6 DEF IsInjective
<1>11. \A i, j \in D : i < j => t[i].d <= t[j].d
  <2>1. \A k \in D : t[k].d = d[order[k]]
    BY <1>2, <1>6, <1>7
  <2> QED
    BY <2>1, <1>5
<1> QED
  BY <1>8, <1>9, <1>10, <1>11 DEF t, n, D

(* A row with its distance by code, as a search of its list finds it.      *)
Hit(q, i)     == [row |-> i, d |-> L2(q, Decoded(i))]
Hits(q)       == {Hit(q, i) : i \in 1 .. Len(ivf.store)}
HitsIn(q, S)  == {Hit(q, i) : i \in S}

(* Each row of an index has a distance to a query, and one by its code.    *)
LEMMA HitsAre ==
  ASSUME IvfPqConstants, Fitted(ivf), NEW q \in Rows
  PROVE  /\ \A h \in Hits(q) : h.d \in Int /\ h.row \in 1 .. Len(ivf.store)
         /\ \A i \in 1 .. Len(ivf.store) :
               L2(q, ivf.store[i]) \in Int /\ L2(q, Decoded(i)) \in Int /\ Hit(q, i) \in Hits(q)
<1> DEFINE V == Vec(Dim)
<1>1. ivf.store \in Seq(Rows) /\ Rows \subseteq V /\ Dim \in Nat
  BY RowsAre DEF Fitted
<1>2. ASSUME NEW i \in 1 .. Len(ivf.store)
      PROVE  L2(q, ivf.store[i]) \in Int /\ L2(q, Decoded(i)) \in Int
  <2>1. ivf.store[i] \in V /\ Decoded(i) \in V /\ q \in V
    BY <1>1, DecodedIs
  <2>2. L2(q, ivf.store[i]) \in Nat /\ L2(q, Decoded(i)) \in Nat
    BY <2>1, <1>1, L2Is
  <2> QED
    BY <2>2
<1> QED
  BY <1>2 DEF Hits, Hit

(* The rows of a list are found with their distances, each once.           *)
LEMMA ListHits ==
  ASSUME IvfPqConstants, Fitted(ivf), ivf.store # <<>>, NEW q \in Rows,
         NEW c \in 1 .. Len(ivf.centroids)
  PROVE  /\ ScoredIn(q, c) \in Seq(Hits(q)) /\ IsInjective(ScoredIn(q, c))
         /\ Range(ScoredIn(q, c)) = HitsIn(q, Range(ivf.lists[c]))
<1> DEFINE l == ivf.lists[c]
           t == ScoredIn(q, c)
           n == Len(l)
           U == 1 .. Len(ivf.store)
           H == Hits(q)
<1>1. Listed(ivf, c)
  BY DEF Fitted
<1>2. l \in Seq(U) /\ IsInjective(l)
  BY <1>1 DEF Listed
<1>3. n \in Nat /\ DOMAIN l = 1 .. n
  BY <1>2
<1>4. DOMAIN t = 1 .. n /\ t = [k \in 1 .. n |-> t[k]]
  BY <1>3 DEF ScoredIn
<1>5. \A k \in 1 .. n : l[k] \in U /\ t[k] = Hit(q, l[k])
  BY <1>3, ScoredIs DEF Hit
<1>6. \A i \in U : Hit(q, i) \in H
  BY HitsAre
<1> HIDE DEF t, l, n, U, H
<1>7. t \in Seq(H)
  <2>1. \A k \in 1 .. n : t[k] \in H
    BY <1>5, <1>6
  <2>2. t \in [1 .. n -> H]
    BY <1>4, <2>1
  <2> QED
    BY <2>2, <1>3
<1>8. \A i, j : Hit(q, i) = Hit(q, j) => i = j
  BY DEF Hit
<1>9. IsInjective(t)
  BY <1>2, <1>3, <1>4, <1>5, <1>8 DEF IsInjective
<1>10. Range(t) = HitsIn(q, Range(l))
  <2>1. Range(l) = {l[k] : k \in 1 .. n} /\ Range(t) = {t[k] : k \in 1 .. n}
    BY <1>3, <1>4 DEF Range
  <2> QED
    BY <2>1, <1>5 DEF HitsIn
<1> QED
  BY <1>7, <1>9, <1>10 DEF t, l, H

(* Those of several lists, one after the other.                            *)
LEMMA AllHits ==
  ASSUME IvfPqConstants, Fitted(ivf), ivf.store # <<>>, NEW q \in Rows,
         NEW p \in Seq(1 .. Len(ivf.centroids)), IsInjective(p)
  PROVE  LET t == FoldLeft(LAMBDA s, c : s \o ScoredIn(q, c), <<>>, p) IN
         /\ t \in Seq(Hits(q)) /\ IsInjective(t)
         /\ Range(t) = HitsIn(q, UNION {Range(ivf.lists[c]) : c \in Range(p)})
<1> DEFINE n == Len(p)
           C == 1 .. Len(ivf.centroids)
           H == Hits(q)
           V == Seq(H)
           t == FoldLeft(LAMBDA s, c : s \o ScoredIn(q, c), <<>>, p)
           op(u, c) == u \o ScoredIn(q, c)
           Steps(g) == g = [r \in SUBSET DOMAIN p |->
                          IF r = {} THEN <<>> ELSE op(g[r \ {Max(r)}], p[Max(r)])]
           G == [x \in (1 .. n) \X V |-> op(x[2], p[x[1]])]
           in(c) == Range(ivf.lists[c])
<1>1. n \in Nat /\ DOMAIN p = 1 .. n /\ <<>> \in V /\ \A k \in 1 .. n : p[k] \in C
  OBVIOUS
<1>2. ASSUME NEW c \in C
      PROVE  ScoredIn(q, c) \in V /\ IsInjective(ScoredIn(q, c))
             /\ Range(ScoredIn(q, c)) = HitsIn(q, in(c))
  BY ListHits
<1> HIDE DEF n, H, C, in
<1>3. ASSUME NEW u \in V, NEW c \in C PROVE op(u, c) \in V
  BY <1>2, ConcatIs
<1> HIDE DEF V, op
<1>4. G \in [(1 .. n) \X V -> V] /\ \A k \in 1 .. n, u \in V : G[<<k, u>>] = op(u, p[k])
  BY <1>1, <1>3
<1> HIDE DEF G
<1>5. \E g : Steps(g)
  <2>1. PICK g : Solves(g, n, V, <<>>, G)
    BY <1>1, <1>4, FoldExists
  <2>2. ASSUME NEW r \in SUBSET (1 .. n), r # {}
        PROVE  g[r] = op(g[r \ {Max(r)}], p[Max(r)])
    BY <2>1, <2>2, <1>4 DEF Solves
  <2>3. g = [r \in SUBSET (1 .. n) |->
               IF r = {} THEN <<>> ELSE op(g[r \ {Max(r)}], p[Max(r)])]
    BY <2>1, <2>2 DEF Solves
  <2> QED
    BY <2>3, <1>1
<1>6. \E g : Steps(g) /\ t = g[DOMAIN p]
  BY <1>5 DEF FoldLeft, MapThenFoldSet, op
<1> HIDE DEF t, Steps
<1>7. PICK g : Steps(g) /\ t = g[DOMAIN p]
  BY <1>6
<1>8. g[{}] = <<>> /\ \A k \in 1 .. n : g[1 .. k] = op(g[1 .. k - 1], p[k])
  <2>1. g = [r \in SUBSET (1 .. n) |->
               IF r = {} THEN <<>> ELSE op(g[r \ {Max(r)}], p[Max(r)])]
    BY <1>7, <1>1 DEF Steps
  <2>2. {} \in SUBSET (1 .. n)
    OBVIOUS
  <2>3. g[{}] = <<>>
    BY <2>1, <2>2, Zenon
  <2>4. ASSUME NEW k \in 1 .. n PROVE g[1 .. k] = op(g[1 .. k - 1], p[k])
    <3>0. n \in Nat /\ k \in Nat \ {0}
      BY <1>1
    <3>1. 1 .. k # {} /\ Max(1 .. k) = k /\ (1 .. k) \ {k} = 1 .. k - 1
      BY <3>0, MaxUpTo
    <3>2. 1 .. k \in SUBSET (1 .. n)
      BY <3>0
    <3>3. g[1 .. k] = op(g[(1 .. k) \ {Max(1 .. k)}], p[Max(1 .. k)])
      BY <2>1, <3>1, <3>2, Zenon
    <3> QED
      BY <3>1, <3>3, Zenon
  <2> QED
    BY <2>3, <2>4
<1>9. PICK F : Runs(F, n, V, <<>>, G, t)
  <2>1. \A k \in 1 .. n : g[1 .. k - 1] \in V => g[1 .. k] = G[<<k, g[1 .. k - 1]>>]
    BY <1>4, <1>8
  <2>2. g[1 .. n] = t
    BY <1>7, <1>1
  <2> QED
    BY <2>1, <2>2, <1>1, <1>4, <1>8, FoldRun
<1> DEFINE Of(k) == HitsIn(q, UNION {in(p[i]) : i \in 1 .. k})
           Good(k, u) == u \in V /\ IsInjective(u) /\ Range(u) = Of(k)
           K == {k \in 0 .. n : Good(k, F[k])}
<1>10. 0 \in K
  <2>1. F[0] = <<>> /\ 0 \in 0 .. n
    BY <1>1, <1>9 DEF Runs
  <2>2. Range(<<>>) = {} /\ IsInjective(<<>>) /\ Of(0) = {}
    BY DEF Range, IsInjective, HitsIn
  <2>3. Good(0, <<>>)
    BY <2>2, <1>1
  <2> HIDE DEF Good
  <2> QED
    BY <2>1, <2>3
<1>11. ASSUME NEW k \in 1 .. n, k - 1 \in K PROVE k \in K
  <2> DEFINE u == F[k - 1]
             s == ScoredIn(q, p[k])
  <2>1. Good(k - 1, u) /\ p[k] \in C /\ k \in Nat
    BY <1>1, <1>11
  <2>2. F[k] = u \o s
    BY <2>1, <1>4, <1>9 DEF Runs, op
  <2>3. s \in Seq(H) /\ IsInjective(s) /\ Range(s) = HitsIn(q, in(p[k]))
    BY <2>1, <1>2 DEF V
  <2>4. u \in Seq(H) /\ IsInjective(u) /\ Range(u) = Of(k - 1)
    BY <2>1 DEF V
  <2>5. Of(k) = Of(k - 1) \cup HitsIn(q, in(p[k]))
    <3>1. \A i \in 1 .. k : i = k \/ i \in 1 .. k - 1
      OBVIOUS
    <3>2. k \in 1 .. k /\ \A i \in 1 .. k - 1 : i \in 1 .. k
      OBVIOUS
    <3>3. UNION {in(p[i]) : i \in 1 .. k} = (UNION {in(p[i]) : i \in 1 .. k - 1}) \cup in(p[k])
      BY <3>1, <3>2
    <3> QED
      BY <3>3 DEF HitsIn
  <2>6. Range(u) \cap Range(s) = {}
    <3> SUFFICES ASSUME NEW h \in Range(u), h \in Range(s) PROVE FALSE
      OBVIOUS
    <3>1. PICK j \in in(p[k]) : h = Hit(q, j)
      BY <2>3 DEF HitsIn
    <3>2. PICK i \in UNION {in(p[e]) : e \in 1 .. k - 1} : h = Hit(q, i)
      BY <2>4 DEF HitsIn
    <3>3. i = j
      BY <3>1, <3>2 DEF Hit
    <3>8. PICK e \in 1 .. k - 1 : i \in in(p[e])
      OBVIOUS
    <3>4. e \in 1 .. n /\ p[e] \in C /\ e # k
      BY <1>1
    <3>5. p[e] # p[k]
      BY <3>4, <1>1 DEF IsInjective
    <3>6. \A c \in C : Listed(ivf, c)
      BY DEF Fitted, C
    <3>7. Nearest(ivf.centroids, ivf.store[i]) = p[e] /\ Nearest(ivf.centroids, ivf.store[j]) = p[k]
      BY <3>1, <3>8, <3>4, <3>6, <2>1 DEF Listed, in
    <3> QED
      BY <3>3, <3>5, <3>7
  <2> HIDE DEF Of, u, s
  <2>7. F[k] \in Seq(H) /\ IsInjective(F[k]) /\ Range(F[k]) = Range(u) \cup Range(s)
    BY <2>2, <2>3, <2>4, <2>6, ConcatIs
  <2>8. Range(F[k]) = Of(k)
    BY <2>3, <2>4, <2>5, <2>7, Zenon
  <2>9. Good(k, F[k])
    BY <2>7, <2>8 DEF V
  <2>10. k \in 0 .. n
    OBVIOUS
  <2> HIDE DEF Good
  <2> QED
    BY <2>9, <2>10
<1>12. Good(n, t)
  <2>1. n \in Nat
    BY <1>1
  <2>2. \A k \in 0 .. n : k \in K
    <3> HIDE DEF K
    <3> QED
      BY <2>1, <1>10, <1>11, Induct
  <2> QED
    BY <2>1, <2>2, <1>9 DEF Runs
<1>13. {in(p[i]) : i \in 1 .. n} = {in(c) : c \in Range(p)}
  BY <1>1 DEF Range
<1>14. Range(t) = HitsIn(q, UNION {in(c) : c \in Range(p)})
  BY <1>12, <1>13, Zenon
<1> QED
  BY <1>12, <1>14 DEF t, V, H, in

(* Rows with a distance of each, sorted by it: the rows in another order.  *)
Marked(D, r) == [k \in DOMAIN r |-> [row |-> r[k], d |-> D[r[k]]]]

LEMMA MarkedIs ==
  ASSUME NEW S, NEW D, \A i \in S : D[i] \in Int, NEW r \in Seq(S), IsInjective(r)
  PROVE  \E o \in Seq(S) :
            /\ IsInjective(o) /\ Range(o) = Range(r) /\ Len(o) = Len(r)
            /\ ByDistance(Marked(D, r)) = Marked(D, o)
            /\ \A i, j \in 1 .. Len(o) : i < j => D[o[i]] <= D[o[j]]
<1> DEFINE mark(i) == [row |-> i, d |-> D[i]]
           N == {mark(i) : i \in S}
           n == Len(r)
           h == Marked(D, r)
           b == ByDistance(h)
           o == [k \in 1 .. n |-> b[k].row]
<1>1. n \in Nat /\ DOMAIN r = 1 .. n /\ \A k \in 1 .. n : r[k] \in S
  OBVIOUS
<1>2. \A x \in N : x.row \in S /\ x.d = D[x.row] /\ x.d \in Int /\ x = mark(x.row)
  OBVIOUS
<1>3. \A i, j : mark(i) = mark(j) => i = j
  OBVIOUS
<1>4. h = [k \in 1 .. n |-> mark(r[k])]
  BY <1>1 DEF Marked
<1>5. \A i \in S : mark(i) \in N
  OBVIOUS
<1> HIDE DEF mark, N, n, h, b
<1>6. h \in Seq(N) /\ Len(h) = n /\ DOMAIN h = 1 .. n /\ \A k \in 1 .. n : h[k] = mark(r[k])
  BY <1>1, <1>4, <1>5
<1>7. IsInjective(h)
  BY <1>1, <1>3, <1>6 DEF IsInjective
<1>8. /\ b \in Seq(N) /\ Len(b) = n /\ Range(b) = Range(h) /\ IsInjective(b)
      /\ \A i, j \in 1 .. n : i < j => b[i].d <= b[j].d
  <2>1. \A x \in N : x.d \in Int
    BY <1>2
  <2> QED
    BY <2>1, <1>6, <1>7, ByDistanceIs DEF b
<1>9. DOMAIN b = 1 .. n /\ \A k \in 1 .. n : b[k] \in N
  BY <1>8
<1>10. ASSUME NEW k \in 1 .. n
       PROVE  o[k] = b[k].row /\ o[k] \in S /\ b[k] = mark(o[k]) /\ b[k].d = D[o[k]]
  BY <1>2, <1>9
<1>11. o \in Seq(S) /\ Len(o) = n /\ DOMAIN o = 1 .. n
  BY <1>1, <1>10
<1> HIDE DEF o
<1>12. IsInjective(o)
  BY <1>8, <1>9, <1>10, <1>11 DEF IsInjective
<1>13. Range(o) = Range(r)
  <2>1. ASSUME NEW i \in Range(o) PROVE i \in Range(r)
    <3>1. PICK k \in 1 .. n : i = o[k]
      BY <2>1, <1>11 DEF Range
    <3>2. PICK j \in 1 .. n : b[k] = h[j]
      BY <1>6, <1>8, <1>9 DEF Range
    <3>3. i = r[j]
      BY <3>1, <3>2, <1>3, <1>6, <1>10
    <3> QED
      BY <3>3, <1>1 DEF Range
  <2>2. ASSUME NEW i \in Range(r) PROVE i \in Range(o)
    <3>1. PICK j \in 1 .. n : i = r[j]
      BY <2>2, <1>1 DEF Range
    <3>2. PICK k \in 1 .. n : h[j] = b[k]
      BY <1>6, <1>8, <1>9 DEF Range
    <3>3. i = o[k]
      BY <3>1, <3>2, <1>3, <1>6, <1>10
    <3> QED
      BY <3>3, <1>11 DEF Range
  <2> QED
    BY <2>1, <2>2
<1>14. b = Marked(D, o)
  <2>1. b = [k \in 1 .. n |-> b[k]]
    BY <1>8
  <2>2. Marked(D, o) = [k \in 1 .. n |-> mark(o[k])]
    BY <1>11 DEF Marked, mark
  <2>3. [k \in 1 .. n |-> b[k]] = [k \in 1 .. n |-> mark(o[k])]
    BY <1>10
  <2> QED
    BY <2>1, <2>2, <2>3, Zenon
<1>15. \A i, j \in 1 .. n : i < j => D[o[i]] <= D[o[j]]
  BY <1>8, <1>10
<1> QED
  BY <1>11, <1>12, <1>13, <1>14, <1>15 DEF b, h, n

(* How many rows of a set a distance puts before one, and how many others  *)
(* not behind it.                                                          *)
AheadOf(S, D, i)   == Cardinality({j \in S : D[j] < D[i]})
NotBehind(S, D, i) == Cardinality({j \in S \ {i} : D[j] <= D[i]})

(* A list with the distances of its rows replaced.                         *)
Rescored(E, s) == [k \in DOMAIN s |-> [s[k] EXCEPT !.d = E[s[k].row]]]

(* Of rows sorted by a distance, fewer come before one of the first most   *)
(* than that; of any other, that many are as near.                         *)
LEMMA CutIs ==
  ASSUME NEW S, NEW D, \A i \in S : D[i] \in Int, NEW r \in Seq(S), IsInjective(r), Range(r) = S,
         \A i, j \in 1 .. Len(r) : i < j => D[r[i]] <= D[r[j]],
         NEW most \in Nat, NEW p \in 1 .. Len(r)
  PROVE  /\ p <= most => AheadOf(S, D, r[p]) < most
         /\ p > most => NotBehind(S, D, r[p]) >= most
<1> DEFINE n == Len(r)
           first(k) == [j \in 1 .. k |-> r[j]]
<1>1. n \in Nat /\ DOMAIN r = 1 .. n /\ \A k \in 1 .. n : r[k] \in S /\ D[r[k]] \in Int
  OBVIOUS
<1>2. p \in 1 .. n
  OBVIOUS
<1>3. ASSUME NEW k \in 0 .. n
      PROVE  IsFiniteSet(Range(first(k))) /\ Cardinality(Range(first(k))) = k
  <2> DEFINE f == first(k)
  <2>1. k \in Nat /\ \A j \in 1 .. k : j \in 1 .. n /\ r[j] \in S
    BY <1>1
  <2>2. f \in Seq(S) /\ Len(f) = k /\ DOMAIN f = 1 .. k /\ \A j \in 1 .. k : f[j] = r[j]
    BY <2>1
  <2> HIDE DEF f
  <2>3. IsInjective(f)
    BY <2>1, <2>2, <1>1 DEF IsInjective
  <2>4. IsFiniteSet(Range(f)) /\ Cardinality(Range(f)) = k
    BY <2>2, <2>3, LengthIs
  <2> QED
    BY <2>4 DEF f
<1>4. ASSUME NEW k \in 0 .. n PROVE \A i : i \in Range(first(k)) <=> \E j \in 1 .. k : i = r[j]
  BY DEF Range
<1>5. \A i \in S : \E k \in 1 .. n : i = r[k]
  BY <1>1 DEF Range
<1>6. IsFiniteSet(S)
  BY LengthIs
<1> HIDE DEF first, n
<1>7. ASSUME p <= most PROVE AheadOf(S, D, r[p]) < most
  <2> DEFINE T == {j \in S : D[j] < D[r[p]]}
             F == Range(first(p - 1))
  <2>1. p - 1 \in 0 .. n
    BY <1>1, <1>2
  <2>2. T \subseteq F
    <3> SUFFICES ASSUME NEW j \in T PROVE j \in F
      OBVIOUS
    <3>1. PICK k \in 1 .. n : j = r[k]
      BY <1>5
    <3>2. k < p
      <4>1. D[r[k]] < D[r[p]] /\ D[r[k]] \in Int /\ D[r[p]] \in Int
        BY <3>1, <1>1, <1>2
      <4>2. ~ (p < k)
        <5>1. p < k => D[r[p]] <= D[r[k]]
          BY <1>2 DEF n
        <5> QED
          BY <5>1, <4>1
      <4>3. k # p
        BY <4>1
      <4> QED
        BY <4>2, <4>3, <1>1, <1>2
    <3>3. k \in 1 .. p - 1
      BY <3>2, <1>1, <1>2
    <3> QED
      BY <3>1, <3>3, <2>1, <1>4
  <2>3. IsFiniteSet(F) /\ Cardinality(F) = p - 1
    BY <2>1, <1>3
  <2> HIDE DEF T, F
  <2>4. IsFiniteSet(T) /\ Cardinality(T) <= p - 1 /\ Cardinality(T) \in Nat
    BY <2>2, <2>3, FS_Subset, FS_CardinalityType
  <2>5. Cardinality(T) < most
    BY <2>4, <1>1, <1>2, <1>7
  <2> QED
    BY <2>5 DEF T, AheadOf
<1>8. ASSUME p > most PROVE NotBehind(S, D, r[p]) >= most
  <2> DEFINE T == {j \in S \ {r[p]} : D[j] <= D[r[p]]}
             F == Range(first(most))
  <2>1. most \in 0 .. n
    BY <1>1, <1>2, <1>8
  <2>2. F \subseteq T
    <3> SUFFICES ASSUME NEW i \in F PROVE i \in T
      OBVIOUS
    <3>1. PICK k \in 1 .. most : i = r[k]
      BY <2>1, <1>4
    <3>2. k \in 1 .. n /\ k < p /\ k # p
      BY <1>1, <1>2, <1>8
    <3>3. D[r[k]] <= D[r[p]]
      BY <3>2, <1>2 DEF n
    <3>4. r[k] # r[p]
      BY <3>2, <1>1, <1>2 DEF IsInjective
    <3> QED
      BY <3>1, <3>2, <3>3, <3>4, <1>1
  <2>3. IsFiniteSet(F) /\ Cardinality(F) = most
    BY <2>1, <1>3
  <2>4. IsFiniteSet(T)
    <3>1. T \subseteq S
      OBVIOUS
    <3> HIDE DEF T
    <3> QED
      BY <3>1, <1>6, FS_Subset
  <2> HIDE DEF T, F
  <2>5. Cardinality(T) >= most
    BY <2>2, <2>3, <2>4, FS_Subset, FS_CardinalityType
  <2> QED
    BY <2>5 DEF T, NotBehind
<1> QED
  BY <1>7, <1>8

(* The first of marked rows are the first rows, marked.                    *)
LEMMA MarkedFirst ==
  ASSUME NEW S, NEW D, NEW r \in Seq(S), NEW k \in Nat
  PROVE  FirstOf(Marked(D, r), k) = Marked(D, FirstOf(r, k))
<1> DEFINE n == Len(r)
           N == {[row |-> i, d |-> D[i]] : i \in S}
           h == Marked(D, r)
           f == FirstOf(r, k)
           g == FirstOf(h, k)
<1>1. n \in Nat /\ DOMAIN r = 1 .. n /\ \A j \in 1 .. n : r[j] \in S
  OBVIOUS
<1>2. h \in Seq(N) /\ Len(h) = n /\ \A j \in 1 .. n : h[j] = [row |-> r[j], d |-> D[r[j]]]
  <2>1. h = [j \in 1 .. n |-> [row |-> r[j], d |-> D[r[j]]]]
    BY <1>1 DEF Marked
  <2> HIDE DEF h
  <2>2. \A j \in 1 .. n : h[j] = [row |-> r[j], d |-> D[r[j]]] /\ h[j] \in N
    BY <2>1, <1>1
  <2> HIDE DEF N
  <2>3. h \in [1 .. n -> N]
    BY <2>1, <2>2
  <2> QED
    BY <2>2, <2>3, <1>1
<1> HIDE DEF n, N, h
<1>3. /\ g \in Seq(N) /\ Len(g) = Smaller(k, n) /\ DOMAIN g = 1 .. Len(g)
      /\ \A j \in 1 .. Len(g) : g[j] = h[j] /\ j \in 1 .. n
  BY <1>2, FirstAt, FirstOfIs
<1>4. /\ Len(f) = Smaller(k, n) /\ DOMAIN f = 1 .. Len(f)
      /\ \A j \in 1 .. Len(f) : f[j] = r[j]
  BY FirstAt DEF n
<1> HIDE DEF f, g
<1>5. g = [j \in 1 .. Len(f) |-> [row |-> f[j], d |-> D[f[j]]]]
  <2>1. g = [j \in 1 .. Len(f) |-> g[j]]
    BY <1>3, <1>4
  <2>2. \A j \in 1 .. Len(f) : g[j] = [row |-> f[j], d |-> D[f[j]]]
    BY <1>2, <1>3, <1>4
  <2> QED
    BY <2>1, <2>2
<1> QED
  BY <1>4, <1>5 DEF Marked, f, g, h

(* What a search selects of the rows S sorted by a distance C: the nearest *)
(* of the first most, by another distance E when there is a second pass.   *)
Selects(w, S, C, D, most, top, passes) ==
    /\ w \in Seq(S) /\ IsInjective(w) /\ Len(w) = Smaller(top, Cardinality(S))
    /\ \A k, l \in 1 .. Len(w) : k < l => D[w[k]] <= D[w[l]]
    /\ \A i \in Range(w) : AheadOf(S, C, i) < most
    /\ \A i \in S \ Range(w) :
          \/ \A k \in 1 .. Len(w) : D[w[k]] <= D[i]
          \/ passes = 2 /\ NotBehind(S, C, i) >= most

Passes(passes, short, sel, r, S, C, E, D, most, top) ==
    /\ \A i \in S : C[i] \in Int /\ E[i] \in Int
    /\ r \in Seq(S) /\ IsInjective(r) /\ Range(r) = S
    /\ \A i, j \in 1 .. Len(r) : i < j => C[r[i]] <= C[r[j]]
    /\ most \in Nat /\ top \in Nat /\ top <= most /\ short = FirstOf(Marked(C, r), most)
    /\ \/ passes = 1 /\ D = C /\ sel = short
       \/ passes = 2 /\ D = E /\ sel = ByDistance(Rescored(E, short))

LEMMA SelectedIs ==
  ASSUME NEW passes, NEW short, NEW sel, NEW r, NEW S, NEW C, NEW E, NEW D, NEW most, NEW top,
         Passes(passes, short, sel, r, S, C, E, D, most, top)
  PROVE  \E w : Selects(w, S, C, D, most, top, passes) /\ FirstOf(sel, top) = Marked(D, w)
<1>0. /\ \A i \in S : C[i] \in Int /\ E[i] \in Int /\ D[i] \in Int
      /\ r \in Seq(S) /\ IsInjective(r) /\ Range(r) = S
      /\ \A i, j \in 1 .. Len(r) : i < j => C[r[i]] <= C[r[j]]
      /\ most \in Nat /\ top \in Nat /\ top <= most /\ short = FirstOf(Marked(C, r), most)
      /\ passes = 1 \/ passes = 2
      /\ passes = 1 => D = C /\ sel = short
      /\ passes = 2 => D = E /\ sel = ByDistance(Rescored(E, short))
  BY DEF Passes
<1> DEFINE n == Len(r)
           exact == Rescored(E, short)
           a == FirstOf(r, most)
           m1 == Len(a)
<1>1. n \in Nat /\ DOMAIN r = 1 .. n /\ n = Cardinality(S) /\ \A i \in S : \E k \in 1 .. n : i = r[k]
  <2>1. n \in Nat /\ DOMAIN r = 1 .. n
    OBVIOUS
  <2>2. Cardinality(Range(r)) = n
    BY <1>0, LengthIs
  <2> HIDE DEF n
  <2> QED
    BY <1>0, <2>1, <2>2 DEF Range
<1>2. /\ a \in Seq(S) /\ IsInjective(a) /\ DOMAIN a = 1 .. m1 /\ m1 \in Nat /\ m1 = Smaller(most, n)
      /\ \A k \in 1 .. m1 : a[k] = r[k] /\ k \in 1 .. n
  BY <1>0, FirstAt, FirstOfIs
<1>3. short = Marked(C, a)
  BY <1>0, MarkedFirst
<1> HIDE DEF a, n, m1
<1>4. exact = Marked(E, a)
  <2>1. DOMAIN short = DOMAIN a /\ \A k \in DOMAIN a : short[k].row = a[k]
    BY <1>3 DEF Marked
  <2>2. \A k \in DOMAIN a : [short[k] EXCEPT !.d = E[a[k]]] = [row |-> a[k], d |-> E[a[k]]]
    BY <1>3 DEF Marked
  <2> QED
    BY <2>1, <2>2 DEF Marked, Rescored
<1>5. \A i \in S : D[i] \in Int
  BY <1>0
<1>6. \A i, j \in 1 .. m1 : i < j => C[a[i]] <= C[a[j]]
  BY <1>0, <1>2 DEF n
<1>7. PICK o \in Seq(S) :
         /\ IsInjective(o) /\ Range(o) = Range(a) /\ Len(o) = m1 /\ sel = Marked(D, o)
         /\ \A i, j \in 1 .. Len(o) : i < j => D[o[i]] <= D[o[j]]
  <2>1. CASE passes = 2
    <3>1. \A i \in S : E[i] \in Int
      BY <1>0
    <3>2. a \in Seq(S) /\ IsInjective(a)
      BY <1>2
    <3>3. \E o \in Seq(S) :
            /\ IsInjective(o) /\ Range(o) = Range(a) /\ Len(o) = Len(a)
            /\ ByDistance(Marked(E, a)) = Marked(E, o)
            /\ \A i, j \in 1 .. Len(o) : i < j => E[o[i]] <= E[o[j]]
      BY <3>1, <3>2, MarkedIs
    <3> QED
      BY <2>1, <3>3, <1>0, <1>4, Zenon DEF m1
  <2>2. CASE passes = 1
    BY <1>0, <2>2, <1>2, <1>3, <1>6 DEF m1
  <2> QED
    BY <1>0, <2>1, <2>2
<1> DEFINE w == FirstOf(o, top)
           found == FirstOf(sel, top)
<1>8. /\ w \in Seq(S) /\ IsInjective(w) /\ DOMAIN w = 1 .. Len(w) /\ Len(w) \in Nat
      /\ Len(w) = Smaller(top, m1) /\ \A k \in 1 .. Len(w) : w[k] = o[k] /\ k \in 1 .. m1
  BY <1>0, <1>7, FirstAt, FirstOfIs
<1>9. found = Marked(D, w)
  BY <1>0, <1>7, MarkedFirst
<1> HIDE DEF w, found
<1>10. Len(w) = Smaller(top, Cardinality(S))
  BY <1>0, <1>1, <1>2, <1>8 DEF Smaller
<1>11. \A k, l \in 1 .. Len(w) : k < l => D[w[k]] <= D[w[l]]
  BY <1>7, <1>8
<1>12. DOMAIN o = 1 .. m1 /\ \A k \in 1 .. m1 : o[k] \in S /\ D[o[k]] \in Int
  BY <1>5, <1>7
<1>13. ASSUME NEW p \in 1 .. n
       PROVE  /\ p <= most => AheadOf(S, C, r[p]) < most
              /\ p > most => NotBehind(S, C, r[p]) >= most
  <2>1. p \in 1 .. Len(r) /\ \A i \in S : C[i] \in Int
    BY <1>0 DEF n
  <2> QED
    BY <1>0, <2>1, CutIs
<1>14. ASSUME NEW i \in Range(w) PROVE AheadOf(S, C, i) < most
  <2>1. PICK k \in 1 .. Len(w) : i = w[k]
    BY <1>8, <1>14 DEF Range
  <2>2. i \in Range(a)
    BY <2>1, <1>7, <1>8, <1>12 DEF Range
  <2>3. PICK p \in 1 .. m1 : i = r[p]
    BY <2>2, <1>2 DEF Range
  <2>4. p \in 1 .. n /\ p <= most
    BY <1>1, <1>2, <2>3 DEF Smaller
  <2> QED
    BY <2>3, <2>4, <1>13
<1>15. ASSUME NEW i \in S \ Range(w)
       PROVE  \/ \A k \in 1 .. Len(w) : D[w[k]] <= D[i]
              \/ passes = 2 /\ NotBehind(S, C, i) >= most
  <2>1. PICK p \in 1 .. n : i = r[p]
    BY <1>1
  <2>2. CASE i \in Range(o)
    <3>1. PICK l \in 1 .. m1 : i = o[l]
      BY <2>2, <1>12 DEF Range
    <3>2. \A k \in 1 .. Len(w) : k < l
      <4> SUFFICES ASSUME NEW k \in 1 .. Len(w), ~ (k < l) PROVE FALSE
        OBVIOUS
      <4>1. l \in 1 .. Len(w)
        BY <3>1, <1>2, <1>8
      <4> QED
        BY <4>1, <3>1, <1>8, <1>15 DEF Range
    <3>3. \A k \in 1 .. Len(w) : D[o[k]] <= D[o[l]]
      BY <3>2, <1>7, <1>8
    <3> QED
      BY <3>1, <3>3, <1>8
  <2>3. CASE i \notin Range(o)
    <3>1. p > m1
      <4> SUFFICES ASSUME ~ (p > m1) PROVE FALSE
        OBVIOUS
      <4>1. p \in 1 .. m1
        BY <1>1, <1>2
      <4> QED
        BY <4>1, <2>1, <2>3, <1>2, <1>7 DEF Range
    <3>2. p > most /\ m1 = most
      BY <3>1, <1>1, <1>2 DEF Smaller
    <3>3. CASE passes = 2
      BY <3>2, <3>3, <2>1, <1>13
    <3>4. CASE passes = 1
      <4>1. \A k \in 1 .. Len(w) : k \in 1 .. n /\ k < p
        BY <3>1, <1>1, <1>2, <1>8
      <4>2. \A k \in 1 .. Len(w) : C[r[k]] <= C[r[p]]
        BY <1>0, <4>1 DEF n
      <4>3. D = C /\ sel = short
        BY <1>0, <3>4
      <4>4. \A k \in 1 .. Len(w) : w[k] = r[k]
        <5> SUFFICES ASSUME NEW k \in 1 .. Len(w) PROVE w[k] = r[k]
          OBVIOUS
        <5>1. w[k] = o[k] /\ a[k] = r[k] /\ k \in 1 .. m1
          BY <1>2, <1>8
        <5>2. Marked(C, a) = Marked(C, o)
          BY <4>3, <1>3, <1>7
        <5>3. Marked(C, a)[k].row = a[k] /\ Marked(C, o)[k].row = o[k]
          BY <5>1, <1>2, <1>12 DEF Marked
        <5> QED
          BY <5>1, <5>2, <5>3
      <4> QED
        BY <4>2, <4>3, <4>4, <2>1
    <3> QED
      BY <1>0, <3>3, <3>4
  <2> QED
    BY <2>2, <2>3
<1> QED
  BY <1>8, <1>9, <1>10, <1>11, <1>14, <1>15 DEF found, Selects

(* The distances of an index's rows to a query: by their codes, and theirs.*)
ByCode(q) == [i \in 1 .. Len(ivf.store) |-> L2(q, Decoded(i))]
ByRow(q)  == DistancesTo(ivf.store, q)

(* Found rows sorted by distance: the rows, in an order, by their codes.   *)
LEMMA RankedIs ==
  ASSUME IvfPqConstants, Fitted(ivf), NEW q \in Rows,
         NEW rows \in SUBSET (1 .. Len(ivf.store)),
         NEW t \in Seq(Hits(q)), IsInjective(t), Range(t) = HitsIn(q, rows)
  PROVE  \E r \in Seq(rows) :
            /\ IsInjective(r) /\ Range(r) = rows /\ ByDistance(t) = Marked(ByCode(q), r)
            /\ \A i, j \in 1 .. Len(r) : i < j => ByCode(q)[r[i]] <= ByCode(q)[r[j]]
<1> DEFINE n == Len(t)
           D == ByCode(q)
           a == [k \in 1 .. n |-> t[k].row]
<1>1. n \in Nat /\ DOMAIN t = 1 .. n /\ t = [k \in 1 .. n |-> t[k]]
  OBVIOUS
<1>2. \A i \in rows : D[i] = L2(q, Decoded(i)) /\ D[i] \in Int
  BY HitsAre DEF ByCode
<1>3. ASSUME NEW k \in 1 .. n PROVE a[k] \in rows /\ t[k] = [row |-> a[k], d |-> D[a[k]]]
  <2>1. t[k] \in HitsIn(q, rows)
    BY <1>1 DEF Range
  <2>2. PICK i \in rows : t[k] = Hit(q, i)
    BY <2>1 DEF HitsIn
  <2> QED
    BY <2>2, <1>2 DEF Hit
<1>4. \A i \in rows : \E k \in 1 .. n : a[k] = i
  <2> SUFFICES ASSUME NEW i \in rows PROVE \E k \in 1 .. n : a[k] = i
    OBVIOUS
  <2>1. Hit(q, i) \in Range(t)
    BY DEF HitsIn
  <2>2. PICK k \in 1 .. n : t[k] = Hit(q, i)
    BY <2>1, <1>1 DEF Range
  <2> QED
    BY <2>2 DEF Hit
<1>5. DOMAIN a = 1 .. n
  OBVIOUS
<1>6. a \in Seq(rows)
  <2>1. a \in [1 .. n -> rows]
    BY <1>3
  <2> QED
    BY <2>1, <1>1
<1> HIDE DEF a, n, D
<1>7. IsInjective(a)
  BY <1>1, <1>3, <1>5 DEF IsInjective
<1>8. Range(a) = rows
  BY <1>3, <1>4, <1>5 DEF Range
<1>9. t = Marked(D, a)
  BY <1>1, <1>3, <1>5 DEF Marked
<1>10. \E o \in Seq(rows) :
            /\ IsInjective(o) /\ Range(o) = Range(a) /\ Len(o) = Len(a)
            /\ ByDistance(Marked(D, a)) = Marked(D, o)
            /\ \A i, j \in 1 .. Len(o) : i < j => D[o[i]] <= D[o[j]]
  BY <1>2, <1>6, <1>7, MarkedIs
<1> QED
  BY <1>8, <1>9, <1>10 DEF D

(* A search returns the nearest rows of the nearest lists, as they are told*)
(* apart, and misses a nearer one only past the cut of the shortlist.      *)
LEMMA FittedSearchExact ==
  ASSUME IvfPqConstants, Fitted(ivf)
  PROVE  SearchExact
<1> SUFFICES ASSUME ivf.store # <<>>, NEW q \in Rows, NEW top_k \in 1 .. 2, NEW rerank \in BOOLEAN
    PROVE  LET d == DistancesTo(ivf.centroids, q)
               Near(c) == Cardinality({e \in DOMAIN d : Before(d, e, c)}) < NProbe
               rows == UNION {Range(ivf.lists[c]) : c \in {c \in DOMAIN d : Near(c)}}
               most == Greater(ShortFactor * top_k, ShortMin)
               Code(i) == L2(q, Decoded(i))
               Dist(i) == IF rerank THEN L2(q, ivf.store[i]) ELSE Code(i)
               found == Search(q, top_k, rerank)
               got == {found[k].row : k \in DOMAIN found}
           IN  /\ Len(found) = Smaller(top_k, Cardinality(rows))
               /\ got \subseteq rows /\ Cardinality(got) = Len(found)
               /\ \A k \in DOMAIN found : found[k].d = Dist(found[k].row)
               /\ \A k, l \in DOMAIN found : k < l => found[k].d <= found[l].d
               /\ \A i \in got : Cardinality({j \in rows : Code(j) < Code(i)}) < most
               /\ \A i \in rows \ got :
                     \/ \A k \in DOMAIN found : found[k].d <= Dist(i)
                     \/ rerank /\ Cardinality({j \in rows \ {i} : Code(j) <= Code(i)}) >= most
  BY Zenon DEF SearchExact
<1> DEFINE d == DistancesTo(ivf.centroids, q)
           Near(c) == Cardinality({e \in DOMAIN d : Before(d, e, c)}) < NProbe
           rows == UNION {Range(ivf.lists[c]) : c \in {c \in DOMAIN d : Near(c)}}
           most == Greater(ShortFactor * top_k, ShortMin)
           Code(i) == L2(q, Decoded(i))
           Dist(i) == IF rerank THEN L2(q, ivf.store[i]) ELSE Code(i)
           found == Search(q, top_k, rerank)
           got == {found[k].row : k \in DOMAIN found}
           n == Len(ivf.centroids)
           C == 1 .. n
           V == Vec(Dim)
           H == Hits(q)
           p == Probed(q)
           t == FoldLeft(LAMBDA s, c : s \o ScoredIn(q, c), <<>>, Probed(q))
           short == FirstOf(ByDistance(t), most)
           exact == [k \in DOMAIN short |->
                       [short[k] EXCEPT !.d = L2(q, ivf.store[short[k].row])]]
<1>1. /\ ivf.store \in Seq(Rows) /\ ivf.centroids \in Seq(V) /\ ivf.centroids # <<>>
      /\ \A c \in C : Listed(ivf, c)
  BY DEF Fitted
<1>2. Rows \subseteq V /\ Dim \in Nat /\ NProbe \in Nat
  BY RowsAre DEF IvfPqConstants
<1>3. /\ n \in Nat /\ DOMAIN ivf.centroids = C /\ DOMAIN d = C
      /\ \A c \in C : c \in Int /\ d[c] \in Int
  <2>1. n \in Nat /\ DOMAIN ivf.centroids = C /\ \A c \in C : c \in Int /\ ivf.centroids[c] \in V
    BY <1>1
  <2>2. \A c \in C : L2(q, ivf.centroids[c]) \in Int
    <3> TAKE c \in C
    <3>1. ivf.centroids[c] \in V /\ q \in V
      BY <2>1, <1>2
    <3>2. L2(q, ivf.centroids[c]) \in Nat
      BY <3>1, <1>2, L2Is
    <3> QED
      BY <3>2
  <2>3. DOMAIN d = C /\ \A c \in C : d[c] = L2(q, ivf.centroids[c])
    BY <2>1 DEF DistancesTo
  <2> QED
    BY <2>1, <2>2, <2>3
<1> HIDE DEF d, n, V, H, p, t, most, short, exact, found, got
<1>4. /\ p \in Seq(C) /\ IsInjective(p) /\ Range(p) = {c \in DOMAIN d : Near(c)}
  <2>1. Measured(d, 1 .. n)
    BY <1>3 DEF Measured
  <2>2. p = FirstOf(Sorted(d, UpTo(n)), NProbe)
    BY DEF p, Probed, d, n
  <2>3. n \in Nat /\ NProbe \in Nat
    BY <1>2, <1>3
  <2>4. /\ p \in Seq(1 .. n) /\ IsInjective(p)
        /\ \A c : c \in Range(p) <=> c \in 1 .. n /\ Cardinality(Preceding(d, n, c)) < NProbe
    BY <2>1, <2>2, <2>3, FirstsAre
  <2>5. \A c \in C : Near(c) <=> Cardinality(Preceding(d, n, c)) < NProbe
    BY <1>3 DEF Preceding
  <2> HIDE DEF Near
  <2>6. Range(p) = {c \in DOMAIN d : Near(c)}
    BY <2>4, <2>5, <1>3
  <2> QED
    BY <2>4, <2>6
<1> HIDE DEF C, Near
<1>5. rows = UNION {Range(ivf.lists[c]) : c \in Range(p)}
  BY <1>4, Zenon
<1>6. rows \in SUBSET (1 .. Len(ivf.store))
  <2>1. \A c \in C : Range(ivf.lists[c]) \subseteq 1 .. Len(ivf.store)
    BY <1>1 DEF Listed
  <2>2. \A c \in Range(p) : c \in C
    BY <1>4 DEF Range
  <2> QED
    BY <2>1, <2>2, <1>5
<1>7. t \in Seq(H) /\ IsInjective(t) /\ Range(t) = HitsIn(q, rows)
  <2>1. p \in Seq(1 .. Len(ivf.centroids)) /\ IsInjective(p)
    BY <1>4 DEF C, n
  <2>2. LET s == FoldLeft(LAMBDA s, c : s \o ScoredIn(q, c), <<>>, p) IN
        /\ s \in Seq(Hits(q)) /\ IsInjective(s)
        /\ Range(s) = HitsIn(q, UNION {Range(ivf.lists[c]) : c \in Range(p)})
    BY <2>1, AllHits
  <2> HIDE DEF rows
  <2> QED
    BY <2>2, <1>5 DEF t, H, p
<1> HIDE DEF rows
<1>8. PICK r \in Seq(rows) :
         /\ IsInjective(r) /\ Range(r) = rows /\ ByDistance(t) = Marked(ByCode(q), r)
         /\ \A i, j \in 1 .. Len(r) : i < j => ByCode(q)[r[i]] <= ByCode(q)[r[j]]
  <2>1. t \in Seq(Hits(q))
    BY <1>7 DEF H
  <2> QED
    BY <2>1, <1>6, <1>7, RankedIs
<1>9. most \in Nat /\ top_k \in Nat /\ top_k <= most
  <2>1. ShortFactor \in Nat \ {0} /\ ShortMin \in Nat \ {0}
    BY DEF IvfPqConstants
  <2>2. top_k = 1 \/ top_k = 2
    OBVIOUS
  <2>3. ShortFactor * top_k \in Nat /\ ShortFactor * top_k >= top_k
    BY <2>1, <2>2
  <2> QED
    BY <2>1, <2>3 DEF most, Greater
<1>10. \A i \in rows : /\ ByCode(q)[i] = Code(i) /\ ByRow(q)[i] = L2(q, ivf.store[i])
                       /\ ByCode(q)[i] \in Int /\ ByRow(q)[i] \in Int
  <2>1. DOMAIN ivf.store = 1 .. Len(ivf.store)
    BY <1>1
  <2> QED
    BY <2>1, <1>6, HitsAre DEF ByCode, ByRow, DistancesTo
<1> DEFINE passes == IF rerank THEN 2 ELSE 1
           D == IF rerank THEN ByRow(q) ELSE ByCode(q)
           marked == FirstOf(Marked(ByCode(q), r), most)
           other == Rescored(ByRow(q), marked)
           sel == IF rerank THEN ByDistance(other) ELSE marked
<1>11. PICK w : /\ Selects(w, rows, ByCode(q), D, most, top_k, passes)
                /\ FirstOf(sel, top_k) = Marked(D, w)
  <2>1. \A i \in rows : ByCode(q)[i] \in Int /\ ByRow(q)[i] \in Int
    BY <1>10
  <2>2. /\ passes \in {1, 2} /\ marked = FirstOf(Marked(ByCode(q), r), most)
        /\ passes = 1 => D = ByCode(q) /\ sel = marked
        /\ passes = 2 => D = ByRow(q) /\ sel = ByDistance(Rescored(ByRow(q), marked))
    OBVIOUS
  <2> HIDE DEF passes, D, sel, marked
  <2>3. Passes(passes, marked, sel, r, rows, ByCode(q), ByRow(q), D, most, top_k)
    BY <2>1, <2>2, <1>8, <1>9 DEF Passes
  <2> QED
    BY <2>3, SelectedIs
<1>12. marked = short
  BY <1>8 DEF short
<1>13. exact = other
  <2>1. \A k \in DOMAIN marked : marked[k].row \in rows
    <3>1. marked = Marked(ByCode(q), FirstOf(r, most))
      BY <1>8, <1>9, MarkedFirst
    <3>2. FirstOf(r, most) \in Seq(rows)
      BY <1>8, <1>9, FirstOfIs
    <3> QED
      BY <3>1, <3>2 DEF Marked
  <2>2. \A k \in DOMAIN marked : ByRow(q)[marked[k].row] = L2(q, ivf.store[marked[k].row])
    BY <2>1, <1>10
  <2> HIDE DEF marked
  <2> QED
    BY <2>2, <1>12 DEF exact, Rescored
<1>14. found = Marked(D, w)
  <2>1. found = FirstOf(IF rerank THEN ByDistance(exact) ELSE short, top_k)
    BY <1>1, Zenon DEF found, Search, Shortlist, exact, short, t, most
  <2> HIDE DEF other, marked, D
  <2> QED
    BY <2>1, <1>11, <1>12, <1>13
<1> HIDE DEF other, marked, sel
<1>15. /\ w \in Seq(rows) /\ IsInjective(w) /\ Len(w) = Smaller(top_k, Cardinality(rows))
       /\ \A k, l \in 1 .. Len(w) : k < l => D[w[k]] <= D[w[l]]
       /\ \A i \in Range(w) : AheadOf(rows, ByCode(q), i) < most
       /\ \A i \in rows \ Range(w) :
             \/ \A k \in 1 .. Len(w) : D[w[k]] <= D[i]
             \/ rerank /\ NotBehind(rows, ByCode(q), i) >= most
  BY <1>11 DEF Selects
<1>16. DOMAIN w = 1 .. Len(w) /\ Len(w) \in Nat /\ \A k \in 1 .. Len(w) : w[k] \in rows
  BY <1>15
<1>17. ASSUME NEW i \in rows PROVE D[i] = Dist(i)
  BY <1>10
<1> HIDE DEF D
<1>18. /\ DOMAIN found = 1 .. Len(w) /\ Len(found) = Len(w)
       /\ \A k \in 1 .. Len(w) : found[k].row = w[k] /\ found[k].d = D[w[k]]
  BY <1>14, <1>16 DEF Marked
<1>19. got = Range(w)
  BY <1>16, <1>18 DEF got, Range
<1>20. got \subseteq rows /\ Cardinality(got) = Len(found)
  <2>1. Cardinality(Range(w)) = Len(w)
    BY <1>15, LengthIs
  <2> QED
    BY <2>1, <1>16, <1>18, <1>19 DEF Range
<1>21. \A k \in DOMAIN found : found[k].d = Dist(found[k].row)
  BY <1>16, <1>17, <1>18
<1>22. \A k, l \in DOMAIN found : k < l => found[k].d <= found[l].d
  BY <1>15, <1>18
<1>23. ASSUME NEW i \in got PROVE Cardinality({j \in rows : Code(j) < Code(i)}) < most
  <2>1. {j \in rows : Code(j) < Code(i)} = {j \in rows : ByCode(q)[j] < ByCode(q)[i]}
    BY <1>10, <1>20
  <2> QED
    BY <2>1, <1>15, <1>19 DEF AheadOf
<1>24. ASSUME NEW i \in rows \ got
       PROVE  \/ \A k \in DOMAIN found : found[k].d <= Dist(i)
              \/ rerank /\ Cardinality({j \in rows \ {i} : Code(j) <= Code(i)}) >= most
  <2>1. {j \in rows \ {i} : Code(j) <= Code(i)} = {j \in rows \ {i} : ByCode(q)[j] <= ByCode(q)[i]}
    BY <1>10
  <2>2. i \in rows \ Range(w) /\ D[i] = Dist(i)
    BY <1>17, <1>19
  <2> HIDE DEF Code, Dist
  <2> QED
    BY <2>1, <2>2, <1>15, <1>18 DEF NotBehind
<1> HIDE DEF Code, Dist
<1> QED
  BY <1>15, <1>18, <1>20, <1>21, <1>22, <1>23, <1>24 DEF found, got, rows, Near, d, most, Code, Dist

=============================================================================
