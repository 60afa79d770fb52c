---------------------------- MODULE SearchProofs ----------------------------
(***************************************************************************)
(* What the indexes compute with Candidates, for any distances: the orders *)
(* of rows and nodes, and the two walks; then what the layered indexes keep*)
(* through an insertion, with any levels. Induction is over a set of       *)
(* numbers, and a fold or a recursive function is first shown to exist.    *)
(***************************************************************************)
EXTENDS LayeredGraph, FiniteSetTheorems, SequenceTheorems, WellFoundedInduction, TLAPS

-----------------------------------------------------------------------------
(* Induction, recursion and folds.                                         *)

(* Induction up to a bound, over a set.                                    *)
LEMMA Induct ==
  ASSUME NEW n \in Nat, NEW S, 0 \in S, \A k \in 1 .. n : k - 1 \in S => k \in S
  PROVE  \A k \in 0 .. n : k \in S
<1> DEFINE Out == {k \in 0 .. n : k \notin S}
<1> SUFFICES ASSUME Out # {} PROVE FALSE
  OBVIOUS
<1>1. PICK k \in Out : \A j \in Out : <<j, k>> \notin OpToRel(<, Nat)
  <2>1. Out \subseteq Nat
    OBVIOUS
  <2> HIDE DEF Out
  <2> QED
    BY <2>1, WFMin, NatLessThanWellFounded
<1>2. k \in 1 .. n /\ k - 1 \in 0 .. n
  OBVIOUS
<1>3. <<k - 1, k>> \in OpToRel(<, Nat)
  BY <1>2 DEF OpToRel
<1> QED
  BY <1>1, <1>2, <1>3

(* The numbers up to k have a greatest, k.                                 *)
LEMMA MaxUpTo ==
  ASSUME NEW k \in Nat \ {0}
  PROVE  1 .. k # {} /\ Max(1 .. k) = k /\ (1 .. k) \ {k} = 1 .. k - 1
<1>1. \A x \in 1 .. k : (\A y \in 1 .. k : x >= y) => x = k
  OBVIOUS
<1>2. k \in 1 .. k /\ \A y \in 1 .. k : k >= y
  OBVIOUS
<1>3. Max(1 .. k) = k
  BY <1>1, <1>2 DEF Max
<1>4. (1 .. k) \ {k} = 1 .. k - 1
  OBVIOUS
<1> QED
  BY <1>2, <1>3, <1>4

(* A set of numbers that is not empty has a least, and below a bound a     *)
(* greatest element.                                                       *)
LEMMA Extremes ==
  ASSUME NEW n \in Nat, NEW S \in SUBSET (0 .. n), S # {}
  PROVE  /\ Min(S) \in S /\ \A y \in S : Min(S) <= y
         /\ Max(S) \in S /\ \A y \in S : Max(S) >= y
<1>1. ASSUME NEW T \in SUBSET Nat, T # {}
      PROVE  \E x \in T : \A y \in T : x <= y
  <2>1. PICK x \in T : \A y \in T : <<y, x>> \notin OpToRel(<, Nat)
    BY <1>1, WFMin, NatLessThanWellFounded
  <2>2. \A y \in T : ~(y < x)
    BY <2>1 DEF OpToRel
  <2> QED
    BY <2>2
<1>2. \E x \in S : \A y \in S : x <= y
  BY <1>1
<1>3. \E x \in S : \A y \in S : x >= y
  <2> DEFINE T == {n - y : y \in S}
  <2>1. T \in SUBSET Nat /\ T # {}
    <3>1. \A y \in S : n - y \in Nat
      OBVIOUS
    <3>2. PICK y \in S : TRUE
      OBVIOUS
    <3>3. n - y \in T
      OBVIOUS
    <3> QED
      BY <3>1, <3>3
  <2>2. PICK x \in T : \A y \in T : x <= y
    <3> HIDE DEF T
    <3> QED
      BY <2>1, <1>1
  <2>3. PICK z \in S : x = n - z
    OBVIOUS
  <2>4. \A y \in S : n - y \in T
    OBVIOUS
  <2> HIDE DEF T
  <2> QED
    BY <2>2, <2>3, <2>4
<1> QED
  BY <1>2, <1>3 DEF Min, Max

(* A recursion over the subsets of 1 .. n that takes the greatest out, as a*)
(* fold does, has a solution. G[<<k, u>>] is what it makes of u at k.      *)
Solves(f, n, V, b, G) ==
    /\ f = [s \in SUBSET (1 .. n) |-> f[s]]
    /\ f[{}] = b
    /\ \A s \in SUBSET (1 .. n) : s # {} =>
          /\ Max(s) \in 1 .. n /\ f[s \ {Max(s)}] \in V
          /\ f[s] = G[<<Max(s), f[s \ {Max(s)}]>>]

LEMMA FoldExists ==
  ASSUME NEW n \in Nat, NEW V, NEW b \in V, NEW G \in [(1 .. n) \X V -> V]
  PROVE  \E f : Solves(f, n, V, b, G)
<1> DEFINE D == SUBSET (1 .. n)
           Low(k) == {s \in D : s \subseteq 1 .. k}
           Meets(f, k) == \A s \in Low(k) :
                             f[s] = IF s = {} THEN b ELSE G[<<Max(s), f[s \ {Max(s)}]>>]
           Done == {k \in 0 .. n : \E f \in [D -> V] : Meets(f, k)}
<1>0. ASSUME NEW s \in D, s # {}
      PROVE  /\ Max(s) \in s /\ \A y \in s : Max(s) >= y
             /\ s \ {Max(s)} \in D
  <2>1. s \in SUBSET (0 .. n)
    OBVIOUS
  <2>2. Max(s) \in s /\ \A y \in s : Max(s) >= y
    BY <1>0, <2>1, Extremes
  <2>3. s \ {Max(s)} \in D
    OBVIOUS
  <2> QED
    BY <2>2, <2>3
<1>1. 0 \in Done
  <2>1. Low(0) = {{}}
    OBVIOUS
  <2> DEFINE f == [s \in D |-> b]
  <2>2. f \in [D -> V] /\ Meets(f, 0)
    BY <2>1
  <2>3. 0 \in 0 .. n
    OBVIOUS
  <2> HIDE DEF f, Meets
  <2> QED
    BY <2>2, <2>3
<1>2. ASSUME NEW k \in 1 .. n, k - 1 \in Done
      PROVE  k \in Done
  <2>1. PICK f \in [D -> V] : Meets(f, k - 1)
    BY <1>2
  <2> DEFINE h == [s \in D |-> IF s = {} THEN b ELSE G[<<Max(s), f[s \ {Max(s)}]>>]]
  <2>2. h \in [D -> V]
    <3>1. ASSUME NEW s \in D, s # {}
          PROVE  G[<<Max(s), f[s \ {Max(s)}]>>] \in V
      BY <3>1, <1>0
    <3> HIDE DEF D
    <3> QED
      BY <3>1
  <2>3. \A s \in Low(k - 1) : h[s] = f[s]
    BY <2>1
  <2>4. ASSUME NEW s \in Low(k), s # {}
        PROVE  s \ {Max(s)} \in Low(k - 1)
    <3>1. Max(s) \in 1 .. k /\ \A y \in s : y \in 1 .. k /\ Max(s) >= y
      BY <2>4, <1>0
    <3>2. \A y \in s \ {Max(s)} : y \in 1 .. k - 1
      BY <3>1
    <3>3. s \ {Max(s)} \in D
      BY <2>4, <1>0
    <3> QED
      BY <3>2, <3>3
  <2>5. ASSUME NEW s \in Low(k), s # {}
        PROVE  h[s] = G[<<Max(s), h[s \ {Max(s)}]>>]
    BY <2>3, <2>4, <2>5
  <2>6. Meets(h, k)
    BY <2>5
  <2> HIDE DEF h, Meets
  <2> QED
    BY <2>2, <2>6
<1>3. n \in Done
  <2> HIDE DEF Done
  <2> QED
    BY <1>1, <1>2, Induct
<1>4. PICK f \in [D -> V] : Meets(f, n)
  BY <1>3
<1>5. Low(n) = D
  OBVIOUS
<1>6. \A s \in D : f[s] = IF s = {} THEN b ELSE G[<<Max(s), f[s \ {Max(s)}]>>]
  BY <1>4, <1>5
<1> HIDE DEF D
<1>7. \A s \in D : s # {} => /\ Max(s) \in 1 .. n /\ f[s \ {Max(s)}] \in V
                             /\ f[s] = G[<<Max(s), f[s \ {Max(s)}]>>]
  BY <1>0, <1>6 DEF D
<1>8. f[{}] = b /\ f = [s \in D |-> f[s]]
  BY <1>6 DEF D
<1> QED
  BY <1>7, <1>8 DEF D, Solves

(* The same where what the recursion makes of a set is in a set of its own,*)
(* V[s]: an invariant of a fold may depend on what the fold has been       *)
(* through.                                                                *)
Solution(f, n, V, b, G) ==
    /\ f = [s \in SUBSET (1 .. n) |-> f[s]]
    /\ f[{}] = b
    /\ \A s \in SUBSET (1 .. n) : s # {} =>
          /\ Max(s) \in 1 .. n /\ f[s \ {Max(s)}] \in V[s \ {Max(s)}]
          /\ f[s] = G[<<Max(s), f[s \ {Max(s)}]>>]

LEMMA Lasts ==
  ASSUME NEW n \in Nat, NEW s \in SUBSET (1 .. n), s # {}
  PROVE  /\ Max(s) \in s /\ Max(s) \in 1 .. n /\ \A y \in s : Max(s) >= y
         /\ s \ {Max(s)} \in SUBSET (1 .. n)
<1>1. s \in SUBSET (0 .. n)
  OBVIOUS
<1>2. Max(s) \in s /\ \A y \in s : Max(s) >= y
  BY <1>1, Extremes
<1> QED
  BY <1>2

LEMMA FamilyExists ==
  ASSUME NEW n \in Nat, NEW V, NEW b \in V[{}], NEW G,
         \A s \in SUBSET (1 .. n) : s # {} =>
            \A u \in V[s \ {Max(s)}] : G[<<Max(s), u>>] \in V[s]
  PROVE  \E f : Solution(f, n, V, b, G)
<1> DEFINE D == SUBSET (1 .. n)
           Low(k) == {s \in D : s \subseteq 1 .. k}
           Step(f, s) == IF s = {} THEN b ELSE G[<<Max(s), f[s \ {Max(s)}]>>]
           Meets(f, k) == \A s \in Low(k) : f[s] \in V[s] /\ f[s] = Step(f, s)
           Done == {k \in 0 .. n : \E f : Meets(f, k)}
<1>0. ASSUME NEW k \in 1 .. n, NEW s \in Low(k), s # {}
      PROVE  s \ {Max(s)} \in Low(k - 1)
  <2>1. Max(s) \in 1 .. k /\ \A y \in s : y \in 1 .. k /\ Max(s) >= y
    BY <1>0, Lasts
  <2>2. \A y \in s \ {Max(s)} : y \in 1 .. k - 1
    BY <2>1
  <2>3. s \ {Max(s)} \in D
    OBVIOUS
  <2> QED
    BY <2>2, <2>3
<1>1. 0 \in Done
  <2>1. Low(0) = {{}} /\ {} \in D
    OBVIOUS
  <2> DEFINE f == [s \in D |-> b]
  <2>2. Meets(f, 0)
    BY <2>1
  <2>3. 0 \in 0 .. n
    OBVIOUS
  <2> HIDE DEF f, Meets
  <2> QED
    BY <2>2, <2>3
<1>2. ASSUME NEW k \in 1 .. n, k - 1 \in Done
      PROVE  k \in Done
  <2>1. PICK f : Meets(f, k - 1)
    BY <1>2
  <2> DEFINE h == [s \in D |-> Step(f, s)]
  <2>2. \A s \in Low(k - 1) : h[s] = f[s]
    BY <2>1
  <2>3. ASSUME NEW s \in Low(k) PROVE h[s] \in V[s] /\ h[s] = Step(h, s)
    <3>1. CASE s = {}
      BY <3>1
    <3>2. CASE s # {}
      <4> DEFINE r == s \ {Max(s)}
      <4>1. r \in Low(k - 1)
        BY <3>2, <1>0
      <4> HIDE DEF r
      <4>2. h[r] = f[r] /\ f[r] \in V[r]
        BY <4>1, <2>1, <2>2
      <4>3. G[<<Max(s), f[r]>>] \in V[s]
        BY <4>2, <3>2 DEF r
      <4>4. h[s] = G[<<Max(s), f[r]>>]
        BY <3>2 DEF r
      <4> QED
        BY <4>2, <4>3, <4>4, <3>2 DEF r
    <3> QED
      BY <3>1, <3>2
  <2>4. Meets(h, k)
    BY <2>3
  <2> HIDE DEF h, Meets
  <2> QED
    BY <2>4
<1>3. n \in Done
  <2> HIDE DEF Done
  <2> QED
    BY <1>1, <1>2, Induct
<1>4. PICK f : Meets(f, n)
  BY <1>3
<1> DEFINE g == [s \in D |-> f[s]]
<1>5. \A s \in D : g[s] = f[s] /\ f[s] \in V[s] /\ f[s] = Step(f, s)
  <2>1. Low(n) = D
    OBVIOUS
  <2> QED
    BY <2>1, <1>4
<1>6. {} \in D /\ g = [s \in D |-> g[s]]
  OBVIOUS
<1>7. ASSUME NEW s \in D, s # {}
      PROVE  /\ Max(s) \in 1 .. n /\ g[s \ {Max(s)}] \in V[s \ {Max(s)}]
             /\ g[s] = G[<<Max(s), g[s \ {Max(s)}]>>]
  <2>1. Max(s) \in 1 .. n /\ s \ {Max(s)} \in D
    BY <1>7, Lasts
  <2> HIDE DEF g
  <2>2. g[s \ {Max(s)}] = f[s \ {Max(s)}]
    BY <2>1, <1>5
  <2>3. g[s] = G[<<Max(s), f[s \ {Max(s)}]>>]
    BY <1>5, <1>7
  <2> QED
    BY <2>1, <2>2, <2>3, <1>5
<1>8. g[{}] = b
  BY <1>5, <1>6
<1> HIDE DEF g, Step
<1>9. Solution(g, n, V, b, G)
  BY <1>6, <1>7, <1>8 DEF Solution
<1> QED
  BY <1>9

(* What such a recursion ends with.                                        *)
LEMMA FamilyEnds ==
  ASSUME NEW n \in Nat, NEW V, NEW g, g[{}] \in V[{}],
         \A s \in SUBSET (1 .. n) :
            s # {} /\ g[s \ {Max(s)}] \in V[s \ {Max(s)}] => g[s] \in V[s]
  PROVE  g[1 .. n] \in V[1 .. n]
<1> DEFINE S == {k \in 0 .. n : g[1 .. k] \in V[1 .. k]}
<1>1. 0 \in S
  <2>1. 1 .. 0 = {} /\ 0 \in 0 .. n
    OBVIOUS
  <2> QED
    BY <2>1
<1>2. ASSUME NEW k \in 1 .. n, k - 1 \in S PROVE k \in S
  <2>1. 1 .. k # {} /\ Max(1 .. k) = k /\ (1 .. k) \ {k} = 1 .. k - 1
    BY MaxUpTo
  <2>2. 1 .. k \in SUBSET (1 .. n) /\ k \in 0 .. n
    OBVIOUS
  <2>3. g[1 .. k - 1] \in V[1 .. k - 1]
    BY <1>2
  <2>4. g[1 .. k] \in V[1 .. k]
    BY <2>1, <2>2, <2>3
  <2> QED
    BY <2>2, <2>4
<1>3. n \in S
  <2> HIDE DEF S
  <2> QED
    BY <1>1, <1>2, Induct
<1> QED
  BY <1>3

(* A recursive function that ends with where it stopped has a solution,    *)
(* whether it ends or not.                                                 *)
Walks(F, S, Stop, step) == F = [s \in S |-> IF s \in Stop THEN s ELSE F[step[s]]]

LEMMA WalkExists ==
  ASSUME NEW S, NEW Stop, NEW step, \A s \in S \ Stop : step[s] \in S
  PROVE  \E F : Walks(F, S, Stop, step)
<1> DEFINE Closed(C) == \A s \in C \ Stop : step[s] \in C
           Ends(s) == {t \in Stop \cap S : \A C \in SUBSET S : s \in C /\ Closed(C) => t \in C}
           F == [s \in S |-> CHOOSE t : t \in Ends(s)]
<1>1. ASSUME NEW s \in S \cap Stop
      PROVE  Ends(s) = {s}
  <2>1. {s} \in SUBSET S /\ Closed({s})
    OBVIOUS
  <2>2. \A t \in Ends(s) : t = s
    BY <2>1
  <2>3. s \in Ends(s)
    OBVIOUS
  <2> QED
    BY <2>2, <2>3
<1>2. ASSUME NEW s \in S \ Stop
      PROVE  Ends(s) = Ends(step[s])
  <2>0. step[s] \in S
    OBVIOUS
  <2>1. ASSUME NEW t \in Ends(s) PROVE t \in Ends(step[s])
    <3> SUFFICES ASSUME NEW C \in SUBSET S, step[s] \in C, Closed(C) PROVE t \in C
      OBVIOUS
    <3>1. C \cup {s} \in SUBSET S /\ Closed(C \cup {s})
      OBVIOUS
    <3>2. t \in C \cup {s} /\ t \in Stop
      BY <3>1
    <3> QED
      BY <3>2
  <2>2. ASSUME NEW t \in Ends(step[s]) PROVE t \in Ends(s)
    <3> SUFFICES ASSUME NEW C \in SUBSET S, s \in C, Closed(C) PROVE t \in C
      OBVIOUS
    <3>1. step[s] \in C
      OBVIOUS
    <3> QED
      BY <3>1
  <2> HIDE DEF Ends
  <2> QED
    BY <2>1, <2>2
<1>3. ASSUME NEW s \in S PROVE F[s] = IF s \in Stop THEN s ELSE F[step[s]]
  <2> HIDE DEF Ends
  <2>1. CASE s \in Stop
    BY <2>1, <1>1
  <2>2. CASE s \notin Stop
    BY <2>2, <1>2
  <2> QED
    BY <2>1, <2>2
<1>4. F = [s \in S |-> IF s \in Stop THEN s ELSE F[step[s]]]
  <2>1. \A s \in S : F[s] = IF s \in Stop THEN s ELSE F[step[s]]
    BY <1>3
  <2>2. F = [s \in S |-> F[s]]
    OBVIOUS
  <2> HIDE DEF F
  <2> QED
    BY <2>1, <2>2
<1> HIDE DEF F
<1> QED
  BY <1>4 DEF Walks

(* The values a fold has passed, once it is known that its function meets  *)
(* the equation of the fold.                                               *)
Runs(F, n, V, b, G, e) ==
    /\ F \in [0 .. n -> V] /\ F[0] = b /\ F[n] = e
    /\ \A k \in 1 .. n : F[k - 1] \in V /\ F[k] = G[<<k, F[k - 1]>>]

LEMMA FoldRun ==
  ASSUME NEW n \in Nat, NEW V, NEW b \in V, NEW G \in [(1 .. n) \X V -> V], NEW g,
         g[{}] = b, \A k \in 1 .. n : g[1 .. k - 1] \in V => g[1 .. k] = G[<<k, g[1 .. k - 1]>>]
  PROVE  \E F : Runs(F, n, V, b, G, g[1 .. n])
<1> DEFINE F == [k \in 0 .. n |-> g[1 .. k]]
           S == {k \in 0 .. n : g[1 .. k] \in V}
<1>1. 1 .. 0 = {} /\ 0 \in 0 .. n /\ n \in 0 .. n
  OBVIOUS
<1>2. 0 \in S
  BY <1>1, Zenon
<1>3. ASSUME NEW k \in 1 .. n, k - 1 \in S PROVE k \in S
  <2>1. g[1 .. k - 1] \in V /\ k \in 0 .. n
    BY <1>3
  <2>2. g[1 .. k] = G[<<k, g[1 .. k - 1]>>]
    BY <2>1, Zenon
  <2>3. G[<<k, g[1 .. k - 1]>>] \in V
    BY <2>1
  <2> QED
    BY <2>1, <2>2, <2>3, Zenon
<1>4. \A k \in 0 .. n : k \in S
  <2> HIDE DEF S
  <2> QED
    BY <1>2, <1>3, Induct
<1>5. F \in [0 .. n -> V]
  BY <1>4, Zenon
<1>6. F[0] = b /\ F[n] = g[1 .. n]
  BY <1>1, Zenon
<1>7. ASSUME NEW k \in 1 .. n PROVE F[k] = G[<<k, F[k - 1]>>]
  <2>1. k \in 0 .. n /\ k - 1 \in 0 .. n
    OBVIOUS
  <2>2. g[1 .. k - 1] \in V
    BY <2>1, <1>4, Zenon
  <2> QED
    BY <2>1, <2>2, Zenon
<1> HIDE DEF F
<1>8. \A k \in 1 .. n : F[k - 1] \in V
  BY <1>5
<1> QED
  BY <1>5, <1>6, <1>7, <1>8 DEF Runs

-----------------------------------------------------------------------------
(* Orders of finite sets. R is a strict order of N, as a set of pairs.     *)

Ordered(R, N) ==
    /\ \A a \in N : <<a, a>> \notin R
    /\ \A a, b \in N : a = b \/ <<a, b>> \in R \/ <<b, a>> \in R
    /\ \A a, b, c \in N : <<a, b>> \in R /\ <<b, c>> \in R => <<a, c>> \in R

Ahead(R, N, a) == {b \in N : <<b, a>> \in R}

(* What is ahead of a comes before what is ahead of a later element.       *)
LEMMA RankGrows ==
  ASSUME NEW N, IsFiniteSet(N), NEW R, Ordered(R, N), NEW a \in N, NEW b \in N, <<a, b>> \in R
  PROVE  /\ Cardinality(Ahead(R, N, a)) \in Nat
         /\ Cardinality(Ahead(R, N, b)) \in Nat
         /\ Cardinality(Ahead(R, N, a)) < Cardinality(Ahead(R, N, b))
<1>1. Ahead(R, N, a) \subseteq N /\ Ahead(R, N, b) \subseteq N
  BY DEF Ahead
<1>2. IsFiniteSet(Ahead(R, N, a)) /\ IsFiniteSet(Ahead(R, N, b))
  BY <1>1, FS_Subset
<1>3. a \notin Ahead(R, N, a)
  BY DEF Ahead, Ordered
<1>4. Ahead(R, N, a) \cup {a} \subseteq Ahead(R, N, b)
  BY DEF Ahead, Ordered
<1>5. Cardinality(Ahead(R, N, a) \cup {a}) = Cardinality(Ahead(R, N, a)) + 1
  BY <1>2, <1>3, FS_AddElement
<1>6. Cardinality(Ahead(R, N, a) \cup {a}) <= Cardinality(Ahead(R, N, b))
  BY <1>2, <1>4, FS_Subset
<1>7. Cardinality(Ahead(R, N, a)) \in Nat /\ Cardinality(Ahead(R, N, b)) \in Nat
  BY <1>2, FS_CardinalityType
<1> QED
  BY <1>5, <1>6, <1>7

(* Every place in the order is taken, by one element.                      *)
LEMMA Ranks ==
  ASSUME NEW N, IsFiniteSet(N), NEW R, Ordered(R, N)
  PROVE  /\ Cardinality(N) \in Nat
         /\ \A k \in 1 .. Cardinality(N) : \E a \in N : Cardinality(Ahead(R, N, a)) = k - 1
         /\ \A a \in N : Cardinality(Ahead(R, N, a)) \in 0 .. Cardinality(N) - 1
         /\ \A a, b \in N : Cardinality(Ahead(R, N, a)) = Cardinality(Ahead(R, N, b)) => a = b
<1> DEFINE n == Cardinality(N)
           r == [a \in N |-> Cardinality(Ahead(R, N, a))]
           T == 0 .. n - 1
<1>1. n \in Nat
  BY FS_CardinalityType
<1>2. ASSUME NEW a \in N PROVE Cardinality(Ahead(R, N, a)) \in T
  <2>1. Ahead(R, N, a) \subseteq N \ {a}
    BY DEF Ahead, Ordered
  <2>2. IsFiniteSet(N \ {a}) /\ Cardinality(N \ {a}) = n - 1
    BY FS_RemoveElement
  <2>3. /\ Cardinality(Ahead(R, N, a)) \in Nat
        /\ Cardinality(Ahead(R, N, a)) <= n - 1
    BY <2>1, <2>2, FS_Subset, FS_CardinalityType
  <2> QED
    BY <2>3, <1>1
<1>3. ASSUME NEW a \in N, NEW b \in N, r[a] = r[b] PROVE a = b
  <2>1. CASE <<a, b>> \in R
    BY <1>3, <2>1, RankGrows
  <2>2. CASE <<b, a>> \in R
    BY <1>3, <2>2, RankGrows
  <2> QED
    BY <2>1, <2>2 DEF Ordered
<1>4. r \in Injection(N, T)
  BY <1>2, <1>3 DEF Injection, IsInjective
<1>5. IsFiniteSet(T) /\ Cardinality(T) = n
  BY <1>1, FS_Interval
<1>6. r \in Surjection(N, T)
  <2> HIDE DEF T, r, n
  <2> QED
    BY <1>4, <1>5, FS_Injection DEF n
<1>7. \A k \in 1 .. n : \E a \in N : r[a] = k - 1
  <2>1. \A t \in T : \E a \in N : r[a] = t
    BY <1>6 DEF Surjection
  <2>2. \A k \in 1 .. n : k - 1 \in T
    BY <1>1
  <2> HIDE DEF T, r, n
  <2> QED
    BY <2>1, <2>2
<1>8. \A a \in N : r[a] = Cardinality(Ahead(R, N, a))
  OBVIOUS
<1> HIDE DEF r
<1> QED
  BY <1>1, <1>2, <1>3, <1>7, <1>8

(* A part of N that is not empty has a first and a last element.           *)
LEMMA Ends ==
  ASSUME NEW N, IsFiniteSet(N), NEW R, Ordered(R, N), NEW T \in SUBSET N, T # {}
  PROVE  /\ \E a \in T : \A b \in T \ {a} : <<a, b>> \in R
         /\ \E a \in T : \A b \in T \ {a} : <<b, a>> \in R
<1> DEFINE rank(a) == Cardinality(Ahead(R, T, a))
<1>1. IsFiniteSet(T) /\ Ordered(R, T)
  BY FS_Subset DEF Ordered
<1>2. /\ Cardinality(T) \in Nat
      /\ \A k \in 1 .. Cardinality(T) : \E a \in T : rank(a) = k - 1
      /\ \A a \in T : rank(a) \in 0 .. Cardinality(T) - 1
  BY <1>1, Ranks
<1>3. Cardinality(T) # 0
  BY <1>1, FS_EmptySet
<1>4. 1 \in 1 .. Cardinality(T) /\ Cardinality(T) \in 1 .. Cardinality(T)
  BY <1>2, <1>3
<1>5. \A a, b \in T : <<a, b>> \in R => rank(a) < rank(b)
  BY <1>1, RankGrows
<1>6. PICK a \in T : rank(a) = 1 - 1
  BY <1>2, <1>4
<1>7. PICK z \in T : rank(z) = Cardinality(T) - 1
  BY <1>2, <1>4
<1>8. \A b \in T \ {a} : <<a, b>> \in R
  <2> TAKE b \in T \ {a}
  <2>1. ~ (rank(b) < rank(a))
    BY <1>2, <1>6
  <2>2. <<b, a>> \notin R
    BY <2>1, <1>5
  <2> QED
    BY <2>2, <1>1 DEF Ordered
<1>9. \A b \in T \ {z} : <<b, z>> \in R
  <2> TAKE b \in T \ {z}
  <2>1. ~ (rank(z) < rank(b))
    BY <1>2, <1>7
  <2>2. <<z, b>> \notin R
    BY <2>1, <1>5
  <2> QED
    BY <2>2, <1>1 DEF Ordered
<1> QED
  BY <1>8, <1>9

-----------------------------------------------------------------------------
(* The orders of Candidates, for distances that are integers.              *)

Measured(d, N) == N \in SUBSET Int /\ \A a \in N : d[a] \in Int

Nearer(d, N) == {p \in N \X N : Before(d, p[1], p[2])}

LEMMA NearerOrdered ==
  ASSUME NEW N, NEW d, Measured(d, N)
  PROVE  /\ Ordered(Nearer(d, N), N)
         /\ \A a, b \in N : <<a, b>> \in Nearer(d, N) <=> Before(d, a, b)
<1>1. \A a, b \in N : <<a, b>> \in Nearer(d, N) <=> Before(d, a, b)
  BY DEF Nearer
<1>2. \A a \in N : ~ Before(d, a, a)
  BY DEF Before, Measured
<1>3. \A a, b \in N : a = b \/ Before(d, a, b) \/ Before(d, b, a)
  BY DEF Before, Measured
<1>4. \A a, b, c \in N : Before(d, a, b) /\ Before(d, b, c) => Before(d, a, c)
  BY DEF Before, Measured
<1> QED
  BY <1>1, <1>2, <1>3, <1>4 DEF Ordered

(* The closest and the farthest of some nodes.                             *)
LEMMA ClosestIs ==
  ASSUME NEW N, IsFiniteSet(N), N # {}, NEW d, Measured(d, N)
  PROVE  /\ Closest(d, N) \in N /\ \A b \in N : d[Closest(d, N)] <= d[b]
         /\ Farthest(d, N) \in N /\ \A b \in N : d[b] <= d[Farthest(d, N)]
<1>0. /\ Ordered(Nearer(d, N), N)
      /\ \A a, b \in N : <<a, b>> \in Nearer(d, N) <=> Before(d, a, b)
  BY NearerOrdered
<1>1. /\ \E a \in N : \A b \in N \ {a} : Before(d, a, b)
      /\ \E a \in N : \A b \in N \ {a} : Before(d, b, a)
  <2>1. /\ \E a \in N : \A b \in N \ {a} : <<a, b>> \in Nearer(d, N)
        /\ \E a \in N : \A b \in N \ {a} : <<b, a>> \in Nearer(d, N)
    BY <1>0, Ends
  <2> QED
    BY <1>0, <2>1
<1>2. /\ Closest(d, N) \in N /\ \A b \in N \ {Closest(d, N)} : Before(d, Closest(d, N), b)
      /\ Farthest(d, N) \in N /\ \A b \in N \ {Farthest(d, N)} : Before(d, b, Farthest(d, N))
  BY <1>1, Zenon DEF Closest, Farthest
<1>3. ASSUME NEW a \in N, NEW b \in N, Before(d, a, b) PROVE d[a] <= d[b]
  BY <1>3 DEF Before, Measured
<1>4. \A a \in N : d[a] <= d[a]
  BY DEF Measured
<1> QED
  BY <1>2, <1>3, <1>4

(* A set of nodes in order: each of them once, the closest first.          *)
LEMMA InOrderIs ==
  ASSUME NEW N, IsFiniteSet(N), NEW d, Measured(d, N)
  PROVE  /\ InOrder(d, N) \in Seq(N) /\ Len(InOrder(d, N)) = Cardinality(N)
         /\ IsInjective(InOrder(d, N)) /\ Range(InOrder(d, N)) = N
         /\ \A i, j \in DOMAIN InOrder(d, N) :
               i < j => Before(d, InOrder(d, N)[i], InOrder(d, N)[j])
<1> DEFINE n == Cardinality(N)
           Rel == Nearer(d, N)
           rank(a) == Cardinality({b \in N : Before(d, b, a)})
           s == InOrder(d, N)
<1>0. \A a, b \in N : <<a, b>> \in Rel <=> Before(d, a, b)
  BY NearerOrdered
<1>1. \A a \in N : Ahead(Rel, N, a) = {b \in N : Before(d, b, a)}
  BY <1>0 DEF Ahead
<1>2. /\ n \in Nat
      /\ \A k \in 1 .. n : \E a \in N : rank(a) = k - 1
      /\ \A a \in N : rank(a) \in 0 .. n - 1
      /\ \A a, b \in N : rank(a) = rank(b) => a = b
  <2>1. Ordered(Rel, N)
    BY NearerOrdered
  <2> HIDE DEF Rel
  <2>2. /\ Cardinality(N) \in Nat
        /\ \A k \in 1 .. Cardinality(N) : \E a \in N : Cardinality(Ahead(Rel, N, a)) = k - 1
        /\ \A a \in N : Cardinality(Ahead(Rel, N, a)) \in 0 .. Cardinality(N) - 1
        /\ \A a, b \in N : Cardinality(Ahead(Rel, N, a)) = Cardinality(Ahead(Rel, N, b)) => a = b
    BY <2>1, Ranks
  <2>3. \A a \in N : Cardinality(Ahead(Rel, N, a)) = rank(a)
    BY <1>1
  <2> HIDE DEF rank
  <2> QED
    BY <2>2, <2>3
<1>3. \A a, b \in N : Before(d, a, b) => rank(a) < rank(b)
  <2>1. Ordered(Rel, N)
    BY NearerOrdered
  <2> HIDE DEF Rel
  <2>2. \A a, b \in N : <<a, b>> \in Rel
           => Cardinality(Ahead(Rel, N, a)) < Cardinality(Ahead(Rel, N, b))
    BY <2>1, RankGrows
  <2>3. \A a \in N : Cardinality(Ahead(Rel, N, a)) = rank(a)
    BY <1>1
  <2> HIDE DEF rank
  <2> QED
    BY <2>2, <2>3, <1>0
<1> DEFINE At(k) == CHOOSE a \in N : rank(a) = k - 1
<1>4. s = [k \in 1 .. n |-> At(k)]
  BY DEF InOrder
<1>5. \A k \in 1 .. n : At(k) \in N /\ rank(At(k)) = k - 1
  BY <1>2
<1> HIDE DEF n, rank, At, s
<1>6. \A k \in 1 .. n : s[k] \in N /\ rank(s[k]) = k - 1
  BY <1>4, <1>5
<1>7. s \in Seq(N) /\ Len(s) = n /\ DOMAIN s = 1 .. n
  BY <1>2, <1>4, <1>6
<1>8. IsInjective(s)
  BY <1>2, <1>6, <1>7 DEF IsInjective
<1>9. Range(s) = N
  <2>1. ASSUME NEW a \in N PROVE a \in Range(s)
    <3>1. rank(a) + 1 \in 1 .. n
      BY <1>2
    <3>2. rank(s[rank(a) + 1]) = rank(a)
      BY <1>2, <1>6, <3>1
    <3> QED
      BY <1>2, <1>6, <1>7, <3>1, <3>2 DEF Range
  <2> QED
    BY <2>1, <1>6, <1>7 DEF Range
<1>10. ASSUME NEW i \in DOMAIN s, NEW j \in DOMAIN s, i < j PROVE Before(d, s[i], s[j])
  <2>1. s[i] \in N /\ s[j] \in N /\ rank(s[i]) < rank(s[j])
    BY <1>6, <1>7, <1>10
  <2>2. ~ Before(d, s[j], s[i]) /\ s[i] # s[j]
    BY <2>1, <1>2, <1>3
  <2>3. \A a, b \in N : a = b \/ Before(d, a, b) \/ Before(d, b, a)
    BY DEF Before, Measured
  <2> QED
    BY <2>1, <2>2, <2>3
<1> QED
  BY <1>7, <1>8, <1>9, <1>10 DEF s, n

(* The k-th node of a sequence is the first of its closest.                *)
Leads(d, s, k) ==
    /\ k \in DOMAIN s
    /\ \A i \in DOMAIN s : d[s[k]] < d[s[i]] \/ (d[s[k]] = d[s[i]] /\ k <= i)

(* A sorted sequence is the sequence, in another order, by distance; of    *)
(* equally close ones, the first comes first.                              *)
LEMMA SortedIs ==
  ASSUME NEW N, NEW d, \A a \in N : d[a] \in Int, NEW s \in Seq(N)
  PROVE  /\ Sorted(d, s) \in Seq(N) /\ Len(Sorted(d, s)) = Len(s)
         /\ Range(Sorted(d, s)) = Range(s)
         /\ IsInjective(s) => IsInjective(Sorted(d, s))
         /\ \A i, j \in DOMAIN s : i < j => d[Sorted(d, s)[i]] <= d[Sorted(d, s)[j]]
         /\ s # <<>> => \E k \in DOMAIN s : Sorted(d, s)[1] = s[k] /\ Leads(d, s, k)
<1> DEFINE n == Len(s)
           D == 1 .. n
           Prior(i, k) == d[s[i]] < d[s[k]] \/ (d[s[i]] = d[s[k]] /\ i < k)
           Rel == {p \in D \X D : Prior(p[1], p[2])}
           rank(k) == Cardinality({i \in D : Prior(i, k)})
           At(r) == CHOOSE k \in D : rank(k) = r - 1
           t == Sorted(d, s)
<1>0. n \in Nat /\ DOMAIN s = D /\ \A i \in D : i \in Int /\ s[i] \in N /\ d[s[i]] \in Int
  OBVIOUS
<1>1. Ordered(Rel, D)
  <2>1. \A a, b \in D : <<a, b>> \in Rel <=> Prior(a, b)
    OBVIOUS
  <2>2. \A a \in D : ~ Prior(a, a)
    BY <1>0
  <2>3. \A a, b \in D : a = b \/ Prior(a, b) \/ Prior(b, a)
    BY <1>0
  <2>4. \A a, b, c \in D : Prior(a, b) /\ Prior(b, c) => Prior(a, c)
    BY <1>0
  <2> HIDE DEF Rel, Prior
  <2> QED
    BY <2>1, <2>2, <2>3, <2>4 DEF Ordered
<1>2. \A k \in D : Ahead(Rel, D, k) = {i \in D : Prior(i, k)}
  BY DEF Ahead
<1>3. IsFiniteSet(D) /\ Cardinality(D) = n
  <2>1. n \in Nat
    BY <1>0
  <2> HIDE DEF n
  <2> QED
    BY <2>1, FS_Interval
<1>4. /\ \A k \in D : \E i \in D : rank(i) = k - 1
      /\ \A i \in D : rank(i) \in 0 .. n - 1
      /\ \A i, k \in D : rank(i) = rank(k) => i = k
  <2> HIDE DEF D, Rel, Prior, n
  <2>1. /\ \A k \in 1 .. n : \E i \in D : Cardinality(Ahead(Rel, D, i)) = k - 1
        /\ \A i \in D : Cardinality(Ahead(Rel, D, i)) \in 0 .. n - 1
        /\ \A i, k \in D : Cardinality(Ahead(Rel, D, i)) = Cardinality(Ahead(Rel, D, k)) => i = k
    BY <1>1, <1>3, Ranks
  <2>2. \A k \in D : Cardinality(Ahead(Rel, D, k)) = rank(k)
    BY <1>2
  <2> HIDE DEF rank
  <2> QED
    BY <2>1, <2>2 DEF D
<1>5. \A i, k \in D : Prior(i, k) => rank(i) < rank(k)
  <2>1. \A i, k \in D : Prior(i, k) => <<i, k>> \in Rel
    OBVIOUS
  <2> HIDE DEF D, Rel, Prior
  <2>2. \A i, k \in D : <<i, k>> \in Rel
           => Cardinality(Ahead(Rel, D, i)) < Cardinality(Ahead(Rel, D, k))
    BY <1>1, <1>3, RankGrows
  <2>3. \A k \in D : Cardinality(Ahead(Rel, D, k)) = rank(k)
    BY <1>2
  <2> HIDE DEF rank
  <2> QED
    BY <2>1, <2>2, <2>3
<1>6. t = [r \in D |-> s[At(r)]]
  BY <1>0 DEF Sorted
<1>7. \A r \in D : At(r) \in D /\ rank(At(r)) = r - 1
  BY <1>4
<1> HIDE DEF n, rank, At, t, Prior, Rel
<1>8. t \in Seq(N) /\ Len(t) = n /\ DOMAIN t = D /\ \A r \in D : t[r] = s[At(r)]
  BY <1>0, <1>6, <1>7
<1>9. Range(t) = Range(s)
  <2>1. ASSUME NEW k \in D PROVE \E r \in D : At(r) = k
    <3>1. rank(k) + 1 \in D
      BY <1>0, <1>4
    <3>2. rank(At(rank(k) + 1)) = rank(k)
      BY <1>4, <1>7, <3>1
    <3> QED
      BY <1>4, <1>7, <3>1, <3>2
  <2> QED
    BY <2>1, <1>0, <1>7, <1>8 DEF Range
<1>10. ASSUME IsInjective(s) PROVE IsInjective(t)
  <2> SUFFICES ASSUME NEW i \in D, NEW j \in D, t[i] = t[j] PROVE i = j
    BY <1>8 DEF IsInjective
  <2>1. At(i) = At(j)
    BY <1>10, <1>0, <1>7, <1>8 DEF IsInjective
  <2> QED
    BY <2>1, <1>0, <1>7
<1>11. ASSUME NEW i \in D, NEW j \in D, i < j PROVE d[t[i]] <= d[t[j]]
  <2>1. At(i) \in D /\ At(j) \in D /\ rank(At(i)) < rank(At(j))
    BY <1>0, <1>7, <1>11
  <2>2. ~ Prior(At(j), At(i))
    <3>1. rank(At(i)) \in Int /\ rank(At(j)) \in Int
      BY <2>1, <1>0, <1>4
    <3>2. ~ (rank(At(j)) < rank(At(i)))
      BY <2>1, <3>1
    <3> QED
      BY <2>1, <3>2, <1>5
  <2>3. d[s[At(i)]] \in Int /\ d[s[At(j)]] \in Int
    BY <1>0, <2>1
  <2> QED
    BY <2>2, <2>3, <1>8 DEF Prior
<1>12. ASSUME s # <<>> PROVE \E k \in D : t[1] = s[k] /\ Leads(d, s, k)
  <2> DEFINE k == At(1)
  <2>1. 1 \in D
    BY <1>0, <1>12, EmptySeq DEF n
  <2>2. k \in D /\ rank(k) = 0 /\ t[1] = s[k]
    BY <2>1, <1>7, <1>8
  <2> HIDE DEF k
  <2>3. ASSUME NEW i \in D
        PROVE  d[s[k]] < d[s[i]] \/ (d[s[k]] = d[s[i]] /\ k <= i)
    <3>1. ~ Prior(i, k)
      <4>1. rank(i) \in Int /\ rank(i) >= 0
        BY <1>0, <1>4
      <4> QED
        BY <4>1, <2>2, <1>5
    <3>2. d[s[i]] \in Int /\ d[s[k]] \in Int /\ i \in Int /\ k \in Int
      BY <1>0, <2>2
    <3> QED
      BY <3>1, <3>2 DEF Prior
  <2> QED
    BY <2>2, <2>3, <1>0 DEF Leads
<1> QED
  BY <1>0, <1>8, <1>9, <1>10, <1>11, <1>12 DEF t, n

-----------------------------------------------------------------------------
(* The greedy walk.                                                        *)

(* A step goes to a link that is closer, unless none is.                   *)
LEMMA CloserIs ==
  ASSUME NEW N, IsFiniteSet(N), NEW d, Measured(d, N), NEW ep \in N, NEW at \in Seq(N)
  PROVE  \/ Closer(d, at, ep) = ep /\ \A b \in Range(at) : d[ep] <= d[b]
         \/ Closer(d, at, ep) \in Range(at) /\ d[Closer(d, at, ep)] < d[ep]
<1> DEFINE best == {k \in DOMAIN at : /\ d[at[k]] < d[ep]
                                      /\ \A i \in DOMAIN at : d[at[k]] <= d[at[i]]}
<1>0. Len(at) \in Nat /\ DOMAIN at = 1 .. Len(at) /\ \A k \in DOMAIN at : at[k] \in N
  OBVIOUS
<1>1. CASE best = {}
  <2>1. Closer(d, at, ep) = ep
    BY <1>1, Zenon DEF Closer
  <2>0. \A b \in Range(at) : b \in N /\ d[b] \in Int /\ d[ep] \in Int
    BY <1>0 DEF Range, Measured
  <2>2. SUFFICES ASSUME NEW b \in Range(at), d[b] < d[ep] PROVE FALSE
    BY <2>1, <2>0
  <2> DEFINE a == Closest(d, Range(at))
  <2>3. a \in Range(at) /\ \A c \in Range(at) : d[a] <= d[c]
    <3>1. Range(at) \subseteq N
      BY <1>0 DEF Range
    <3>2. IsFiniteSet(Range(at)) /\ Measured(d, Range(at))
      BY <3>1, FS_Subset DEF Measured
    <3> QED
      BY <3>2, <2>2, ClosestIs
  <2>4. PICK k \in DOMAIN at : at[k] = a
    BY <2>3 DEF Range
  <2>5. d[a] < d[ep]
    <3>1. d[a] <= d[b] /\ a \in N /\ b \in N
      BY <2>3, <2>2, <1>0 DEF Range
    <3> HIDE DEF a
    <3> QED
      BY <3>1, <2>2 DEF Measured
  <2> HIDE DEF a
  <2>6. \A i \in DOMAIN at : d[at[k]] <= d[at[i]]
    BY <2>3, <2>4 DEF Range
  <2> QED
    BY <2>4, <2>5, <2>6, <1>1
<1>2. CASE best # {}
  <2>1. Closer(d, at, ep) = at[Min(best)]
    BY <1>2, Zenon DEF Closer
  <2>2. Min(best) \in best
    <3>1. best \in SUBSET (0 .. Len(at))
      BY <1>0
    <3> HIDE DEF best
    <3> QED
      BY <3>1, <1>2, <1>0, Extremes
  <2>3. at[Min(best)] \in Range(at) /\ d[at[Min(best)]] < d[ep]
    BY <2>2 DEF Range
  <2> HIDE DEF best
  <2> QED
    BY <2>1, <2>3
<1> QED
  BY <1>1, <1>2

(* Links do not lead out of C.                                             *)
Linked(links, C) == \A a \in C : links[a] \in Seq(C)

LEMMA LinksStay ==
  ASSUME NEW links, NEW C, Linked(links, C), NEW a \in C
  PROVE  Range(links[a]) \subseteq C
<1>1. links[a] \in Seq(C)
  BY DEF Linked
<1> QED
  BY <1>1 DEF Range

(* The walk stays where links lead, ends no farther than it began, and at a*)
(* node that no link of which is closer.                                   *)
LEMMA GreedyIs ==
  ASSUME NEW links, IsFiniteSet(DOMAIN links), NEW d, Measured(d, DOMAIN links),
         Linked(links, DOMAIN links), NEW C \in SUBSET DOMAIN links, Linked(links, C),
         NEW start \in C
  PROVE  /\ Greedy(d, links, start) \in C
         /\ d[Greedy(d, links, start)] <= d[start]
         /\ \A b \in Range(links[Greedy(d, links, start)]) : d[Greedy(d, links, start)] <= d[b]
<1> DEFINE N == DOMAIN links
           step == [s \in N |-> Closer(d, links[s], s)]
           Stop == {s \in N : step[s] = s}
           Steps(F) == F = [ep \in N |-> LET next == Closer(d, links[ep], ep)
                                     IN  IF next = ep THEN ep ELSE F[next]]
           W == CHOOSE F : Steps(F)
<1>0. IsFiniteSet(C) /\ Measured(d, C)
  BY FS_Subset DEF Measured
<1>1. ASSUME NEW s \in N
      PROVE  \/ step[s] = s /\ \A b \in Range(links[s]) : d[s] <= d[b]
             \/ step[s] \in Range(links[s]) /\ d[step[s]] < d[s]
  <2>1. links[s] \in Seq(N)
    BY DEF Linked
  <2> QED
    BY <2>1, CloserIs
<1>2. \A s \in N : step[s] \in N
  BY <1>1, LinksStay
<1>3. \E F : Steps(F)
  <2>0. PICK F : Walks(F, N, Stop, step)
    <3>1. \A s \in N \ Stop : step[s] \in N
      BY <1>2
    <3> HIDE DEF step, Stop, N
    <3> QED
      BY <3>1, WalkExists
  <2>1. F = [s \in N |-> IF s \in Stop THEN s ELSE F[step[s]]]
    BY <2>0 DEF Walks
  <2>2. \A s \in N : step[s] = Closer(d, links[s], s) /\ (s \in Stop <=> step[s] = s)
    OBVIOUS
  <2> HIDE DEF step, Stop
  <2>3. [s \in N |-> IF s \in Stop THEN s ELSE F[step[s]]]
          = [ep \in N |-> IF Closer(d, links[ep], ep) = ep THEN ep ELSE F[Closer(d, links[ep], ep)]]
    BY <2>2
  <2>4. Steps(F)
    BY <2>1, <2>3, Zenon
  <2> QED
    BY <2>4
<1>4. Steps(W)
  BY <1>3
<1>5. Greedy(d, links, start) = W[start]
  BY DEF Greedy
<1>6. \A s \in N : W[s] = IF step[s] = s THEN s ELSE W[step[s]]
  BY <1>4
<1> HIDE DEF W, step
<1> DEFINE P(s) == /\ W[s] \in C /\ d[W[s]] <= d[s]
                   /\ \A b \in Range(links[W[s]]) : d[W[s]] <= d[b]
           Bad == {s \in C : ~ P(s)}
<1>7. ASSUME Bad # {} PROVE FALSE
  <2> DEFINE s == Closest(d, Bad)
  <2>1. s \in Bad /\ \A b \in Bad : d[s] <= d[b]
    <3>1. Bad \subseteq C
      OBVIOUS
    <3> HIDE DEF Bad
    <3>2. IsFiniteSet(Bad) /\ Measured(d, Bad)
      BY <3>1, <1>0, FS_Subset DEF Measured
    <3> QED
      BY <3>2, <1>7, ClosestIs
  <2> HIDE DEF s
  <2>2. s \in C /\ s \in N /\ ~ P(s)
    BY <2>1
  <2>3. CASE step[s] = s
    <3>1. W[s] = s
      BY <2>2, <2>3, <1>6
    <3>0. d[s] \in Int
      BY <2>2, <1>0 DEF Measured
    <3>2. \A b \in Range(links[s]) : d[s] <= d[b]
      BY <3>0, <2>2, <2>3, <1>1
    <3>3. d[s] <= d[s]
      BY <3>0
    <3> QED
      BY <2>2, <3>1, <3>2, <3>3
  <2>4. CASE step[s] # s
    <3>1. step[s] \in Range(links[s]) /\ d[step[s]] < d[s]
      BY <2>2, <2>4, <1>1
    <3>2. step[s] \in C
      BY <3>1, <2>2, LinksStay
    <3>3. step[s] \notin Bad
      <4>1. d[s] \in Int /\ d[step[s]] \in Int
        BY <2>2, <3>2, <1>0 DEF Measured
      <4>2. ~ (d[s] <= d[step[s]])
        BY <4>1, <3>1
      <4> QED
        BY <2>1, <4>2
    <3>4. P(step[s])
      BY <3>2, <3>3
    <3>5. W[s] = W[step[s]]
      BY <2>2, <2>4, <1>6
    <3>6. d[W[s]] <= d[s]
      BY <3>4, <3>5, <3>1, <3>2, <2>2, <1>0 DEF Measured
    <3> QED
      BY <3>4, <3>5, <3>6, <2>2
  <2> QED
    BY <2>3, <2>4
<1> QED
  BY <1>5, <1>7

-----------------------------------------------------------------------------
(* The beam.                                                               *)

(* n is left out of l results that are all no farther.                     *)
Beyond(d, l, s, n) == Cardinality(s.results) = l /\ \A r \in s.results : d[r] <= d[n]

(* What a search keeps. A node seen is among the results, or beyond them,  *)
(* or one of P; one that waits no more has had its links seen, or is beyond*)
(* the results, or one of X. No node of A is closer than every result.     *)
Sane(d, links, l, X, P, A, s) ==
    /\ s.frontier \subseteq s.seen /\ s.results \subseteq s.seen
    /\ Cardinality(s.results) <= l
    /\ \A n \in s.seen \ s.results : n \in P \/ Beyond(d, l, s, n)
    /\ \A n \in s.seen \ s.frontier :
          \/ n \in X
          \/ Range(links[n]) \subseteq s.seen
          \/ n \notin s.results /\ Beyond(d, l, s, n)
    /\ \A n \in A : \E r \in s.results : d[r] <= d[n]

Within(C) == [seen : SUBSET C, frontier : SUBSET C, results : SUBSET C]

(* A node is met: it may wait, and no other comes to wait, nor becomes a   *)
(* result.                                                                 *)
Grown(t, s, n) ==
    /\ t.seen = s.seen \cup {n} /\ t.frontier \cap s.seen = s.frontier
    /\ t.results \cap s.seen \subseteq s.results
LEMMA MeetIs ==
  ASSUME NEW C, IsFiniteSet(C), NEW d, Measured(d, C), NEW l \in Nat \ {0},
         NEW links, NEW X, NEW P, NEW A \in SUBSET C,
         NEW s \in Within(C), Sane(d, links, l, X, P, A, s), NEW n \in C
  PROVE  /\ Meet(d, s, n, l) \in Within(C) /\ Sane(d, links, l, X, P, A, Meet(d, s, n, l))
         /\ Grown(Meet(d, s, n, l), s, n)
<1> DEFINE t == Meet(d, s, n, l)
           wider == s.results \cup {n}
           far == Farthest(d, wider)
<1>0. /\ s.seen \subseteq C /\ s.frontier \subseteq C /\ s.results \subseteq C
      /\ s = [seen |-> s.seen, frontier |-> s.frontier, results |-> s.results]
      /\ s.frontier \subseteq s.seen /\ s.results \subseteq s.seen
      /\ \A a \in C : d[a] \in Int
  BY DEF Within, Sane, Measured
<1>1. CASE n \in s.seen
  <2>1. t = s
    BY <1>1 DEF Meet
  <2>2. /\ s.seen = s.seen \cup {n} /\ s.frontier \cap s.seen = s.frontier
        /\ s.results \cap s.seen \subseteq s.results
    BY <1>0, <1>1
  <2> HIDE DEF t
  <2> QED
    BY <2>1, <2>2 DEF t, Grown
<1>2. CASE n \notin s.seen /\ Full(s, l) /\ d[n] >= Worst(d, s)
  <2>1. t = [s EXCEPT !.seen = @ \cup {n}]
    BY <1>2 DEF Meet
  <2>2. /\ t = [seen |-> s.seen \cup {n}, frontier |-> s.frontier, results |-> s.results]
        /\ t.seen = s.seen \cup {n} /\ t.frontier = s.frontier /\ t.results = s.results
    BY <2>1, <1>0
  <2> HIDE DEF t
  <2>3. Beyond(d, l, t, n)
    <3>1. IsFiniteSet(s.results) /\ Cardinality(s.results) \in Nat
      BY <1>0, FS_Subset, FS_CardinalityType
    <3>2. Cardinality(s.results) = l /\ s.results # {}
      <4>1. Cardinality(s.results) >= l /\ Cardinality(s.results) <= l
        BY <1>2 DEF Full, Sane
      <4>2. Cardinality({}) = 0
        BY FS_EmptySet
      <4> QED
        BY <4>1, <4>2, <3>1
    <3>3. Measured(d, s.results)
      BY <1>0 DEF Measured
    <3>4. /\ Farthest(d, s.results) \in s.results
          /\ \A b \in s.results : d[b] <= d[Farthest(d, s.results)]
      BY <3>1, <3>2, <3>3, ClosestIs
    <3>5. \A b \in s.results : d[b] <= d[n]
      <4>1. d[n] >= d[Farthest(d, s.results)]
        BY <1>2 DEF Worst
      <4>2. d[Farthest(d, s.results)] \in Int
        BY <3>4, <1>0
      <4> QED
        BY <4>1, <4>2, <3>4, <1>0
    <3> QED
      BY <2>2, <3>2, <3>5 DEF Beyond
  <2>4. \A b : Beyond(d, l, s, b) => Beyond(d, l, t, b)
    BY <2>2 DEF Beyond
  <2>5. n \notin s.results
    BY <1>0, <1>2
  <2>6. t \in Within(C)
    BY <2>2, <1>0 DEF Within
  <2>7. Sane(d, links, l, X, P, A, t)
    <3>1. \A b \in t.seen \ t.results : b \in P \/ Beyond(d, l, t, b)
      BY <2>2, <2>3, <2>4, <1>0 DEF Sane
    <3>2. \A b \in t.seen \ t.frontier :
             \/ b \in X
             \/ Range(links[b]) \subseteq t.seen
             \/ b \notin t.results /\ Beyond(d, l, t, b)
      BY <2>2, <2>3, <2>4, <2>5, <1>0 DEF Sane
    <3> QED
      BY <3>1, <3>2, <2>2, <1>0 DEF Sane
  <2> QED
    BY <2>2, <2>6, <2>7, <1>0 DEF t, Grown
<1>3. CASE n \notin s.seen /\ ~ (Full(s, l) /\ d[n] >= Worst(d, s))
  <2>1. /\ t = [seen |-> s.seen \cup {n}, frontier |-> s.frontier \cup {n},
                results |-> Trim(d, wider, l)]
        /\ t.seen = s.seen \cup {n} /\ t.frontier = s.frontier \cup {n}
        /\ t.results = Trim(d, wider, l)
    BY <1>3 DEF Meet
  <2> HIDE DEF t
  <2>2. /\ IsFiniteSet(s.results) /\ Cardinality(s.results) \in Nat
        /\ IsFiniteSet(wider) /\ Cardinality(wider) = Cardinality(s.results) + 1
        /\ Cardinality(s.results) <= l /\ wider \subseteq C /\ n \in wider
    <3>1. IsFiniteSet(s.results) /\ Cardinality(s.results) \in Nat
      BY <1>0, FS_Subset, FS_CardinalityType
    <3>2. n \notin s.results
      BY <1>0, <1>3
    <3> QED
      BY <3>1, <3>2, <1>0, FS_AddElement DEF Sane
  <2>3. far \in wider /\ \A b \in wider : d[b] <= d[far]
    <3>1. Measured(d, wider) /\ wider # {}
      BY <1>0, <2>2 DEF Measured
    <3> HIDE DEF wider
    <3> QED
      BY <3>1, <2>2, ClosestIs
  <2>4. CASE Cardinality(s.results) < l
    <3>1. t.results = wider
      BY <2>1, <2>2, <2>4 DEF Trim
    <3>2. \A b : ~ Beyond(d, l, s, b)
      BY <2>2, <2>4 DEF Beyond
    <3>3. t \in Within(C)
      BY <2>1, <3>1, <2>2, <1>0 DEF Within
    <3>4. Sane(d, links, l, X, P, A, t)
      <4>1. Cardinality(t.results) <= l
        BY <3>1, <2>2, <2>4
      <4>2. \A b \in t.seen \ t.results : b \in P
        BY <3>1, <3>2, <2>1 DEF Sane
      <4>3. \A b \in t.seen \ t.frontier : b \in X \/ Range(links[b]) \subseteq t.seen
        BY <3>1, <3>2, <2>1 DEF Sane
      <4>4. \A b \in A : \E r \in t.results : d[r] <= d[b]
        BY <3>1 DEF Sane
      <4> QED
        BY <4>1, <4>2, <4>3, <4>4, <3>1, <2>1, <1>0 DEF Sane
    <3> QED
      BY <2>1, <3>1, <3>3, <3>4, <1>0, <1>3 DEF t, Grown
  <2>5. CASE Cardinality(s.results) = l
    <3>1. t.results = wider \ {far}
      BY <2>1, <2>2, <2>5 DEF Trim
    <3>2. Cardinality(t.results) = l
      <4> HIDE DEF far, wider
      <4>1. Cardinality(wider \ {far}) = Cardinality(wider) - 1
        BY <2>2, <2>3, FS_RemoveElement
      <4> QED
        BY <4>1, <3>1, <2>2, <2>5
    <3>3. far # n
      <4>1. Full(s, l)
        BY <2>5, <2>2 DEF Full
      <4>2. ~ (d[n] >= d[Farthest(d, s.results)])
        BY <4>1, <1>3 DEF Worst
      <4>3. s.results # {}
        BY <2>5, FS_EmptySet
      <4>4. Farthest(d, s.results) \in s.results
        <5>1. Measured(d, s.results)
          BY <1>0 DEF Measured
        <5> QED
          BY <5>1, <4>3, <2>2, ClosestIs
      <4>5. d[Farthest(d, s.results)] <= d[far]
        BY <4>4, <2>3
      <4> QED
        BY <4>2, <4>5
    <3>4. far \in s.results
      BY <2>3, <3>3
    <3>5. Beyond(d, l, t, far)
      BY <3>1, <3>2, <2>3 DEF Beyond
    <3>6. ASSUME NEW b \in C, Beyond(d, l, s, b) PROVE Beyond(d, l, t, b)
      <4>1. d[far] <= d[b]
        BY <3>4, <3>6 DEF Beyond
      <4>2. d[far] \in Int /\ d[b] \in Int /\ \A r \in wider : d[r] \in Int
        BY <1>0, <2>2, <2>3
      <4>3. \A r \in wider : d[r] <= d[b]
        <5> HIDE DEF far, wider
        <5> QED
          BY <4>1, <4>2, <2>3
      <4> QED
        BY <4>3, <3>1, <3>2 DEF Beyond
    <3> HIDE DEF far
    <3>7. t \in Within(C)
      BY <2>1, <3>1, <2>2, <1>0 DEF Within
    <3>8. Sane(d, links, l, X, P, A, t)
      <4>1. Cardinality(t.results) <= l
        BY <3>2
      <4>2. \A b \in t.seen \ t.results : b \in P \/ Beyond(d, l, t, b)
        BY <3>1, <3>5, <3>6, <2>1, <1>0 DEF Sane
      <4>3. \A b \in t.seen \ t.frontier :
               \/ b \in X
               \/ Range(links[b]) \subseteq t.seen
               \/ b \notin t.results /\ Beyond(d, l, t, b)
        <5> SUFFICES ASSUME NEW b \in s.seen \ s.frontier, b \notin X,
                            ~ (Range(links[b]) \subseteq s.seen)
                     PROVE  b \notin t.results /\ Beyond(d, l, t, b)
          BY <2>1
        <5>1. b \notin s.results /\ Beyond(d, l, s, b) /\ b \in C /\ b # n
          BY <1>0, <1>3 DEF Sane
        <5> QED
          BY <5>1, <3>1, <3>6
      <4>4. ASSUME NEW b \in A PROVE \E r \in t.results : d[r] <= d[b]
        <5>1. PICK r \in s.results : d[r] <= d[b]
          BY DEF Sane
        <5>2. CASE r # far
          BY <5>1, <5>2, <3>1
        <5>3. CASE r = far
          <6>1. n \in t.results
            BY <3>1, <3>3
          <6>2. d[n] <= d[far]
            BY <2>2, <2>3
          <6>3. d[n] <= d[b]
            BY <6>2, <5>1, <5>3, <1>0, <3>4
          <6> QED
            BY <6>1, <6>3
        <5> QED
          BY <5>2, <5>3
      <4>5. t.results \subseteq t.seen /\ t.frontier \subseteq t.seen
        BY <3>1, <2>1, <1>0
      <4> QED
        BY <4>1, <4>2, <4>3, <4>4, <4>5 DEF Sane
    <3> QED
      BY <2>1, <3>1, <3>7, <3>8, <1>0, <1>3 DEF t, Grown
  <2> QED
    BY <2>4, <2>5, <2>2
<1> QED
  BY <1>1, <1>2, <1>3

(* The beams that exploring a node passes, one link after the other.       *)
Meetings(F, d, l, at, C, b, t) ==
    /\ F \in [0 .. Len(at) -> Within(C)] /\ F[0] = b /\ F[Len(at)] = t
    /\ \A k \in 1 .. Len(at) : F[k - 1] \in Within(C) /\ F[k] = Meet(d, F[k - 1], at[k], l)

Chosen(d, s) == Closest(d, s.frontier)
Rest(d, s)   == [s EXCEPT !.frontier = @ \ {Chosen(d, s)}]

LEMMA AdvanceRun ==
  ASSUME NEW links, NEW C \in SUBSET DOMAIN links, IsFiniteSet(C), NEW d, Measured(d, C),
         Linked(links, C), NEW l \in Nat \ {0}, NEW s \in Within(C), s.frontier # {}
  PROVE  /\ Chosen(d, s) \in s.frontier
         /\ \E F : Meetings(F, d, l, links[Chosen(d, s)], C, Rest(d, s), Advance(d, links, s, l))
<1> DEFINE c == Chosen(d, s)
           at == links[c]
           n == Len(at)
           b == Rest(d, s)
           t == Advance(d, links, s, l)
           op(u, x) == Meet(d, u, x, l)
           Steps(g) == g = [r \in SUBSET DOMAIN at |->
                          IF r = {} THEN b ELSE op(g[r \ {Max(r)}], at[Max(r)])]
<1>0. s.seen \subseteq C /\ s.frontier \subseteq C /\ s.results \subseteq C
  BY DEF Within
<1>1. c \in s.frontier /\ c \in C
  <2>1. IsFiniteSet(s.frontier) /\ Measured(d, s.frontier)
    BY <1>0, FS_Subset DEF Measured
  <2> QED
    BY <2>1, <1>0, ClosestIs DEF Chosen
<1> HIDE DEF c
<1>2. at \in Seq(C) /\ n \in Nat /\ DOMAIN at = 1 .. n /\ \A k \in 1 .. n : at[k] \in C
  <2>1. at \in Seq(C)
    BY <1>1 DEF Linked
  <2> HIDE DEF at
  <2> QED
    BY <2>1
<1> DEFINE V == Within(C)
           G == [p \in (1 .. n) \X V |-> op(p[2], at[p[1]])]
<1>3. b \in V
  <2>1. b = [seen |-> s.seen, frontier |-> s.frontier \ {c}, results |-> s.results]
    BY s \in Within(C) DEF Within, Rest, c
  <2> HIDE DEF b
  <2> QED
    BY <2>1, <1>0 DEF Within
<1>4. ASSUME NEW u \in V, NEW x \in C PROVE op(u, x) \in V
  <2>1. /\ u.seen \subseteq C /\ u.frontier \subseteq C /\ u.results \subseteq C
        /\ Trim(d, u.results \cup {x}, l) \subseteq u.results \cup {x}
    BY DEF Within, Trim
  <2>2. [u EXCEPT !.seen = @ \cup {x}] \in V
    BY <2>1 DEF Within
  <2>3. [seen |-> u.seen \cup {x}, frontier |-> u.frontier \cup {x},
         results |-> Trim(d, u.results \cup {x}, l)] \in V
    BY <2>1 DEF Within
  <2> HIDE DEF V
  <2> QED
    BY <2>2, <2>3 DEF Meet
<1> HIDE DEF b, V, op, at, n
<1>5. G \in [(1 .. n) \X V -> V] /\ \A k \in 1 .. n, u \in V : G[<<k, u>>] = op(u, at[k])
  BY <1>2, <1>4
<1> HIDE DEF G
<1>6. \E g : Steps(g)
  <2>1. PICK g : Solves(g, n, V, b, G)
    BY <1>2, <1>3, <1>5, FoldExists
  <2>2. ASSUME NEW r \in SUBSET (1 .. n), r # {}
        PROVE  g[r] = op(g[r \ {Max(r)}], at[Max(r)])
    BY <2>1, <2>2, <1>5 DEF Solves
  <2>3. g = [r \in SUBSET (1 .. n) |->
               IF r = {} THEN b ELSE op(g[r \ {Max(r)}], at[Max(r)])]
    BY <2>1, <2>2 DEF Solves
  <2> QED
    BY <2>3, <1>2
<1>7. \E g : Steps(g) /\ t = g[DOMAIN at]
  BY <1>6 DEF Advance, FoldLeft, MapThenFoldSet, Rest, Chosen, c, at, b, op, n
<1> HIDE DEF t, Steps
<1>8. PICK g : Steps(g) /\ t = g[DOMAIN at]
  BY <1>7
<1>9. g[{}] = b /\ \A k \in 1 .. n : g[1 .. k] = op(g[1 .. k - 1], at[k])
  <2>1. g = [r \in SUBSET (1 .. n) |->
               IF r = {} THEN b ELSE op(g[r \ {Max(r)}], at[Max(r)])]
    BY <1>8, <1>2 DEF Steps
  <2>2. {} \in SUBSET (1 .. n)
    OBVIOUS
  <2>3. g[{}] = b
    BY <2>1, <2>2, Zenon
  <2>4. ASSUME NEW k \in 1 .. n PROVE g[1 .. k] = op(g[1 .. k - 1], at[k])
    <3>0. n \in Nat /\ k \in Nat \ {0}
      BY <1>2
    <3>1. 1 .. k # {} /\ Max(1 .. k) = k /\ (1 .. k) \ {k} = 1 .. k - 1
      BY <3>0, MaxUpTo
    <3>2. 1 .. k \in SUBSET (1 .. n)
      BY <3>0
    <3>3. g[1 .. k] = op(g[(1 .. k) \ {Max(1 .. k)}], at[Max(1 .. k)])
      BY <2>1, <3>1, <3>2, Zenon
    <3> QED
      BY <3>1, <3>3, Zenon
  <2> QED
    BY <2>3, <2>4
<1>10. PICK F : Runs(F, n, V, b, G, t)
  <2>1. \A k \in 1 .. n : g[1 .. k - 1] \in V => g[1 .. k] = G[<<k, g[1 .. k - 1]>>]
    BY <1>5, <1>9
  <2>2. g[1 .. n] = t
    BY <1>8, <1>2
  <2> QED
    BY <2>1, <2>2, <1>2, <1>3, <1>5, <1>9, FoldRun
<1>11. Meetings(F, d, l, at, C, b, t)
  <2>1. /\ F \in [0 .. n -> V] /\ F[0] = b /\ F[n] = t
        /\ \A k \in 1 .. n : F[k - 1] \in V /\ F[k] = op(F[k - 1], at[k])
    BY <1>10, <1>5 DEF Runs
  <2> QED
    BY <2>1 DEF Meetings, V, op, n
<1> QED
  BY <1>1, <1>11 DEF c, at, b, t

Explored(t, s, c) ==
    /\ s.seen \subseteq t.seen /\ t.frontier \cap s.seen = s.frontier \ {c}
    /\ t.results \cap s.seen \subseteq s.results

(* A node is explored: it waits no more, and its links are met.            *)
LEMMA AdvanceIs ==
  ASSUME NEW links, NEW C \in SUBSET DOMAIN links, IsFiniteSet(C), NEW d, Measured(d, C),
         Linked(links, C), NEW l \in Nat \ {0}, NEW X, NEW P, NEW A \in SUBSET C,
         NEW s \in Within(C), Sane(d, links, l, X, P, A, s), s.frontier # {}
  PROVE  /\ Advance(d, links, s, l) \in Within(C)
         /\ Sane(d, links, l, X, P, A, Advance(d, links, s, l))
         /\ Chosen(d, s) \in s.frontier
         /\ Explored(Advance(d, links, s, l), s, Chosen(d, s))
<1> DEFINE c == Chosen(d, s)
           at == links[c]
           n == Len(at)
           b == Rest(d, s)
           t == Advance(d, links, s, l)
<1>0. /\ s.seen \subseteq C /\ s.frontier \subseteq C /\ s.results \subseteq C
      /\ s.frontier \subseteq s.seen /\ s.results \subseteq s.seen
  BY DEF Within, Sane
<1>1. c \in s.frontier /\ \E F : Meetings(F, d, l, at, C, b, t)
  BY AdvanceRun
<1>2. PICK F : Meetings(F, d, l, at, C, b, t)
  BY <1>1
<1> HIDE DEF c, t
<1>3. n \in Nat /\ DOMAIN at = 1 .. n /\ \A k \in 1 .. n : at[k] \in C
  <2>1. at \in Seq(C)
    BY <1>0, <1>1 DEF Linked
  <2> HIDE DEF at
  <2> QED
    BY <2>1
<1> HIDE DEF at
<1> DEFINE Good(u) == /\ u \in Within(C)
                      /\ Sane(d, links, l, X \cup {c}, P, A, u)
                      /\ s.seen \subseteq u.seen
                      /\ u.frontier \cap s.seen = s.frontier \ {c}
                      /\ u.results \cap s.seen \subseteq s.results
           S == {k \in 0 .. n : Good(F[k]) /\ \A i \in 1 .. k : at[i] \in F[k].seen}
<1>4. Good(b)
  <2>0. b = [seen |-> s.seen, frontier |-> s.frontier \ {c}, results |-> s.results]
    BY s \in Within(C) DEF Within, Rest, c
  <2> HIDE DEF b
  <2>1. /\ b = [seen |-> s.seen, frontier |-> s.frontier \ {c}, results |-> s.results]
        /\ b.seen = s.seen /\ b.frontier = s.frontier \ {c} /\ b.results = s.results
    BY <2>0
  <2>2. b \in Within(C)
    BY <2>1, <1>0 DEF Within
  <2>3. \A x : Beyond(d, l, s, x) <=> Beyond(d, l, b, x)
    BY <2>1 DEF Beyond
  <2>4. Sane(d, links, l, X \cup {c}, P, A, b)
    BY <2>1, <2>3 DEF Sane
  <2> QED
    BY <2>1, <2>2, <2>4, <1>0
<1>5. ASSUME NEW u, Good(u), NEW x \in C
      PROVE  Good(Meet(d, u, x, l)) /\ Meet(d, u, x, l).seen = u.seen \cup {x}
  <2> DEFINE w == Meet(d, u, x, l)
  <2>0. ASSUME NEW Y, Sane(d, links, l, Y, P, A, u)
        PROVE  w \in Within(C) /\ Sane(d, links, l, Y, P, A, w) /\ Grown(w, u, x)
    BY <1>5, <2>0, MeetIs
  <2>1. /\ w \in Within(C) /\ Sane(d, links, l, X \cup {c}, P, A, w) /\ Grown(w, u, x)
    BY <1>5, <2>0
  <2> HIDE DEF w
  <2>2. /\ w.seen = u.seen \cup {x} /\ w.frontier \cap u.seen = u.frontier
        /\ w.results \cap u.seen \subseteq u.results
    BY <2>1 DEF Grown
  <2>3. /\ s.seen \subseteq w.seen /\ w.frontier \cap s.seen = s.frontier \ {c}
        /\ w.results \cap s.seen \subseteq s.results
    BY <2>2, <1>5
  <2> QED
    BY <2>1, <2>2, <2>3 DEF w
<1> HIDE DEF Good, b
<1>6. 0 \in S
  BY <1>2, <1>3, <1>4 DEF Meetings
<1>7. ASSUME NEW k \in 1 .. n, k - 1 \in S PROVE k \in S
  <2>1. Good(F[k - 1]) /\ \A i \in 1 .. k - 1 : at[i] \in F[k - 1].seen
    BY <1>7
  <2>2. F[k] = Meet(d, F[k - 1], at[k], l)
    BY <1>2 DEF Meetings
  <2>3. Good(F[k]) /\ F[k].seen = F[k - 1].seen \cup {at[k]}
    <3>1. /\ Good(Meet(d, F[k - 1], at[k], l))
          /\ Meet(d, F[k - 1], at[k], l).seen = F[k - 1].seen \cup {at[k]}
      BY <2>1, <1>3, <1>5, Zenon
    <3> QED
      BY <3>1, <2>2, Zenon
  <2>4. \A i \in 1 .. k : i = k \/ i \in 1 .. k - 1
    OBVIOUS
  <2>5. \A i \in 1 .. k : at[i] \in F[k].seen
    BY <2>1, <2>3, <2>4
  <2> QED
    BY <2>3, <2>5, <1>3
<1>8. n \in S
  <2>1. n \in Nat
    BY <1>3
  <2> HIDE DEF S, n
  <2>2. \A k \in 0 .. n : k \in S
    BY <2>1, <1>6, <1>7, Induct
  <2> QED
    BY <2>1, <2>2
<1>9. Good(t) /\ Range(at) \subseteq t.seen
  BY <1>2, <1>3, <1>8 DEF Meetings, Range
<1>10. /\ t \in Within(C) /\ Sane(d, links, l, X \cup {c}, P, A, t)
       /\ s.seen \subseteq t.seen /\ t.frontier \cap s.seen = s.frontier \ {c}
       /\ t.results \cap s.seen \subseteq s.results
  BY <1>9 DEF Good
<1>11. Sane(d, links, l, X, P, A, t)
  BY <1>9, <1>10 DEF Sane, at
<1> QED
  BY <1>1, <1>10, <1>11 DEF c, t, Explored

(* A search keeps what it began with, and ends. What it had seen and was   *)
(* no result does not become one.                                          *)
LEMMA BeamIs ==
  ASSUME NEW links, IsFiniteSet(DOMAIN links), NEW d, Measured(d, DOMAIN links),
         Linked(links, DOMAIN links), NEW C \in SUBSET DOMAIN links, Linked(links, C),
         NEW l \in Nat \ {0}, NEW X, NEW P, NEW A \in SUBSET C,
         NEW start \in Within(C), Sane(d, links, l, X, P, A, start)
  PROVE  /\ Beam(d, links, start, l) \in Within(C)
         /\ Sane(d, links, l, X, P, A, Beam(d, links, start, l))
         /\ Ended(d, Beam(d, links, start, l), l)
         /\ start.seen \subseteq Beam(d, links, start, l).seen
         /\ Beam(d, links, start, l).results \cap start.seen \subseteq start.results
<1> DEFINE N == DOMAIN links
           B == Beams(links)
           step == [s \in B |-> Advance(d, links, s, l)]
           Stop == {s \in B : Ended(d, s, l)}
           Steps(F) == F = [s \in B |-> IF Ended(d, s, l) THEN s ELSE F[Advance(d, links, s, l)]]
           W == CHOOSE F : Steps(F)
<1>0. B = Within(N) /\ Within(C) \subseteq B /\ IsFiniteSet(C) /\ Measured(d, C)
  BY FS_Subset DEF Beams, Within, Measured
<1>1. ASSUME NEW s \in B, ~ Ended(d, s, l) PROVE Advance(d, links, s, l) \in B
  <2>1. s \in Within(N) /\ s.frontier # {}
    BY <1>0, <1>1 DEF Ended
  <2>2. PICK F : Meetings(F, d, l, links[Chosen(d, s)], N, Rest(d, s), Advance(d, links, s, l))
    BY <2>1, AdvanceRun
  <2>3. Len(links[Chosen(d, s)]) \in Nat
    <3>1. Chosen(d, s) \in s.frontier
      BY <2>1, AdvanceRun
    <3>2. Chosen(d, s) \in N
      BY <3>1, <2>1 DEF Within
    <3> QED
      BY <3>2 DEF Linked
  <2>4. Advance(d, links, s, l) \in Within(N)
    BY <2>2, <2>3 DEF Meetings
  <2> QED
    BY <2>4, <1>0
<1>2. \E F : Steps(F)
  <2>0. PICK F : Walks(F, B, Stop, step)
    <3>1. \A s \in B \ Stop : step[s] \in B
      BY <1>1
    <3> HIDE DEF step, Stop, B
    <3> QED
      BY <3>1, WalkExists
  <2>1. F = [s \in B |-> IF s \in Stop THEN s ELSE F[step[s]]]
    BY <2>0 DEF Walks
  <2>2. \A s \in B : step[s] = Advance(d, links, s, l) /\ (s \in Stop <=> Ended(d, s, l))
    OBVIOUS
  <2> HIDE DEF step, Stop, B
  <2>3. [s \in B |-> IF s \in Stop THEN s ELSE F[step[s]]]
          = [s \in B |-> IF Ended(d, s, l) THEN s ELSE F[Advance(d, links, s, l)]]
    BY <2>2
  <2>4. Steps(F)
    BY <2>1, <2>3, Zenon
  <2> QED
    BY <2>4
<1>3. Steps(W)
  BY <1>2
<1>4. Beam(d, links, start, l) = W[start]
  BY DEF Beam
<1>5. \A s \in B : W[s] = IF Ended(d, s, l) THEN s ELSE W[Advance(d, links, s, l)]
  BY <1>3
<1> HIDE DEF W, B, step, Stop
<1> DEFINE Left(s) == Cardinality(C \ (s.seen \ s.frontier))
           Start(s) == s \in Within(C) /\ Sane(d, links, l, X, P, A, s)
           Post(s) == /\ Start(W[s]) /\ Ended(d, W[s], l) /\ s.seen \subseteq W[s].seen
                      /\ W[s].results \cap s.seen \subseteq s.results
           n == Cardinality(C)
           S == {k \in 0 .. n : \A s : Start(s) /\ Left(s) <= k => Post(s)}
<1>6. n \in Nat /\ \A s : Left(s) \in 0 .. n
  <2>1. \A T \in SUBSET C : IsFiniteSet(T) /\ Cardinality(T) \in Nat /\ Cardinality(T) <= n
    BY <1>0, FS_Subset, FS_CardinalityType
  <2>2. \A s : C \ (s.seen \ s.frontier) \in SUBSET C
    OBVIOUS
  <2>3. n \in Nat
    BY <1>0, FS_CardinalityType
  <2> HIDE DEF n
  <2> QED
    BY <2>1, <2>2, <2>3
<1>7. ASSUME NEW s, Start(s), Ended(d, s, l) PROVE Post(s)
  BY <1>7, <1>0, <1>5
<1>8. ASSUME NEW s, Start(s), ~ Ended(d, s, l)
      PROVE  LET t == Advance(d, links, s, l) IN
             /\ Start(t) /\ Left(t) < Left(s) /\ W[s] = W[t] /\ s.seen \subseteq t.seen
             /\ t.results \cap s.seen \subseteq s.results
  <2> DEFINE t == Advance(d, links, s, l)
             c == Chosen(d, s)
  <2>1. s \in Within(C) /\ Sane(d, links, l, X, P, A, s) /\ s.frontier # {}
    BY <1>8 DEF Ended
  <2>2. t \in Within(C) /\ Sane(d, links, l, X, P, A, t) /\ c \in s.frontier /\ Explored(t, s, c)
    BY <2>1, <1>0, AdvanceIs
  <2>3. W[s] = W[t]
    BY <2>1, <1>0, <1>5, <1>8
  <2> HIDE DEF t, c
  <2>4. /\ s.seen \subseteq t.seen /\ t.frontier \cap s.seen = s.frontier \ {c}
        /\ t.results \cap s.seen \subseteq s.results
    BY <2>2 DEF Explored
  <2>5. /\ C \ (t.seen \ t.frontier) \subseteq (C \ (s.seen \ s.frontier)) \ {c}
        /\ c \in C \ (s.seen \ s.frontier)
    BY <2>1, <2>2, <2>4 DEF Sane, Within
  <2>6. Left(t) <= Left(s) - 1
    <3> DEFINE U == C \ (s.seen \ s.frontier)
               T == C \ (t.seen \ t.frontier)
    <3>1. IsFiniteSet(U)
      BY <1>0, FS_Subset
    <3>2. T \subseteq U \ {c} /\ c \in U
      BY <2>5
    <3> HIDE DEF U, T
    <3>3. IsFiniteSet(U \ {c}) /\ Cardinality(U \ {c}) = Cardinality(U) - 1
      BY <3>1, <3>2, FS_RemoveElement
    <3>4. Cardinality(T) <= Cardinality(U \ {c})
      BY <3>2, <3>3, FS_Subset
    <3>5. Cardinality(T) <= Cardinality(U) - 1
      BY <3>3, <3>4
    <3> QED
      BY <3>5 DEF U, T
  <2>7. Left(t) < Left(s)
    <3>1. Left(t) \in Int /\ Left(s) \in Int
      BY <1>6
    <3> HIDE DEF Left
    <3> QED
      BY <3>1, <2>6
  <2> QED
    BY <2>2, <2>3, <2>4, <2>7 DEF t
<1> HIDE DEF Start, Left, n
<1>9. 0 \in S
  <2>1. ASSUME NEW s, Start(s), Left(s) <= 0 PROVE Post(s)
    <3>1. Ended(d, s, l)
      BY <2>1, <1>6, <1>8
    <3> QED
      BY <3>1, <2>1, <1>7
  <2> QED
    BY <2>1, <1>6
<1>10. ASSUME NEW k \in 1 .. n, k - 1 \in S PROVE k \in S
  <2>1. ASSUME NEW s, Start(s), Left(s) <= k PROVE Post(s)
    <3>1. CASE Ended(d, s, l)
      BY <3>1, <2>1, <1>7
    <3>2. CASE ~ Ended(d, s, l)
      <4> DEFINE t == Advance(d, links, s, l)
      <4>1. /\ Start(t) /\ Left(t) < Left(s) /\ W[s] = W[t] /\ s.seen \subseteq t.seen
            /\ t.results \cap s.seen \subseteq s.results
        BY <3>2, <2>1, <1>8
      <4> HIDE DEF t
      <4>2. Left(t) <= k - 1
        BY <4>1, <2>1, <1>6
      <4>3. Post(t)
        BY <4>1, <4>2, <1>10
      <4> QED
        BY <4>1, <4>3
    <3> QED
      BY <3>1, <3>2
  <2> QED
    BY <2>1, <1>6
<1>11. Post(start)
  <2>1. \A k \in 0 .. n : k \in S
    <3> HIDE DEF S
    <3> QED
      BY <1>6, <1>9, <1>10, Induct
  <2>2. n \in S /\ Left(start) <= n
    BY <2>1, <1>6
  <2>3. Start(start)
    BY DEF Start
  <2> QED
    BY <2>2, <2>3
<1> QED
  BY <1>4, <1>11 DEF Start

(* What a search finds that may find everything: what links lead to from S,*)
(* the nodes of S excepted that were no results when it began.             *)
LEMMA WideBeamIs ==
  ASSUME NEW links, IsFiniteSet(DOMAIN links), NEW d, Measured(d, DOMAIN links),
         Linked(links, DOMAIN links), NEW l \in Nat \ {0}, Cardinality(DOMAIN links) <= l,
         NEW S \in SUBSET DOMAIN links, NEW T \in SUBSET S
  PROVE  Beam(d, links, [seen |-> S, frontier |-> S, results |-> T], l).results
           = Reachable(links, S) \ (S \ T)
<1> DEFINE N == DOMAIN links
           Q == Reachable(links, S)
           start == [seen |-> S, frontier |-> S, results |-> T]
           e == Beam(d, links, start, l)
           P == S \ T
<1>1. \A n \in N : links[n] \in Seq(N) /\ Range(links[n]) \subseteq N
  <2> SUFFICES ASSUME NEW n \in N PROVE links[n] \in Seq(N) /\ Range(links[n]) \subseteq N
    OBVIOUS
  <2> DEFINE s == links[n]
  <2>1. s \in Seq(N)
    BY DEF Linked
  <2> HIDE DEF s, N
  <2>2. Range(s) \subseteq N
    BY <2>1 DEF Range
  <2> QED
    BY <2>1, <2>2 DEF s
<1>2. ASSUME NEW U \in SUBSET N, S \subseteq U, \A n \in U : Range(links[n]) \subseteq U
      PROVE  Q \subseteq U
  BY <1>2 DEF Reachable
<1>3. Q \in SUBSET N /\ S \subseteq Q /\ \A n \in Q : Range(links[n]) \subseteq Q
  BY <1>1 DEF Reachable
<1> HIDE DEF Q, N
<1>4. Linked(links, Q)
  <2> SUFFICES ASSUME NEW n \in Q PROVE links[n] \in Seq(Q)
    BY DEF Linked
  <2> DEFINE s == links[n]
  <2>1. s \in Seq(N) /\ Range(s) \subseteq Q
    BY <1>1, <1>3
  <2> HIDE DEF s
  <2>2. s \in Seq(Q)
    BY <2>1 DEF Range
  <2> QED
    BY <2>2 DEF s
<1>5. IsFiniteSet(N) /\ Cardinality(N) \in Nat /\ Cardinality(N) <= l
  BY FS_CardinalityType DEF N
<1>6. /\ start.seen = S /\ start.frontier = S /\ start.results = T
      /\ start \in Within(Q)
  BY <1>3 DEF Within
<1> HIDE DEF start
<1>7. Sane(d, links, l, {}, P, {}, start)
  <2>1. T \subseteq N
    BY <1>3
  <2>2. Cardinality(T) \in Nat /\ Cardinality(T) <= Cardinality(N)
    BY <2>1, <1>5, FS_Subset, FS_CardinalityType
  <2>3. Cardinality(T) <= l
    BY <2>2, <1>5
  <2> QED
    BY <2>3, <1>6 DEF Sane
<1>8. /\ e \in Within(Q) /\ Sane(d, links, l, {}, P, {}, e) /\ Ended(d, e, l)
      /\ S \subseteq e.seen /\ e.results \cap S \subseteq T
  <2>1. {} \in SUBSET Q
    OBVIOUS
  <2>2. /\ e \in Within(Q) /\ Sane(d, links, l, {}, P, {}, e) /\ Ended(d, e, l)
        /\ start.seen \subseteq e.seen /\ e.results \cap start.seen \subseteq start.results
    BY <2>1, <1>3, <1>4, <1>6, <1>7, BeamIs DEF N
  <2> QED
    BY <2>2, <1>6
<1> HIDE DEF e, P
<1>9. /\ e.seen \subseteq Q /\ e.results \subseteq Q /\ e.results \subseteq e.seen
      /\ e.frontier \subseteq e.seen
  BY <1>8 DEF Within, Sane
<1>10. ASSUME Cardinality(e.results) >= l PROVE e.results = N
  <2>1. e.results \subseteq N /\ IsFiniteSet(e.results)
    BY <1>3, <1>5, <1>9, FS_Subset
  <2>2. Cardinality(e.results) \in Nat
    BY <2>1, FS_CardinalityType
  <2>3. Cardinality(e.results) >= Cardinality(N)
    BY <2>2, <1>5, <1>10
  <2>4. e.results # N => Cardinality(e.results) < Cardinality(N)
    <3> DEFINE r == e.results
    <3>1. r \in SUBSET N /\ IsFiniteSet(N) /\ IsFiniteSet(r)
      BY <2>1, <1>5
    <3> HIDE DEF r, N
    <3>2. Cardinality(r) <= Cardinality(N) /\ (Cardinality(r) = Cardinality(N) => r = N)
      BY <3>1, FS_Subset
    <3>3. Cardinality(r) \in Nat /\ Cardinality(N) \in Nat
      BY <3>1, FS_CardinalityType
    <3>4. r # N => Cardinality(r) < Cardinality(N)
      BY <3>2, <3>3
    <3> QED
      BY <3>4 DEF r
  <2> QED
    BY <2>2, <2>3, <2>4, <1>5
<1>11. CASE e.results = N
  <2>1. Q = N
    BY <1>3, <1>9, <1>11
  <2>2. S \subseteq T
    BY <1>3, <1>8, <1>11
  <2> QED
    BY <2>1, <2>2, <1>11 DEF e, Q, start
<1>12. CASE e.results # N
  <2>1. ~ (Cardinality(e.results) >= l)
    BY <1>10, <1>12
  <2>2. /\ e.frontier = {} /\ \A n : ~ Beyond(d, l, e, n)
    <3>1. e.frontier = {}
      BY <2>1, <1>8 DEF Ended, Full
    <3>2. \A n : ~ Beyond(d, l, e, n)
      BY <2>1 DEF Beyond
    <3> QED
      BY <3>1, <3>2
  <2>3. \A n \in e.seen : Range(links[n]) \subseteq e.seen
    BY <2>2, <1>8 DEF Sane
  <2>4. e.seen = Q
    BY <2>3, <1>2, <1>3, <1>8, <1>9
  <2>5. \A n \in Q : n \in e.results \/ n \in P
    BY <2>2, <2>4, <1>8 DEF Sane
  <2>6. e.results = Q \ P
    BY <2>5, <1>8, <1>9 DEF P
  <2> QED
    BY <2>6 DEF e, Q, start, P
<1> QED
  BY <1>11, <1>12

(* What any search finds: of its results, one that is closest has no closer*)
(* link.                                                                   *)
LEMMA LocalBeamIs ==
  ASSUME NEW links, IsFiniteSet(DOMAIN links), NEW d, Measured(d, DOMAIN links),
         Linked(links, DOMAIN links), NEW l \in Nat \ {0}, NEW ep \in DOMAIN links
  PROVE  LET found == Beam(d, links, From(ep), l).results IN
         /\ found \subseteq DOMAIN links /\ \E r \in found : d[r] <= d[ep]
         /\ \A x \in found : (\A y \in found : d[x] <= d[y])
               => \A n \in Range(links[x]) : d[x] <= d[n]
<1> DEFINE N == DOMAIN links
           start == From(ep)
           e == Beam(d, links, start, l)
<1>1. start.seen = {ep} /\ start.frontier = {ep} /\ start.results = {ep} /\ start \in Within(N)
  BY DEF From, Within
<1> HIDE DEF start
<1>2. Sane(d, links, l, {}, {}, {ep}, start)
  <2>1. Cardinality({ep}) = 1 /\ d[ep] \in Int
    BY FS_Singleton DEF Measured
  <2> QED
    BY <2>1, <1>1 DEF Sane
<1>3. e \in Within(N) /\ Sane(d, links, l, {}, {}, {ep}, e) /\ Ended(d, e, l)
  <2>1. {ep} \in SUBSET N /\ N \in SUBSET N
    OBVIOUS
  <2> QED
    BY <2>1, <1>1, <1>2, BeamIs
<1> HIDE DEF e
<1>4. /\ e.seen \subseteq N /\ e.frontier \subseteq e.seen /\ e.results \subseteq e.seen
      /\ \E r \in e.results : d[r] <= d[ep]
  BY <1>3 DEF Within, Sane
<1>5. ASSUME NEW x \in e.results, \A y \in e.results : d[x] <= d[y], NEW n \in Range(links[x])
      PROVE  d[x] <= d[n]
  <2>1. x \in N /\ n \in N /\ d[x] \in Int /\ d[n] \in Int
    <3>1. links[x] \in Seq(N)
      BY <1>4 DEF Linked
    <3> HIDE DEF N
    <3>2. x \in N
      BY <1>4
    <3>3. n \in N
      BY <3>1 DEF Range
    <3> QED
      BY <3>2, <3>3 DEF Measured, N
  <2>2. CASE x \in e.frontier
    <3> DEFINE c == Closest(d, e.frontier)
               far == Farthest(d, e.results)
    <3>1. d[c] > d[far]
      BY <2>2, <1>3 DEF Ended, Worst
    <3>2. /\ IsFiniteSet(e.frontier) /\ IsFiniteSet(e.results)
          /\ Measured(d, e.frontier) /\ Measured(d, e.results)
      BY <1>4, FS_Subset DEF Measured
    <3>3. c \in e.frontier /\ d[c] <= d[x]
      BY <3>2, <2>2, ClosestIs
    <3>4. far \in e.results /\ d[x] <= d[far]
      BY <3>2, <1>5, ClosestIs
    <3>5. d[c] \in Int /\ d[far] \in Int
      BY <3>2, <3>3, <3>4 DEF Measured
    <3> HIDE DEF c, far
    <3> QED
      BY <3>1, <3>3, <3>4, <3>5, <2>1
  <2>3. CASE x \notin e.frontier
    <3>1. n \in e.seen
      BY <2>3, <1>3, <1>4 DEF Sane
    <3>2. CASE n \in e.results
      BY <3>2, <1>5
    <3>3. CASE n \notin e.results
      BY <3>1, <3>3, <1>3, <1>5 DEF Sane, Beyond
    <3> QED
      BY <3>2, <3>3
  <2> QED
    BY <2>2, <2>3
<1> QED
  BY <1>4, <1>5 DEF e, start

-----------------------------------------------------------------------------
(* Sequences of nodes.                                                     *)

(* An element is added that was not there.                                 *)
LEMMA AppendIs ==
  ASSUME NEW N, NEW out \in Seq(N), NEW x \in N
  PROVE  /\ Append(out, x) \in Seq(N) /\ Len(Append(out, x)) = Len(out) + 1
         /\ Range(Append(out, x)) = Range(out) \cup {x}
         /\ IsInjective(out) /\ x \notin Range(out) => IsInjective(Append(out, x))
<1> DEFINE y == Append(out, x)
           n == Len(out)
<1>1. /\ y \in Seq(N) /\ Len(y) = n + 1 /\ n \in Nat
      /\ DOMAIN y = 1 .. n + 1 /\ DOMAIN out = 1 .. n
      /\ y[n + 1] = x /\ \A i \in 1 .. n : y[i] = out[i]
  OBVIOUS
<1> HIDE DEF y, n
<1>2. \A i \in 1 .. n + 1 : i = n + 1 \/ i \in 1 .. n
  BY <1>1
<1>3. Range(y) = Range(out) \cup {x}
  <2>1. n + 1 \in 1 .. n + 1 /\ \A i \in 1 .. n : i \in 1 .. n + 1
    BY <1>1
  <2> QED
    BY <1>1, <1>2, <2>1 DEF Range
<1>4. ASSUME IsInjective(out), x \notin Range(out) PROVE IsInjective(y)
  <2>1. \A i, j \in 1 .. n : out[i] = out[j] => i = j
    BY <1>1, <1>4 DEF IsInjective
  <2>2. \A i \in 1 .. n : out[i] # x
    BY <1>1, <1>4 DEF Range
  <2>3. \A i, j \in 1 .. n + 1 : y[i] = y[j] => i = j
    BY <1>1, <1>2, <2>1, <2>2
  <2> QED
    BY <1>1, <2>3 DEF IsInjective
<1> QED
  BY <1>1, <1>3, <1>4 DEF y, n

(* What a filter leaves.                                                   *)
LEMMA WithoutIs ==
  ASSUME NEW N, NEW s \in Seq(N), NEW S
  PROVE  /\ Without(s, S) \in Seq(N)
         /\ Range(Without(s, S)) = Range(s) \ S
         /\ IsInjective(s) => IsInjective(Without(s, S))
         /\ Len(Without(s, S)) <= Len(s)
<1> DEFINE n == Len(s)
           t == Without(s, S)
           V == Seq(N)
           op(u, x) == IF x \in S THEN u ELSE Append(u, x)
           Steps(g) == g = [r \in SUBSET DOMAIN s |->
                          IF r = {} THEN <<>> ELSE op(g[r \ {Max(r)}], s[Max(r)])]
           G == [p \in (1 .. n) \X V |-> op(p[2], s[p[1]])]
<1>1. n \in Nat /\ DOMAIN s = 1 .. n /\ <<>> \in V /\ \A k \in 1 .. n : s[k] \in N
  OBVIOUS
<1>2. ASSUME NEW u \in V, NEW x \in N PROVE op(u, x) \in V
  BY AppendIs
<1> HIDE DEF n, V, op
<1>3. G \in [(1 .. n) \X V -> V] /\ \A k \in 1 .. n, u \in V : G[<<k, u>>] = op(u, s[k])
  BY <1>1, <1>2
<1> HIDE DEF G
<1>4. \E g : Steps(g)
  <2>1. PICK g : Solves(g, n, V, <<>>, G)
    BY <1>1, <1>3, FoldExists
  <2>2. ASSUME NEW r \in SUBSET (1 .. n), r # {}
        PROVE  g[r] = op(g[r \ {Max(r)}], s[Max(r)])
    BY <2>1, <2>2, <1>3 DEF Solves
  <2>3. g = [r \in SUBSET (1 .. n) |->
               IF r = {} THEN <<>> ELSE op(g[r \ {Max(r)}], s[Max(r)])]
    BY <2>1, <2>2 DEF Solves
  <2> QED
    BY <2>3, <1>1
<1>5. \E g : Steps(g) /\ t = g[DOMAIN s]
  BY <1>4 DEF Without, FoldLeft, MapThenFoldSet, op
<1> HIDE DEF t, Steps
<1>6. PICK g : Steps(g) /\ t = g[DOMAIN s]
  BY <1>5
<1>7. g[{}] = <<>> /\ \A k \in 1 .. n : g[1 .. k] = op(g[1 .. k - 1], s[k])
  <2>1. g = [r \in SUBSET (1 .. n) |->
               IF r = {} THEN <<>> ELSE op(g[r \ {Max(r)}], s[Max(r)])]
    BY <1>6, <1>1 DEF Steps
  <2>2. {} \in SUBSET (1 .. n)
    OBVIOUS
  <2>3. g[{}] = <<>>
    BY <2>1, <2>2, Zenon
  <2>4. ASSUME NEW k \in 1 .. n PROVE g[1 .. k] = op(g[1 .. k - 1], s[k])
    <3>0. n \in Nat /\ k \in Nat \ {0}
      BY <1>1
    <3>1. 1 .. k # {} /\ Max(1 .. k) = k /\ (1 .. k) \ {k} = 1 .. k - 1
      BY <3>0, MaxUpTo
    <3>2. 1 .. k \in SUBSET (1 .. n)
      BY <3>0
    <3>3. g[1 .. k] = op(g[(1 .. k) \ {Max(1 .. k)}], s[Max(1 .. k)])
      BY <2>1, <3>1, <3>2, Zenon
    <3> QED
      BY <3>1, <3>3, Zenon
  <2> QED
    BY <2>3, <2>4
<1>8. PICK F : Runs(F, n, V, <<>>, G, t)
  <2>1. \A k \in 1 .. n : g[1 .. k - 1] \in V => g[1 .. k] = G[<<k, g[1 .. k - 1]>>]
    BY <1>3, <1>7
  <2>2. g[1 .. n] = t
    BY <1>6, <1>1
  <2> QED
    BY <2>1, <2>2, <1>1, <1>3, <1>7, FoldRun
<1> DEFINE Good(k, u) == /\ u \in Seq(N) /\ Len(u) <= k
                         /\ Range(u) = {s[i] : i \in 1 .. k} \ S
                         /\ IsInjective(s) => IsInjective(u)
           K == {k \in 0 .. n : Good(k, F[k])}
<1>9. 0 \in K
  <2>1. F[0] = <<>>
    BY <1>8 DEF Runs
  <2>2. Range(<<>>) = {} /\ IsInjective(<<>>) /\ {s[i] : i \in 1 .. 0} = {}
    BY DEF Range, IsInjective
  <2>3. Good(0, <<>>)
    BY <2>2
  <2>4. 0 \in 0 .. n
    BY <1>1
  <2> HIDE DEF Good
  <2> QED
    BY <2>1, <2>3, <2>4
<1>10. ASSUME NEW k \in 1 .. n, k - 1 \in K PROVE k \in K
  <2>1. F[k - 1] \in V /\ Good(k - 1, F[k - 1]) /\ s[k] \in N /\ k \in Nat
    BY <1>1, <1>8, <1>10 DEF Runs
  <2>2. F[k] = op(F[k - 1], s[k])
    BY <2>1, <1>3, <1>8 DEF Runs
  <2>3. {s[i] : i \in 1 .. k} = {s[i] : i \in 1 .. k - 1} \cup {s[k]}
    <3>1. \A i \in 1 .. k : i = k \/ i \in 1 .. k - 1
      OBVIOUS
    <3>2. k \in 1 .. k /\ \A i \in 1 .. k - 1 : i \in 1 .. k
      OBVIOUS
    <3> QED
      BY <3>1, <3>2
  <2>4. CASE s[k] \in S
    <3>1. F[k] = F[k - 1]
      BY <2>2, <2>4 DEF op
    <3> QED
      BY <3>1, <2>1, <2>3, <2>4, <1>1
  <2>5. CASE s[k] \notin S
    <3>1. F[k] = Append(F[k - 1], s[k])
      BY <2>2, <2>5 DEF op
    <3>2. /\ F[k] \in Seq(N) /\ Len(F[k]) = Len(F[k - 1]) + 1
          /\ Range(F[k]) = Range(F[k - 1]) \cup {s[k]}
          /\ IsInjective(F[k - 1]) /\ s[k] \notin Range(F[k - 1]) => IsInjective(F[k])
      BY <3>1, <2>1, AppendIs
    <3>3. IsInjective(s) => s[k] \notin Range(F[k - 1])
      BY <2>1, <1>1 DEF IsInjective
    <3>4. Len(F[k]) <= k
      BY <3>2, <2>1
    <3> QED
      BY <3>2, <3>3, <3>4, <2>1, <2>3, <2>5, <1>1
  <2> QED
    BY <2>4, <2>5
<1>11. Good(n, t)
  <2>1. n \in Nat
    BY <1>1
  <2>2. \A k \in 0 .. n : k \in K
    <3> HIDE DEF K
    <3> QED
      BY <2>1, <1>9, <1>10, Induct
  <2> QED
    BY <2>1, <2>2, <1>8 DEF Runs
<1>12. Range(s) = {s[i] : i \in 1 .. n}
  BY <1>1 DEF Range
<1> QED
  BY <1>11, <1>12 DEF t, n

(* One sequence after another.                                             *)
LEMMA ConcatIs ==
  ASSUME NEW N, NEW s \in Seq(N), NEW t \in Seq(N)
  PROVE  /\ s \o t \in Seq(N) /\ Len(s \o t) = Len(s) + Len(t)
         /\ Range(s \o t) = Range(s) \cup Range(t)
         /\ IsInjective(s) /\ IsInjective(t) /\ Range(s) \cap Range(t) = {}
               => IsInjective(s \o t)
<1> DEFINE n == Len(s)
           k == Len(t)
           u == s \o t
<1>1. n \in Nat /\ k \in Nat /\ DOMAIN s = 1 .. n /\ DOMAIN t = 1 .. k
  OBVIOUS
<1>2. u \in Seq(N) /\ Len(u) = n + k /\ DOMAIN u = 1 .. n + k
  OBVIOUS
<1>3. /\ \A i \in 1 .. n : u[i] = s[i]
      /\ \A i \in 1 .. k : u[n + i] = t[i]
  OBVIOUS
<1> HIDE DEF u, n, k
<1>4. \A i \in 1 .. n + k : i \in 1 .. n \/ \E j \in 1 .. k : i = n + j
  <2> SUFFICES ASSUME NEW i \in 1 .. n + k, i \notin 1 .. n PROVE \E j \in 1 .. k : i = n + j
    OBVIOUS
  <2>1. i - n \in 1 .. k /\ i = n + (i - n)
    BY <1>1
  <2> QED
    BY <2>1
<1>5. Range(u) = Range(s) \cup Range(t)
  <2>1. ASSUME NEW x \in Range(u) PROVE x \in Range(s) \cup Range(t)
    <3>1. PICK i \in 1 .. n + k : x = u[i]
      BY <1>2 DEF Range
    <3> QED
      BY <3>1, <1>1, <1>3, <1>4 DEF Range
  <2>2. \A i \in 1 .. n : i \in 1 .. n + k
    BY <1>1
  <2>3. \A j \in 1 .. k : n + j \in 1 .. n + k
    BY <1>1
  <2>4. ASSUME NEW x \in Range(s) PROVE x \in Range(u)
    BY <2>2, <1>1, <1>2, <1>3 DEF Range
  <2>5. ASSUME NEW x \in Range(t) PROVE x \in Range(u)
    BY <2>3, <1>1, <1>2, <1>3 DEF Range
  <2> QED
    BY <2>1, <2>4, <2>5
<1>6. ASSUME IsInjective(s), IsInjective(t), Range(s) \cap Range(t) = {} PROVE IsInjective(u)
  <2> SUFFICES ASSUME NEW i \in 1 .. n + k, NEW j \in 1 .. n + k, u[i] = u[j] PROVE i = j
    BY <1>2 DEF IsInjective
  <2>1. \A a \in 1 .. n, b \in 1 .. k : s[a] # t[b]
    BY <1>1, <1>6 DEF Range
  <2>2. CASE i \in 1 .. n /\ j \in 1 .. n
    BY <2>2, <1>1, <1>3, <1>6 DEF IsInjective
  <2>3. CASE i \in 1 .. n /\ j \notin 1 .. n
    BY <2>1, <2>3, <1>3, <1>4
  <2>4. CASE i \notin 1 .. n /\ j \in 1 .. n
    BY <2>1, <2>4, <1>3, <1>4
  <2>5. CASE i \notin 1 .. n /\ j \notin 1 .. n
    <3>1. PICK a \in 1 .. k, b \in 1 .. k : i = n + a /\ j = n + b
      BY <2>5, <1>4
    <3> QED
      BY <3>1, <1>1, <1>3, <1>6 DEF IsInjective
  <2> QED
    BY <2>2, <2>3, <2>4, <2>5
<1> QED
  BY <1>2, <1>5, <1>6 DEF u, n, k

(* The beginning of a sequence.                                            *)
LEMMA FirstOfIs ==
  ASSUME NEW N, NEW s \in Seq(N), NEW k \in Nat
  PROVE  /\ FirstOf(s, k) \in Seq(N) /\ Len(FirstOf(s, k)) = Smaller(k, Len(s))
         /\ Len(FirstOf(s, k)) <= k /\ Range(FirstOf(s, k)) \subseteq Range(s)
         /\ IsInjective(s) => IsInjective(FirstOf(s, k))
         /\ s # <<>> /\ k > 0 => FirstOf(s, k) # <<>> /\ FirstOf(s, k)[1] = s[1]
         /\ Len(s) <= k => FirstOf(s, k) = s
<1> DEFINE n == Smaller(k, Len(s))
           e == FirstOf(s, k)
<1>1. n \in Nat /\ n <= k /\ n <= Len(s) /\ Len(s) \in Nat /\ (n = k \/ n = Len(s))
  BY DEF Smaller
<1>2. e = SubSeq(s, 1, n)
  BY DEF FirstOf
<1> HIDE DEF n, e
<1>3. e \in Seq(N) /\ Len(e) = n /\ DOMAIN e = 1 .. n /\ \A i \in 1 .. n : e[i] = s[i]
  BY <1>1, <1>2
<1>4. \A i \in 1 .. n : i \in DOMAIN s
  BY <1>1
<1>5. Range(e) \subseteq Range(s) /\ (IsInjective(s) => IsInjective(e))
  BY <1>3, <1>4 DEF Range, IsInjective
<1>6. ASSUME s # <<>>, k > 0 PROVE e # <<>> /\ e[1] = s[1]
  <2>1. Len(s) > 0
    BY <1>6, <1>1, EmptySeq
  <2> QED
    BY <2>1, <1>1, <1>3, <1>6
<1>7. Len(s) <= k => e = s
  BY <1>1, <1>3
<1> QED
  BY <1>1, <1>3, <1>5, <1>6, <1>7 DEF n, e

(* The elements of a part that begins a sequence.                          *)
LEMMA FirstAt ==
  ASSUME NEW N, NEW s \in Seq(N), NEW k \in Nat
  PROVE  /\ Len(FirstOf(s, k)) \in Nat /\ Len(s) \in Nat
         /\ Len(FirstOf(s, k)) = Smaller(k, Len(s)) /\ DOMAIN FirstOf(s, k) = 1 .. Len(FirstOf(s, k))
         /\ \A i \in 1 .. Len(FirstOf(s, k)) : FirstOf(s, k)[i] = s[i] /\ i \in 1 .. Len(s)
<1> DEFINE n == Smaller(k, Len(s))
<1>1. n \in Nat /\ n <= Len(s) /\ Len(s) \in Nat
  BY DEF Smaller
<1>2. FirstOf(s, k) = SubSeq(s, 1, n)
  BY DEF FirstOf
<1> HIDE DEF n
<1>3. Len(SubSeq(s, 1, n)) = n /\ \A i \in 1 .. n : SubSeq(s, 1, n)[i] = s[i]
  BY <1>1
<1>4. DOMAIN SubSeq(s, 1, n) = 1 .. n
  BY <1>1
<1> QED
  BY <1>1, <1>2, <1>3, <1>4 DEF n

-----------------------------------------------------------------------------
(* Sequences in order of distance.                                         *)
Preceding(d, n, c) == {e \in 1 .. n : Before(d, e, c)}

(* The p first of n nodes in order are those that fewer than p precede.    *)
LEMMA FirstsAre ==
  ASSUME NEW n \in Nat, NEW d, Measured(d, 1 .. n), NEW p \in Nat
  PROVE  LET f == FirstOf(Sorted(d, UpTo(n)), p) IN
         /\ f \in Seq(1 .. n) /\ IsInjective(f)
         /\ \A c : c \in Range(f) <=> c \in 1 .. n /\ Cardinality(Preceding(d, n, c)) < p
<1> DEFINE D == 1 .. n
           Rel == Nearer(d, D)
           rank(k) == Cardinality({e \in D : Before(d, e, k)})
           u == UpTo(n)
           Near(k) == {i \in DOMAIN u : \/ d[u[i]] < d[u[k]]
                                        \/ d[u[i]] = d[u[k]] /\ i < k}
           At(r) == CHOOSE k \in DOMAIN u : Cardinality(Near(k)) = r - 1
           t == Sorted(d, u)
           f == FirstOf(t, p)
           w == Smaller(p, n)
<1>1. /\ u \in Seq(D) /\ Len(u) = n /\ DOMAIN u = D /\ IsInjective(u)
      /\ \A i \in D : u[i] = i /\ d[i] \in Int
  <2>1. u = [i \in D |-> i]
    BY DEF UpTo
  <2> HIDE DEF u
  <2> QED
    BY <2>1 DEF IsInjective, Measured
<1>2. IsFiniteSet(D) /\ Cardinality(D) = n
  BY FS_Interval
<1>3. /\ \A k \in D : \E i \in D : rank(i) = k - 1
      /\ \A i \in D : rank(i) \in 0 .. n - 1
      /\ \A i, k \in D : rank(i) = rank(k) => i = k
  <2>1. Ordered(Rel, D) /\ \A a, b \in D : <<a, b>> \in Rel <=> Before(d, a, b)
    BY NearerOrdered
  <2>0. Ordered(Rel, D)
    BY <2>1
  <2> HIDE DEF D, Rel
  <2>2. /\ \A k \in 1 .. n : \E i \in D : Cardinality(Ahead(Rel, D, i)) = k - 1
        /\ \A i \in D : Cardinality(Ahead(Rel, D, i)) \in 0 .. n - 1
        /\ \A i, k \in D : Cardinality(Ahead(Rel, D, i)) = Cardinality(Ahead(Rel, D, k)) => i = k
    <3>1. /\ Cardinality(D) \in Nat
          /\ \A k \in 1 .. Cardinality(D) : \E i \in D : Cardinality(Ahead(Rel, D, i)) = k - 1
          /\ \A i \in D : Cardinality(Ahead(Rel, D, i)) \in 0 .. Cardinality(D) - 1
          /\ \A i, k \in D : Cardinality(Ahead(Rel, D, i)) = Cardinality(Ahead(Rel, D, k)) => i = k
      BY <2>0, <1>2, Ranks, Zenon
    <3> QED
      BY <3>1, <1>2
  <2>3. \A k \in D : Ahead(Rel, D, k) = {e \in D : Before(d, e, k)}
    BY <2>1 DEF Ahead
  <2>4. \A k \in D : Cardinality(Ahead(Rel, D, k)) = rank(k)
    BY <2>3
  <2> HIDE DEF rank
  <2> QED
    BY <2>2, <2>4 DEF D
<1>4. \A k \in D : Cardinality(Near(k)) = rank(k)
  <2> TAKE k \in D
  <2>1. Near(k) = {e \in D : Before(d, e, k)}
    <3> HIDE DEF u
    <3> QED
      BY <1>1 DEF Before
  <2> QED
    BY <2>1, Zenon
<1>5. t = [r \in D |-> u[At(r)]]
  <2>1. t = [r \in DOMAIN u |-> u[At(r)]]
    BY DEF Sorted
  <2> QED
    BY <2>1, <1>1
<1> HIDE DEF u, t, rank, Near
<1>6. \A r \in D : At(r) \in D /\ Cardinality(Near(At(r))) = r - 1
  <2>1. \A r \in D : \E k \in DOMAIN u : Cardinality(Near(k)) = r - 1
    <3> TAKE r \in D
    <3>1. PICK i \in D : rank(i) = r - 1
      BY <1>3
    <3>2. i \in DOMAIN u /\ Cardinality(Near(i)) = r - 1
      BY <1>1, <1>4, <3>1
    <3> QED
      BY <3>2
  <2>2. \A r \in D : At(r) \in DOMAIN u /\ Cardinality(Near(At(r))) = r - 1
    BY <2>1
  <2> HIDE DEF At
  <2> QED
    BY <2>2, <1>1
<1> HIDE DEF At
<1>7. /\ DOMAIN t = D /\ Len(t) = n /\ t \in Seq(D)
      /\ \A r \in D : t[r] \in D /\ rank(t[r]) = r - 1
  <2>1. \A r \in D : t[r] = At(r) /\ At(r) \in D
    BY <1>1, <1>5, <1>6
  <2>2. \A r \in D : t[r] \in D /\ rank(t[r]) = r - 1
    BY <2>1, <1>4, <1>6
  <2>3. t \in [D -> D]
    BY <2>2, <1>5
  <2> QED
    BY <2>2, <2>3
<1>8. IsInjective(t)
  BY <1>7 DEF IsInjective
<1>9. w \in Nat /\ w <= p /\ w <= n /\ (w = p \/ w = n)
  BY DEF Smaller
<1>10. f \in Seq(D) /\ IsInjective(f) /\ DOMAIN f = 1 .. w /\ \A r \in 1 .. w : f[r] = t[r] /\ r \in D
  <2>1. f = SubSeq(t, 1, w)
    BY <1>7 DEF FirstOf
  <2>2. f \in Seq(D) /\ IsInjective(f)
    BY <1>7, <1>8, FirstOfIs
  <2> HIDE DEF w, f
  <2>3. Len(f) = w /\ DOMAIN f = 1 .. w /\ \A r \in 1 .. w : f[r] = t[r]
    BY <2>1, <1>7, <1>9
  <2>4. \A r \in 1 .. w : r \in D
    BY <1>9
  <2> QED
    BY <2>2, <2>3, <2>4
<1> HIDE DEF f, w
<1>11. Range(f) = {c \in D : rank(c) < p}
  <2>1. ASSUME NEW c \in Range(f) PROVE c \in D /\ rank(c) < p
    <3>1. PICK r \in 1 .. w : c = f[r]
      BY <2>1, <1>10 DEF Range
    <3>2. c \in D /\ rank(c) = r - 1
      BY <3>1, <1>7, <1>10
    <3> QED
      BY <3>2, <1>9
  <2>2. ASSUME NEW c \in D, rank(c) < p PROVE c \in Range(f)
    <3>1. rank(c) + 1 \in 1 .. w /\ rank(c) \in Int
      BY <2>2, <1>3, <1>9
    <3>2. f[rank(c) + 1] \in D /\ rank(f[rank(c) + 1]) = rank(c)
      BY <3>1, <1>7, <1>10
    <3>3. f[rank(c) + 1] = c
      BY <3>2, <1>3, <2>2
    <3> QED
      BY <3>1, <3>3, <1>10 DEF Range
  <2> QED
    BY <2>1, <2>2
<1>12. \A c \in D : Cardinality(Preceding(d, n, c)) = rank(c)
  BY DEF Preceding, rank
<1> QED
  BY <1>10, <1>11, <1>12 DEF f, t, u

(* An enumeration is as long as its set is large.                          *)
LEMMA LengthIs ==
  ASSUME NEW N, NEW a \in Seq(N), IsInjective(a)
  PROVE  IsFiniteSet(Range(a)) /\ Cardinality(Range(a)) = Len(a)
<1> DEFINE D == 1 .. Len(a)
<1>1. Len(a) \in Nat /\ DOMAIN a = D /\ a \in [D -> Range(a)]
  BY DEF Range
<1>2. a \in Bijection(D, Range(a))
  BY <1>1 DEF Bijection, Injection, Surjection, IsInjective, Range
<1>3. ExistsBijection(D, Range(a))
  BY <1>2 DEF ExistsBijection
<1>4. IsFiniteSet(D) /\ Cardinality(D) = Len(a)
  BY <1>1, FS_Interval
<1> HIDE DEF D
<1> QED
  BY <1>3, <1>4, FS_Bijection

-----------------------------------------------------------------------------
(* Layers: what links lead to, at every step of an insertion. Only the     *)
(* links of a graph matter here, so that it may have any other fields.     *)

(* A graph whose links are sound, each node with a list on every layer.    *)
WellLinked(g) ==
    /\ g.links \in Seq(Seq(Seq(Nat)) \ {<<>>})
    /\ LinksLevelled(g) /\ LinksBounded(g)

OnLayer(g, lc) == {n \in Nodes(g) : lc <= Level(g, n)}

(* No link leads to new, on the layers up to top.                          *)
NotYet(g, new, top) ==
    \A n \in Nodes(g), lc \in 0 .. top : new \notin Range(LinksAt(g, n, lc))

LEMMA LevelsAre ==
  ASSUME NEW g, WellLinked(g)
  PROVE  /\ Nodes(g) = 1 .. Len(g.links) /\ Len(g.links) \in Nat
         /\ IsFiniteSet(Nodes(g)) /\ Nodes(g) \in SUBSET Int
         /\ \A n \in Nodes(g) : Level(g, n) \in Nat
<1>1. g.links \in Seq(Seq(Seq(Nat)) \ {<<>>})
  BY DEF WellLinked
<1>2. Nodes(g) = 1 .. Len(g.links) /\ Len(g.links) \in Nat
  BY <1>1 DEF Nodes
<1>3. IsFiniteSet(Nodes(g))
  BY <1>2, FS_Interval
<1>4. ASSUME NEW n \in Nodes(g) PROVE Level(g, n) \in Nat
  <2>1. g.links[n] \in Seq(Seq(Nat)) /\ g.links[n] # <<>>
    BY <1>1, <1>2
  <2>2. Len(g.links[n]) \in Nat \ {0}
    BY <2>1, EmptySeq
  <2> QED
    BY <2>2 DEF Level
<1> QED
  BY <1>2, <1>3, <1>4

(* What a list of links is.                                                *)
LEMMA ListIs ==
  ASSUME NEW g, WellLinked(g), NEW n \in Nodes(g), NEW lc \in Nat
  PROVE  /\ LinksAt(g, n, lc) \in Seq(OnLayer(g, lc) \ {n})
         /\ IsInjective(LinksAt(g, n, lc)) /\ Len(LinksAt(g, n, lc)) <= CapOf(lc)
<1>1. CASE lc <= Level(g, n)
  <2>1. lc \in 0 .. Level(g, n)
    BY <1>1, LevelsAre
  <2>2. LinksAt(g, n, lc) \in Seq(Nat)
    <3>1. g.links[n] \in Seq(Seq(Nat))
      BY LevelsAre DEF WellLinked
    <3>2. lc + 1 \in 1 .. Len(g.links[n])
      BY <2>1, <3>1 DEF Level
    <3>3. LinksAt(g, n, lc) = g.links[n][lc + 1]
      BY <1>1 DEF LinksAt
    <3> QED
      BY <3>1, <3>2, <3>3
  <2>3. \A k \in DOMAIN LinksAt(g, n, lc) : LinksAt(g, n, lc)[k] \in OnLayer(g, lc) \ {n}
    BY <2>1 DEF WellLinked, LinksLevelled, OnLayer
  <2>4. LinksAt(g, n, lc) \in Seq(OnLayer(g, lc) \ {n})
    <3> DEFINE s == LinksAt(g, n, lc)
    <3> HIDE DEF s
    <3> QED
      BY <2>2, <2>3 DEF s
  <2> QED
    BY <2>1, <2>4 DEF WellLinked, LinksBounded
<1>2. CASE ~ (lc <= Level(g, n))
  <2>1. LinksAt(g, n, lc) = <<>>
    BY <1>2 DEF LinksAt
  <2>2. CapOf(lc) \in Nat
    BY CapsAssumption DEF CapOf
  <2>3. IsInjective(<<>>)
    BY DEF IsInjective
  <2> QED
    BY <2>1, <2>2, <2>3
<1> QED
  BY <1>1, <1>2

(* The links of a layer stay on it, and off a node they do not lead to.    *)
LEMMA LayerIs ==
  ASSUME NEW g, WellLinked(g), NEW lc \in Nat
  PROVE  /\ DOMAIN Layer(g, lc) = Nodes(g)
         /\ Linked(Layer(g, lc), Nodes(g)) /\ Linked(Layer(g, lc), OnLayer(g, lc))
         /\ \A new, top \in Nat : NotYet(g, new, top) /\ lc <= top
               => Linked(Layer(g, lc), OnLayer(g, lc) \ {new})
<1>1. DOMAIN Layer(g, lc) = Nodes(g) /\ \A n \in Nodes(g) : Layer(g, lc)[n] = LinksAt(g, n, lc)
  BY DEF Layer
<1>2. \A n \in Nodes(g) : LinksAt(g, n, lc) \in Seq(OnLayer(g, lc) \ {n})
  BY ListIs
<1>3. OnLayer(g, lc) \subseteq Nodes(g)
  BY DEF OnLayer
<1>4. ASSUME NEW n \in Nodes(g)
      PROVE  LinksAt(g, n, lc) \in Seq(OnLayer(g, lc)) /\ LinksAt(g, n, lc) \in Seq(Nodes(g))
  <2> DEFINE s == LinksAt(g, n, lc)
  <2>1. s \in Seq(OnLayer(g, lc) \ {n})
    BY <1>2
  <2> HIDE DEF s
  <2>2. s \in Seq(OnLayer(g, lc)) /\ s \in Seq(Nodes(g))
    BY <2>1, <1>3
  <2> QED
    BY <2>2 DEF s
<1>5. ASSUME NEW new \in Nat, NEW top \in Nat, NotYet(g, new, top), lc <= top, NEW n \in Nodes(g)
      PROVE  LinksAt(g, n, lc) \in Seq(OnLayer(g, lc) \ {new})
  <2> DEFINE s == LinksAt(g, n, lc)
  <2>1. new \notin Range(s)
    BY <1>5 DEF NotYet
  <2>2. s \in Seq(OnLayer(g, lc))
    BY <1>4
  <2> HIDE DEF s
  <2>3. s \in Seq(OnLayer(g, lc) \ {new})
    BY <2>1, <2>2 DEF Range
  <2> QED
    BY <2>3 DEF s
<1> DEFINE layer == Layer(g, lc)
<1> HIDE DEF layer
<1>6. DOMAIN layer = Nodes(g) /\ \A n \in Nodes(g) : layer[n] = LinksAt(g, n, lc)
  BY <1>1 DEF layer
<1>7. Linked(layer, Nodes(g)) /\ Linked(layer, OnLayer(g, lc))
  BY <1>3, <1>4, <1>6 DEF Linked
<1>8. ASSUME NEW new \in Nat, NEW top \in Nat, NotYet(g, new, top), lc <= top
      PROVE  Linked(layer, OnLayer(g, lc) \ {new})
  <2>1. \A n \in Nodes(g) : LinksAt(g, n, lc) \in Seq(OnLayer(g, lc) \ {new})
    BY <1>8, <1>5
  <2> QED
    BY <2>1, <1>3, <1>6 DEF Linked
<1> QED
  BY <1>1, <1>7, <1>8 DEF layer

-----------------------------------------------------------------------------
(* One list is set.                                                        *)

SameNodes(g, h) == Nodes(h) = Nodes(g) /\ \A n \in Nodes(g) : Level(h, n) = Level(g, n)

ListReplaced(g, h, n, lc, s) ==
    h.links = [g.links EXCEPT ![n] = [g.links[n] EXCEPT ![lc + 1] = s]]

LinksReplaced(g, h, n, lc, s) ==
    \A x \in Nodes(g), k \in Nat :
        LinksAt(h, x, k) = IF x = n /\ k = lc THEN s ELSE LinksAt(g, x, k)

LEMMA SameLayers ==
  ASSUME NEW g, NEW h, SameNodes(g, h), NEW lc
  PROVE  OnLayer(h, lc) = OnLayer(g, lc)
BY DEF SameNodes, OnLayer

LEMMA ListReplacedIs ==
  ASSUME NEW g, WellLinked(g), NEW n \in Nodes(g), NEW lc \in 0 .. Level(g, n),
         NEW s \in Seq(OnLayer(g, lc) \ {n}), IsInjective(s), Len(s) <= CapOf(lc),
         NEW h, ListReplaced(g, h, n, lc, s)
  PROVE  WellLinked(h) /\ SameNodes(g, h) /\ LinksReplaced(g, h, n, lc, s)
<1> DEFINE lists == g.links
           T == Seq(Seq(Nat)) \ {<<>>}
           new == [lists[n] EXCEPT ![lc + 1] = s]
<1>1. /\ lists \in Seq(T) /\ Nodes(g) = 1 .. Len(lists) /\ DOMAIN lists = 1 .. Len(lists) /\ Len(lists) \in Nat
      /\ \A x \in Nodes(g) : Level(g, x) \in Nat
  BY LevelsAre DEF WellLinked
<1>2. s \in Seq(Nat)
  <2>1. OnLayer(g, lc) \ {n} \subseteq Nat
    BY <1>1 DEF OnLayer
  <2> HIDE DEF lists
  <2> QED
    BY <2>1
<1>3. /\ lists[n] \in Seq(Seq(Nat)) /\ Len(lists[n]) \in Nat /\ lc + 1 \in 1 .. Len(lists[n])
      /\ DOMAIN lists[n] = 1 .. Len(lists[n]) /\ lc \in Nat
  <2>1. lists[n] \in Seq(Seq(Nat))
    BY <1>1
  <2>2. Len(lists[n]) \in Nat /\ DOMAIN lists[n] = 1 .. Len(lists[n])
    BY <2>1
  <2>3. lc \in 0 .. Len(lists[n]) - 1
    BY DEF Level
  <2> QED
    BY <2>1, <2>2, <2>3
<1>4. /\ new \in T /\ Len(new) = Len(lists[n]) /\ new[lc + 1] = s
      /\ \A k \in 1 .. Len(lists[n]) : k # lc + 1 => new[k] = lists[n][k]
  <2> DEFINE ln == lists[n]
  <2> HIDE DEF ln, lists
  <2>1. /\ ln \in Seq(Seq(Nat)) /\ lc + 1 \in 1 .. Len(ln)
    BY <1>3 DEF ln
  <2>2. /\ [ln EXCEPT ![lc + 1] = s] \in Seq(Seq(Nat))
        /\ Len([ln EXCEPT ![lc + 1] = s]) = Len(ln)
        /\ \A j \in 1 .. Len(ln) : [ln EXCEPT ![lc + 1] = s][j] = IF j = lc + 1 THEN s ELSE ln[j]
    BY <2>1, <1>2, ExceptSeq
  <2>3. [ln EXCEPT ![lc + 1] = s] # <<>>
    BY <2>1, <2>2
  <2> QED
    BY <2>1, <2>2, <2>3 DEF ln
<1> HIDE DEF new
<1>5. /\ h.links \in Seq(T) /\ Len(h.links) = Len(lists) /\ DOMAIN h.links = DOMAIN lists
      /\ h.links[n] = new /\ \A x \in Nodes(g) : x # n => h.links[x] = lists[x]
  <2> DEFINE hl == h.links
  <2>1. hl = [lists EXCEPT ![n] = new]
    BY DEF ListReplaced, new
  <2> HIDE DEF hl, lists, T
  <2>2. /\ hl \in Seq(T) /\ Len(hl) = Len(lists)
        /\ \A x \in 1 .. Len(lists) : hl[x] = IF x = n THEN new ELSE lists[x]
    BY <2>1, <1>1, <1>4, ExceptSeq
  <2>3. DOMAIN hl = DOMAIN lists
    BY <2>1, <1>1
  <2> QED
    BY <2>2, <2>3, <1>1 DEF hl
<1>6. SameNodes(g, h)
  <2>1. Nodes(h) = Nodes(g)
    BY <1>5 DEF Nodes
  <2>2. \A x \in Nodes(g) : Len(h.links[x]) = Len(lists[x])
    BY <1>4, <1>5
  <2> QED
    BY <2>1, <2>2 DEF SameNodes, Level
<1>7. LinksReplaced(g, h, n, lc, s)
  <2> SUFFICES ASSUME NEW x \in Nodes(g), NEW k \in Nat
               PROVE  LinksAt(h, x, k) = IF x = n /\ k = lc THEN s ELSE LinksAt(g, x, k)
    BY DEF LinksReplaced
  <2>1. Level(h, x) = Level(g, x)
    BY <1>6 DEF SameNodes
  <2>2. CASE x # n
    <3>1. h.links[x] = lists[x]
      BY <2>2, <1>5
    <3> QED
      BY <2>1, <2>2, <3>1 DEF LinksAt
  <2>3. CASE x = n
    <3>1. h.links[x] = new
      BY <2>3, <1>5
    <3>2. CASE k <= Level(g, n)
      <4>1. k + 1 \in 1 .. Len(lists[n]) /\ (k + 1 = lc + 1 <=> k = lc)
        BY <3>2, <1>3 DEF Level
      <4>2. new[k + 1] = IF k = lc THEN s ELSE lists[n][k + 1]
        BY <4>1, <1>4
      <4> QED
        BY <2>1, <2>3, <3>1, <3>2, <4>2 DEF LinksAt
    <3>3. CASE ~ (k <= Level(g, n))
      <4>1. k # lc
        BY <3>3
      <4> QED
        BY <2>1, <2>3, <3>3, <4>1 DEF LinksAt
    <3> QED
      BY <3>2, <3>3
  <2> QED
    BY <2>2, <2>3
<1> HIDE DEF lists, T
<1>8. ASSUME NEW x \in Nodes(h), NEW k \in 0 .. Level(h, x)
      PROVE  /\ \A i \in DOMAIN LinksAt(h, x, k) :
                   /\ LinksAt(h, x, k)[i] \in Nodes(h) \ {x}
                   /\ k <= Level(h, LinksAt(h, x, k)[i])
             /\ Len(LinksAt(h, x, k)) <= CapOf(k) /\ IsInjective(LinksAt(h, x, k))
  <2>1. x \in Nodes(g) /\ Level(h, x) = Level(g, x) /\ k \in Nat
    BY <1>1, <1>6 DEF SameNodes
  <2> DEFINE t == LinksAt(h, x, k)
  <2>2. t = IF x = n /\ k = lc THEN s ELSE LinksAt(g, x, k)
    BY <2>1, <1>7 DEF LinksReplaced
  <2>3. t \in Seq(OnLayer(g, k) \ {x}) /\ IsInjective(t) /\ Len(t) <= CapOf(k)
    <3>1. CASE x = n /\ k = lc
      BY <3>1, <2>2
    <3>2. CASE ~ (x = n /\ k = lc)
      <4>1. t = LinksAt(g, x, k)
        BY <3>2, <2>2
      <4> QED
        BY <4>1, <2>1, ListIs
    <3> QED
      BY <3>1, <3>2
  <2> HIDE DEF t
  <2>4. \A i \in DOMAIN t : t[i] \in OnLayer(g, k) \ {x}
    BY <2>3
  <2>5. \A i \in DOMAIN t : t[i] \in Nodes(h) \ {x} /\ k <= Level(h, t[i])
    BY <2>4, <1>6 DEF OnLayer, SameNodes
  <2> QED
    BY <2>3, <2>5 DEF t
<1>9. LinksLevelled(h) /\ LinksBounded(h)
  BY <1>8 DEF LinksLevelled, LinksBounded
<1> QED
  BY <1>5, <1>6, <1>7, <1>9 DEF WellLinked, T

(* The link back from c is a list of c's, with new or without.             *)
BackList(g, d, c, new, lc) ==
    LET pool == Append(LinksAt(g, c, lc), new) IN
    IF Len(pool) > CapOf(lc) THEN SubSeq(Sorted(d, pool), 1, CapOf(lc)) ELSE pool

LEMMA BackListIs ==
  ASSUME NEW g, WellLinked(g), NEW lc \in Nat, NEW c \in OnLayer(g, lc),
         NEW new \in OnLayer(g, lc) \ {c}, new \notin Range(LinksAt(g, c, lc)),
         NEW d, \A n \in Nodes(g) : d[n] \in Int
  PROVE  /\ BackList(g, d, c, new, lc) \in Seq(OnLayer(g, lc) \ {c})
         /\ IsInjective(BackList(g, d, c, new, lc))
         /\ Len(BackList(g, d, c, new, lc)) <= CapOf(lc)
<1> DEFINE N == OnLayer(g, lc) \ {c}
           pool == Append(LinksAt(g, c, lc), new)
           s == SubSeq(Sorted(d, pool), 1, CapOf(lc))
<1>1. c \in Nodes(g) /\ \A n \in N : d[n] \in Int
  BY DEF OnLayer
<1>2. LinksAt(g, c, lc) \in Seq(N) /\ IsInjective(LinksAt(g, c, lc))
  BY <1>1, ListIs
<1> HIDE DEF N
<1>3. pool \in Seq(N) /\ IsInjective(pool)
  <2>1. new \in N
    BY DEF N
  <2> QED
    BY <1>2, <2>1, AppendIs
<1>4. CapOf(lc) \in Nat
  BY CapsAssumption DEF CapOf
<1> HIDE DEF pool
<1>5. ASSUME Len(pool) > CapOf(lc)
      PROVE  s \in Seq(N) /\ IsInjective(s) /\ Len(s) <= CapOf(lc)
  <2> DEFINE t == Sorted(d, pool)
  <2>1. t \in Seq(N) /\ Len(t) = Len(pool) /\ IsInjective(t)
    BY <1>1, <1>3, SortedIs
  <2> HIDE DEF t
  <2>2. Len(t) \in Nat /\ DOMAIN t = 1 .. Len(t) /\ \A i \in 1 .. CapOf(lc) : t[i] \in N /\ i \in DOMAIN t
    BY <2>1, <1>4, <1>5
  <2>3. /\ SubSeq(t, 1, CapOf(lc)) \in Seq(N)
        /\ Len(SubSeq(t, 1, CapOf(lc))) = CapOf(lc)
        /\ \A i \in 1 .. CapOf(lc) : SubSeq(t, 1, CapOf(lc))[i] = t[i]
    BY <2>2, <1>4
  <2> HIDE DEF s
  <2>4. s \in Seq(N) /\ Len(s) = CapOf(lc) /\ \A i \in 1 .. CapOf(lc) : s[i] = t[i]
    BY <2>3 DEF s, t
  <2>5. IsInjective(s)
    BY <2>1, <2>2, <2>4, <1>4 DEF IsInjective
  <2> QED
    BY <2>4, <2>5, <1>4
<1>6. ASSUME ~ (Len(pool) > CapOf(lc)) PROVE Len(pool) <= CapOf(lc)
  BY <1>3, <1>4, <1>6
<1> QED
  BY <1>3, <1>5, <1>6 DEF BackList, pool, N

LEMMA LinkBackIs ==
  ASSUME NEW g, NEW d, NEW c, NEW new, NEW lc, "links" \in DOMAIN g
  PROVE  /\ LinkBack(g, d, c, new, lc)
              = [g EXCEPT !.links = LinkBack(g, d, c, new, lc).links]
         /\ ListReplaced(g, LinkBack(g, d, c, new, lc), c, lc, BackList(g, d, c, new, lc))
<1> DEFINE h == LinkBack(g, d, c, new, lc)
           ls == [g.links EXCEPT ![c] = [g.links[c] EXCEPT ![lc + 1] = BackList(g, d, c, new, lc)]]
<1>1. h = [g EXCEPT !.links = ls]
  BY DEF LinkBack, BackList
<1> HIDE DEF h, ls
<1>2. h.links = ls
  BY <1>1
<1>3. h = [g EXCEPT !.links = h.links]
  BY <1>1, <1>2
<1> QED
  BY <1>2, <1>3 DEF h, ls, ListReplaced

(* A new node joins a layer: its list is set, then each node of the list   *)
(* links back. The ones in done have done so: no other node of the layer,  *)
(* and none below it, links to the new one.                                *)
OnlyLinks(g, h) == "links" \in DOMAIN g /\ h = [g EXCEPT !.links = h.links]

LinkedBack(g, new, lc, done, h) ==
    /\ WellLinked(h) /\ SameNodes(g, h) /\ OnlyLinks(g, h)
    /\ \A x \in Nodes(g), j \in 0 .. lc :
          j < lc \/ x \notin done => new \notin Range(LinksAt(h, x, j))

LEMMA OnlyLinksAgain ==
  ASSUME NEW g, NEW h, NEW e, OnlyLinks(g, h), OnlyLinks(h, e)
  PROVE  OnlyLinks(g, e)
BY DEF OnlyLinks

(* Relinkings that differ in their links alone.                                *)
Relinkings(g) == {[g EXCEPT !.links = ls] : ls \in Seq(Seq(Seq(Nat)))}

LEMMA GraphsAre ==
  ASSUME NEW g, NEW h, OnlyLinks(g, h), WellLinked(h)
  PROVE  h \in Relinkings(g)
<1>1. h = [g EXCEPT !.links = h.links]
  BY DEF OnlyLinks
<1>2. h.links \in Seq(Seq(Seq(Nat)))
  <2> DEFINE s == h.links
  <2>1. s \in Seq(Seq(Seq(Nat)) \ {<<>>})
    BY DEF WellLinked
  <2> HIDE DEF s
  <2>2. s \in Seq(Seq(Seq(Nat)))
    BY <2>1
  <2> QED
    BY <2>2 DEF s
<1> QED
  BY <1>1, <1>2 DEF Relinkings

LEMMA ListSet ==
  ASSUME NEW g, WellLinked(g), "links" \in DOMAIN g, NEW lc \in Nat,
         NEW new \in OnLayer(g, lc), NotYet(g, new, lc),
         NEW selected \in Seq(OnLayer(g, lc) \ {new}), IsInjective(selected),
         Len(selected) <= CapOf(lc)
  PROVE  LinkedBack(g, new, lc, {}, [g EXCEPT !.links[new][lc + 1] = selected])
<1>1. new \in Nodes(g) /\ lc \in 0 .. Level(g, new)
  BY LevelsAre DEF OnLayer
<1>2. new \notin Range(selected)
  <2>1. \A k \in DOMAIN selected : selected[k] # new
    OBVIOUS
  <2> QED
    BY <2>1 DEF Range
<1> DEFINE h == [g EXCEPT !.links[new][lc + 1] = selected]
           ls == [g.links EXCEPT ![new] = [g.links[new] EXCEPT ![lc + 1] = selected]]
<1>3. h = [g EXCEPT !.links = ls]
  OBVIOUS
<1> HIDE DEF h, ls
<1>4. h.links = ls /\ OnlyLinks(g, h)
  BY <1>3 DEF OnlyLinks
<1>5. ListReplaced(g, h, new, lc, selected)
  BY <1>4 DEF ListReplaced, ls
<1>6. WellLinked(h) /\ SameNodes(g, h) /\ LinksReplaced(g, h, new, lc, selected)
  BY <1>1, <1>5, ListReplacedIs
<1>7. ASSUME NEW x \in Nodes(g), NEW j \in 0 .. lc
      PROVE  new \notin Range(LinksAt(h, x, j))
  <2>1. LinksAt(h, x, j) = IF x = new /\ j = lc THEN selected ELSE LinksAt(g, x, j)
    BY <1>6 DEF LinksReplaced
  <2>2. new \notin Range(LinksAt(g, x, j))
    BY DEF NotYet
  <2> QED
    BY <2>1, <2>2, <1>2
<1> QED
  BY <1>4, <1>6, <1>7 DEF LinkedBack, h

LEMMA LinkBackKeeps ==
  ASSUME NEW g, WellLinked(g), NEW lc \in Nat, NEW new \in OnLayer(g, lc),
         NEW done, NEW e, LinkedBack(g, new, lc, done, e),
         NEW c \in OnLayer(g, lc) \ {new}, c \notin done,
         NEW d, \A x \in Nodes(g) : d[x] \in Int
  PROVE  LinkedBack(g, new, lc, done \cup {c}, LinkBack(e, d, c, new, lc))
<1> DEFINE h == LinkBack(e, d, c, new, lc)
           s == BackList(e, d, c, new, lc)
<1> HIDE DEF h, s
<1>1. WellLinked(e) /\ SameNodes(g, e) /\ OnlyLinks(g, e) /\ "links" \in DOMAIN e
  BY DEF LinkedBack, OnlyLinks
<1>2. /\ OnLayer(e, lc) = OnLayer(g, lc) /\ Nodes(e) = Nodes(g)
      /\ \A x \in Nodes(g) : Level(e, x) = Level(g, x)
  BY <1>1, SameLayers DEF SameNodes
<1>3. c \in OnLayer(e, lc) /\ new \in OnLayer(e, lc) \ {c} /\ c \in Nodes(e) /\ lc \in 0 .. Level(e, c)
  BY <1>1, <1>2, LevelsAre DEF OnLayer
<1>4. new \notin Range(LinksAt(e, c, lc))
  <2>1. c \in Nodes(g) /\ lc \in 0 .. lc
    BY DEF OnLayer
  <2> QED
    BY <2>1 DEF LinkedBack
<1>5. s \in Seq(OnLayer(e, lc) \ {c}) /\ IsInjective(s) /\ Len(s) <= CapOf(lc)
  BY <1>1, <1>2, <1>3, <1>4, BackListIs DEF s
<1>6. h = [e EXCEPT !.links = h.links] /\ ListReplaced(e, h, c, lc, s)
  BY <1>1, LinkBackIs DEF s, h
<1>7. WellLinked(h) /\ SameNodes(e, h) /\ LinksReplaced(e, h, c, lc, s)
  BY <1>1, <1>3, <1>5, <1>6, ListReplacedIs
<1>8. SameNodes(g, h)
  BY <1>1, <1>7 DEF SameNodes
<1>9. OnlyLinks(g, h)
  <2>1. OnlyLinks(e, h)
    BY <1>1, <1>6 DEF OnlyLinks
  <2> QED
    BY <2>1, <1>1, OnlyLinksAgain
<1>10. ASSUME NEW x \in Nodes(g), NEW j \in 0 .. lc, j < lc \/ x \notin done \cup {c}
       PROVE  new \notin Range(LinksAt(h, x, j))
  <2>1. ~ (x = c /\ j = lc)
    BY <1>10
  <2>2. LinksAt(h, x, j) = LinksAt(e, x, j)
    BY <2>1, <1>2, <1>7 DEF LinksReplaced
  <2> QED
    BY <2>2, <1>10 DEF LinkedBack
<1> QED
  BY <1>7, <1>8, <1>9, <1>10 DEF LinkedBack, h

(* Below the layer nothing leads to the new node yet.                      *)
LEMMA JoinedAbove ==
  ASSUME NEW g, NEW lc \in Nat, NEW new, NEW done, NEW h, LinkedBack(g, new, lc, done, h)
  PROVE  NotYet(h, new, lc - 1)
<1>1. Nodes(h) = Nodes(g)
  BY DEF LinkedBack, SameNodes
<1>2. \A x \in Nodes(g), j \in 0 .. lc - 1 : new \notin Range(LinksAt(h, x, j))
  BY DEF LinkedBack
<1> QED
  BY <1>1, <1>2 DEF NotYet

-----------------------------------------------------------------------------
(* The descent stays off a node that no link leads to, and ends on the     *)
(* layer it was to reach, no farther than the entry.                       *)
LEMMA DescendIs ==
  ASSUME NEW g, WellLinked(g), NEW d, Measured(d, Nodes(g)),
         NEW top \in Nat, NEW bottom \in Nat, NEW new \in Nat, NotYet(g, new, top),
         g.entry \in OnLayer(g, top) \ {new}
  PROVE  /\ Descend(g, d, top, bottom) \in OnLayer(g, Smaller(top, bottom)) \ {new}
         /\ d[Descend(g, d, top, bottom)] <= d[g.entry]
<1> DEFINE s == DownFrom(top, bottom)
           n == Len(s)
           V == Nodes(g) \ {new}
           t == Descend(g, d, top, bottom)
           op(ep, lc) == Greedy(d, Layer(g, lc), ep)
           Steps(f) == f = [r \in SUBSET DOMAIN s |->
                          IF r = {} THEN g.entry ELSE op(f[r \ {Max(r)}], s[Max(r)])]
           G == [p \in (1 .. n) \X V |-> op(p[2], s[p[1]])]
<1>1. /\ n \in Nat /\ DOMAIN s = 1 .. n
      /\ \A k \in 1 .. n : s[k] = top - k + 1 /\ s[k] \in Nat /\ s[k] <= top
      /\ top >= bottom => n = top - bottom + 1
      /\ top < bottom => n = 0
  <2>1. s = [k \in 1 .. top - bottom + 1 |-> top - k + 1]
    BY DEF DownFrom
  <2>2. CASE top >= bottom
    <3>1. top - bottom + 1 \in Nat
      BY <2>2
    <3>2. DOMAIN s = 1 .. top - bottom + 1 /\ n = top - bottom + 1
      BY <2>1, <3>1
    <3> HIDE DEF s, n
    <3>3. \A k \in 1 .. n : s[k] = top - k + 1
      BY <2>1, <3>2
    <3> QED
      BY <2>2, <3>1, <3>2, <3>3
  <2>3. CASE top < bottom
    <3>1. 1 .. top - bottom + 1 = {}
      BY <2>3
    <3>2. s = <<>>
      BY <2>1, <3>1
    <3> HIDE DEF s
    <3> QED
      BY <2>3, <3>2
  <2> QED
    BY <2>2, <2>3
<1> HIDE DEF s, n
<1>2. /\ IsFiniteSet(Nodes(g)) /\ \A lc : OnLayer(g, lc) \subseteq Nodes(g)
      /\ g.entry \in V /\ \A x \in Nodes(g) : Level(g, x) \in Nat /\ d[x] \in Int
  BY LevelsAre DEF OnLayer, Measured
<1>3. ASSUME NEW k \in 1 .. n, NEW lc \in Nat, lc <= s[k], NEW u \in OnLayer(g, lc) \ {new}
      PROVE  /\ op(u, s[k]) \in OnLayer(g, lc) \ {new}
             /\ d[op(u, s[k])] <= d[u]
  <2> DEFINE C == OnLayer(g, lc) \ {new}
             at == Layer(g, s[k])
  <2>1. s[k] \in Nat /\ s[k] <= top
    BY <1>1
  <2>2. DOMAIN at = Nodes(g) /\ Linked(at, Nodes(g))
    BY <2>1, LayerIs
  <2>3. Linked(at, C)
    <3>1. Linked(at, OnLayer(g, s[k]) \ {new})
      BY <2>1, LayerIs
    <3>2. ASSUME NEW a \in C PROVE at[a] \in Seq(C)
      <4> DEFINE list == LinksAt(g, a, s[k])
      <4>1. at[a] = list /\ a \in Nodes(g)
        BY <1>2 DEF Layer
      <4>2. list \in Seq(OnLayer(g, s[k]) \ {a}) /\ new \notin Range(list)
        BY <2>1, <4>1, ListIs DEF NotYet
      <4> HIDE DEF list
      <4>3. \A i \in DOMAIN list : list[i] \in C
        <5> SUFFICES ASSUME NEW i \in DOMAIN list PROVE list[i] \in C
          OBVIOUS
        <5>1. list[i] \in OnLayer(g, s[k]) /\ list[i] # new
          BY <4>2 DEF Range
        <5>2. list[i] \in Nodes(g) /\ s[k] <= Level(g, list[i])
          BY <5>1 DEF OnLayer
        <5>3. lc <= Level(g, list[i])
          BY <5>2, <2>1, <1>2, <1>3
        <5> QED
          BY <5>1, <5>2, <5>3 DEF OnLayer
      <4>4. list \in Seq(C)
        <5> HIDE DEF C
        <5> QED
          BY <4>2, <4>3
      <4> QED
        BY <4>1, <4>4
    <3> HIDE DEF C, at
    <3> QED
      BY <3>2 DEF Linked
  <2>4. C \in SUBSET DOMAIN at /\ u \in C
    BY <2>2, <1>2
  <2> HIDE DEF C, at
  <2>5. Greedy(d, at, u) \in C /\ d[Greedy(d, at, u)] <= d[u]
    BY <2>2, <2>3, <2>4, <1>2, GreedyIs
  <2> QED
    BY <2>5 DEF C, at
<1>4. ASSUME NEW k \in 1 .. n, NEW u \in V PROVE op(u, s[k]) \in V
  <2>1. V = OnLayer(g, 0) \ {new}
    BY <1>2 DEF OnLayer
  <2>2. s[k] \in Nat /\ 0 <= s[k]
    BY <1>1
  <2> HIDE DEF V, op
  <2> QED
    BY <2>1, <2>2, <1>3
<1> HIDE DEF V, op
<1>5. G \in [(1 .. n) \X V -> V] /\ \A k \in 1 .. n, u \in V : G[<<k, u>>] = op(u, s[k])
  BY <1>4
<1> HIDE DEF G
<1>6. \E f : Steps(f)
  <2>1. PICK f : Solves(f, n, V, g.entry, G)
    BY <1>1, <1>2, <1>5, FoldExists
  <2>2. ASSUME NEW r \in SUBSET (1 .. n), r # {}
        PROVE  f[r] = op(f[r \ {Max(r)}], s[Max(r)])
    BY <2>1, <2>2, <1>5 DEF Solves
  <2>3. f = [r \in SUBSET (1 .. n) |->
               IF r = {} THEN g.entry ELSE op(f[r \ {Max(r)}], s[Max(r)])]
    BY <2>1, <2>2 DEF Solves
  <2> QED
    BY <2>3, <1>1
<1>7. \E f : Steps(f) /\ t = f[DOMAIN s]
  BY <1>6 DEF Descend, FoldLeft, MapThenFoldSet, op, s
<1> HIDE DEF t, Steps
<1>8. PICK f : Steps(f) /\ t = f[DOMAIN s]
  BY <1>7
<1>9. f[{}] = g.entry /\ \A k \in 1 .. n : f[1 .. k] = op(f[1 .. k - 1], s[k])
  <2>1. f = [r \in SUBSET (1 .. n) |->
               IF r = {} THEN g.entry ELSE op(f[r \ {Max(r)}], s[Max(r)])]
    BY <1>8, <1>1 DEF Steps
  <2>2. {} \in SUBSET (1 .. n)
    OBVIOUS
  <2>3. f[{}] = g.entry
    BY <2>1, <2>2, Zenon
  <2>4. ASSUME NEW k \in 1 .. n PROVE f[1 .. k] = op(f[1 .. k - 1], s[k])
    <3>0. n \in Nat /\ k \in Nat \ {0}
      BY <1>1
    <3>1. 1 .. k # {} /\ Max(1 .. k) = k /\ (1 .. k) \ {k} = 1 .. k - 1
      BY <3>0, MaxUpTo
    <3>2. 1 .. k \in SUBSET (1 .. n)
      BY <3>0
    <3>3. f[1 .. k] = op(f[(1 .. k) \ {Max(1 .. k)}], s[Max(1 .. k)])
      BY <2>1, <3>1, <3>2, Zenon
    <3> QED
      BY <3>1, <3>3, Zenon
  <2> QED
    BY <2>3, <2>4
<1>10. PICK F : Runs(F, n, V, g.entry, G, t)
  <2>1. \A k \in 1 .. n : f[1 .. k - 1] \in V => f[1 .. k] = G[<<k, f[1 .. k - 1]>>]
    BY <1>5, <1>9
  <2>2. f[1 .. n] = t
    BY <1>8, <1>1
  <2> QED
    BY <2>1, <2>2, <1>1, <1>2, <1>5, <1>9, FoldRun
<1> DEFINE Good(k, u) == u \in OnLayer(g, top - k + 1) \ {new} /\ d[u] <= d[g.entry]
           K == {k \in 0 .. n : k > 0 => Good(k, F[k])}
<1>11. 0 \in K
  BY <1>1
<1>12. ASSUME NEW k \in 1 .. n, k - 1 \in K PROVE k \in K
  <2>1. F[k - 1] \in V /\ F[k] = op(F[k - 1], s[k])
    BY <1>5, <1>10 DEF Runs
  <2>2. s[k] \in Nat /\ s[k] = top - k + 1 /\ k \in 0 .. n
    BY <1>1
  <2>3. F[k - 1] \in OnLayer(g, s[k]) \ {new} /\ d[F[k - 1]] <= d[g.entry]
    <3>1. CASE k = 1
      <4>1. F[k - 1] = g.entry /\ s[k] = top
        BY <3>1, <2>2, <1>10 DEF Runs
      <4> QED
        BY <4>1, <1>2 DEF V
    <3>2. CASE k # 1
      <4>1. k - 1 > 0 /\ top - (k - 1) + 1 = s[k] + 1
        BY <3>2, <2>2
      <4>2. F[k - 1] \in OnLayer(g, s[k] + 1) \ {new} /\ d[F[k - 1]] <= d[g.entry]
        BY <4>1, <1>12, Zenon
      <4>3. \A x \in OnLayer(g, s[k] + 1) : x \in OnLayer(g, s[k])
        BY <1>2, <2>2 DEF OnLayer
      <4> QED
        BY <4>2, <4>3
    <3> QED
      BY <3>1, <3>2
  <2>4. op(F[k - 1], s[k]) \in OnLayer(g, s[k]) \ {new} /\ d[op(F[k - 1], s[k])] <= d[F[k - 1]]
    BY <2>2, <2>3, <1>3
  <2>5. F[k] \in OnLayer(g, s[k]) \ {new} /\ d[F[k]] <= d[F[k - 1]]
    BY <2>1, <2>4, Zenon
  <2>6. d[F[k]] <= d[g.entry]
    <3>1. d[F[k]] \in Int /\ d[F[k - 1]] \in Int /\ d[g.entry] \in Int
      BY <2>3, <2>5, <1>2 DEF V
    <3> QED
      BY <3>1, <2>3, <2>5
  <2>7. Good(k, F[k])
    BY <2>2, <2>5, <2>6
  <2> QED
    BY <2>2, <2>7
<1>13. n > 0 => Good(n, t)
  <2>1. n \in Nat
    BY <1>1
  <2>2. \A k \in 0 .. n : k \in K
    <3> HIDE DEF K
    <3> QED
      BY <2>1, <1>11, <1>12, Induct
  <2>3. n \in K /\ F[n] = t
    BY <2>1, <2>2, <1>10 DEF Runs
  <2> QED
    BY <2>3
<1>14. CASE top >= bottom
  <2>1. n > 0 /\ top - n + 1 = bottom /\ Smaller(top, bottom) = bottom
    BY <1>1, <1>14 DEF Smaller
  <2> QED
    BY <2>1, <1>13 DEF t
<1>15. CASE top < bottom
  <2>1. n = 0 /\ Smaller(top, bottom) = top
    BY <1>1, <1>15 DEF Smaller
  <2>2. t = g.entry
    BY <2>1, <1>10 DEF Runs
  <2>3. d[t] <= d[g.entry]
    BY <2>2, <1>2 DEF V
  <2> QED
    BY <2>1, <2>2, <2>3 DEF t
<1> QED
  BY <1>14, <1>15

-----------------------------------------------------------------------------
(* A node is added, and may become the entry.                              *)

NodeAdded(g, h, level) ==
    /\ Nodes(h) = Nodes(g) \cup {Len(g.links) + 1} /\ Len(g.links) + 1 \notin Nodes(g)
    /\ Len(g.links) + 1 \in Nat /\ Level(h, Len(g.links) + 1) = level
    /\ \A n \in Nodes(g) : Level(h, n) = Level(g, n)

Unlinked(level) == [lc \in 1 .. level + 1 |-> <<>>]

LEMMA WithNodeIs ==
  ASSUME NEW g, WellLinked(g), NEW level \in Nat, NEW h,
         h.links = Append(g.links, Unlinked(level))
  PROVE  /\ WellLinked(h) /\ NodeAdded(g, h, level)
         /\ \A top : NotYet(h, Len(g.links) + 1, top)
<1> DEFINE lists == g.links
           T == Seq(Seq(Nat)) \ {<<>>}
           list == Unlinked(level)
           new == Len(lists) + 1
           H == h.links
<1>1. /\ lists \in Seq(T) /\ Nodes(g) = 1 .. Len(lists) /\ DOMAIN lists = 1 .. Len(lists) /\ Len(lists) \in Nat
      /\ \A x \in Nodes(g) : Level(g, x) \in Nat
  BY LevelsAre DEF WellLinked
<1>2. list \in T /\ Len(list) = level + 1 /\ \A k \in 1 .. level + 1 : list[k] = <<>>
  <2>1. /\ list \in Seq(Seq(Nat)) /\ Len(list) = level + 1
        /\ \A k \in 1 .. level + 1 : list[k] = <<>>
    BY DEF Unlinked
  <2>2. list # <<>>
    <3> HIDE DEF list
    <3> QED
      BY <2>1
  <2> QED
    BY <2>1, <2>2
<1> HIDE DEF list
<1>3. /\ H \in Seq(T) /\ Len(H) = new /\ DOMAIN H = 1 .. new /\ new \in Nat
      /\ H[new] = list /\ \A x \in Nodes(g) : H[x] = lists[x]
  <2>1. H = Append(lists, list)
    BY DEF list
  <2> HIDE DEF H, lists, T
  <2> QED
    BY <2>1, <1>1, <1>2
<1> HIDE DEF lists, T, H
<1>4. Nodes(h) = 1 .. new /\ Nodes(h) = Nodes(g) \cup {new} /\ new \notin Nodes(g)
  <2>1. Nodes(h) = 1 .. new
    BY <1>3 DEF Nodes, H
  <2> QED
    BY <2>1, <1>1
<1>5. Level(h, new) = level /\ \A x \in Nodes(g) : Level(h, x) = Level(g, x)
  <2>1. \A x : Level(h, x) = Len(H[x]) - 1 /\ Level(g, x) = Len(lists[x]) - 1
    BY Zenon DEF Level, H, lists
  <2>2. level + 1 - 1 = level
    OBVIOUS
  <2>3. Level(h, new) = level
    <3>1. Len(H[new]) = level + 1
      <4>1. H[new] = list /\ Len(list) = level + 1
        BY <1>2, <1>3
      <4> QED
        BY <4>1, Zenon
    <3>2. Level(h, new) = Len(H[new]) - 1
      BY <2>1, Zenon
    <3> DEFINE u == Len(H[new])
    <3> HIDE DEF u, new
    <3>3. u = level + 1 /\ Level(h, new) = u - 1
      BY <3>1, <3>2 DEF u
    <3> QED
      BY <3>3
  <2>4. ASSUME NEW x \in Nodes(g) PROVE Level(h, x) = Level(g, x)
    <3>1. H[x] = lists[x]
      BY <1>3
    <3> QED
      BY <2>1, <3>1, Zenon
  <2> QED
    BY <2>3, <2>4, Zenon
<1>6. ASSUME NEW lc \in Nat PROVE LinksAt(h, new, lc) = <<>>
  <2>1. lc <= level => lc + 1 \in 1 .. level + 1
    OBVIOUS
  <2> QED
    BY <2>1, <1>2, <1>3, <1>5 DEF LinksAt, H
<1>7. ASSUME NEW x \in Nodes(g), NEW lc \in Nat PROVE LinksAt(h, x, lc) = LinksAt(g, x, lc)
  BY <1>3, <1>5 DEF LinksAt, H, lists
<1>8. ASSUME NEW x \in Nodes(h), NEW k \in 0 .. Level(h, x)
      PROVE  /\ \A i \in DOMAIN LinksAt(h, x, k) :
                   /\ LinksAt(h, x, k)[i] \in Nodes(h) \ {x}
                   /\ k <= Level(h, LinksAt(h, x, k)[i])
             /\ Len(LinksAt(h, x, k)) <= CapOf(k) /\ IsInjective(LinksAt(h, x, k))
  <2>1. k \in Nat
    BY <1>1, <1>4, <1>5
  <2>2. CASE x = new
    <3>1. LinksAt(h, x, k) = <<>>
      BY <2>1, <2>2, <1>6
    <3>2. CapOf(k) \in Nat /\ IsInjective(<<>>) /\ Len(<<>>) = 0 /\ DOMAIN <<>> = {}
      BY CapsAssumption DEF CapOf, IsInjective
    <3> QED
      BY <3>1, <3>2
  <2>3. CASE x \in Nodes(g)
    <3> DEFINE t == LinksAt(h, x, k)
    <3>1. t \in Seq(OnLayer(g, k) \ {x}) /\ IsInjective(t) /\ Len(t) <= CapOf(k)
      BY <2>1, <2>3, <1>7, ListIs
    <3> HIDE DEF t
    <3>2. \A i \in DOMAIN t : t[i] \in OnLayer(g, k) \ {x}
      BY <3>1
    <3>3. \A i \in DOMAIN t : t[i] \in Nodes(h) \ {x} /\ k <= Level(h, t[i])
      BY <3>2, <1>4, <1>5 DEF OnLayer
    <3> QED
      BY <3>1, <3>3 DEF t
  <2> QED
    BY <2>2, <2>3, <1>4
<1>9. WellLinked(h)
  <2>1. LinksLevelled(h) /\ LinksBounded(h)
    BY <1>8 DEF LinksLevelled, LinksBounded
  <2> QED
    BY <2>1, <1>3 DEF WellLinked, H, T
<1>10. ASSUME NEW top, NEW x \in Nodes(h), NEW lc \in 0 .. top
       PROVE  new \notin Range(LinksAt(h, x, lc))
  <2>1. lc \in Nat
    OBVIOUS
  <2>2. CASE x = new
    <3>1. Range(<<>>) = {}
      BY DEF Range
    <3> QED
      BY <3>1, <2>1, <2>2, <1>6
  <2>3. CASE x \in Nodes(g)
    <3> DEFINE t == LinksAt(g, x, lc)
    <3>1. t \in Seq(OnLayer(g, lc) \ {x})
      BY <2>1, <2>3, ListIs
    <3> HIDE DEF t
    <3>2. Range(t) \subseteq Nodes(g)
      BY <3>1 DEF Range, OnLayer
    <3> QED
      BY <3>2, <2>1, <2>3, <1>4, <1>7 DEF t
  <2> QED
    BY <2>2, <2>3, <1>4
<1>11. \A top : NotYet(h, new, top)
  BY <1>10 DEF NotYet
<1>12. NodeAdded(g, h, level)
  BY <1>3, <1>4, <1>5 DEF NodeAdded, lists
<1> QED
  BY <1>9, <1>11, <1>12 DEF lists

LEMMA RaiseIs ==
  ASSUME NEW g, WellLinked(g), {"links", "entry", "max_level"} \subseteq DOMAIN g,
         g.max_level \in Nat, NEW new \in Nodes(g),
         g.entry \in Nodes(g), Level(g, g.entry) = g.max_level,
         \A n \in Nodes(g) \ {new} : Level(g, n) <= g.max_level
  PROVE  /\ Raise(g, new, Level(g, new)).links = g.links
         /\ EntryOnTop(Raise(g, new, Level(g, new)))
         /\ Raise(g, new, Level(g, new)).max_level \in Nat
<1> DEFINE level == Level(g, new)
           h == Raise(g, new, level)
<1>1. \A n \in Nodes(g) : Level(g, n) \in Nat
  BY LevelsAre
<1>2. CASE level > g.max_level
  <2>1. h = [g EXCEPT !.max_level = level, !.entry = new]
    BY <1>2 DEF Raise
  <2> HIDE DEF h
  <2>2. h.links = g.links /\ h.max_level = level /\ h.entry = new
    BY <2>1
  <2>3. Nodes(h) = Nodes(g) /\ \A n \in Nodes(g) : Level(h, n) = Level(g, n)
    BY <2>2 DEF Nodes, Level
  <2>4. \A n \in Nodes(g) : Level(g, n) <= level
    BY <1>1, <1>2
  <2> HIDE DEF level
  <2>5. EntryOnTop(h)
    BY <2>2, <2>3, <2>4 DEF EntryOnTop, level
  <2> QED
    BY <2>2, <2>5, <1>1 DEF h, level
<1>3. CASE ~ (level > g.max_level)
  <2>1. h = g
    BY <1>3 DEF Raise
  <2>2. \A n \in Nodes(g) : Level(g, n) <= g.max_level
    BY <1>1, <1>3
  <2>3. EntryOnTop(g)
    BY <2>2 DEF EntryOnTop
  <2> HIDE DEF h, level
  <2> QED
    BY <2>1, <2>3 DEF h, level
<1> QED
  BY <1>2, <1>3

(* Soundness is a matter of the links alone.                               *)
LEMMA SameLinks ==
  ASSUME NEW g, NEW h, WellLinked(g), h.links = g.links
  PROVE  WellLinked(h) /\ SameNodes(g, h)
<1>1. /\ Nodes(h) = Nodes(g) /\ \A n : Level(h, n) = Level(g, n)
      /\ \A n, lc : LinksAt(h, n, lc) = LinksAt(g, n, lc)
  BY DEF Nodes, Level, LinksAt
<1>2. LinksLevelled(h)
  BY <1>1 DEF WellLinked, LinksLevelled
<1>3. LinksBounded(h)
  BY <1>1 DEF WellLinked, LinksBounded
<1> QED
  BY <1>1, <1>2, <1>3 DEF WellLinked, SameNodes

-----------------------------------------------------------------------------
(* What a search of a layer finds from a node of it: nodes of that layer,  *)
(* none but those that links lead to, and one no farther than the start.   *)
LEMMA FromIs ==
  ASSUME NEW links, NEW d, NEW C, Measured(d, C), NEW ep \in C, NEW l \in Nat \ {0}
  PROVE  /\ From(ep) \in Within(C)
         /\ Sane(d, links, l, {ep}, {}, {ep}, From(ep))
<1> DEFINE s == From(ep)
<1>1. s.seen = {ep} /\ s.frontier = {ep} /\ s.results = {ep}
  BY DEF From
<1>2. From(ep) \in Within(C)
  BY DEF From, Within
<1> HIDE DEF s
<1>3. Cardinality(s.results) <= l
  BY <1>1, FS_Singleton
<1>4. d[ep] <= d[ep]
  BY DEF Measured
<1>5. \A n \in {ep} : \E r \in s.results : d[r] <= d[n]
  BY <1>1, <1>4
<1>6. Sane(d, links, l, {ep}, {}, {ep}, s)
  BY <1>1, <1>3, <1>5 DEF Sane
<1> QED
  BY <1>2, <1>6 DEF s

FoundOn(d, C, ep, found) == found \subseteq C /\ found # {} /\ \E r \in found : d[r] <= d[ep]

LEMMA BeamOnLayer ==
  ASSUME NEW g, WellLinked(g), NEW d, Measured(d, Nodes(g)), NEW lc \in Nat,
         NEW top \in Nat, lc <= top, NEW new \in Nat, NotYet(g, new, top),
         NEW ep \in OnLayer(g, lc) \ {new}, NEW l \in Nat \ {0}
  PROVE  FoundOn(d, OnLayer(g, lc) \ {new}, ep, Beam(d, Layer(g, lc), From(ep), l).results)
<1> DEFINE links == Layer(g, lc)
           C == OnLayer(g, lc) \ {new}
           b == Beam(d, links, From(ep), l)
<1>1. /\ DOMAIN links = Nodes(g) /\ Linked(links, DOMAIN links) /\ Linked(links, C)
      /\ IsFiniteSet(DOMAIN links) /\ C \in SUBSET DOMAIN links /\ Measured(d, DOMAIN links)
  <2>1. C \subseteq Nodes(g) /\ IsFiniteSet(Nodes(g))
    BY LevelsAre DEF OnLayer
  <2> HIDE DEF links
  <2>2. DOMAIN links = Nodes(g) /\ Linked(links, Nodes(g)) /\ Linked(links, C)
    BY LayerIs DEF links
  <2> QED
    BY <2>1, <2>2
<1>2. Measured(d, C)
  BY <1>1 DEF Measured
<1> HIDE DEF links, C
<1>3. /\ From(ep) \in Within(C) /\ Sane(d, links, l, {ep}, {}, {ep}, From(ep))
      /\ {ep} \in SUBSET C /\ ep \in C
  <2>1. ep \in C
    BY DEF C
  <2> QED
    BY <2>1, <1>2, FromIs
<1>4. b \in Within(C) /\ Sane(d, links, l, {ep}, {}, {ep}, b)
  BY <1>1, <1>3, BeamIs
<1> HIDE DEF b
<1>5. b.results \subseteq C
  BY <1>4 DEF Within
<1>6. \E r \in b.results : d[r] <= d[ep]
  BY <1>4 DEF Sane
<1> QED
  BY <1>5, <1>6 DEF FoundOn, b, links, C

=============================================================================
