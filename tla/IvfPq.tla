------------------------------- MODULE IvfPq --------------------------------
(***************************************************************************)
(* The inverted-list index of index/ivfpq.rs. k-means gives centroids; a   *)
(* row is in the list of its nearest one, with a code for what is left of  *)
(* it, a word of a codebook per part of the vector. A search scores the    *)
(* rows of the nearest lists by their codes.                               *)
(*                                                                         *)
(* A code is lossy twice over: rows share words when there are more of them*)
(* than a codebook has, and sub_vecs parts of equal length need not cover a*)
(* row, as `new` divides its length by their number and drops the rest.    *)
(*                                                                         *)
(* Rows are tuples of integers under L2, and a mean is rounded down to one,*)
(* where the code rounds to an f32. An index is no larger than the samples *)
(* k-means takes of it (4096 rows and more).                               *)
(***************************************************************************)
EXTENDS Candidates

CONSTANTS
    Rows,
    Dim,                \* the length of a row
    SubVecs,            \* the parts it is to have
    Words,              \* of a codebook: 256 in the code
    MinLists,           \* 4 in the code
    Iterations,         \* of k-means: 24 and 10 in the code
    NProbe,
    ShortFactor, ShortMin,    \* 16 and 400 in the code
    DrawBound, Drawn,   \* what the generator draws, out of DrawBound: 2^31; its
                        \* seed is fixed, and it draws no 0 in its first 10^5
    MaxRows, MaxAdded   \* bounds: the rows of an index, and of a build

IvfPqConstants ==
    /\ Rows \subseteq [1 .. Dim -> Int]
    /\ {Dim, Words, MinLists, NProbe, ShortFactor, ShortMin} \subseteq Nat \ {0}
    /\ {SubVecs, Iterations, MaxRows, MaxAdded} \subseteq Nat
    /\ DrawBound \in Nat /\ Drawn \in Seq(1 .. DrawBound - 1) \ {<<>>}

VARIABLE ivf      \* store, centroids, lists, codes, books

(* The parts a row has, and their length. What is left of it has no code.  *)
Subs   == Smaller(Greater(SubVecs, 1), Dim)
SubDim == Dim \div Subs

Sum(c)           == FoldLeft(LAMBDA a, x : a + x, 0, c)
L2(a, b)         == Sum([i \in DOMAIN a |-> Square(a[i] - b[i])])
Minus(a, b)      == [i \in DOMAIN a |-> a[i] - b[i]]
Part(row, s)     == SubSeq(row, (s - 1) * SubDim + 1, s * SubDim)
DistancesTo(points, q) == [c \in DOMAIN points |-> L2(q, points[c])]
Nearest(points, q)     == Closest(DistancesTo(points, q), DOMAIN points)

-----------------------------------------------------------------------------
(* k-means, on s = [points, draws]: `draws` counts what was drawn.         *)

Draw(draw)           == Drawn[(draw % Len(Drawn)) + 1]
RowDrawn(data, draw) == data[(Draw(draw) * Len(data)) \div DrawBound + 1]

(* A row weighs the square of its (squared) distance to the nearest point. *)
(* The first one is picked with which the rows so far weigh enough: their  *)
(* weight, times what is drawn, which is divided by DrawBound twice. When  *)
(* all rows are points, it is any row.                                     *)
Picked(s, data) ==
    LET weight == [i \in DOMAIN data |->
                      Square(L2(data[i], s.points[Nearest(s.points, data[i])]))]
        UpToRow(i) == Sum([j \in DOMAIN data |-> IF j <= i THEN weight[j] ELSE 0])
        enough == {i \in DOMAIN data :
                      UpToRow(i) * Square(DrawBound) >= Draw(s.draws) * Sum(weight)}
        row == IF Sum(weight) = 0 THEN RowDrawn(data, s.draws) ELSE data[Min(enough)]
    IN  [points |-> Append(s.points, row), draws |-> s.draws + 1]

MeanOf(data, S) ==
    [d \in DOMAIN data[1] |->
        Sum([i \in DOMAIN data |-> IF i \in S THEN data[i][d] ELSE 0]) \div Cardinality(S)]

(* Each point moves to the mean of its rows; one that has none, to a row.  *)
Moved(s, data) ==
    LET of == [c \in DOMAIN s.points |-> {i \in DOMAIN data : Nearest(s.points, data[i]) = c}]
        Empty(c) == {e \in 1 .. c : of[e] = {}}
    IN  [points |-> [c \in DOMAIN s.points |->
             IF of[c] = {} THEN RowDrawn(data, s.draws + Cardinality(Empty(c)) - 1)
             ELSE MeanOf(data, of[c])],
         draws |-> s.draws + Cardinality(Empty(Len(s.points)))]

Kmeans(data, k) ==
    LET seeds == FoldLeft(LAMBDA s, i : Picked(s, data),
                          [points |-> <<RowDrawn(data, 0)>>, draws |-> 1], UpTo(k - 1))
    IN  FoldLeft(LAMBDA s, i : Moved(s, data), seeds, UpTo(Iterations)).points

-----------------------------------------------------------------------------
Root(n) == CHOOSE r \in 0 .. n : r * r <= n /\ n < (r + 1) * (r + 1)

NearestCentroid(centroids, row) == Nearest(centroids, row)

(* `assign`, the closure that chooses the centroid a row is coded by.      *)
AssignLast(centroids, row) ==      \* mutant of Assign: the last of equally near
    Len(centroids) + 1 - Nearest(Reverse(centroids), row)
Assign(centroids, row) == Nearest(centroids, row)

Residual(centroids, row) == Minus(row, centroids[Assign(centroids, row)])

TrainResiduals(store, centroids) ==
    [s \in 1 .. Subs |->
        Kmeans([i \in DOMAIN store |-> Part(Residual(centroids, store[i]), s)], Words)]
EncodeRow(books, row) == [s \in 1 .. Subs |-> Nearest(books[s], Part(row, s))]

Trained(store) ==
    LET centroids == Kmeans(store, Greater(Root(Len(store)), MinLists))
        books == TrainResiduals(store, centroids)
    IN  [store |-> store, centroids |-> centroids, books |-> books,
         lists |-> [c \in DOMAIN centroids |->
             Without(UpTo(Len(store)),
                     {i \in DOMAIN store : NearestCentroid(centroids, store[i]) # c})],
         codes |-> [i \in DOMAIN store |-> EncodeRow(books, Residual(centroids, store[i]))]]

Init == ivf = [store |-> <<>>, centroids |-> <<>>, books |-> <<>>, lists |-> <<>>, codes |-> <<>>]

(* The rows join those the index has, and it is trained anew from all.     *)
TrainAndBuild(batch) ==
    /\ batch # <<>> /\ Len(ivf.store) + Len(batch) <= MaxRows
    /\ ivf' = Trained(ivf.store \o batch)

Next == \E batch \in SeqOf(Rows, MaxAdded) : TrainAndBuild(batch)

Spec == Init /\ [][Next]_ivf

-----------------------------------------------------------------------------
(* search: a row's distance is what its list's centroid and its code make. *)

AdcTable(books, q_minus_c) ==
    [s \in 1 .. Subs |-> [j \in 1 .. Words |->
        Sum([i \in 1 .. SubDim |->
            books[s][j][i] * (books[s][j][i] - 2 * Part(q_minus_c, s)[i])])]]
DistanceAdc(table, code) == Sum([s \in 1 .. Subs |-> table[s][code[s]]])

AllLists(q) == UpTo(Len(ivf.centroids))      \* mutant of Probed: the first ones
Probed(q) ==
    FirstOf(Sorted(DistancesTo(ivf.centroids, q), UpTo(Len(ivf.centroids))), NProbe)

ScoredIn(q, c) ==
    LET table == AdcTable(ivf.books, Minus(q, ivf.centroids[c])) IN
    [k \in DOMAIN ivf.lists[c] |->
        [row |-> ivf.lists[c][k],
         d |-> L2(q, ivf.centroids[c]) + DistanceAdc(table, ivf.codes[ivf.lists[c][k]])]]

ByDistance(s) ==
    LET order == Sorted([k \in DOMAIN s |-> s[k].d], UpTo(Len(s))) IN
    [k \in DOMAIN s |-> s[order[k]]]

CutToTop(top_k)  == top_k      \* mutant of Shortlist: nothing to spare for reranking
Shortlist(top_k) == Greater(ShortFactor * top_k, ShortMin)

Search(q, top_k, rerank) ==
    LET scored == ByDistance(FoldLeft(LAMBDA s, c : s \o ScoredIn(q, c), <<>>, Probed(q)))
        short == FirstOf(scored, Shortlist(top_k))
        exact == [k \in DOMAIN short |-> [short[k] EXCEPT !.d = L2(q, ivf.store[short[k].row])]]
    IN  IF ivf.centroids = <<>> THEN <<>>
        ELSE FirstOf(IF rerank THEN ByDistance(exact) ELSE short, top_k)

-----------------------------------------------------------------------------
(* The row that a code stands for: the words of its parts, added to the    *)
(* centroid of its list; where no part reaches, the centroid alone.        *)
Centroid(i) == ivf.centroids[NearestCentroid(ivf.centroids, ivf.store[i])]
Word(i, s)  == ivf.books[s][ivf.codes[i][s]]
Decoded(i)  ==
    [j \in 1 .. Dim |->
        Centroid(i)[j] + IF j > Subs * SubDim THEN 0
                         ELSE Word(i, (j - 1) \div SubDim + 1)[((j - 1) % SubDim) + 1]]

(* A row is in one list. There its distance is that of the row its code    *)
(* stands for, though the table only has the terms a word adds (the comment*)
(* of adc_table_for); no word is nearer to what the centroid of the list   *)
(* leaves of it, lists and codes being made by two searches of centroids;  *)
(* and the words of few enough rows are just what is left of them.         *)
AdcExact ==
    /\ \A i \in DOMAIN ivf.store :
          Cardinality({c \in DOMAIN ivf.lists : i \in Range(ivf.lists[c])}) = 1
    /\ \A c \in DOMAIN ivf.lists : \A k \in DOMAIN ivf.lists[c] :
          LET i == ivf.lists[c][k]
              left == Minus(ivf.store[i], ivf.centroids[c])
          IN  /\ \A q \in Rows : ScoredIn(q, c)[k].d = L2(q, Decoded(i))
              /\ \A s \in 1 .. Subs : \A w \in 1 .. Words :
                    L2(Part(left, s), Word(i, s)) <= L2(Part(left, s), ivf.books[s][w])
              /\ Len(ivf.store) <= Words =>
                    \A j \in 1 .. Subs * SubDim : Decoded(i)[j] = ivf.store[i][j]

(* A search returns the nearest rows of the nearest lists in their order:  *)
(* by what their codes stand for, or, reranked, by themselves. Only then   *)
(* may it miss a nearer row: one that so many others come before by code   *)
(* that it need not have been on the shortlist.                            *)
SearchExact ==
    ivf.store # <<>> =>
        \A q \in Rows, top_k \in 1 .. 2, rerank \in BOOLEAN :
            LET d == DistancesTo(ivf.centroids, q)
                Near(c) == Cardinality({e \in DOMAIN d : Before(d, e, c)}) < NProbe
                rows == UNION {Range(ivf.lists[c]) : c \in {c \in DOMAIN d : Near(c)}}
                most == Greater(ShortFactor * top_k, ShortMin)
                Code(i) == L2(q, Decoded(i))
                Dist(i) == IF rerank THEN L2(q, ivf.store[i]) ELSE Code(i)
                found == Search(q, top_k, rerank)
                got == {found[k].row : k \in DOMAIN found}
            IN  /\ Len(found) = Smaller(top_k, Cardinality(rows))
                /\ got \subseteq rows /\ Cardinality(got) = Len(found)
                /\ \A k \in DOMAIN found : found[k].d = Dist(found[k].row)
                /\ \A k, l \in DOMAIN found : k < l => found[k].d <= found[l].d
                /\ \A i \in got : Cardinality({j \in rows : Code(j) < Code(i)}) < most
                /\ \A i \in rows \ got :
                      \/ \A k \in DOMAIN found : found[k].d <= Dist(i)
                      \/ rerank /\ Cardinality({j \in rows \ {i} : Code(j) <= Code(i)}) >= most
=============================================================================
