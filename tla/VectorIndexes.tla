--------------------------- MODULE VectorIndexes ----------------------------
(***************************************************************************)
(* The indexes over dense vectors that the crate offers beside its         *)
(* collections (index/mod.rs; examples/bench_indexes.rs compares them). A  *)
(* program creates one of them and owns it.                                *)
(***************************************************************************)
EXTENDS Integers, TLAPS

CONSTANTS
    MaxGen, Points, R, L, AlphaTenths, RefinePasses, SeedCount, RecenterEvery,
    MaxNodes, MaxBatch,
    m, m0, Vectors, NodeDist, QueryDist, EfSearch, LevelsDrawn, MaxVectors,
    Rows, Dim, SubVecs, Words, MinLists, Iterations, NProbe, ShortFactor,
    ShortMin, DrawBound, Drawn, MaxRows, MaxAdded

VARIABLES kind, graph, visited, hnsw, ivf

(* The three, each with what is proved about it.                           *)
V == INSTANCE VamanaProofs
H == INSTANCE HnswProofs
I == INSTANCE IvfPqProofs

ASSUME IndexConstants == V!VamanaConstants /\ H!HnswConstants /\ I!IvfPqConstants

vars == <<kind, graph, visited, hnsw, ivf>>

Init == kind \in {"vamana", "hnsw", "ivfpq"} /\ V!Init /\ H!Init /\ I!Init

OfVamana == kind = "vamana" /\ UNCHANGED <<kind, hnsw, ivf>>
OfHnsw   == kind = "hnsw" /\ UNCHANGED <<kind, graph, visited, ivf>>
OfIvfPq  == kind = "ivfpq" /\ UNCHANGED <<kind, graph, visited, hnsw>>

Next ==
    \/ OfVamana /\ V!Next
    \/ OfHnsw /\ H!Next
    \/ OfIvfPq /\ I!Next

Spec == Init /\ [][Next]_vars

-----------------------------------------------------------------------------
(* Vamana: R links at most at each node, to other nodes, none twice,       *)
(* through pruning and refinement.                                         *)
LinksSound == V!LinksSound
(* Vamana: a search that may return everything returns what links lead to, *)
(* but for the starts that another one is closer than, however often the   *)
(* generation counter wrapped; but see Stale.                              *)
SearchReaches == V!SearchReaches
(* Vamana: the first result is no farther than any node a search began at. *)
SearchNoWorse == V!SearchNoWorse
(* HNSW: links stay on their layer and within their caps; the entry is on  *)
(* the top layer.                                                          *)
Walkable == H!Walkable
(* HNSW: a wide search returns what layer 0 leads to from where the descent*)
(* ended, and the first result of any search is a local minimum.           *)
SearchSound == H!SearchSound
(* IVF-PQ: a row is in one list, where its distance is that of the row its *)
(* code stands for; no word is nearer to a part of it; and the code of few *)
(* enough rows is exact, but for the coordinates no part covers.           *)
AdcExact == I!AdcExact
(* IVF-PQ: a search returns, in order, the nearest rows of the nearest     *)
(* lists by their codes; when it reranks them, the nearest by themselves,  *)
(* but for those the cut of the shortlist may take.                        *)
SearchExact == I!SearchExact

-----------------------------------------------------------------------------
(* These hold for any vectors, distances, widths, levels and counters: the *)
(* program owns one index, and each keeps its own invariant.               *)

(* Every list of an HNSW index has room for a link.                        *)
LEMMA CapsPositive == m \in Nat \ {0} /\ m0 \in Nat \ {0}
BY IndexConstants DEF H!HnswConstants

(* A step of the program is one of the index it owns, or leaves it alone.  *)
LEMMA OwnerSteps ==
  ASSUME [Next]_vars
  PROVE  [V!Next]_<<graph, visited>> /\ [H!Next]_hnsw /\ [I!Next]_ivf
<1>1. CASE OfVamana /\ V!Next
  BY <1>1 DEF OfVamana
<1>2. CASE OfHnsw /\ H!Next
  BY <1>2 DEF OfHnsw
<1>3. CASE OfIvfPq /\ I!Next
  BY <1>3 DEF OfIvfPq
<1>4. CASE UNCHANGED vars
  BY <1>4 DEF vars
<1> QED
  BY <1>1, <1>2, <1>3, <1>4 DEF Next

(* Links, stamps and seeds of a Vamana index are in order.                 *)
LEMMA VamanaKept == Spec => []V!Inv
<1>1. Init => V!Inv
  BY V!InitInv, CapsPositive, IndexConstants DEF Init
<1>2. V!Inv /\ [Next]_vars => V!Inv'
  BY OwnerSteps, V!NextInv, CapsPositive, IndexConstants DEF V!vars
<1> QED
  BY <1>1, <1>2, PTL DEF Spec

(* The layers of an HNSW index are in order.                               *)
LEMMA HnswKept == Spec => []H!Built(hnsw)
<1>1. Init => H!Built(hnsw)
  BY H!InitBuilt, CapsPositive, IndexConstants DEF Init
<1>2. H!Built(hnsw) /\ [Next]_vars => H!Built(hnsw)'
  BY OwnerSteps, H!NextBuilt, CapsPositive, IndexConstants
<1> QED
  BY <1>1, <1>2, PTL DEF Spec

(* What an IVF-PQ index was trained on is listed, and coded as well as the *)
(* words of its codebooks can.                                             *)
LEMMA IvfKept == Spec => []I!Fitted(ivf)
<1>0. I!Init => I!Fitted(ivf)
  BY I!FittedKept, CapsPositive, IndexConstants
<1>1. Init => I!Fitted(ivf)
  BY <1>0 DEF Init
<1>2. I!Fitted(ivf) /\ [Next]_vars => I!Fitted(ivf)'
  BY OwnerSteps, I!FittedKept, CapsPositive, IndexConstants
<1> QED
  BY <1>1, <1>2, PTL DEF Spec

(* Whatever is inserted and built, a node has R links at most, to other    *)
(* nodes, none twice: linking, pruning and refinement, which changes the   *)
(* links of many nodes at a time, see to it (vamana.rs insert, build).     *)
THEOREM LinksAlwaysSound == Spec => []LinksSound
<1>1. V!Inv => LinksSound
  BY V!InvLinksSound, CapsPositive DEF LinksSound
<1> QED
  BY <1>1, VamanaKept, PTL

(* A search of any width finds a node, and no start is closer than the     *)
(* first one found; but see Stale (vamana.rs search, beam_search_multi).   *)
THEOREM SearchNeverWorse == Spec => []SearchNoWorse
<1>1. V!Inv => SearchNoWorse
  BY V!InvNoWorse, CapsPositive, IndexConstants DEF SearchNoWorse
<1> QED
  BY <1>1, VamanaKept, PTL

(* A Vamana search that may return everything returns what links lead to   *)
(* from the entry and the seeds, but for those of them that are not the    *)
(* first of the closest: they are visited before the search begins and so  *)
(* never become results; but see Stale (vamana.rs beam_search_multi).      *)
THEOREM SearchAlwaysReaches == Spec => []SearchReaches
<1>1. V!Inv => SearchReaches
  BY V!InvReaches, CapsPositive, IndexConstants DEF SearchReaches
<1> QED
  BY <1>1, VamanaKept, PTL

(* Whatever vectors an HNSW index is given, with whatever levels, it can be*)
(* walked from its entry: links stay on their layer and within their cap,  *)
(* none leads twice to a node, and the entry is on the highest layer       *)
(* (hnsw.rs insert).                                                       *)
THEOREM AlwaysWalkable == Spec => []Walkable
<1>1. H!Built(hnsw) => Walkable
  BY DEF H!Built, Walkable, H!Walkable
<1> QED
  BY <1>1, HnswKept, PTL

(* A search of an HNSW index as wide as the index finds all that links of  *)
(* its first layer lead to; the first result of any search has no closer   *)
(* link, and is no farther than the entry (hnsw.rs search, search_layer).  *)
THEOREM SearchAlwaysSound == Spec => []SearchSound
<1>1. H!Built(hnsw) => SearchSound
  BY H!InvSearchSound, CapsPositive, IndexConstants DEF SearchSound
<1> QED
  BY <1>1, HnswKept, PTL

(* Whatever rows an IVF-PQ index is trained on, in however many parts: each*)
(* is in one list, that of the centroid its code is relative to, with the  *)
(* nearest words to what is left of it; the table, which leaves out what   *)
(* does not depend on a word, makes of these the exact distance to the row *)
(* that they stand for; and while there are no more rows than words, that  *)
(* is the row itself wherever a part covers it (ivfpq.rs train_and_build,  *)
(* adc_table_for, search).                                                 *)
THEOREM AdcAlwaysExact == Spec => []AdcExact
<1>1. I!Fitted(ivf) => AdcExact
  BY I!FittedAdcExact, CapsPositive, IndexConstants DEF AdcExact
<1> QED
  BY <1>1, IvfKept, PTL

(* However lossy the codes, a search returns as many rows of the probed    *)
(* lists as it is asked for, or all, in order of distance: by their codes, *)
(* or reranked, their own. No row of these lists is nearer and left out,   *)
(* but for one that the shortlist had no room for, before reranking: there *)
(* were as many others whose codes are not behind its own (ivfpq.rs        *)
(* search).                                                                *)
THEOREM SearchAlwaysExact == Spec => []SearchExact
<1>1. I!Fitted(ivf) => SearchExact
  BY I!FittedSearchExact, CapsPositive, IndexConstants DEF SearchExact
<1> QED
  BY <1>1, IvfKept, PTL

=============================================================================
