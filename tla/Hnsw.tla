-------------------------------- MODULE Hnsw --------------------------------
(***************************************************************************)
(* The layered graph index of index/hnsw.rs. One owner uses an index, so   *)
(* that an operation is one action; a search changes nothing but stamps,   *)
(* which Vamana has, and is an operator here.                              *)
(*                                                                         *)
(* A vector is a value with two distances. Under Cosine they differ: dist, *)
(* between two nodes, divides by both norms, and dist_q by that of the     *)
(* node alone. An insertion uses both of them in one search.               *)
(***************************************************************************)
EXTENDS LayeredGraph

CONSTANTS
    Vectors,
    NodeDist, QueryDist,   \* [Vectors -> [Vectors -> Int]]: dist and dist_q
    EfSearch,
    LevelsDrawn,           \* the levels the generator gives the nodes
    MaxVectors             \* bound: the nodes of an index

HnswConstants ==
    /\ NodeDist \in [Vectors -> [Vectors -> Int]]
    /\ QueryDist \in [Vectors -> [Vectors -> Int]]
    /\ m \in Nat /\ m >= 2 /\ m0 = 2 * m /\ EfSearch \in Nat \ {0}
    /\ MaxVectors \in Nat /\ LevelsDrawn \in [1 .. MaxVectors -> Nat \ {0}]

VARIABLE hnsw              \* store, links, entry, max_level

FromQuery(g, q) == [n \in Nodes(g) |-> QueryDist[q][g.store[n]]]
FromNode(g, x)  == [n \in Nodes(g) |-> NodeDist[g.store[x]][g.store[n]]]

(* select_neighbors_heuristic: the closest candidates that are closer to   *)
(* the query than to any selected before; then the closest of the others.  *)
DiverseOnly(g, d, cands, cap) ==       \* mutant of Select: nothing fills the list
    FoldLeft(LAMBDA out, c : IF \A k \in DOMAIN out : FromNode(g, out[k])[c] > d[c]
                             THEN Append(out, c) ELSE out, <<>>, cands)
Select(g, d, cands, cap) ==
    LET Take(out, c) ==
            IF Len(out) < cap /\ \A k \in DOMAIN out : FromNode(g, out[k])[c] > d[c]
            THEN Append(out, c) ELSE out
        diverse == FoldLeft(Take, <<>>, cands)
    IN  FirstOf(diverse \o Without(cands, Range(diverse)), cap)

(* One layer of an insertion: a search from ep, at the distance ep was     *)
(* found with, then links both ways.                                       *)
JoinLayer(s, new, lc) ==
    LET d == [FromQuery(s.g, s.g.store[new]) EXCEPT ![s.ep] = s.ep_dist]
        found == Beam(d, Layer(s.g, lc), From(s.ep), Greater(EfSearch, 2 * m)).results
        selected == Select(s.g, d, InOrder(d, found), CapOf(lc))
    IN  [g |-> FoldLeft(LAMBDA h, c : LinkBack(h, FromNode(h, c), c, new, lc),
                        [s.g EXCEPT !.links[new][lc + 1] = selected], selected),
         ep |-> selected[1], ep_dist |-> d[selected[1]]]

Inserted(g, x) ==
    LET new == Len(g.store) + 1
        level == LevelsDrawn[new]
        g1 == [WithNode(g, level) EXCEPT !.store = Append(@, x)]
        d == FromNode(g1, new)
        ep == Descend(g1, d, g.max_level, level + 1)
        joined == FoldLeft(LAMBDA s, lc : JoinLayer(s, new, lc),
                           [g |-> g1, ep |-> ep, ep_dist |-> d[ep]],
                           DownFrom(TopLayer(level, g.max_level), 0))
    IN  IF g.entry = 0 THEN [g1 EXCEPT !.entry = new, !.max_level = level]
        ELSE Raise(joined.g, new, level)

(* The top_k nodes found from where the descent to layer 1 ends.           *)
EfAlone(top_k)  == EfSearch         \* mutant of Breadth: too narrow for top_k results
Breadth(top_k)  == Greater(EfSearch, top_k)
Bottom(q) == Descend(hnsw, FromQuery(hnsw, q), hnsw.max_level, 1)
Search(q, top_k) ==
    LET d == FromQuery(hnsw, q)
        found == Beam(d, Layer(hnsw, 0), From(Bottom(q)), Breadth(top_k)).results
    IN  IF hnsw.store = <<>> THEN <<>> ELSE FirstOf(InOrder(d, found), top_k)

-----------------------------------------------------------------------------
Init == hnsw = [store |-> <<>>, links |-> <<>>, entry |-> 0, max_level |-> 0]

Insert(x) == Len(hnsw.store) < MaxVectors /\ hnsw' = Inserted(hnsw, x)

Next == \E x \in Vectors : Insert(x)

Spec == Init /\ [][Next]_hnsw

-----------------------------------------------------------------------------
(* An index can be walked from its entry: through insertions that prune    *)
(* each other's links, on several layers and with two measures of distance.*)
Walkable == LinksLevelled(hnsw) /\ EntryOnTop(hnsw) /\ LinksBounded(hnsw)

(* A wide search returns exactly what links of layer 0 lead to from where  *)
(* the descent ended; the first result of any search has no closer link,   *)
(* and is no farther than the node it began at.                            *)
SearchSound ==
    hnsw.store # <<>> =>
        \A q \in Vectors :
            LET d == FromQuery(hnsw, q)
                all == Search(q, Len(hnsw.store))
                one == Search(q, 1)
            IN  /\ Range(all) = Reachable(Layer(hnsw, 0), {Bottom(q)})
                /\ Len(one) = 1 /\ d[one[1]] <= d[hnsw.entry]
                /\ \A n \in Range(LinksAt(hnsw, one[1], 0)) : d[n] >= d[one[1]]
=============================================================================
