------------------------------- MODULE Vamana -------------------------------
(***************************************************************************)
(* The single-layer graph index of index/vamana.rs: inserted into one      *)
(* vector at a time or built from a batch, and searched by a beam from     *)
(* several entries. One owner uses an index (its searches change a RefCell)*)
(* so that an operation is one action.                                     *)
(*                                                                         *)
(* Vectors are points on a line under L2; alpha is in tenths. Stored are    *)
(* numbered from 1, and stand for the ids a search translates them to.     *)
(***************************************************************************)
EXTENDS Candidates, VisitedStamps

CONSTANTS
    Points,
    R, L,            \* links of a node; results of a search that inserts
    AlphaTenths,
    RefinePasses,
    SeedCount,       \* 16 in the code
    RecenterEvery,   \* 4096 in the code
    MaxNodes,        \* bound: the nodes of an index
    MaxBatch         \* bound: the vectors of a build

VamanaConstants ==
    /\ Points \subseteq Int /\ R \in Nat /\ R >= 2 /\ L \in Nat \ {0}
    /\ AlphaTenths \in 10 .. 20 /\ RefinePasses \in 1 .. 4
    /\ {SeedCount, RecenterEvery} \subseteq Nat \ {0} /\ {MaxNodes, MaxBatch} \subseteq Nat
    /\ MaxGen \in Nat /\ MaxGen >= 2

VARIABLES
    graph,           \* store, links, entry, last, seeds
    visited

Stored(g)   == DOMAIN g.store
Far(g, q)  == [n \in Stored(g) |-> Square(q - g.store[n])]
Apart(g, a, b) == Square(g.store[a] - g.store[b])

-----------------------------------------------------------------------------
(* beam_search_multi. Every entry and seed is visited, the closest is the  *)
(* first result; the others are explored but never results.                *)

Fresh(v, starts) ==
    FoldLeft(LAMBDA s, n : IF Visited(s.v, n) THEN s
                           ELSE [v |-> Visit(s.v, n), nodes |-> Append(s.nodes, n)],
             [v |-> v, nodes |-> <<>>], starts)

EntryFirst(d, nodes) ==                 \* mutant of First: the entry, near or not
    IF nodes = <<>> THEN {} ELSE {nodes[1]}
First(d, nodes) == IF nodes = <<>> THEN {} ELSE {Sorted(d, nodes)[1]}

(* One search, of at most l results: what it found and what it visited.    *)
BeamSearch(g, v, q, starts, l) ==
    LET d == Far(g, q)
        fresh == Fresh(Begin(v, Len(g.store)), starts)
        end == Beam(d, g.links,
                    [seen |-> {n \in Stored(g) : Visited(fresh.v, n)},
                     frontier |-> Range(fresh.nodes), results |-> First(d, fresh.nodes)], l)
    IN  [found |-> InOrder(d, end.results), v |-> VisitAll(fresh.v, end.seen)]

(* robust_prune: the closest candidates that no kept one is much closer to;*)
(* then the closest of the others, up to R. Few candidates are all kept.   *)
RobustPrune(g, point, cands) ==
    LET others == Without(cands, {point})
        d == Far(g, g.store[point])
        Good(out, c) == \A r \in Range(out) : Apart(g, r, c) * AlphaTenths >= 10 * d[c]
        Judge(s, c) ==
            IF Len(s.out) >= R THEN s
            ELSE IF Good(s.out, c) THEN [s EXCEPT !.out = Append(@, c)]
            ELSE [s EXCEPT !.discarded = Append(@, c)]
        judged == FoldLeft(Judge, [out |-> <<>>, discarded |-> <<>>], Sorted(d, others))
        all == judged.out \o judged.discarded
    IN  IF Len(cands) <= R THEN others
        ELSE FirstOf(all, R)

-----------------------------------------------------------------------------
(* The mean of the points is sum / n: the node closest to it, the first of *)
(* equally close ones.                                                     *)
Medoid(g) ==
    LET n == Len(g.store)
        sum == FoldLeft(LAMBDA a, x : a + x, 0, g.store)
        Off(i) == Square(n * g.store[i] - sum)
    IN  CHOOSE i \in Stored(g) : \A k \in Stored(g) \ {i} :
            \/ Off(i) < Off(k)
            \/ Off(i) = Off(k) /\ i < k
Recentered(g) == IF g.store = <<>> THEN g ELSE [g EXCEPT !.entry = Medoid(g)]

(* Links both ways, and the far ends of a full node are pruned.            *)
LinkedTo(g, id, n) == [g EXCEPT !.links[id] = Append(@, n), !.links[n] = Append(@, id)]
Untrimmed(g, n) == g                    \* mutant of Trimmed: nothing is pruned
Trimmed(g, n) ==
    IF Len(g.links[n]) <= R THEN g
    ELSE [g EXCEPT !.links[n] = RobustPrune(g, n, Append(@, n))]

(* insert_id, on s = [g, v].                                               *)
Inserted(s, x) ==
    LET id == Len(s.g.store) + 1
        g1 == [s.g EXCEPT !.store = Append(@, x), !.links = Append(@, <<>>)]
        beam == BeamSearch(g1, s.v, x, <<g1.entry, g1.last>> \o g1.seeds, Greater(L, R))
        new == RobustPrune(g1, id, beam.found)
        linked == FoldLeft(LAMBDA g, n : LinkedTo(g, id, n), g1, new)
        joined == [FoldLeft(Trimmed, linked, new) EXCEPT !.last = id]
    IN  IF s.g.entry = 0 THEN [g |-> [g1 EXCEPT !.entry = id, !.last = id], v |-> s.v]
        ELSE [g |-> IF (id - 1) % RecenterEvery = 0 THEN Recentered(joined) ELSE joined,
              v |-> beam.v]

(* refine_alpha_pass, one node: its links are chosen again, and the others *)
(* gain and lose theirs to it accordingly.                                 *)
Relinked(g, i, kept) ==
    [g EXCEPT !.links = [n \in DOMAIN @ |->
        IF n = i THEN kept
        ELSE IF n \in Range(g.links[i]) \ Range(kept)
        THEN Without(@[n], {i})
        ELSE IF n \in Range(kept) /\ i \notin Range(@[n]) THEN Append(@[n], i)
        ELSE @[n]]]
Refined(s, i) ==
    LET before == IF i > 1 THEN i - 1 ELSE i
        beam == BeamSearch(s.g, s.v, s.g.store[i], <<s.g.entry, before>> \o s.g.seeds,
                           Greater(L, R))
        pool == beam.found \o Without(s.g.links[i], Range(beam.found))
    IN  [g |-> Relinked(s.g, i, RobustPrune(s.g, i, pool)), v |-> beam.v]

RefinePass(s, pass) ==
    LET refined == FoldLeft(Refined, s, UpTo(Len(s.g.store)))
    IN  [refined EXCEPT !.g = FoldLeft(Trimmed, @, UpTo(Len(@.store)))]

(* build: the order of the batch is any, and what the generator draws for  *)
(* the seeds too.                                                          *)
Draws(n) == [1 .. Smaller(n, SeedCount) -> 1 .. n]
Built(batch) ==
    LET refined == FoldLeft(RefinePass, FoldLeft(Inserted, [g |-> graph, v |-> visited], batch),
                            UpTo(RefinePasses))
    IN  [refined EXCEPT !.g = Recentered(@)]

-----------------------------------------------------------------------------
Init ==
    /\ graph = [store |-> <<>>, links |-> <<>>, entry |-> 0, last |-> 0, seeds |-> <<>>]
    /\ visited = NewStamps

Insert(x) ==
    LET s == Inserted([g |-> graph, v |-> visited], x) IN
    /\ Len(graph.store) < MaxNodes
    /\ graph' = s.g /\ visited' = s.v

Build(batch) ==
    LET s == Built(batch) IN
    /\ Len(graph.store) + Len(batch) <= MaxNodes
    /\ \E seeds \in Draws(Len(s.g.store)) : graph' = [s.g EXCEPT !.seeds = seeds]
    /\ visited' = s.v

(* search, which begins at the entry and the seeds.                        *)
Starts == <<graph.entry>> \o graph.seeds
Found(q, l) == BeamSearch(graph, visited, q, Starts \o graph.seeds, l)
Search(q) ==
    /\ graph.store # <<>>
    /\ visited' = Found(q, L).v
    /\ UNCHANGED graph

Next ==
    \/ \E x \in Points : Insert(x)
    \/ \E batch \in SeqOf(Points, MaxBatch) : Build(batch)
    \/ \E q \in Points : Search(q)

vars == <<graph, visited>>

Spec == Init /\ [][Next]_vars

-----------------------------------------------------------------------------
(* An index is well formed: R links at most at each node, to other nodes,  *)
(* none twice. Links follow from each other through pruning and refinement.*)
LinksSound ==
    /\ graph.entry \in Stored(graph) \cup {0} /\ graph.last \in Stored(graph) \cup {0}
    /\ \A n \in Stored(graph) :
          /\ Len(graph.links[n]) <= R /\ IsInjective(graph.links[n])
          /\ Range(graph.links[n]) \subseteq Stored(graph) \ {n}

PassedOver(q) ==
    LET d == Far(graph, q) IN
    Range(Starts) \ First(d, Starts)

(* A search that may return everything returns what links lead to, but for *)
(* the entries and seeds that another one is closer than.                  *)
SearchReaches ==
    graph.store # <<>> /\ ~Stale(visited) =>
        \A q \in Points :
            Range(Found(q, Len(graph.store)).found)
                = Reachable(graph.links, Range(Starts)) \ PassedOver(q)

(* A search of any width finds at least one node, and the first one is no  *)
(* farther than any it began at.                                           *)
SearchNoWorse ==
    graph.store # <<>> /\ ~Stale(visited) =>
        \A q \in Points, l \in 1 .. 2 :
            LET found == Found(q, l).found
                d == Far(graph, q)
            IN  /\ Len(found) \in 1 .. l
                /\ \A n \in Range(Starts) : d[found[1]] <= d[n]
=============================================================================
