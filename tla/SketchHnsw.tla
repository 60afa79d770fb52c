----------------------------- MODULE SketchHnsw -----------------------------
(***************************************************************************)
(* The graph index over sketches. An index is a record; the module has its *)
(* operations, Retrieval keeps one as state.                               *)
(*                                                                         *)
(* A sketch is a value with a distance to every other, 1 - cosine in the   *)
(* code. The levels of the nodes come from a generator with a fixed seed,  *)
(* so that they are a sequence the index is created with. The nodes a      *)
(* search has seen are a set here; Vamana has what VisitedStamps makes of  *)
(* it.                                                                     *)
(***************************************************************************)
EXTENDS LayeredGraph

CONSTANTS
    Sketches,
    Distance,     \* [Sketches -> [Sketches -> Nat]]
    EfSearch

ASSUME IndexAssumption ==
    Distance \in [Sketches -> [Sketches -> Nat]] /\ EfSearch \in Nat \ {0}

(* What an index is made of; the links of a node are a list for each layer.*)
Indexes(levels) ==
    [ids : Seq(Nat), sketches : Seq(Sketches), links : Seq(Seq(Seq(Nat)) \ {<<>>}),
     entry : Nat, max_level : Nat, levels : {levels}]

NewIndex(levels) ==
    [ids |-> <<>>, sketches |-> <<>>, links |-> <<>>, entry |-> 0, max_level |-> 0,
     levels |-> levels]

Distances(g, q) == [n \in Nodes(g) |-> Distance[q][g.sketches[n]]]
Around(g, n)    == Distances(g, g.sketches[n])

SearchLayer(g, q, ep, lc, ef) ==
    Beam(Distances(g, q), Layer(g, lc), From(ep), ef).results

(* The ids of up to top_k nodes that are alive, the closest first.         *)
Search(g, q, top_k, Alive) ==
    LET d == Distances(g, q)
        found == SearchLayer(g, q, Descend(g, d, g.max_level, 1), 0,
                             Greater(EfSearch, 2 * top_k))
        alive == FirstOf(InOrder(d, {n \in found : g.ids[n] \in Alive}), top_k)
    IN  IF Nodes(g) = {} THEN <<>> ELSE [k \in DOMAIN alive |-> g.ids[alive[k]]]

(* greedy_select: the closest candidates that are closer to the new node   *)
(* than to any link selected before; at least one.                         *)
GreedySelect(g, new, cands, cap) ==
    LET d == Around(g, new)
        sorted == InOrder(d, cands \ {new})
        Take(out, c) ==
            IF Len(out) < cap /\ \A k \in DOMAIN out : Around(g, out[k])[c] > d[c]
            THEN Append(out, c) ELSE out
        kept == FoldLeft(Take, <<>>, sorted)
    IN  IF kept = <<>> THEN FirstOf(sorted, 1) ELSE kept

(* One layer. The node itself, which prune_by_dist adds to the pool of a   *)
(* link back, it also filters out.                                         *)
JoinLayer(s, new, lc) ==
    LET cands == SearchLayer(s.g, s.g.sketches[new], s.ep, lc, s.ef)
        selected == GreedySelect(s.g, new, cands, CapOf(lc))
    IN  IF s.ended \/ selected = <<>> THEN [s EXCEPT !.ended = TRUE]
        ELSE [g |-> FoldLeft(LAMBDA h, c : LinkBack(h, Around(h, c), c, new, lc),
                             [s.g EXCEPT !.links[new][lc + 1] = selected], selected),
              ep |-> selected[1], ef |-> 2 * s.ef, ended |-> FALSE]

InsertNode(g, id, sk) ==
    LET new == Len(g.ids) + 1
        level == g.levels[new]
        g1 == [WithNode(g, level) EXCEPT !.ids = Append(@, id), !.sketches = Append(@, sk)]
        start == [g |-> g1, ep |-> Descend(g1, Around(g1, new), g.max_level, level + 1),
                  ef |-> EfSearch, ended |-> FALSE]
        joined == FoldLeft(LAMBDA s, lc : JoinLayer(s, new, lc), start,
                           DownFrom(TopLayer(level, g.max_level), 0))
    IN  IF g.entry = 0 THEN [g1 EXCEPT !.entry = new, !.max_level = level]
        ELSE Raise(joined.g, new, level)

=============================================================================
