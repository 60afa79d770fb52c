---------------------------- MODULE LayeredGraph ----------------------------
(***************************************************************************)
(* What the two layered indexes, SketchHnsw and Hnsw, do alike: nodes with *)
(* links on every layer up to their level, entered at the top. A graph is  *)
(* a record with the links of each node, per layer, the entry (0: none)    *)
(* and max_level. Nodes are numbered from 1 (`local` in the code, from 0). *)
(***************************************************************************)
EXTENDS Candidates

CONSTANTS m, m0       \* how many links a node keeps on a layer, and on layer 0

ASSUME CapsAssumption == m \in Nat \ {0} /\ m0 \in Nat \ {0}

Nodes(g)    == DOMAIN g.links
Level(g, n) == Len(g.links[n]) - 1
CapOf(lc)   == IF lc = 0 THEN m0 ELSE m

(* links[n][lc], where the code panics when n is not on layer lc.          *)
LinksAt(g, n, lc) == IF lc <= Level(g, n) THEN g.links[n][lc + 1] ELSE <<>>
Layer(g, lc)      == [n \in Nodes(g) |-> LinksAt(g, n, lc)]

DownFrom(top, bottom) == [k \in 1 .. top - bottom + 1 |-> top - k + 1]
Descend(g, d, top, bottom) ==
    FoldLeft(LAMBDA ep, lc : Greedy(d, Layer(g, lc), ep), g.entry, DownFrom(top, bottom))

(* A node without links yet, on the layers up to its level.                *)
WithNode(g, level) == [g EXCEPT !.links = Append(@, [lc \in 1 .. level + 1 |-> <<>>])]

LinkUnbounded(g, d, c, new, lc) ==     \* mutant of LinkBack: nothing is pruned
    [g EXCEPT !.links[c][lc + 1] = Append(@, new)]
(* The link back from c, of whose links the CapOf(lc) closest to it stay;  *)
(* of equally far ones, the earlier. `d` are the distances to c.           *)
LinkBack(g, d, c, new, lc) ==
    LET pool == Append(LinksAt(g, c, lc), new) IN
    [g EXCEPT !.links[c][lc + 1] = IF Len(pool) > CapOf(lc)
                                   THEN SubSeq(Sorted(d, pool), 1, CapOf(lc)) ELSE pool]

TopLayer(level, max_level) == Smaller(level, max_level)

KeepEntry(g, new, level) ==         \* mutant of Raise: the entry stays
    IF level > g.max_level THEN [g EXCEPT !.max_level = level] ELSE g
Raise(g, new, level) ==
    IF level > g.max_level THEN [g EXCEPT !.max_level = level, !.entry = new] ELSE g

-----------------------------------------------------------------------------
(* What insertion keeps.                                                   *)

(* A link leads to a node of the same layer: the code follows links[nb][lc]*)
(* without a check, and panics when nb is not on lc.                       *)
LinksLevelled(g) ==
    \A n \in Nodes(g) : \A lc \in 0 .. Level(g, n) : \A k \in DOMAIN LinksAt(g, n, lc) :
        /\ LinksAt(g, n, lc)[k] \in Nodes(g) \ {n}
        /\ lc <= Level(g, LinksAt(g, n, lc)[k])

(* The descent begins at a node of the highest layer.                      *)
EntryOnTop(g) ==
    Nodes(g) # {} => /\ g.entry \in Nodes(g) /\ Level(g, g.entry) = g.max_level
                     /\ \A n \in Nodes(g) : Level(g, n) <= g.max_level

(* Lists stay within their cap and name no node twice.                     *)
LinksBounded(g) ==
    \A n \in Nodes(g) : \A lc \in 0 .. Level(g, n) :
        Len(LinksAt(g, n, lc)) <= CapOf(lc) /\ IsInjective(LinksAt(g, n, lc))

=============================================================================
