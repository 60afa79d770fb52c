----------------------------- MODULE Candidates -----------------------------
(***************************************************************************)
(* What the graph indexes share: the order in which they look at nodes, as *)
(* Cand and its two heaps have it, and the two ways they walk. `d` gives   *)
(* the distance of every node to a query, `links` the nodes each one leads *)
(* to, in order; nodes are numbers.                                        *)
(***************************************************************************)
EXTENDS Integers, SequencesExt

Smaller(a, b) == IF a < b THEN a ELSE b
Greater(a, b) == IF a > b THEN a ELSE b
Square(k)     == k * k
FirstOf(s, k) == SubSeq(s, 1, Smaller(k, Len(s)))
UpTo(n)       == [i \in 1 .. n |-> i]

Before(d, a, b) ==
    \/ d[a] < d[b]
    \/ d[a] = d[b] /\ a < b

Closest(d, S)  == CHOOSE a \in S : \A b \in S \ {a} : Before(d, a, b)
Farthest(d, S) == CHOOSE a \in S : \A b \in S \ {a} : Before(d, b, a)
InOrder(d, S)  == [k \in 1 .. Cardinality(S) |->
                     CHOOSE a \in S : Cardinality({b \in S : Before(d, b, a)}) = k - 1]

(* The elements of a sequence that are not in S, in their order.           *)
Without(s, S) == FoldLeft(LAMBDA out, x : IF x \in S THEN out ELSE Append(out, x), <<>>, s)

(* A stable sort of a sequence of nodes by their distance alone.           *)
Sorted(d, s) ==
    LET Ahead(k) == {i \in DOMAIN s : \/ d[s[i]] < d[s[k]]
                                      \/ d[s[i]] = d[s[k]] /\ i < k}
    IN  [r \in DOMAIN s |-> s[CHOOSE k \in DOMAIN s : Cardinality(Ahead(k)) = r - 1]]

(* Over to a closer link, the first of the closest, until there is none.   *)
Closer(d, at, ep) ==
    LET best == {k \in DOMAIN at : /\ d[at[k]] < d[ep]
                                   /\ \A i \in DOMAIN at : d[at[k]] <= d[at[i]]}
    IN  IF best = {} THEN ep ELSE at[Min(best)]
Greedy(d, links, start) ==
    LET Walk[ep \in DOMAIN links] ==
            LET next == Closer(d, links[ep], ep) IN IF next = ep THEN ep ELSE Walk[next]
    IN  Walk[start]

(* The beam: the closest node of the frontier first, until it is farther   *)
(* than the worst of l results. A node is met once, which `seen` is for.   *)
Full(s, l)  == Cardinality(s.results) >= l
Worst(d, s) == d[Farthest(d, s.results)]
Trim(d, r, l) == IF Cardinality(r) > l THEN r \ {Farthest(d, r)} ELSE r

Meet(d, s, n, l) ==
    IF n \in s.seen THEN s
    ELSE IF Full(s, l) /\ d[n] >= Worst(d, s) THEN [s EXCEPT !.seen = @ \cup {n}]
    ELSE [seen |-> s.seen \cup {n}, frontier |-> s.frontier \cup {n},
          results |-> Trim(d, s.results \cup {n}, l)]

Ended(d, s, l) ==
    \/ s.frontier = {}
    \/ Full(s, l) /\ d[Closest(d, s.frontier)] > Worst(d, s)
Advance(d, links, s, l) ==
    LET c == Closest(d, s.frontier) IN
    FoldLeft(LAMBDA t, n : Meet(d, t, n, l), [s EXCEPT !.frontier = @ \ {c}], links[c])

Beams(links) ==
    [seen : SUBSET DOMAIN links, frontier : SUBSET DOMAIN links, results : SUBSET DOMAIN links]
Beam(d, links, start, l) ==
    LET Explore[s \in Beams(links)] ==
            IF Ended(d, s, l) THEN s ELSE Explore[Advance(d, links, s, l)]
    IN  Explore[start]

From(ep) == [seen |-> {ep}, frontier |-> {ep}, results |-> {ep}]

(* What links lead to from some nodes: the least set that has them and is  *)
(* closed under links. A search is compared with it.                       *)
Reachable(links, starts) ==
    LET Closed(S) == \A n \in S : Range(links[n]) \subseteq S
        sets == {S \in SUBSET DOMAIN links : starts \subseteq S /\ Closed(S)}
    IN  {n \in DOMAIN links : \A S \in sets : n \in S}

=============================================================================
