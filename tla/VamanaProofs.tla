--------------------------- MODULE VamanaProofs ---------------------------
(***************************************************************************)
(* An index of Vamana stays well formed, for any points, through insertion,*)
(* pruning and refinement.                                                 *)
(***************************************************************************)
EXTENDS Vamana, SearchProofs

-----------------------------------------------------------------------------
(* Stamps. Those of a wrap apart, a stamp is not ahead of the generation.  *)
StampsOK(v) ==
    /\ v \in [stamps : Seq(Nat), gen : 0 .. MaxGen]
    /\ \A i \in DOMAIN v.stamps : v.stamps[i] <= v.gen \/ v.stamps[i] = MaxGen

Covers(v, n) == StampsOK(v) /\ n <= Len(v.stamps)

(* A search begins with a stamp for every node, and unless the stamps are  *)
(* stale with no node visited.                                             *)
LEMMA BeginIs ==
  ASSUME VamanaConstants, NEW v, StampsOK(v), NEW count \in Nat
  PROVE  /\ Covers(Begin(v, count), count)
         /\ ~Stale(v) => \A i \in DOMAIN Begin(v, count).stamps : ~Visited(Begin(v, count), i)
<1> DEFINE s == Resized(v.stamps, count)
           n == IF Len(v.stamps) < count THEN count ELSE Len(v.stamps)
           w == Begin(v, count)
<1>1. /\ v.stamps \in Seq(Nat) /\ v.gen \in 0 .. MaxGen /\ Len(v.stamps) \in Nat
      /\ MaxGen \in Nat /\ MaxGen >= 2
      /\ \A i \in DOMAIN v.stamps : v.stamps[i] <= v.gen \/ v.stamps[i] = MaxGen
  BY DEF StampsOK, VamanaConstants
<1>2. n \in Nat /\ n >= count
  BY <1>1
<1>3. s = [i \in 1 .. n |-> IF i <= Len(v.stamps) THEN v.stamps[i] ELSE 0]
  BY DEF Resized
<1> HIDE DEF s, n
<1>4. /\ s \in Seq(Nat) /\ DOMAIN s = 1 .. n /\ Len(s) = n
      /\ \A i \in 1 .. n : s[i] = 0 \/ (i \in DOMAIN v.stamps /\ s[i] = v.stamps[i])
  <2>1. \A i \in 1 .. n : i <= Len(v.stamps) => i \in DOMAIN v.stamps
    BY <1>1, <1>2
  <2>2. \A i \in 1 .. n : s[i] \in Nat
    BY <2>1, <1>1, <1>3
  <2>3. s \in [1 .. n -> Nat]
    BY <2>2, <1>3
  <2>4. s \in Seq(Nat)
    BY <2>3, <1>2
  <2> QED
    BY <2>1, <2>3, <2>4, <1>2, <1>3
<1>5. w = IF v.gen = MaxGen THEN [stamps |-> [i \in DOMAIN s |-> MaxGen], gen |-> 1]
          ELSE [stamps |-> s, gen |-> v.gen + 1]
  BY DEF Begin, s
<1> HIDE DEF w
<1>6. CASE v.gen = MaxGen
  <2> DEFINE z == [i \in 1 .. n |-> MaxGen]
  <2>1. z \in [1 .. n -> Nat]
    BY <1>1
  <2>2. z \in Seq(Nat) /\ Len(z) = n /\ DOMAIN z = 1 .. n
    BY <2>1, <1>2
  <2>3. \A i \in 1 .. n : z[i] = MaxGen
    OBVIOUS
  <2>4. w = [stamps |-> z, gen |-> 1]
    BY <1>4, <1>5, <1>6
  <2> HIDE DEF z
  <2>5. w.stamps = z /\ w.gen = 1
    BY <2>4
  <2>6. StampsOK(w) /\ count <= Len(w.stamps)
    BY <2>2, <2>3, <2>4, <2>5, <1>1, <1>2 DEF StampsOK
  <2>7. \A i \in DOMAIN w.stamps : ~Visited(w, i)
    BY <2>2, <2>3, <2>5, <1>1 DEF Visited
  <2> QED
    BY <2>6, <2>7 DEF Covers, w
<1>7. CASE v.gen # MaxGen
  <2>1. w = [stamps |-> s, gen |-> v.gen + 1]
    BY <1>5, <1>7
  <2>2. w.stamps = s /\ w.gen = v.gen + 1 /\ w.gen \in 0 .. MaxGen
    BY <2>1, <1>1, <1>7
  <2>3. \A i \in 1 .. n : s[i] <= v.gen \/ s[i] = MaxGen
    BY <1>1, <1>4
  <2>4. StampsOK(w) /\ count <= Len(w.stamps)
    BY <2>1, <2>2, <2>3, <1>1, <1>2, <1>4 DEF StampsOK
  <2>5. ASSUME ~Stale(v), NEW i \in DOMAIN w.stamps PROVE ~Visited(w, i)
    <3>1. CASE s[i] <= v.gen
      BY <3>1, <2>2, <1>1, <1>4 DEF Visited
    <3>2. CASE s[i] = MaxGen
      <4>1. i \in 1 .. n /\ s[i] # 0
        BY <3>2, <2>2, <1>1, <1>4
      <4>2. i \in DOMAIN v.stamps /\ v.stamps[i] = MaxGen
        BY <4>1, <3>2, <1>4
      <4>3. v.gen # MaxGen - 1
        BY <4>2, <2>5 DEF Stale
      <4> QED
        BY <4>3, <3>2, <2>2, <1>1 DEF Visited
    <3> QED
      BY <3>1, <3>2, <2>2, <2>3, <1>4
  <2> QED
    BY <2>4, <2>5 DEF Covers, w
<1> QED
  BY <1>6, <1>7

LEMMA VisitIs ==
  ASSUME NEW v, NEW n \in Nat, Covers(v, n), NEW i \in 1 .. n
  PROVE  /\ Covers(Visit(v, i), n)
         /\ \A k \in 1 .. n : Visited(Visit(v, i), k) <=> k = i \/ Visited(v, k)
<1> DEFINE z == [v.stamps EXCEPT ![i] = v.gen]
           w == Visit(v, i)
<1>1. /\ v.stamps \in Seq(Nat) /\ v.gen \in 0 .. MaxGen /\ n <= Len(v.stamps)
      /\ Len(v.stamps) \in Nat /\ v = [stamps |-> v.stamps, gen |-> v.gen]
      /\ \A k \in DOMAIN v.stamps : v.stamps[k] <= v.gen \/ v.stamps[k] = MaxGen
  BY DEF Covers, StampsOK
<1>2. /\ z \in Seq(Nat) /\ Len(z) = Len(v.stamps) /\ i \in DOMAIN v.stamps
      /\ \A k \in DOMAIN v.stamps : z[k] = IF k = i THEN v.gen ELSE v.stamps[k]
  BY <1>1
<1> HIDE DEF z
<1>3. w = [v EXCEPT !.stamps = z]
  BY DEF Visit, z
<1> HIDE DEF w
<1>4. w = [stamps |-> z, gen |-> v.gen]
  BY <1>1, <1>3
<1>5. w.stamps = z /\ w.gen = v.gen /\ DOMAIN z = DOMAIN v.stamps
  BY <1>2, <1>4
<1>6. StampsOK(w)
  BY <1>1, <1>2, <1>4, <1>5 DEF StampsOK
<1>7. \A k \in 1 .. n : k \in DOMAIN v.stamps
  BY <1>1
<1>8. \A k \in 1 .. n : Visited(w, k) <=> k = i \/ Visited(v, k)
  BY <1>2, <1>5, <1>7 DEF Visited
<1> QED
  BY <1>1, <1>2, <1>5, <1>6, <1>8 DEF Covers, w

LEMMA VisitAllIs ==
  ASSUME NEW v, StampsOK(v), NEW S
  PROVE  StampsOK(VisitAll(v, S))
<1> DEFINE z == [i \in DOMAIN v.stamps |-> IF i \in S THEN v.gen ELSE v.stamps[i]]
           w == VisitAll(v, S)
<1>1. /\ v.stamps \in Seq(Nat) /\ v.gen \in 0 .. MaxGen /\ Len(v.stamps) \in Nat
      /\ v = [stamps |-> v.stamps, gen |-> v.gen] /\ DOMAIN v.stamps = 1 .. Len(v.stamps)
      /\ \A k \in DOMAIN v.stamps : v.stamps[k] <= v.gen \/ v.stamps[k] = MaxGen
  BY DEF StampsOK
<1>2. z \in [1 .. Len(v.stamps) -> Nat]
  BY <1>1
<1>3. z \in Seq(Nat) /\ \A k \in DOMAIN z : z[k] <= v.gen \/ z[k] = MaxGen
  BY <1>1, <1>2
<1> HIDE DEF z
<1>4. w = [v EXCEPT !.stamps = z]
  BY DEF VisitAll, z
<1> HIDE DEF w
<1>5. w = [stamps |-> z, gen |-> v.gen]
  BY <1>1, <1>4
<1>6. w.stamps = z /\ w.gen = v.gen
  BY <1>5
<1> QED
  BY <1>1, <1>3, <1>5, <1>6 DEF StampsOK, w

-----------------------------------------------------------------------------
(* Graphs. A graph is sound when its links lead to its other nodes, none   *)
(* twice. Its entry and last node are there as soon as it has a node.      *)
Graphs == [store : Seq(Points), links : Seq(Seq(Nat)), entry : Nat, last : Nat, seeds : Seq(Nat)]

List(g, n) == Seq(Stored(g) \ {n})

Sound(g) ==
    /\ g \in Graphs /\ Len(g.links) = Len(g.store)
    /\ g.entry \in Stored(g) \cup {0} /\ g.last \in Stored(g) \cup {0}
    /\ Stored(g) # {} => g.entry # 0 /\ g.last # 0
    /\ g.seeds \in Seq(Stored(g))
    /\ \A n \in Stored(g) : g.links[n] \in List(g, n) /\ IsInjective(g.links[n])

(* No node of T has more links than R.                                     *)
Bounded(g, T) == \A n \in T : Len(g.links[n]) <= R

LEMMA NodesAre ==
  ASSUME VamanaConstants, NEW g, Sound(g)
  PROVE  /\ Len(g.store) \in Nat /\ Stored(g) = 1 .. Len(g.store) /\ DOMAIN g.links = Stored(g)
         /\ IsFiniteSet(Stored(g)) /\ Stored(g) \in SUBSET Nat
         /\ \A n \in Stored(g) : g.store[n] \in Points /\ g.store[n] \in Int
         /\ g.entry \in Nat /\ g.last \in Nat
         /\ Linked(g.links, Stored(g))
         /\ \A q \in Int : Measured(Far(g, q), Stored(g))
<1>1. /\ g.store \in Seq(Points) /\ g.links \in Seq(Seq(Nat)) /\ Points \subseteq Int
      /\ Len(g.links) = Len(g.store)
  BY DEF Sound, Graphs, VamanaConstants
<1>2. Len(g.store) \in Nat /\ Stored(g) = 1 .. Len(g.store) /\ DOMAIN g.links = Stored(g)
  BY <1>1 DEF Stored
<1>3. IsFiniteSet(Stored(g)) /\ Stored(g) \in SUBSET Nat
  <2>1. IsFiniteSet(1 .. Len(g.store))
    BY <1>2, FS_Interval
  <2>2. \A n \in Stored(g) : n \in Nat
    BY <1>2
  <2>3. IsFiniteSet(Stored(g))
    BY <1>2, <2>1, Zenon
  <2> QED
    BY <2>2, <2>3
<1>4. \A n \in Stored(g) : g.store[n] \in Points /\ g.store[n] \in Int
  <2>1. \A n \in 1 .. Len(g.store) : g.store[n] \in Points
    BY <1>1
  <2> QED
    BY <2>1, <1>1, <1>2
<1>5. Linked(g.links, Stored(g))
  <2>1. ASSUME NEW n \in Stored(g) PROVE g.links[n] \in Seq(Stored(g))
    <3>1. g.links[n] \in Seq(Stored(g) \ {n})
      BY DEF Sound, List
    <3> QED
      BY <3>1
  <2> QED
    BY <2>1 DEF Linked
<1>6. ASSUME NEW q \in Int PROVE Measured(Far(g, q), Stored(g))
  <2>1. \A n \in Stored(g) : Far(g, q)[n] \in Int
    BY <1>4 DEF Far, Square
  <2> QED
    BY <2>1, <1>3 DEF Measured
<1>7. g.entry \in Nat /\ g.last \in Nat
  BY DEF Sound, Graphs
<1> QED
  BY <1>2, <1>3, <1>4, <1>5, <1>6, <1>7

(* The links of a graph are replaced, by lists that are as they should be. *)
Relisted(g, h, z) == h = [g EXCEPT !.links = z]

LEMMA RelistedIs ==
  ASSUME VamanaConstants, NEW g, Sound(g), NEW z \in [Stored(g) -> Seq(Nat)],
         \A n \in Stored(g) : z[n] \in List(g, n) /\ IsInjective(z[n]),
         NEW h, Relisted(g, h, z)
  PROVE  Sound(h) /\ Stored(h) = Stored(g) /\ h.links = z /\ h.store = g.store
<1>1. /\ g = [store |-> g.store, links |-> g.links, entry |-> g.entry, last |-> g.last,
              seeds |-> g.seeds]
      /\ g.store \in Seq(Points) /\ g.entry \in Nat /\ g.last \in Nat /\ g.seeds \in Seq(Nat)
  BY DEF Sound, Graphs
<1>2. h = [store |-> g.store, links |-> z, entry |-> g.entry, last |-> g.last,
           seeds |-> g.seeds]
  BY <1>1 DEF Relisted
<1>3. /\ h.store = g.store /\ h.links = z /\ h.entry = g.entry /\ h.last = g.last
      /\ h.seeds = g.seeds
  BY <1>2
<1>4. Stored(h) = Stored(g)
  BY <1>3 DEF Stored
<1>5. z \in Seq(Seq(Nat)) /\ Len(z) = Len(g.store)
  <2>1. Len(g.store) \in Nat /\ Stored(g) = 1 .. Len(g.store) /\ Stored(g) \in SUBSET Nat
    BY NodesAre

  <2> DEFINE n == Len(g.store)
  <2> HIDE DEF n
  <2>3. z \in Seq(Seq(Nat)) /\ Len(z) = n
    <3>1. z \in [1 .. n -> Seq(Nat)] /\ n \in Nat
      BY <2>1 DEF n
    <3> QED
      BY <3>1
  <2> QED
    BY <2>3 DEF n
<1>6. h \in Graphs
  BY <1>1, <1>2, <1>5 DEF Graphs
<1>7. \A n \in Stored(h) : h.links[n] \in List(h, n) /\ IsInjective(h.links[n])
  BY <1>3, <1>4 DEF List
<1> QED
  BY <1>3, <1>4, <1>5, <1>6, <1>7 DEF Sound

-----------------------------------------------------------------------------
(* Pruning. What is kept and what is discarded are apart.                  *)
Judge(g, d, u, c) ==
    IF Len(u.out) >= R THEN u
    ELSE IF \A r \in Range(u.out) : Apart(g, r, c) * AlphaTenths >= 10 * d[c]
    THEN [u EXCEPT !.out = Append(@, c)]
    ELSE [u EXCEPT !.discarded = Append(@, c)]

Judged(C, T, u) ==
    /\ u \in [out : Seq(C), discarded : Seq(C)]
    /\ IsInjective(u.out) /\ IsInjective(u.discarded)
    /\ Range(u.out) \cap Range(u.discarded) = {}
    /\ Range(u.out) \cup Range(u.discarded) \subseteq T

LEMMA JudgeIs ==
  ASSUME NEW g, NEW d, NEW C, NEW T, NEW u, Judged(C, T, u), NEW c \in C, c \notin T
  PROVE  Judged(C, T \cup {c}, Judge(g, d, u, c))
<1> DEFINE out == Append(u.out, c)
           discarded == Append(u.discarded, c)
           w == Judge(g, d, u, c)
<1>1. /\ u \in [out : Seq(C), discarded : Seq(C)]
      /\ u = [out |-> u.out, discarded |-> u.discarded]
      /\ u.out \in Seq(C) /\ u.discarded \in Seq(C)
      /\ IsInjective(u.out) /\ IsInjective(u.discarded)
      /\ Range(u.out) \cap Range(u.discarded) = {}
      /\ c \notin Range(u.out) /\ c \notin Range(u.discarded)
      /\ Range(u.out) \subseteq T /\ Range(u.discarded) \subseteq T
  BY DEF Judged
<1>2. /\ out \in Seq(C) /\ IsInjective(out) /\ Range(out) = Range(u.out) \cup {c}
      /\ discarded \in Seq(C) /\ IsInjective(discarded)
      /\ Range(discarded) = Range(u.discarded) \cup {c}
  BY <1>1, AppendIs
<1>3. w = u \/ w = [u EXCEPT !.out = out] \/ w = [u EXCEPT !.discarded = discarded]
  BY DEF Judge
<1> HIDE DEF out, discarded, w
<1> SUFFICES Judged(C, T \cup {c}, w)
  BY DEF w
<1>4. CASE w = u
  BY <1>4, <1>1 DEF Judged
<1>5. CASE w = [u EXCEPT !.out = out]
  <2>1. w = [out |-> out, discarded |-> u.discarded]
    BY <1>1, <1>5
  <2>2. w.out = out /\ w.discarded = u.discarded
    BY <2>1
  <2> QED
    BY <1>1, <1>2, <2>1, <2>2 DEF Judged
<1>6. CASE w = [u EXCEPT !.discarded = discarded]
  <2>1. w = [out |-> u.out, discarded |-> discarded]
    BY <1>1, <1>6
  <2>2. w.out = u.out /\ w.discarded = discarded
    BY <2>1
  <2> QED
    BY <1>1, <1>2, <2>1, <2>2 DEF Judged
<1> QED
  BY <1>3, <1>4, <1>5, <1>6, Zenon

AllJudged(g, d, s) == FoldLeft(LAMBDA u, c : Judge(g, d, u, c), [out |-> <<>>, discarded |-> <<>>], s)

LEMMA AllJudgedIs ==
  ASSUME NEW g, NEW d, NEW C, NEW s \in Seq(C), IsInjective(s)
  PROVE  Judged(C, Range(s), AllJudged(g, d, s))
<1> DEFINE n == Len(s)
           b == [out |-> <<>>, discarded |-> <<>>]
           U == [out : Seq(C), discarded : Seq(C)]
           op(u, c) == Judge(g, d, u, c)
           t == FoldLeft(op, b, s)
           Steps(f) == f = [r \in SUBSET DOMAIN s |->
                          IF r = {} THEN b ELSE op(f[r \ {Max(r)}], s[Max(r)])]
           Of(r) == {s[i] : i \in r}
           V == [r \in SUBSET (1 .. n) |-> {u \in U : Judged(C, Of(r), u)}]
           G == [p \in (1 .. n) \X U |-> op(p[2], s[p[1]])]
<1>1. n \in Nat /\ DOMAIN s = 1 .. n /\ \A k \in 1 .. n : s[k] \in C
  OBVIOUS
<1>2. ASSUME NEW u, NEW T, Judged(C, T, u) PROVE u \in U
  BY <1>2 DEF Judged
<1>3. b \in V[{}]
  <2>1. {} \in SUBSET (1 .. n) /\ Of({}) = {}
    OBVIOUS
  <2>2. b.out = <<>> /\ b.discarded = <<>> /\ b \in U
    OBVIOUS
  <2>3. Range(<<>>) = {} /\ IsInjective(<<>>)
    BY DEF Range, IsInjective
  <2> HIDE DEF b
  <2>4. Judged(C, {}, b)
    BY <2>2, <2>3 DEF Judged
  <2> QED
    BY <2>1, <2>2, <2>4
<1> HIDE DEF op, b
<1>4. ASSUME NEW r \in SUBSET (1 .. n), r # {}, NEW u \in V[r \ {Max(r)}]
      PROVE  op(u, s[Max(r)]) \in V[r]
  <2>1. Max(r) \in r /\ Max(r) \in 1 .. n /\ r \ {Max(r)} \in SUBSET (1 .. n)
    BY <1>1, <1>4, Lasts
  <2> DEFINE x == s[Max(r)]
             q == r \ {Max(r)}
  <2>2. x \in C /\ x \notin Of(q) /\ Of(r) = Of(q) \cup {x}
    <3>1. x \in C
      BY <2>1, <1>1
    <3>2. x \notin Of(q)
      BY <2>1, <1>1 DEF IsInjective
    <3>3. Of(r) = Of(q) \cup {x}
      BY <2>1
    <3> QED
      BY <3>1, <3>2, <3>3
  <2>3. Judged(C, Of(q), u)
    BY <2>1
  <2> HIDE DEF x, q, Of
  <2>4. Judged(C, Of(r), op(u, x))
    BY <2>2, <2>3, JudgeIs DEF op
  <2> QED
    BY <2>4, <1>2 DEF x
<1> HIDE DEF U
<1>5. \A r \in SUBSET (1 .. n) : V[r] \subseteq U
  OBVIOUS
<1> HIDE DEF n, V
<1>6. \A k \in 1 .. n, u \in U : G[<<k, u>>] = op(u, s[k])
  OBVIOUS
<1> HIDE DEF G
<1>7. \E f : Steps(f)
  <2>1. \A r \in SUBSET (1 .. n) : r # {} => /\ Max(r) \in 1 .. n /\ r \ {Max(r)} \in SUBSET (1 .. n)
    BY <1>1, Lasts
  <2>2. \A r \in SUBSET (1 .. n) : r # {} => \A u \in V[r \ {Max(r)}] :
            /\ G[<<Max(r), u>>] = op(u, s[Max(r)]) /\ G[<<Max(r), u>>] \in V[r]
    BY <2>1, <1>4, <1>5, <1>6
  <2>3. PICK f : Solution(f, n, V, b, G)
    BY <2>2, <1>1, <1>3, FamilyExists
  <2>4. f = [r \in SUBSET (1 .. n) |->
               IF r = {} THEN b ELSE op(f[r \ {Max(r)}], s[Max(r)])]
    BY <2>2, <2>3 DEF Solution
  <2> QED
    BY <2>4, <1>1
<1>8. PICK f : Steps(f) /\ t = f[DOMAIN s]
  <2>1. \E f : Steps(f) /\ t = f[DOMAIN s]
    BY <1>7 DEF FoldLeft, MapThenFoldSet, op
  <2> QED
    BY <2>1
<1> HIDE DEF t
<1>9. t \in V[1 .. n]
  <2>1. /\ f[{}] = b
        /\ \A r \in SUBSET (1 .. n) : r # {} => f[r] = op(f[r \ {Max(r)}], s[Max(r)])
    <3>1. f = [r \in SUBSET (1 .. n) |->
                 IF r = {} THEN b ELSE op(f[r \ {Max(r)}], s[Max(r)])]
      BY <1>8, <1>1
    <3>2. {} \in SUBSET (1 .. n)
      OBVIOUS
    <3> QED
      BY <3>1, <3>2, Zenon
  <2>2. n \in Nat /\ f[{}] \in V[{}]
    BY <2>1, <1>1, <1>3
  <2>3. \A r \in SUBSET (1 .. n) :
           r # {} /\ f[r \ {Max(r)}] \in V[r \ {Max(r)}] => f[r] \in V[r]
    BY <2>1, <1>4
  <2>4. f[1 .. n] \in V[1 .. n]
    BY <2>2, <2>3, FamilyEnds
  <2> QED
    BY <2>4, <1>1, <1>8
<1>10. Of(1 .. n) = Range(s)
  BY <1>1 DEF Range
<1>11. Judged(C, Range(s), t)
  BY <1>9, <1>10 DEF V
<1> QED
  BY <1>11 DEF t, op, b, AllJudged

(* What pruning leaves: other nodes of the candidates, none twice, and no  *)
(* more than R.                                                            *)
LEMMA RobustPruneIs ==
  ASSUME VamanaConstants, NEW g, Sound(g), NEW point \in Stored(g),
         NEW cands \in Seq(Stored(g)), IsInjective(cands)
  PROVE  /\ RobustPrune(g, point, cands) \in List(g, point)
         /\ IsInjective(RobustPrune(g, point, cands))
         /\ Len(RobustPrune(g, point, cands)) <= R
         /\ Range(RobustPrune(g, point, cands)) \subseteq Range(cands)
<1> DEFINE C == Stored(g) \ {point}
           others == Without(cands, {point})
           d == Far(g, g.store[point])
           s == Sorted(d, others)
           t == AllJudged(g, d, s)
           all == t.out \o t.discarded
           e == RobustPrune(g, point, cands)
<1>1. e = IF Len(cands) <= R THEN others ELSE FirstOf(all, R)
  BY DEF RobustPrune, AllJudged, Judge
<1>2. /\ others \in Seq(Stored(g)) /\ Range(others) = Range(cands) \ {point}
      /\ IsInjective(others) /\ Len(others) <= Len(cands)
  BY WithoutIs
<1>3. \A a \in C : d[a] \in Int
  BY NodesAre DEF Measured
<1> HIDE DEF others, d, e
<1>4. others \in Seq(C)
  <2>1. \A i \in DOMAIN others : others[i] \in C
    <3> TAKE i \in DOMAIN others
    <3>1. others[i] \in Range(others)
      BY DEF Range
    <3>2. others[i] # point
      BY <3>1, <1>2
    <3>3. others[i] \in Stored(g)
      BY <1>2
    <3> QED
      BY <3>2, <3>3
  <2> HIDE DEF C
  <2> QED
    BY <2>1, <1>2
<1> HIDE DEF C
<1>5. s \in Seq(C) /\ IsInjective(s) /\ Range(s) = Range(others)
  BY <1>2, <1>3, <1>4, SortedIs
<1> HIDE DEF s
<1>6. Judged(C, Range(others), t)
  BY <1>5, AllJudgedIs
<1> HIDE DEF t
<1>7. all \in Seq(C) /\ IsInjective(all) /\ Range(all) \subseteq Range(others)
  <2>1. /\ t.out \in Seq(C) /\ t.discarded \in Seq(C) /\ IsInjective(t.out)
        /\ IsInjective(t.discarded) /\ Range(t.out) \cap Range(t.discarded) = {}
        /\ Range(t.out) \subseteq Range(others) /\ Range(t.discarded) \subseteq Range(others)
    BY <1>6 DEF Judged
  <2>2. /\ all \in Seq(C) /\ IsInjective(all)
        /\ Range(all) = Range(t.out) \cup Range(t.discarded)
    BY <2>1, ConcatIs
  <2> QED
    BY <2>1, <2>2
<1> HIDE DEF all
<1>8. R \in Nat /\ Len(cands) \in Nat /\ Len(others) \in Nat
  BY <1>2 DEF VamanaConstants
<1>9. /\ FirstOf(all, R) \in Seq(C) /\ IsInjective(FirstOf(all, R)) /\ Len(FirstOf(all, R)) <= R
      /\ Range(FirstOf(all, R)) \subseteq Range(all)
  BY <1>7, <1>8, FirstOfIs
<1>10. e \in Seq(C) /\ IsInjective(e) /\ Len(e) <= R /\ Range(e) \subseteq Range(cands)
  <2>1. CASE Len(cands) <= R
    <3>1. e = others /\ Len(others) <= R
      BY <2>1, <1>1, <1>2, <1>8
    <3> QED
      BY <3>1, <1>2, <1>4
  <2>2. CASE ~ (Len(cands) <= R)
    <3>1. e = FirstOf(all, R)
      BY <2>2, <1>1
    <3> QED
      BY <3>1, <1>2, <1>7, <1>9
  <2> QED
    BY <2>1, <2>2
<1> QED
  BY <1>10 DEF e, C, List

-----------------------------------------------------------------------------
(* A search. Where it begins is visited: T of the starts, those gathered   *)
(* and what was visited before.                                            *)
Stamps == [stamps : Seq(Nat), gen : 0 .. MaxGen]

Gather(u, k) ==
    IF Visited(u.v, k) THEN u ELSE [v |-> Visit(u.v, k), nodes |-> Append(u.nodes, k)]

Gathered(n, v, T, u) ==
    /\ u \in [v : Stamps, nodes : Seq(1 .. n)] /\ Covers(u.v, n)
    /\ \A k \in 1 .. n : Visited(u.v, k) <=> Visited(v, k) \/ k \in Range(u.nodes)
    /\ \A k \in T : Visited(u.v, k)
    /\ Range(u.nodes) \subseteq T

LEMMA GatherIs ==
  ASSUME NEW n \in Nat, NEW v, NEW T \in SUBSET (1 .. n), NEW u, Gathered(n, v, T, u),
         NEW k \in 1 .. n
  PROVE  Gathered(n, v, T \cup {k}, Gather(u, k))
<1> DEFINE w == Gather(u, k)
           z == Visit(u.v, k)
           nodes == Append(u.nodes, k)
<1>1. /\ u \in [v : Stamps, nodes : Seq(1 .. n)] /\ Covers(u.v, n) /\ u.nodes \in Seq(1 .. n)
      /\ \A i \in 1 .. n : Visited(u.v, i) <=> Visited(v, i) \/ i \in Range(u.nodes)
      /\ \A i \in T : Visited(u.v, i)
      /\ Range(u.nodes) \subseteq T
  BY DEF Gathered
<1>2. CASE Visited(u.v, k)
  <2>1. w = u
    BY <1>2 DEF Gather
  <2> HIDE DEF w
  <2>2. \A i \in T \cup {k} : Visited(u.v, i)
    BY <1>1, <1>2
  <2>3. Gathered(n, v, T \cup {k}, w)
    BY <1>1, <2>1, <2>2 DEF Gathered
  <2> QED
    BY <2>3 DEF w
<1>3. CASE ~ Visited(u.v, k)
  <2>1. w = [v |-> z, nodes |-> nodes]
    BY <1>3 DEF Gather
  <2>2. Covers(z, n) /\ \A i \in 1 .. n : Visited(z, i) <=> i = k \/ Visited(u.v, i)
    BY <1>1, VisitIs
  <2>3. nodes \in Seq(1 .. n) /\ Range(nodes) = Range(u.nodes) \cup {k}
    BY <1>1, AppendIs
  <2> HIDE DEF w, z, nodes
  <2>4. z \in Stamps
    BY <2>2 DEF Covers, StampsOK, Stamps
  <2>5. w \in [v : Stamps, nodes : Seq(1 .. n)] /\ w.v = z /\ w.nodes = nodes
    BY <2>1, <2>3, <2>4
  <2>6. \A i \in 1 .. n : Visited(w.v, i) <=> Visited(v, i) \/ i \in Range(w.nodes)
    BY <1>1, <2>2, <2>3, <2>5
  <2>7. \A i \in T \cup {k} : Visited(w.v, i)
    BY <1>1, <2>2, <2>5
  <2>8. Gathered(n, v, T \cup {k}, w)
    BY <1>1, <2>2, <2>3, <2>5, <2>6, <2>7 DEF Gathered
  <2> QED
    BY <2>8 DEF w
<1> QED
  BY <1>2, <1>3

(* Stored are in the order in which the places r of s first name them.      *)
InTurn(s, r, nodes) ==
    \A a, b \in DOMAIN nodes : a < b =>
        \E i \in r : s[i] = nodes[a] /\ \A j \in r : s[j] = nodes[b] => i < j

(* One more place, after the others.                                       *)
LEMMA TurnIs ==
  ASSUME NEW n \in Nat, NEW v, NEW s, NEW q \in SUBSET Nat, NEW e \in Nat, \A i \in q : i < e,
         NEW u, Gathered(n, v, {s[i] : i \in q}, u), s[e] \in 1 .. n, InTurn(s, q, u.nodes)
  PROVE  InTurn(s, q \cup {e}, Gather(u, s[e]).nodes)
<1> DEFINE k == s[e]
           nodes == u.nodes
           r == q \cup {e}
<1>1. /\ nodes \in Seq(1 .. n) /\ \A i \in q : Visited(u.v, s[i])
      /\ \A x \in Range(nodes) : \E i \in q : s[i] = x
  BY DEF Gathered
<1>2. InTurn(s, r, nodes)
  <2> SUFFICES ASSUME NEW a \in DOMAIN nodes, NEW b \in DOMAIN nodes, a < b
               PROVE  \E i \in r : s[i] = nodes[a] /\ \A j \in r : s[j] = nodes[b] => i < j
    BY DEF InTurn
  <2>1. PICK i \in q : s[i] = nodes[a] /\ \A j \in q : s[j] = nodes[b] => i < j
    BY DEF InTurn
  <2>2. \A j \in r : s[j] = nodes[b] => i < j
    BY <2>1
  <2> QED
    BY <2>1, <2>2
<1>3. CASE Visited(u.v, k)
  BY <1>2, <1>3 DEF Gather
<1>4. CASE ~ Visited(u.v, k)
  <2> DEFINE w == Append(nodes, k)
             o == Len(nodes)
  <2>1. Gather(u, k).nodes = w
    BY <1>4 DEF Gather
  <2>2. /\ o \in Nat /\ DOMAIN nodes = 1 .. o /\ DOMAIN w = 1 .. o + 1 /\ w[o + 1] = k
        /\ \A a \in 1 .. o : w[a] = nodes[a]
    BY <1>1
  <2>3. \A j \in q : s[j] # k
    BY <1>1, <1>4
  <2> HIDE DEF w, o, nodes, k
  <2>4. ASSUME NEW a \in 1 .. o + 1, NEW b \in 1 .. o + 1, a < b
        PROVE  \E i \in r : s[i] = w[a] /\ \A j \in r : s[j] = w[b] => i < j
    <3>1. a \in 1 .. o
      BY <2>2, <2>4
    <3>2. CASE b \in 1 .. o
      <4>1. a \in DOMAIN nodes /\ b \in DOMAIN nodes
        BY <3>1, <3>2, <2>2
      <4>2. PICK i \in r : s[i] = nodes[a] /\ \A j \in r : s[j] = nodes[b] => i < j
        BY <4>1, <2>4, <1>2 DEF InTurn
      <4>3. w[a] = nodes[a] /\ w[b] = nodes[b]
        BY <3>1, <3>2, <2>2
      <4> QED
        BY <4>2, <4>3
    <3>3. CASE b = o + 1
      <4>1. PICK i \in q : s[i] = nodes[a]
        BY <3>1, <1>1, <2>2 DEF Range
      <4>2. \A j \in r : s[j] = w[b] => i < j
        BY <3>3, <2>2, <2>3
      <4> QED
        BY <4>1, <4>2, <3>1, <2>2
    <3> QED
      BY <3>2, <3>3, <2>2
  <2>5. InTurn(s, r, w)
    BY <2>2, <2>4 DEF InTurn
  <2> QED
    BY <2>1, <2>5 DEF w, k, nodes
<1> QED
  BY <1>3, <1>4

LEMMA FreshIs ==
  ASSUME NEW len \in Nat, NEW v, Covers(v, len), NEW s \in Seq(1 .. len)
  PROVE  Gathered(len, v, Range(s), Fresh(v, s)) /\ InTurn(s, DOMAIN s, Fresh(v, s).nodes)
<1> DEFINE n == Len(s)
           b == [v |-> v, nodes |-> <<>>]
           U == [v : Stamps, nodes : Seq(1 .. len)]
           op(u, k) == Gather(u, k)
           t == FoldLeft(op, b, s)
           Steps(f) == f = [r \in SUBSET DOMAIN s |->
                          IF r = {} THEN b ELSE op(f[r \ {Max(r)}], s[Max(r)])]
           Of(r) == {s[i] : i \in r}
           V == [r \in SUBSET (1 .. n) |->
                   {u \in U : Gathered(len, v, Of(r), u) /\ InTurn(s, r, u.nodes)}]
           G == [p \in (1 .. n) \X U |-> op(p[2], s[p[1]])]
<1>1. n \in Nat /\ DOMAIN s = 1 .. n /\ \A k \in 1 .. n : s[k] \in 1 .. len
  OBVIOUS
<1>2. ASSUME NEW u, NEW T, Gathered(len, v, T, u) PROVE u \in U
  BY <1>2 DEF Gathered
<1>3. b \in V[{}]
  <2>1. {} \in SUBSET (1 .. n) /\ Of({}) = {}
    OBVIOUS
  <2>2. b.v = v /\ b.nodes = <<>> /\ <<>> \in Seq(1 .. len) /\ v \in Stamps
    BY DEF Covers, StampsOK, Stamps
  <2>3. b \in U
    BY <2>2
  <2>4. Range(<<>>) = {} /\ InTurn(s, {}, <<>>)
    BY DEF Range, InTurn
  <2> HIDE DEF b
  <2>5. Gathered(len, v, {}, b) /\ InTurn(s, {}, b.nodes)
    BY <2>2, <2>3, <2>4 DEF Gathered
  <2> QED
    BY <2>1, <2>3, <2>5
<1> HIDE DEF op, b
<1>4. ASSUME NEW r \in SUBSET (1 .. n), r # {}, NEW u \in V[r \ {Max(r)}]
      PROVE  op(u, s[Max(r)]) \in V[r]
  <2>1. Max(r) \in r /\ Max(r) \in 1 .. n /\ r \ {Max(r)} \in SUBSET (1 .. n)
    BY <1>1, <1>4, Lasts
  <2> DEFINE x == s[Max(r)]
             q == r \ {Max(r)}
  <2>2. x \in 1 .. len /\ Of(q) \in SUBSET (1 .. len) /\ Of(r) = Of(q) \cup {x}
    <3>1. x \in 1 .. len
      BY <2>1, <1>1
    <3>2. Of(q) \in SUBSET (1 .. len)
      BY <2>1, <1>1
    <3>3. Of(r) = Of(q) \cup {x}
      BY <2>1
    <3> QED
      BY <3>1, <3>2, <3>3
  <2>3. Gathered(len, v, Of(q), u) /\ InTurn(s, q, u.nodes)
    BY <2>1
  <2>4. InTurn(s, r, op(u, x).nodes)
    <3> DEFINE e == Max(r)
    <3>1. e \in Nat /\ q \in SUBSET Nat /\ \A i \in q : i < e
      <4>1. \A i \in r : e >= i
        BY <1>1, <1>4, Lasts
      <4> QED
        BY <4>1, <2>1
    <3>2. r = q \cup {e} /\ s[e] \in 1 .. len
      BY <2>1, <2>2
    <3>3. Gathered(len, v, {s[i] : i \in q}, u)
      BY <2>3
    <3> HIDE DEF e, q, Of
    <3>4. InTurn(s, q \cup {e}, Gather(u, s[e]).nodes)
      BY <3>1, <3>2, <3>3, <2>3, TurnIs
    <3>5. op(u, s[e]) = Gather(u, s[e])
      BY DEF op
    <3> QED
      BY <3>2, <3>4, <3>5 DEF e
  <2> HIDE DEF x, q, Of
  <2>5. Gathered(len, v, Of(r), op(u, x))
    BY <2>2, <2>3, GatherIs DEF op
  <2> QED
    BY <2>4, <2>5, <1>2 DEF x
<1> HIDE DEF U
<1>5. \A r \in SUBSET (1 .. n) : V[r] \subseteq U
  OBVIOUS
<1> HIDE DEF n, V
<1>6. \A k \in 1 .. n, u \in U : G[<<k, u>>] = op(u, s[k])
  OBVIOUS
<1> HIDE DEF G
<1>7. \E f : Steps(f)
  <2>1. \A r \in SUBSET (1 .. n) : r # {} => /\ Max(r) \in 1 .. n /\ r \ {Max(r)} \in SUBSET (1 .. n)
    BY <1>1, Lasts
  <2>2. \A r \in SUBSET (1 .. n) : r # {} => \A u \in V[r \ {Max(r)}] :
            /\ G[<<Max(r), u>>] = op(u, s[Max(r)]) /\ G[<<Max(r), u>>] \in V[r]
    BY <2>1, <1>4, <1>5, <1>6
  <2>3. PICK f : Solution(f, n, V, b, G)
    BY <2>2, <1>1, <1>3, FamilyExists
  <2>4. f = [r \in SUBSET (1 .. n) |->
               IF r = {} THEN b ELSE op(f[r \ {Max(r)}], s[Max(r)])]
    BY <2>2, <2>3 DEF Solution
  <2> QED
    BY <2>4, <1>1
<1>8. PICK f : Steps(f) /\ t = f[DOMAIN s]
  <2>1. \E f : Steps(f) /\ t = f[DOMAIN s]
    BY <1>7 DEF FoldLeft, MapThenFoldSet, op
  <2> QED
    BY <2>1
<1> HIDE DEF t
<1>9. t \in V[1 .. n]
  <2>1. /\ f[{}] = b
        /\ \A r \in SUBSET (1 .. n) : r # {} => f[r] = op(f[r \ {Max(r)}], s[Max(r)])
    <3>1. f = [r \in SUBSET (1 .. n) |->
                 IF r = {} THEN b ELSE op(f[r \ {Max(r)}], s[Max(r)])]
      BY <1>8, <1>1
    <3>2. {} \in SUBSET (1 .. n)
      OBVIOUS
    <3> QED
      BY <3>1, <3>2, Zenon
  <2>2. n \in Nat /\ f[{}] \in V[{}]
    BY <2>1, <1>1, <1>3
  <2>3. \A r \in SUBSET (1 .. n) :
           r # {} /\ f[r \ {Max(r)}] \in V[r \ {Max(r)}] => f[r] \in V[r]
    BY <2>1, <1>4
  <2>4. f[1 .. n] \in V[1 .. n]
    BY <2>2, <2>3, FamilyEnds
  <2> QED
    BY <2>4, <1>1, <1>8
<1>10. Of(1 .. n) = Range(s)
  BY <1>1 DEF Range
<1>11. Gathered(len, v, Range(s), t) /\ InTurn(s, DOMAIN s, t.nodes)
  BY <1>1, <1>9, <1>10 DEF V
<1> QED
  BY <1>11 DEF t, op, b, Fresh, Gather

(* The closest of a sequence of nodes is one of them.                      *)
LEMMA FirstIs ==
  ASSUME NEW N, NEW d, \A a \in N : d[a] \in Int, NEW s \in Seq(N), s # <<>>
  PROVE  \E x \in Range(s) : First(d, s) = {x} /\ \A a \in Range(s) : d[x] <= d[a]
<1> DEFINE t == Sorted(d, s)
           n == Len(s)
<1>1. /\ t \in Seq(N) /\ Len(t) = n /\ Range(t) = Range(s)
      /\ \A i, j \in DOMAIN s : i < j => d[t[i]] <= d[t[j]]
  BY SortedIs
<1>2. n \in Nat /\ n # 0 /\ DOMAIN s = 1 .. n
  BY EmptySeq
<1>3. First(d, s) = {t[1]}
  BY DEF First
<1> HIDE DEF t, n
<1>4. DOMAIN t = 1 .. n /\ 1 \in 1 .. n
  BY <1>1, <1>2
<1>5. t[1] \in Range(s) /\ t[1] \in N
  <2>1. t[1] \in Range(t)
    BY <1>4 DEF Range
  <2>2. t[1] \in N
    BY <1>1, <1>4
  <2> QED
    BY <2>1, <2>2, <1>1
<1>6. ASSUME NEW a \in Range(s) PROVE d[t[1]] <= d[a]
  <2>1. PICK i \in 1 .. n : t[i] = a
    BY <1>1, <1>4 DEF Range
  <2>2. CASE i = 1
    BY <2>1, <2>2, <1>5
  <2>3. CASE i # 1
    <3>1. 1 < i
      BY <2>3, <1>2
    <3> QED
      BY <3>1, <2>1, <1>1, <1>2, <1>4
  <2> QED
    BY <2>2, <2>3
<1> QED
  BY <1>3, <1>5, <1>6

(* It is the first of the closest, which is one node only.                 *)
LEMMA FirstLeads ==
  ASSUME NEW N, NEW d, \A a \in N : d[a] \in Int, NEW s \in Seq(N), NEW k, Leads(d, s, k)
  PROVE  First(d, s) = {s[k]}
<1>1. k \in DOMAIN s /\ s # <<>> /\ \A i \in DOMAIN s : i \in Int /\ d[s[i]] \in Int
  BY DEF Leads
<1>2. PICK i \in DOMAIN s : Sorted(d, s)[1] = s[i] /\ Leads(d, s, i)
  BY <1>1, SortedIs
<1>3. i = k
  BY <1>1, <1>2 DEF Leads
<1> QED
  BY <1>1, <1>2, <1>3 DEF First

LEMMA SomeLeads ==
  ASSUME NEW N, NEW d, \A a \in N : d[a] \in Int, NEW s \in Seq(N), s # <<>>
  PROVE  \E k \in DOMAIN s : Leads(d, s, k)
BY SortedIs

(* To name nodes again at the end changes nothing.                         *)
LEMMA FirstAgain ==
  ASSUME NEW N, NEW d, \A a \in N : d[a] \in Int, NEW s \in Seq(N), s # <<>>,
         NEW t \in Seq(N), Range(t) \subseteq Range(s)
  PROVE  First(d, s \o t) = First(d, s)
<1> DEFINE u == s \o t
           n == Len(s)
<1>1. /\ n \in Nat /\ DOMAIN s = 1 .. n /\ u \in Seq(N) /\ DOMAIN u = 1 .. n + Len(t)
      /\ Len(t) \in Nat /\ DOMAIN t = 1 .. Len(t) /\ \A i \in 1 .. n : u[i] = s[i]
      /\ \A i \in 1 .. Len(t) : u[n + i] = t[i]
  OBVIOUS
<1> HIDE DEF u, n
<1>2. PICK k \in 1 .. n : Leads(d, s, k)
  BY <1>1, SomeLeads
<1>3. \A i \in 1 .. n : d[s[k]] < d[s[i]] \/ (d[s[k]] = d[s[i]] /\ k <= i)
  BY <1>1, <1>2 DEF Leads
<1>4. ASSUME NEW i \in 1 .. n + Len(t)
      PROVE  d[u[k]] < d[u[i]] \/ (d[u[k]] = d[u[i]] /\ k <= i)
  <2>1. CASE i \in 1 .. n
    BY <2>1, <1>1, <1>3
  <2>2. CASE i \notin 1 .. n
    <3>1. i - n \in 1 .. Len(t) /\ i = n + (i - n) /\ i > n
      BY <2>2, <1>1
    <3>2. u[i] = t[i - n]
      BY <3>1, <1>1
    <3>3. PICK j \in 1 .. n : s[j] = u[i]
      <4>1. u[i] \in Range(t)
        BY <3>1, <3>2, <1>1 DEF Range
      <4>2. u[i] \in Range(s)
        BY <4>1
      <4> QED
        BY <4>2, <1>1 DEF Range
    <3>4. u[k] = s[k] /\ k <= i
      BY <3>1, <1>1
    <3>5. d[s[k]] < d[s[j]] \/ d[s[k]] = d[s[j]]
      BY <1>3
    <3> QED
      BY <3>3, <3>4, <3>5
  <2> QED
    BY <2>1, <2>2
<1>5. Leads(d, u, k)
  <2>1. k \in 1 .. n + Len(t)
    BY <1>1
  <2> QED
    BY <2>1, <1>1, <1>4 DEF Leads
<1>6. First(d, u) = {u[k]} /\ First(d, s) = {s[k]}
  BY <1>1, <1>2, <1>5, FirstLeads
<1> QED
  BY <1>1, <1>6 DEF u

(* Nor does it to name each of them once, when it is its turn.             *)
LEMMA FirstOnce ==
  ASSUME NEW N, NEW d, \A a \in N : d[a] \in Int, NEW s \in Seq(N), s # <<>>,
         NEW t \in Seq(N), Range(t) = Range(s), InTurn(s, DOMAIN s, t)
  PROVE  First(d, t) = First(d, s)
<1>1. PICK k \in DOMAIN s : Leads(d, s, k)
  BY SomeLeads
<1>2. PICK b \in DOMAIN t : t[b] = s[k]
  BY DEF Range
<1>3. PICK a \in DOMAIN t : Leads(d, t, a)
  <2>1. t # <<>>
    BY <1>2
  <2> QED
    BY <2>1, SomeLeads
<1>4. PICK i \in DOMAIN s : s[i] = t[a]
  BY DEF Range
<1>5. d[t[a]] = d[s[k]] /\ a <= b
  <2>1. d[t[a]] < d[t[b]] \/ (d[t[a]] = d[t[b]] /\ a <= b)
    BY <1>3 DEF Leads
  <2>2. d[s[k]] < d[s[i]] \/ d[s[k]] = d[s[i]]
    BY <1>1 DEF Leads
  <2>3. d[t[a]] \in Int /\ d[s[k]] \in Int
    OBVIOUS
  <2> QED
    BY <2>1, <2>2, <2>3, <1>2, <1>4
<1>6. a = b
  <2> SUFFICES ASSUME a # b PROVE FALSE
    OBVIOUS
  <2>1. a \in Int /\ b \in Int /\ k \in Int
    OBVIOUS
  <2>2. a < b
    BY <2>1, <1>5
  <2>3. PICK j \in DOMAIN s : s[j] = t[a] /\ \A o \in DOMAIN s : s[o] = t[b] => j < o
    BY <2>2 DEF InTurn
  <2>4. j < k /\ j \in Int
    BY <2>3, <1>2
  <2>5. d[s[k]] < d[s[j]] \/ k <= j
    BY <1>1 DEF Leads
  <2>6. d[s[j]] = d[s[k]] /\ d[s[k]] \in Int
    BY <2>3, <1>5
  <2> QED
    BY <2>1, <2>4, <2>5, <2>6
<1>7. First(d, t) = {t[a]} /\ First(d, s) = {s[k]}
  BY <1>1, <1>3, FirstLeads
<1> QED
  BY <1>2, <1>6, <1>7

(* A search of g that begins at fresh ones of the starts.                  *)
Searching(g, d, fresh) ==
    [seen |-> {n \in Stored(g) : Visited(fresh.v, n)},
     frontier |-> Range(fresh.nodes), results |-> First(d, fresh.nodes)]

BeganAt(g, v, d, starts, s) ==
    /\ s \in Within(Stored(g)) /\ s.frontier \subseteq s.seen /\ s.results \subseteq s.seen
    /\ IsFiniteSet(s.results) /\ Cardinality(s.results) <= 1
    /\ ~Stale(v) => /\ s.seen = Range(starts) /\ s.frontier = Range(starts)
                    /\ s.results = First(d, starts)
                    /\ \A a \in Range(starts) : \E r \in s.results : d[r] <= d[a]

LEMMA SearchBegins ==
  ASSUME VamanaConstants, NEW g, Sound(g), NEW v, StampsOK(v), NEW d, Measured(d, Stored(g)),
         NEW starts \in Seq(Stored(g))
  PROVE  LET fresh == Fresh(Begin(v, Len(g.store)), starts) IN
         BeganAt(g, v, d, starts, Searching(g, d, fresh)) /\ StampsOK(fresh.v)
<1> DEFINE n == Len(g.store)
           w == Begin(v, n)
           u == Fresh(w, starts)
           s == Searching(g, d, u)
<1>1. /\ n \in Nat /\ Stored(g) = 1 .. n /\ starts \in Seq(1 .. n)
      /\ \A a \in 1 .. n : d[a] \in Int
  BY NodesAre DEF Measured
<1> HIDE DEF n
<1>2. Covers(w, n) /\ (~Stale(v) => \A i \in DOMAIN w.stamps : ~Visited(w, i))
  BY <1>1, BeginIs
<1> HIDE DEF w
<1>3. Gathered(n, w, Range(starts), u) /\ InTurn(starts, DOMAIN starts, u.nodes)
  BY <1>1, <1>2, FreshIs
<1> HIDE DEF u
<1>4. /\ u.nodes \in Seq(1 .. n) /\ Covers(u.v, n) /\ Range(u.nodes) \subseteq Range(starts)
      /\ \A k \in 1 .. n : Visited(u.v, k) <=> Visited(w, k) \/ k \in Range(u.nodes)
      /\ \A k \in Range(starts) : Visited(u.v, k)
  BY <1>3 DEF Gathered
<1>5. /\ s = [seen |-> s.seen, frontier |-> s.frontier, results |-> s.results]
      /\ s.seen = {k \in 1 .. n : Visited(u.v, k)}
      /\ s.frontier = Range(u.nodes) /\ s.results = First(d, u.nodes)
  BY <1>1 DEF Searching
<1> HIDE DEF s
<1>6. Range(u.nodes) \subseteq 1 .. n /\ Range(starts) \subseteq 1 .. n
  BY <1>1, <1>4 DEF Range
<1>7. s.frontier \subseteq s.seen
  BY <1>4, <1>5, <1>6
<1>8. \/ u.nodes = <<>> /\ s.results = {}
      \/ \E x \in Range(u.nodes) : s.results = {x} /\ \A a \in Range(u.nodes) : d[x] <= d[a]
  <2>1. CASE u.nodes = <<>>
    BY <2>1, <1>5 DEF First
  <2>2. CASE u.nodes # <<>>
    BY <2>2, <1>1, <1>4, <1>5, FirstIs
  <2> QED
    BY <2>1, <2>2
<1>9. s.results \subseteq s.seen /\ IsFiniteSet(s.results) /\ Cardinality(s.results) <= 1
  <2>1. s.results = {} \/ \E x \in s.frontier : s.results = {x}
    BY <1>5, <1>8
  <2>2. CASE s.results = {}
    <3>1. IsFiniteSet({}) /\ Cardinality({}) = 0
      BY FS_EmptySet
    <3> QED
      BY <2>2, <3>1
  <2>3. CASE \E x \in s.frontier : s.results = {x}
    <3>1. PICK x \in s.frontier : s.results = {x}
      BY <2>3
    <3>2. IsFiniteSet({x}) /\ Cardinality({x}) = 1
      BY FS_Singleton
    <3> QED
      BY <3>1, <3>2, <1>7
  <2> QED
    BY <2>1, <2>2, <2>3
<1>10. s \in Within(Stored(g))
  <2>1. s.seen \subseteq Stored(g)
    BY <1>1, <1>5
  <2> QED
    BY <2>1, <1>5, <1>7, <1>9 DEF Within
<1>11. ASSUME ~Stale(v)
       PROVE  /\ s.seen = Range(starts) /\ s.frontier = Range(starts)
              /\ s.results = First(d, starts)
              /\ \A a \in Range(starts) : \E r \in s.results : d[r] <= d[a]
  <2>1. \A k \in 1 .. n : ~Visited(w, k)
    <3>1. w.stamps \in Seq(Nat) /\ n <= Len(w.stamps)
      BY <1>2 DEF Covers, StampsOK
    <3>2. \A k \in 1 .. n : k \in DOMAIN w.stamps
      BY <3>1, <1>1
    <3> QED
      BY <3>2, <1>2, <1>11
  <2>2. Range(u.nodes) = Range(starts)
    BY <2>1, <1>4, <1>6
  <2>3. s.seen = Range(starts)
    BY <2>1, <2>2, <1>4, <1>5, <1>6
  <2>4. \A a \in Range(starts) : \E r \in s.results : d[r] <= d[a]
    <3>1. Range(<<>>) = {}
      BY DEF Range
    <3> QED
      BY <3>1, <2>2, <1>8
  <2>5. s.results = First(d, starts)
    <3>1. CASE starts = <<>>
      <4>1. Range(u.nodes) = {}
        <5>1. Range(<<>>) = {}
          BY DEF Range
        <5> QED
          BY <5>1, <3>1, <2>2
      <4>2. u.nodes = <<>>
        <5> DEFINE t == u.nodes
        <5>1. t \in Seq(1 .. n) /\ Range(t) = {}
          BY <4>1, <1>4
        <5> HIDE DEF t
        <5>2. Len(t) \in Nat /\ DOMAIN t = 1 .. Len(t) /\ \A i \in DOMAIN t : t[i] \in Range(t)
          BY <5>1 DEF Range
        <5>4. ~(1 \in 1 .. Len(t))
          BY <5>1, <5>2
        <5>3. Len(t) = 0
          BY <5>2, <5>4
        <5> QED
          BY <5>1, <5>3, EmptySeq DEF t
      <4> QED
        BY <4>2, <3>1, <1>5
    <3>2. CASE starts # <<>>
      <4> DEFINE t == u.nodes
                 N == 1 .. n
      <4>1. t \in Seq(N) /\ Range(t) = Range(starts) /\ InTurn(starts, DOMAIN starts, t)
        BY <2>2, <1>3, <1>4
      <4>2. starts \in Seq(N) /\ \A a \in N : d[a] \in Int
        BY <1>1
      <4> HIDE DEF t, N
      <4>3. First(d, t) = First(d, starts)
        BY <3>2, <4>1, <4>2, FirstOnce
      <4> QED
        BY <4>3, <1>5 DEF t
    <3> QED
      BY <3>1, <3>2
  <2> QED
    BY <2>2, <2>3, <2>4, <2>5, <1>5
<1>12. BeganAt(g, v, d, starts, s)
  BY <1>7, <1>9, <1>10, <1>11 DEF BeganAt
<1>13. StampsOK(u.v)
  BY <1>4 DEF Covers
<1> QED
  BY <1>12, <1>13 DEF s, u, w, n

(* What a search finds: nodes of the graph, none twice, and unless the     *)
(* stamps are stale one that no start is closer than.                      *)
Searched(g, v, d, starts, l, e) ==
    /\ e.found \in Seq(Stored(g)) /\ IsInjective(e.found) /\ StampsOK(e.v)
    /\ Len(e.found) <= l
    /\ ~Stale(v) => \A a \in Range(starts) : e.found # <<>> /\ d[e.found[1]] <= d[a]

LEMMA BeamSearchIs ==
  ASSUME VamanaConstants, NEW g, Sound(g), NEW v, StampsOK(v), NEW q \in Int,
         NEW starts \in Seq(Stored(g)), NEW l \in Nat \ {0}
  PROVE  Searched(g, v, Far(g, q), starts, l, BeamSearch(g, v, q, starts, l))
<1> DEFINE N == Stored(g)
           links == g.links
           d == Far(g, q)
           fresh == Fresh(Begin(v, Len(g.store)), starts)
           start == Searching(g, d, fresh)
           end == Beam(d, links, start, l)
           A == IF Stale(v) THEN {} ELSE Range(starts)
           e == BeamSearch(g, v, q, starts, l)
           found == InOrder(d, end.results)
<1>1. e = [found |-> found, v |-> VisitAll(fresh.v, end.seen)]
  BY DEF BeamSearch, Searching
<1>2. /\ IsFiniteSet(N) /\ DOMAIN links = N /\ Linked(links, N) /\ Measured(d, N)
  BY NodesAre
<1> HIDE DEF d, links
<1>3. BeganAt(g, v, d, starts, start) /\ StampsOK(fresh.v)
  BY <1>2, SearchBegins
<1> HIDE DEF start, fresh, N
<1>4. start \in Within(N) /\ A \in SUBSET N /\ Sane(d, links, l, N, N, A, start)
  <2>1. /\ start \in Within(N) /\ start.frontier \subseteq start.seen
        /\ start.results \subseteq start.seen /\ IsFiniteSet(start.results)
        /\ Cardinality(start.results) <= 1
        /\ \A a \in A : \E r \in start.results : d[r] <= d[a]
    BY <1>3 DEF BeganAt, N
  <2>2. start.seen \subseteq N
    BY <2>1 DEF Within
  <2>3. A \in SUBSET N
    BY DEF Range, N
  <2>4. Cardinality(start.results) <= l
    BY <2>1, FS_CardinalityType
  <2> HIDE DEF A
  <2> QED
    BY <2>1, <2>2, <2>3, <2>4 DEF Sane
<1> HIDE DEF A
<1>5. end \in Within(N) /\ Sane(d, links, l, N, N, A, end)
  <2>1. N \in SUBSET DOMAIN links /\ IsFiniteSet(DOMAIN links) /\ Measured(d, DOMAIN links)
        /\ Linked(links, DOMAIN links)
    BY <1>2
  <2> QED
    BY <2>1, <1>2, <1>4, BeamIs
<1> HIDE DEF end
<1>6. /\ end.results \subseteq N /\ IsFiniteSet(end.results) /\ Measured(d, end.results)
      /\ Cardinality(end.results) <= l /\ \A a \in A : \E r \in end.results : d[r] <= d[a]
  <2>1. end.results \subseteq N
    BY <1>5 DEF Within
  <2>2. IsFiniteSet(end.results)
    BY <2>1, <1>2, FS_Subset
  <2>3. Measured(d, end.results)
    BY <2>1, <1>2 DEF Measured
  <2> QED
    BY <2>1, <2>2, <2>3, <1>5 DEF Sane
<1>7. /\ found \in Seq(end.results) /\ Len(found) = Cardinality(end.results)
      /\ IsInjective(found) /\ Range(found) = end.results
      /\ \A i, j \in DOMAIN found : i < j => Before(d, found[i], found[j])
  BY <1>6, InOrderIs
<1> HIDE DEF found
<1>8. e.found = found /\ e.v = VisitAll(fresh.v, end.seen)
  BY <1>1
<1> HIDE DEF e
<1>9. e.found \in Seq(N) /\ IsInjective(e.found) /\ StampsOK(e.v) /\ Len(e.found) <= l
  <2>1. found \in Seq(N)
    BY <1>6, <1>7
  <2>2. StampsOK(e.v)
    BY <1>3, <1>8, VisitAllIs
  <2> QED
    BY <2>1, <2>2, <1>6, <1>7, <1>8
<1>10. ASSUME ~Stale(v), NEW a \in Range(starts)
       PROVE  e.found # <<>> /\ d[e.found[1]] <= d[a]
  <2>1. PICK r \in end.results : d[r] <= d[a]
    BY <1>6, <1>10 DEF A
  <2>2. PICK i \in DOMAIN found : found[i] = r
    BY <1>7 DEF Range
  <2>3. DOMAIN found = 1 .. Len(found) /\ Len(found) \in Nat
    BY <1>7
  <2>4. 1 \in DOMAIN found /\ found # <<>>
    BY <2>2, <2>3, EmptySeq
  <2>5. d[found[1]] \in Int /\ d[r] \in Int /\ d[a] \in Int
    <3>1. found[1] \in end.results
      BY <2>4, <1>7
    <3>2. a \in N
      BY DEF Range, N
    <3> QED
      BY <3>1, <3>2, <1>2, <1>6 DEF Measured
  <2>6. d[found[1]] <= d[r]
    <3>1. CASE i = 1
      BY <3>1, <2>2, <2>5
    <3>2. CASE i # 1
      <4>1. 1 < i
        BY <3>2, <2>2, <2>3
      <4>2. Before(d, found[1], r)
        BY <4>1, <2>2, <2>4, <1>7
      <4> QED
        BY <4>2, <2>5 DEF Before
    <3> QED
      BY <3>1, <3>2
  <2> QED
    BY <2>1, <2>4, <2>5, <2>6, <1>8
<1>11. Searched(g, v, d, starts, l, e)
  BY <1>9, <1>10 DEF Searched, N
<1> QED
  BY <1>11 DEF d, e

-----------------------------------------------------------------------------
(* A search that may find everything finds what links lead to from where   *)
(* it begins, but for the starts that are not the first of the closest.    *)
Reaches(g, v, q, starts, l) ==
    Range(BeamSearch(g, v, q, starts, l).found)
        = Reachable(g.links, Range(starts)) \ (Range(starts) \ First(Far(g, q), starts))

LEMMA WideSearchIs ==
  ASSUME VamanaConstants, NEW g, Sound(g), NEW v, StampsOK(v), ~Stale(v), NEW q \in Int,
         NEW starts \in Seq(Stored(g)), NEW l \in Nat \ {0}, Cardinality(Stored(g)) <= l
  PROVE  Reaches(g, v, q, starts, l)
<1> DEFINE N == Stored(g)
           links == g.links
           d == Far(g, q)
           fresh == Fresh(Begin(v, Len(g.store)), starts)
           start == Searching(g, d, fresh)
           end == Beam(d, links, start, l)
           S == Range(starts)
           T == First(d, starts)
           Q == Reachable(links, S)
           found == BeamSearch(g, v, q, starts, l).found
<1>1. found = InOrder(d, end.results)
  BY DEF BeamSearch, Searching
<1>2. /\ IsFiniteSet(N) /\ DOMAIN links = N /\ Linked(links, N) /\ Measured(d, N)
      /\ S \in SUBSET N
  BY NodesAre DEF Range
<1> HIDE DEF d, links
<1>3. BeganAt(g, v, d, starts, start)
  BY <1>2, SearchBegins
<1>4. start.seen = S /\ start.frontier = S /\ start.results = T /\ T \in SUBSET S
  <2>1. start.seen = S /\ start.frontier = S /\ start.results = T
    BY <1>3 DEF BeganAt
  <2>2. start.results \subseteq start.seen
    BY <1>3 DEF BeganAt
  <2> HIDE DEF start
  <2> QED
    BY <2>1, <2>2
<1>5. start = [seen |-> S, frontier |-> S, results |-> T]
  <2>1. start = [seen |-> start.seen, frontier |-> start.frontier, results |-> start.results]
    BY DEF Searching
  <2> HIDE DEF start
  <2> QED
    BY <2>1, <1>4
<1> HIDE DEF start, fresh, S, T, N, found
<1>6. end.results = Q \ (S \ T)
  <2>1. Beam(d, links, [seen |-> S, frontier |-> S, results |-> T], l).results = Q \ (S \ T)
    <3>1. /\ IsFiniteSet(DOMAIN links) /\ Measured(d, DOMAIN links)
          /\ Linked(links, DOMAIN links) /\ S \in SUBSET DOMAIN links /\ T \in SUBSET S
      BY <1>2, <1>4
    <3>2. Cardinality(DOMAIN links) <= l
      BY <1>2 DEF N
    <3> QED
      BY <3>1, <3>2, WideBeamIs
  <2> QED
    BY <2>1, <1>5
<1>7. Q \subseteq N
  BY <1>2 DEF Reachable
<1> HIDE DEF end, Q
<1>8. IsFiniteSet(end.results) /\ Measured(d, end.results)
  BY <1>2, <1>6, <1>7, FS_Subset DEF Measured
<1>9. Range(found) = end.results
  BY <1>1, <1>8, InOrderIs
<1> QED
  BY <1>6, <1>9 DEF Reaches, found, Q, S, T, d, links

-----------------------------------------------------------------------------
(* The entry. The medoid is a node, since the order it is chosen by has a  *)
(* first element.                                                          *)
Sum(s) == FoldLeft(LAMBDA a, x : a + x, 0, s)

LEMMA SumIs ==
  ASSUME NEW s \in Seq(Int)
  PROVE  Sum(s) \in Int
<1> DEFINE n == Len(s)
           op(u, k) == u + k
           t == FoldLeft(op, 0, s)
           Steps(f) == f = [r \in SUBSET DOMAIN s |->
                          IF r = {} THEN 0 ELSE op(f[r \ {Max(r)}], s[Max(r)])]
           V == [r \in SUBSET (1 .. n) |-> Int]
           G == [p \in (1 .. n) \X Int |-> op(p[2], s[p[1]])]
<1>1. n \in Nat /\ DOMAIN s = 1 .. n /\ \A k \in 1 .. n : s[k] \in Int
  OBVIOUS
<1>2. ASSUME NEW u \in Int, NEW k \in Int PROVE op(u, k) \in Int
  OBVIOUS
<1>3. 0 \in V[{}]
  <2>1. {} \in SUBSET (1 .. n)
    OBVIOUS
  <2> QED
    BY <2>1
<1> HIDE DEF op
<1>4. ASSUME NEW r \in SUBSET (1 .. n), r # {}, NEW u \in V[r \ {Max(r)}]
      PROVE  op(u, s[Max(r)]) \in V[r]
  <2>1. Max(r) \in 1 .. n /\ r \ {Max(r)} \in SUBSET (1 .. n)
    BY <1>1, <1>4, Lasts
  <2>2. u \in Int /\ s[Max(r)] \in Int
    BY <2>1, <1>1
  <2> QED
    BY <2>2, <1>2
<1>5. \A r \in SUBSET (1 .. n) : V[r] \subseteq Int
  OBVIOUS
<1> HIDE DEF n, V
<1>6. \A k \in 1 .. n, u \in Int : G[<<k, u>>] = op(u, s[k])
  OBVIOUS
<1> HIDE DEF G
<1>7. \E f : Steps(f)
  <2>1. \A r \in SUBSET (1 .. n) : r # {} => /\ Max(r) \in 1 .. n /\ r \ {Max(r)} \in SUBSET (1 .. n)
    BY <1>1, Lasts
  <2>2. \A r \in SUBSET (1 .. n) : r # {} => \A u \in V[r \ {Max(r)}] :
            /\ G[<<Max(r), u>>] = op(u, s[Max(r)]) /\ G[<<Max(r), u>>] \in V[r]
    BY <2>1, <1>4, <1>5, <1>6
  <2>3. PICK f : Solution(f, n, V, 0, G)
    BY <2>2, <1>1, <1>3, FamilyExists
  <2>4. f = [r \in SUBSET (1 .. n) |->
               IF r = {} THEN 0 ELSE op(f[r \ {Max(r)}], s[Max(r)])]
    BY <2>2, <2>3 DEF Solution
  <2> QED
    BY <2>4, <1>1
<1>8. PICK f : Steps(f) /\ t = f[DOMAIN s]
  <2>1. \E f : Steps(f) /\ t = f[DOMAIN s]
    BY <1>7 DEF FoldLeft, MapThenFoldSet, op
  <2> QED
    BY <2>1
<1> HIDE DEF t
<1>9. t \in V[1 .. n]
  <2>1. /\ f[{}] = 0
        /\ \A r \in SUBSET (1 .. n) : r # {} => f[r] = op(f[r \ {Max(r)}], s[Max(r)])
    <3>1. f = [r \in SUBSET (1 .. n) |->
                 IF r = {} THEN 0 ELSE op(f[r \ {Max(r)}], s[Max(r)])]
      BY <1>8, <1>1
    <3>2. {} \in SUBSET (1 .. n)
      OBVIOUS
    <3> QED
      BY <3>1, <3>2, Zenon
  <2>2. f[{}] \in V[{}] /\ \A r \in SUBSET (1 .. n) :
            r # {} /\ f[r \ {Max(r)}] \in V[r \ {Max(r)}] => f[r] \in V[r]
    BY <2>1, <1>3, <1>4
  <2>3. f[1 .. n] \in V[1 .. n]
    BY <2>2, <1>1, FamilyEnds
  <2> QED
    BY <2>3, <1>1, <1>8
<1>10. t \in Int
  BY <1>9, <1>1 DEF V
<1> QED
  BY <1>10 DEF t, op, Sum

LEMMA MedoidIs ==
  ASSUME VamanaConstants, NEW g, Sound(g), Stored(g) # {}
  PROVE  Medoid(g) \in Stored(g)
<1> DEFINE n == Len(g.store)
           N == Stored(g)
           sum == Sum(g.store)
           Off(i) == Square(n * g.store[i] - sum)
           off == [i \in N |-> Off(i)]
           M(i) == \A k \in N \ {i} : Off(i) < Off(k) \/ (Off(i) = Off(k) /\ i < k)
<1>1. Medoid(g) = CHOOSE i \in N : M(i)
  BY DEF Medoid, Sum
<1>2. n \in Nat /\ IsFiniteSet(N) /\ N \in SUBSET Int /\ N # {} /\ \A i \in N : g.store[i] \in Int
  <2>1. N \in SUBSET Nat /\ n \in Nat /\ IsFiniteSet(N) /\ \A i \in N : g.store[i] \in Int
    BY NodesAre
  <2> QED
    BY <2>1
<1>3. sum \in Int
  <2>1. g.store \in Seq(Points)
    BY DEF Sound, Graphs
  <2>2. Points \subseteq Int
    BY DEF VamanaConstants
  <2>3. g.store \in Seq(Int)
    <3> DEFINE s == g.store
    <3> HIDE DEF s
    <3>1. s \in Seq(Points)
      BY <2>1 DEF s
    <3>2. \A i \in 1 .. Len(s) : s[i] \in Points
      BY <3>1
    <3>3. \A i \in 1 .. Len(s) : s[i] \in Int
      BY <3>2, <2>2
    <3>4. Len(s) \in Nat /\ s \in [1 .. Len(s) -> Points]
      BY <3>1
    <3>5. s \in [1 .. Len(s) -> Int]
      BY <3>3, <3>4
    <3>6. s \in Seq(Int)
      BY <3>4, <3>5
    <3> QED
      BY <3>6 DEF s
  <2> QED
    BY <2>3, SumIs
<1> HIDE DEF n, N, sum
<1>4. \A i \in N : Off(i) \in Int /\ off[i] = Off(i)
  <2> TAKE i \in N
  <2> DEFINE k == n * g.store[i] - sum
  <2>1. k \in Int
    BY <1>2, <1>3
  <2> HIDE DEF k
  <2>2. Square(k) \in Int
    BY <2>1 DEF Square
  <2> QED
    BY <2>2 DEF k
<1> HIDE DEF Off
<1>5. Measured(off, N)
  BY <1>2, <1>4 DEF Measured
<1>6. /\ Ordered(Nearer(off, N), N)
      /\ \A a, b \in N : <<a, b>> \in Nearer(off, N) <=> Before(off, a, b)
  BY <1>5, NearerOrdered
<1> HIDE DEF off
<1>7. PICK a \in N : \A b \in N \ {a} : <<a, b>> \in Nearer(off, N)
  <2> DEFINE near == Nearer(off, N)
  <2>1. Ordered(near, N) /\ N \in SUBSET N
    BY <1>6
  <2> HIDE DEF near
  <2>2. \E a \in N : \A b \in N \ {a} : <<a, b>> \in near
    BY <2>1, <1>2, Ends
  <2> QED
    BY <2>2 DEF near
<1>8. M(a)
  <2> SUFFICES ASSUME NEW k \in N \ {a} PROVE Off(a) < Off(k) \/ (Off(a) = Off(k) /\ a < k)
    OBVIOUS
  <2>1. Before(off, a, k)
    BY <1>6, <1>7
  <2> QED
    BY <2>1, <1>4 DEF Before
<1> HIDE DEF M
<1>9. (CHOOSE i \in N : M(i)) \in N
  BY <1>8
<1> QED
  BY <1>1, <1>9 DEF N

LEMMA RecenteredIs ==
  ASSUME VamanaConstants, NEW g, Sound(g)
  PROVE  Sound(Recentered(g)) /\ Stored(Recentered(g)) = Stored(g) /\ Recentered(g).links = g.links
<1> DEFINE h == Recentered(g)
           e == Medoid(g)
<1>1. h = IF g.store = <<>> THEN g ELSE [g EXCEPT !.entry = e]
  BY DEF Recentered
<1>2. CASE g.store = <<>>
  <2>1. h = g
    BY <1>1, <1>2
  <2> QED
    BY <2>1
<1>3. CASE g.store # <<>>
  <2>1. Stored(g) # {} /\ Stored(g) \in SUBSET Nat /\ 0 \notin Stored(g)
    <3>1. Len(g.store) \in Nat /\ Stored(g) = 1 .. Len(g.store) /\ Stored(g) \in SUBSET Nat
      BY NodesAre
    <3>2. Len(g.store) # 0
      BY <1>3, EmptySeq DEF Sound, Graphs
    <3>3. 1 \in Stored(g) /\ 0 \notin Stored(g)
      BY <3>1, <3>2
    <3> QED
      BY <3>1, <3>3
  <2>2. e \in Stored(g) /\ e \in Nat /\ e # 0
    BY <2>1, MedoidIs
  <2> HIDE DEF e, h
  <2>3. /\ g = [store |-> g.store, links |-> g.links, entry |-> g.entry, last |-> g.last,
                seeds |-> g.seeds]
        /\ g.store \in Seq(Points) /\ g.links \in Seq(Seq(Nat)) /\ g.last \in Nat
        /\ g.seeds \in Seq(Nat)
    BY DEF Sound, Graphs
  <2>4. h = [store |-> g.store, links |-> g.links, entry |-> e, last |-> g.last,
             seeds |-> g.seeds]
    BY <2>3, <1>1, <1>3
  <2>5. /\ h.store = g.store /\ h.links = g.links /\ h.entry = e /\ h.last = g.last
        /\ h.seeds = g.seeds /\ h \in Graphs
    BY <2>2, <2>3, <2>4 DEF Graphs
  <2>6. Stored(h) = Stored(g)
    BY <2>5 DEF Stored
  <2>7. Sound(h)
    <3>1. \A n \in Stored(h) : h.links[n] \in List(h, n) /\ IsInjective(h.links[n])
      BY <2>5, <2>6 DEF Sound, List
    <3>2. Len(h.links) = Len(h.store) /\ h.entry \in Stored(h) /\ h.entry # 0
      BY <2>2, <2>5, <2>6 DEF Sound
    <3>3. /\ h.last \in Stored(h) \cup {0} /\ h.last # 0 /\ h.seeds \in Seq(Stored(h))
      BY <2>1, <2>5, <2>6 DEF Sound
    <3> QED
      BY <2>5, <3>1, <3>2, <3>3 DEF Sound
  <2> QED
    BY <2>5, <2>6, <2>7 DEF h
<1> QED
  BY <1>2, <1>3

-----------------------------------------------------------------------------
(* Links. The list of one node is replaced.                                *)
LEMMA ListSetIs ==
  ASSUME VamanaConstants, NEW g, Sound(g), NEW n \in Stored(g), NEW s \in List(g, n), IsInjective(s),
         NEW h, Relisted(g, h, [g.links EXCEPT ![n] = s])
  PROVE  /\ Sound(h) /\ Stored(h) = Stored(g) /\ h.store = g.store /\ h.links[n] = s
         /\ \A k \in Stored(g) : k # n => h.links[k] = g.links[k]
<1> DEFINE z == [g.links EXCEPT ![n] = s]
           N == Stored(g)
<1>1. /\ DOMAIN g.links = N /\ N \in SUBSET Nat /\ g.links \in Seq(Seq(Nat))
      /\ \A k \in N : g.links[k] \in List(g, k) /\ IsInjective(g.links[k])
  BY NodesAre DEF Sound, Graphs
<1>2. \A k \in N : z[k] = IF k = n THEN s ELSE g.links[k]
  BY <1>1
<1>3. \A k \in N : z[k] \in List(g, k) /\ IsInjective(z[k])
  BY <1>1, <1>2
<1>4. z \in [N -> Seq(Nat)]
  <2>1. \A k \in N : \A t \in List(g, k) : t \in Seq(Nat)
    BY <1>1 DEF List
  <2>2. z = [k \in N |-> z[k]]
    BY <1>1
  <2> HIDE DEF z
  <2>3. \A k \in N : z[k] \in Seq(Nat)
    BY <2>1, <1>3
  <2> QED
    BY <2>2, <2>3
<1>5. Relisted(g, h, z)
  OBVIOUS
<1> HIDE DEF z
<1>6. Sound(h) /\ Stored(h) = N /\ h.links = z /\ h.store = g.store
  BY <1>3, <1>4, <1>5, RelistedIs
<1> QED
  BY <1>2, <1>6

(* New nodes are linked with id: those of T, which id leads to, have one   *)
(* link more; the others are as they were.                                 *)
Linking(g, id, T, h) ==
    /\ Sound(h) /\ Stored(h) = Stored(g) /\ h.store = g.store
    /\ Range(h.links[id]) = T /\ Len(h.links[id]) = Cardinality(T)
    /\ \A k \in Stored(g) \ {id} :
          IF k \in T THEN h.links[k] = Append(g.links[k], id) ELSE h.links[k] = g.links[k]

LEMMA LinkedToIs ==
  ASSUME VamanaConstants, NEW g, NEW id \in Stored(g), NEW T \in SUBSET Stored(g),
         NEW h, Linking(g, id, T, h), NEW n \in Stored(g) \ {id}, n \notin T,
         \A k \in Stored(g) : id \notin Range(g.links[k])
  PROVE  Linking(g, id, T \cup {n}, LinkedTo(h, id, n))
<1> DEFINE s == Append(h.links[id], n)
           t == Append(h.links[n], id)
           z == [h.links EXCEPT ![id] = s]
           h1 == [h EXCEPT !.links = z]
           y == [h1.links EXCEPT ![n] = t]
           w == LinkedTo(h, id, n)
<1>1. /\ Sound(h) /\ Stored(h) = Stored(g) /\ h.store = g.store
      /\ Range(h.links[id]) = T /\ Len(h.links[id]) = Cardinality(T)
      /\ \A k \in Stored(g) \ {id} :
            IF k \in T THEN h.links[k] = Append(g.links[k], id) ELSE h.links[k] = g.links[k]
  BY DEF Linking
<1>2. /\ h.links[id] \in Seq(Stored(h) \ {id}) /\ IsInjective(h.links[id])
      /\ h.links[n] \in Seq(Stored(h) \ {n}) /\ IsInjective(h.links[n])
      /\ h.links[n] = g.links[n]
  BY <1>1 DEF Sound, List
<1>3. /\ s \in List(h, id) /\ IsInjective(s) /\ Range(s) = T \cup {n}
      /\ Len(s) = Len(h.links[id]) + 1
  BY <1>1, <1>2, AppendIs DEF List
<1>4. t \in List(h, n) /\ IsInjective(t)
  BY <1>1, <1>2, AppendIs DEF List
<1>5. w = [h1 EXCEPT !.links = y]
  <2>1. DOMAIN h.links = Stored(h) /\ h = [store |-> h.store, links |-> h.links,
             entry |-> h.entry, last |-> h.last, seeds |-> h.seeds]
    BY <1>1, NodesAre DEF Sound, Graphs
  <2>2. h1.links = z /\ z[n] = h.links[n]
    BY <2>1, <1>1
  <2> QED
    BY <2>1, <2>2, <1>1 DEF LinkedTo
<1> HIDE DEF s, t
<1>6. Relisted(h, h1, z)
  BY DEF Relisted
<1> HIDE DEF h1, w
<1>7. /\ Sound(h1) /\ Stored(h1) = Stored(h) /\ h1.store = h.store /\ h1.links[id] = s
      /\ \A k \in Stored(h) : k # id => h1.links[k] = h.links[k]
  BY <1>1, <1>3, <1>6, ListSetIs
<1>8. t \in List(h1, n) /\ Relisted(h1, w, y)
  BY <1>4, <1>5, <1>7 DEF List, Relisted
<1>9. /\ Sound(w) /\ Stored(w) = Stored(h1) /\ w.store = h1.store /\ w.links[n] = t
      /\ \A k \in Stored(h1) : k # n => w.links[k] = h1.links[k]
  BY <1>1, <1>4, <1>7, <1>8, ListSetIs
<1>10. w.links[id] = s /\ Len(s) = Cardinality(T \cup {n})
  <2>1. IsFiniteSet(T) /\ Cardinality(T \cup {n}) = Cardinality(T) + 1
    <3>1. IsFiniteSet(Stored(g))
      BY <1>1, NodesAre
    <3>2. IsFiniteSet(T)
      BY <3>1, FS_Subset
    <3> QED
      BY <3>2, FS_AddElement
  <2> QED
    BY <2>1, <1>1, <1>3, <1>7, <1>9
<1>11. ASSUME NEW k \in Stored(g) \ {id}
       PROVE  IF k \in T \cup {n} THEN w.links[k] = Append(g.links[k], id)
              ELSE w.links[k] = g.links[k]
  <2>1. CASE k = n
    BY <2>1, <1>2, <1>9 DEF t
  <2>2. CASE k # n
    BY <2>2, <1>1, <1>7, <1>9
  <2> QED
    BY <2>1, <2>2
<1>12. Linking(g, id, T \cup {n}, w)
  BY <1>1, <1>3, <1>7, <1>9, <1>10, <1>11 DEF Linking
<1> QED
  BY <1>12 DEF w

AllLinked(g, id, s) == FoldLeft(LAMBDA u, n : LinkedTo(u, id, n), g, s)

LEMMA AllLinkedIs ==
  ASSUME VamanaConstants, NEW g, Sound(g), NEW id \in Stored(g), g.links[id] = <<>>,
         \A k \in Stored(g) : id \notin Range(g.links[k]),
         NEW s \in List(g, id), IsInjective(s)
  PROVE  Linking(g, id, Range(s), AllLinked(g, id, s))
<1> DEFINE n == Len(s)
           C == Stored(g) \ {id}
           U == Graphs
           op(u, k) == LinkedTo(u, id, k)
           t == FoldLeft(op, g, s)
           Steps(f) == f = [r \in SUBSET DOMAIN s |->
                          IF r = {} THEN g ELSE op(f[r \ {Max(r)}], s[Max(r)])]
           Of(r) == {s[i] : i \in r}
           V == [r \in SUBSET (1 .. n) |-> {u \in U : Linking(g, id, Of(r), u)}]
           G == [p \in (1 .. n) \X U |-> op(p[2], s[p[1]])]
<1>1. n \in Nat /\ DOMAIN s = 1 .. n /\ \A k \in 1 .. n : s[k] \in C
  <2>1. s \in Seq(C)
    BY DEF List
  <2> QED
    BY <2>1
<1>2. ASSUME NEW u, NEW T, Linking(g, id, T, u) PROVE u \in U
  BY <1>2 DEF Linking, Sound
<1>3. g \in V[{}]
  <2>1. {} \in SUBSET (1 .. n) /\ Of({}) = {}
    OBVIOUS
  <2>2. Range(<<>>) = {} /\ Len(<<>>) = 0 /\ Cardinality({}) = 0
    BY FS_EmptySet DEF Range
  <2>3. Linking(g, id, {}, g)
    BY <2>2 DEF Linking
  <2> QED
    BY <2>1, <2>3, <1>2
<1> HIDE DEF op, C
<1>4. ASSUME NEW r \in SUBSET (1 .. n), r # {}, NEW u \in V[r \ {Max(r)}]
      PROVE  op(u, s[Max(r)]) \in V[r]
  <2>1. Max(r) \in r /\ Max(r) \in 1 .. n /\ r \ {Max(r)} \in SUBSET (1 .. n)
    BY <1>1, <1>4, Lasts
  <2> DEFINE x == s[Max(r)]
             q == r \ {Max(r)}
  <2>2. x \in C /\ x \notin Of(q) /\ Of(q) \subseteq C /\ Of(r) = Of(q) \cup {x}
    <3>1. x \in C
      BY <2>1, <1>1
    <3>2. x \notin Of(q)
      BY <2>1, <1>1 DEF IsInjective
    <3>3. Of(r) = Of(q) \cup {x} /\ Of(q) \subseteq C
      BY <2>1, <1>1
    <3> QED
      BY <3>1, <3>2, <3>3
  <2>3. Linking(g, id, Of(q), u)
    BY <2>1
  <2> HIDE DEF x, q, Of
  <2>4. Linking(g, id, Of(r), op(u, x))
    BY <2>2, <2>3, LinkedToIs DEF op, C
  <2> QED
    BY <2>4, <1>2 DEF x
<1> HIDE DEF U
<1>5. \A r \in SUBSET (1 .. n) : V[r] \subseteq U
  OBVIOUS
<1> HIDE DEF n, V
<1>6. \A k \in 1 .. n, u \in U : G[<<k, u>>] = op(u, s[k])
  OBVIOUS
<1> HIDE DEF G
<1>7. \E f : Steps(f)
  <2>1. \A r \in SUBSET (1 .. n) : r # {} => /\ Max(r) \in 1 .. n /\ r \ {Max(r)} \in SUBSET (1 .. n)
    BY <1>1, Lasts
  <2>2. \A r \in SUBSET (1 .. n) : r # {} => \A u \in V[r \ {Max(r)}] :
            /\ G[<<Max(r), u>>] = op(u, s[Max(r)]) /\ G[<<Max(r), u>>] \in V[r]
    BY <2>1, <1>4, <1>5, <1>6
  <2>3. PICK f : Solution(f, n, V, g, G)
    BY <2>2, <1>1, <1>3, FamilyExists
  <2>4. f = [r \in SUBSET (1 .. n) |->
               IF r = {} THEN g ELSE op(f[r \ {Max(r)}], s[Max(r)])]
    BY <2>2, <2>3 DEF Solution
  <2> QED
    BY <2>4, <1>1
<1>8. PICK f : Steps(f) /\ t = f[DOMAIN s]
  <2>1. \E f : Steps(f) /\ t = f[DOMAIN s]
    BY <1>7 DEF FoldLeft, MapThenFoldSet, op
  <2> QED
    BY <2>1
<1> HIDE DEF t
<1>9. t \in V[1 .. n]
  <2>1. /\ f[{}] = g
        /\ \A r \in SUBSET (1 .. n) : r # {} => f[r] = op(f[r \ {Max(r)}], s[Max(r)])
    <3>1. f = [r \in SUBSET (1 .. n) |->
                 IF r = {} THEN g ELSE op(f[r \ {Max(r)}], s[Max(r)])]
      BY <1>8, <1>1
    <3>2. {} \in SUBSET (1 .. n)
      OBVIOUS
    <3> QED
      BY <3>1, <3>2, Zenon
  <2>2. n \in Nat /\ f[{}] \in V[{}]
    BY <2>1, <1>1, <1>3
  <2>3. \A r \in SUBSET (1 .. n) :
           r # {} /\ f[r \ {Max(r)}] \in V[r \ {Max(r)}] => f[r] \in V[r]
    BY <2>1, <1>4
  <2>4. f[1 .. n] \in V[1 .. n]
    BY <2>2, <2>3, FamilyEnds
  <2> QED
    BY <2>4, <1>1, <1>8
<1>10. Of(1 .. n) = Range(s)
  BY <1>1 DEF Range
<1>11. Linking(g, id, Range(s), t)
  BY <1>9, <1>10 DEF V
<1> QED
  BY <1>11 DEF t, op, AllLinked

(* Stored are pruned: those of T lead to R nodes at most, and the others are*)
(* as they were.                                                           *)
Trimming(g, T, h) ==
    /\ Sound(h) /\ Stored(h) = Stored(g) /\ h.store = g.store /\ Bounded(h, T)
    /\ \A k \in Stored(g) \ T : h.links[k] = g.links[k]

LEMMA TrimmedIs ==
  ASSUME VamanaConstants, NEW g, NEW T \in SUBSET Stored(g), NEW h, Trimming(g, T, h),
         NEW n \in Stored(g)
  PROVE  Trimming(g, T \cup {n}, Trimmed(h, n))
<1> DEFINE s == RobustPrune(h, n, Append(h.links[n], n))
           w == Trimmed(h, n)
<1>1. /\ Sound(h) /\ Stored(h) = Stored(g) /\ h.store = g.store /\ Bounded(h, T)
      /\ \A k \in Stored(g) \ T : h.links[k] = g.links[k]
  BY DEF Trimming
<1>2. w = IF Len(h.links[n]) <= R THEN h ELSE [h EXCEPT !.links = [h.links EXCEPT ![n] = s]]
  BY DEF Trimmed
<1>3. CASE Len(h.links[n]) <= R
  <2>1. w = h
    BY <1>2, <1>3
  <2> HIDE DEF w
  <2>2. Bounded(h, T \cup {n})
    BY <1>1, <1>3 DEF Bounded
  <2>3. Trimming(g, T \cup {n}, w)
    BY <1>1, <2>1, <2>2 DEF Trimming
  <2> QED
    BY <2>3 DEF w
<1>4. CASE ~ (Len(h.links[n]) <= R)
  <2>1. Relisted(h, w, [h.links EXCEPT ![n] = s])
    BY <1>2, <1>4 DEF Relisted
  <2> DEFINE at == h.links[n]
             pool == Append(at, n)
             N == Stored(h)
  <2>2. pool \in Seq(N) /\ IsInjective(pool)
    <3>1. at \in Seq(N \ {n}) /\ IsInjective(at) /\ n \in N
      BY <1>1 DEF Sound, List
    <3> HIDE DEF at, N
    <3>2. n \notin Range(at) /\ at \in Seq(N)
      BY <3>1 DEF Range
    <3> QED
      BY <3>1, <3>2, AppendIs
  <2> HIDE DEF pool
  <2>3. s \in List(h, n) /\ IsInjective(s) /\ Len(s) <= R
    <3>1. s = RobustPrune(h, n, pool)
      BY DEF pool
    <3> HIDE DEF s
    <3> QED
      BY <3>1, <2>2, <1>1, RobustPruneIs
  <2> HIDE DEF s, w
  <2>4. /\ Sound(w) /\ Stored(w) = Stored(h) /\ w.store = h.store /\ w.links[n] = s
        /\ \A k \in Stored(h) : k # n => w.links[k] = h.links[k]
    BY <2>1, <2>3, <1>1, ListSetIs
  <2>5. \A k \in T \cup {n} : k \in Stored(g) => Len(w.links[k]) <= R
    BY <2>3, <2>4, <1>1 DEF Bounded
  <2>6. Trimming(g, T \cup {n}, w)
    BY <1>1, <2>4, <2>5 DEF Trimming, Bounded
  <2> QED
    BY <2>6 DEF w
<1> QED
  BY <1>3, <1>4

AllTrimmed(g, s) == FoldLeft(Trimmed, g, s)

LEMMA AllTrimmedIs ==
  ASSUME VamanaConstants, NEW g, Sound(g), NEW s \in Seq(Stored(g))
  PROVE  Trimming(g, Range(s), AllTrimmed(g, s))
<1> DEFINE n == Len(s)
           C == Stored(g)
           U == Graphs
           op(u, k) == Trimmed(u, k)
           t == FoldLeft(Trimmed, g, s)
           Steps(f) == f = [r \in SUBSET DOMAIN s |->
                          IF r = {} THEN g ELSE op(f[r \ {Max(r)}], s[Max(r)])]
           Of(r) == {s[i] : i \in r}
           V == [r \in SUBSET (1 .. n) |-> {u \in U : Trimming(g, Of(r), u)}]
           G == [p \in (1 .. n) \X U |-> op(p[2], s[p[1]])]
<1>1. n \in Nat /\ DOMAIN s = 1 .. n /\ \A k \in 1 .. n : s[k] \in C
  OBVIOUS
<1>2. ASSUME NEW u, NEW T, Trimming(g, T, u) PROVE u \in U
  BY <1>2 DEF Trimming, Sound
<1>3. g \in V[{}]
  <2>1. {} \in SUBSET (1 .. n) /\ Of({}) = {}
    OBVIOUS
  <2>2. Trimming(g, {}, g)
    BY DEF Trimming, Bounded
  <2> QED
    BY <2>1, <2>2, <1>2
<1> HIDE DEF op, C
<1>4. ASSUME NEW r \in SUBSET (1 .. n), r # {}, NEW u \in V[r \ {Max(r)}]
      PROVE  op(u, s[Max(r)]) \in V[r]
  <2>1. Max(r) \in r /\ Max(r) \in 1 .. n /\ r \ {Max(r)} \in SUBSET (1 .. n)
    BY <1>1, <1>4, Lasts
  <2> DEFINE x == s[Max(r)]
             q == r \ {Max(r)}
  <2>2. x \in C /\ Of(q) \in SUBSET C /\ Of(r) = Of(q) \cup {x}
    BY <2>1, <1>1
  <2>3. Trimming(g, Of(q), u)
    BY <2>1
  <2> HIDE DEF x, q, Of
  <2>4. Trimming(g, Of(r), op(u, x))
    BY <2>2, <2>3, TrimmedIs DEF op, C
  <2> QED
    BY <2>4, <1>2 DEF x
<1> HIDE DEF U
<1>5. \A r \in SUBSET (1 .. n) : V[r] \subseteq U
  OBVIOUS
<1> HIDE DEF n, V
<1>6. \A k \in 1 .. n, u \in U : G[<<k, u>>] = op(u, s[k])
  OBVIOUS
<1> HIDE DEF G
<1>7. \E f : Steps(f)
  <2>1. \A r \in SUBSET (1 .. n) : r # {} => /\ Max(r) \in 1 .. n /\ r \ {Max(r)} \in SUBSET (1 .. n)
    BY <1>1, Lasts
  <2>2. \A r \in SUBSET (1 .. n) : r # {} => \A u \in V[r \ {Max(r)}] :
            /\ G[<<Max(r), u>>] = op(u, s[Max(r)]) /\ G[<<Max(r), u>>] \in V[r]
    BY <2>1, <1>4, <1>5, <1>6
  <2>3. PICK f : Solution(f, n, V, g, G)
    BY <2>2, <1>1, <1>3, FamilyExists
  <2>4. f = [r \in SUBSET (1 .. n) |->
               IF r = {} THEN g ELSE op(f[r \ {Max(r)}], s[Max(r)])]
    BY <2>2, <2>3 DEF Solution
  <2> QED
    BY <2>4, <1>1
<1>8. PICK f : Steps(f) /\ t = f[DOMAIN s]
  <2>1. \E f : Steps(f) /\ t = f[DOMAIN s]
    BY <1>7 DEF FoldLeft, MapThenFoldSet, op
  <2> QED
    BY <2>1
<1> HIDE DEF t
<1>9. t \in V[1 .. n]
  <2>1. /\ f[{}] = g
        /\ \A r \in SUBSET (1 .. n) : r # {} => f[r] = op(f[r \ {Max(r)}], s[Max(r)])
    <3>1. f = [r \in SUBSET (1 .. n) |->
                 IF r = {} THEN g ELSE op(f[r \ {Max(r)}], s[Max(r)])]
      BY <1>8, <1>1
    <3>2. {} \in SUBSET (1 .. n)
      OBVIOUS
    <3> QED
      BY <3>1, <3>2, Zenon
  <2>2. n \in Nat /\ f[{}] \in V[{}]
    BY <2>1, <1>1, <1>3
  <2>3. \A r \in SUBSET (1 .. n) :
           r # {} /\ f[r \ {Max(r)}] \in V[r \ {Max(r)}] => f[r] \in V[r]
    BY <2>1, <1>4
  <2>4. f[1 .. n] \in V[1 .. n]
    BY <2>2, <2>3, FamilyEnds
  <2> QED
    BY <2>4, <1>1, <1>8
<1>10. Of(1 .. n) = Range(s)
  BY <1>1 DEF Range
<1>11. Trimming(g, Range(s), t)
  BY <1>9, <1>10 DEF V
<1> QED
  BY <1>11 DEF t, AllTrimmed

-----------------------------------------------------------------------------
(* Insertion.                                                              *)
Good(s) ==
    /\ s \in [g : Graphs, v : Stamps]
    /\ Sound(s.g) /\ Bounded(s.g, Stored(s.g)) /\ StampsOK(s.v)

LEMMA GoodIs ==
  ASSUME NEW g, Sound(g), Bounded(g, Stored(g)), NEW v, StampsOK(v)
  PROVE  Good([g |-> g, v |-> v])
<1> DEFINE s == [g |-> g, v |-> v]
<1>1. g \in Graphs /\ v \in Stamps
  BY DEF Sound, StampsOK, Stamps
<1>2. s \in [g : Graphs, v : Stamps] /\ s.g = g /\ s.v = v
  BY <1>1
<1> HIDE DEF s
<1>3. Good(s)
  BY <1>2 DEF Good
<1> QED
  BY <1>3 DEF s

(* A node with no links is added, and no link leads to it.                 *)
WithPoint(g, x) == [g EXCEPT !.store = Append(@, x), !.links = Append(@, <<>>)]

Added(g, h) ==
    LET id == Len(g.store) + 1 IN
    /\ id \in Nat \ {0} /\ Stored(h) = Stored(g) \cup {id} /\ id \in Stored(h) /\ id \notin Stored(g)
    /\ h \in Graphs /\ Len(h.links) = Len(h.store)
    /\ h.links[id] = <<>> /\ \A k \in Stored(g) : h.links[k] = g.links[k]
    /\ h.entry = g.entry /\ h.last = g.last /\ h.seeds = g.seeds

LEMMA WithPointIs ==
  ASSUME VamanaConstants, NEW g, Sound(g), NEW x \in Points
  PROVE  Added(g, WithPoint(g, x))
<1> DEFINE h == WithPoint(g, x)
           n == Len(g.store)
           s == Append(g.store, x)
           z == Append(g.links, <<>>)
<1>1. /\ g = [store |-> g.store, links |-> g.links, entry |-> g.entry, last |-> g.last,
              seeds |-> g.seeds]
      /\ g.store \in Seq(Points) /\ g.links \in Seq(Seq(Nat)) /\ g.entry \in Nat /\ g.last \in Nat
      /\ g.seeds \in Seq(Nat) /\ Len(g.links) = n
  BY DEF Sound, Graphs
<1>2. n \in Nat /\ Stored(g) = 1 .. n
  BY NodesAre
<1>3. s \in Seq(Points) /\ Len(s) = n + 1 /\ DOMAIN s = 1 .. n + 1
  BY <1>1, <1>2
<1>4. /\ z \in Seq(Seq(Nat)) /\ Len(z) = n + 1 /\ z[n + 1] = <<>>
      /\ \A k \in 1 .. n : z[k] = g.links[k]
  <2> DEFINE T == Seq(Nat)
             at == g.links
  <2>1. <<>> \in T /\ at \in Seq(T)
    BY <1>1
  <2> HIDE DEF T, at
  <2>2. Append(at, <<>>) \in Seq(T) /\ Len(Append(at, <<>>)) = Len(at) + 1
    BY <2>1
  <2>3. Append(at, <<>>)[Len(at) + 1] = <<>> /\ \A k \in 1 .. Len(at) : Append(at, <<>>)[k] = at[k]
    BY <2>1
  <2> QED
    BY <2>2, <2>3, <1>1 DEF T, at
<1>5. h = [g EXCEPT !.store = s, !.links = z]
  BY DEF WithPoint
<1> HIDE DEF s, z, h
<1>r. h = [store |-> s, links |-> z, entry |-> g.entry, last |-> g.last, seeds |-> g.seeds]
  BY <1>1, <1>5
<1>6. /\ h.store = s /\ h.links = z /\ h.entry = g.entry /\ h.last = g.last
      /\ h.seeds = g.seeds /\ h \in Graphs
  BY <1>1, <1>3, <1>4, <1>r DEF Graphs
<1>7. Stored(h) = 1 .. n + 1
  BY <1>3, <1>6 DEF Stored
<1>8. n + 1 \notin 1 .. n /\ n + 1 \in 1 .. n + 1 /\ 1 .. n + 1 = (1 .. n) \cup {n + 1}
  BY <1>2
<1>9. /\ n + 1 \in Nat \ {0} /\ Stored(h) = Stored(g) \cup {n + 1} /\ n + 1 \in Stored(h)
      /\ n + 1 \notin Stored(g)
  BY <1>2, <1>7, <1>8
<1>10. Added(g, h)
  BY <1>2, <1>3, <1>4, <1>6, <1>9 DEF Added
<1> QED
  BY <1>10 DEF h

(* Where links and seeds led, they still lead.                             *)
LEMMA AddedIs ==
  ASSUME VamanaConstants, NEW g, Sound(g), Bounded(g, Stored(g)), NEW h, Added(g, h)
  PROVE  /\ \A n \in Stored(h) : h.links[n] \in List(h, n) /\ IsInjective(h.links[n])
         /\ \A n \in Stored(h) : Len(g.store) + 1 \notin Range(h.links[n])
         /\ h.seeds \in Seq(Stored(h)) /\ Bounded(h, Stored(h))
<1> DEFINE id == Len(g.store) + 1
<1>1. /\ Stored(h) = Stored(g) \cup {id} /\ id \in Stored(h) /\ id \notin Stored(g)
      /\ h.links[id] = <<>> /\ \A k \in Stored(g) : h.links[k] = g.links[k]
      /\ h.seeds = g.seeds
  BY DEF Added
<1> HIDE DEF id
<1>2. \A k \in Stored(g) : g.links[k] \in Seq(Stored(g) \ {k}) /\ IsInjective(g.links[k])
  BY DEF Sound, List
<1>3. /\ \A S : <<>> \in Seq(S)
      /\ IsInjective(<<>>) /\ Range(<<>>) = {} /\ Len(<<>>) = 0
  BY DEF IsInjective, Range
<1>4. ASSUME NEW n \in Stored(h)
      PROVE  /\ h.links[n] \in List(h, n) /\ IsInjective(h.links[n])
             /\ id \notin Range(h.links[n]) /\ Len(h.links[n]) <= R
  <2>1. CASE n = id
    <3>1. h.links[n] = <<>> /\ 0 <= R
      BY <2>1, <1>1 DEF VamanaConstants
    <3> QED
      BY <3>1, <1>3 DEF List
  <2>2. CASE n # id
    <3> DEFINE s == h.links[n]
    <3>1. n \in Stored(g) /\ s = g.links[n]
      BY <2>2, <1>1
    <3>2. s \in Seq(Stored(g) \ {n}) /\ IsInjective(s) /\ Len(s) <= R
      BY <3>1, <1>2 DEF Bounded
    <3> HIDE DEF s
    <3>3. s \in Seq(Stored(h) \ {n})
      <4>1. Stored(g) \ {n} \subseteq Stored(h) \ {n}
        BY <1>1
      <4> QED
        BY <4>1, <3>2
    <3>4. Range(s) \subseteq Stored(g)
      BY <3>2 DEF Range
    <3> QED
      BY <3>2, <3>3, <3>4, <1>1 DEF s, List
  <2> QED
    BY <2>1, <2>2
<1>5. h.seeds \in Seq(Stored(h))
  <2>1. g.seeds \in Seq(Stored(g)) /\ Stored(g) \subseteq Stored(h)
    BY <1>1 DEF Sound
  <2> QED
    BY <2>1, <1>1
<1> QED
  BY <1>4, <1>5 DEF id, Bounded

(* There are no more elements in a sequence than places.                   *)
LEMMA RangeFits ==
  ASSUME NEW S, NEW s \in Seq(S)
  PROVE  Cardinality(Range(s)) <= Len(s)
<1> DEFINE n == Len(s)
           T == Range(s)
           f == [i \in 1 .. n |-> s[i]]
<1>1. n \in Nat /\ DOMAIN s = 1 .. n
  OBVIOUS
<1>2. IsFiniteSet(1 .. n) /\ Cardinality(1 .. n) = n
  <2> HIDE DEF n
  <2> QED
    BY <1>1, FS_Interval
<1>3. f \in Surjection(1 .. n, T)
  <2>1. T = {s[i] : i \in 1 .. n}
    BY <1>1 DEF Range
  <2> HIDE DEF T, n
  <2> QED
    BY <2>1 DEF Surjection
<1> HIDE DEF f, n, T
<1>4. Cardinality(T) <= n
  BY <1>2, <1>3, FS_Surjection
<1> QED
  BY <1>4 DEF n, T

(* The first node of a graph is its entry and its last.                    *)
LEMMA FirstNode ==
  ASSUME VamanaConstants, NEW s, Good(s), s.g.entry = 0, NEW x \in Points
  PROVE  Good([g |-> [WithPoint(s.g, x) EXCEPT !.entry = Len(s.g.store) + 1,
                                               !.last = Len(s.g.store) + 1], v |-> s.v])
<1> DEFINE g == s.g
           id == Len(g.store) + 1
           g1 == WithPoint(g, x)
           h == [g1 EXCEPT !.entry = id, !.last = id]
<1>1. Sound(g) /\ Bounded(g, Stored(g)) /\ StampsOK(s.v)
  BY DEF Good
<1> HIDE DEF g
<1>2. Added(g, g1)
  BY <1>1, WithPointIs
<1> HIDE DEF g1
<1>3. /\ id \in Nat \ {0} /\ id \in Stored(g1) /\ g1 \in Graphs /\ Len(g1.links) = Len(g1.store)
  BY <1>2 DEF Added
<1>4. /\ \A n \in Stored(g1) : g1.links[n] \in List(g1, n) /\ IsInjective(g1.links[n])
      /\ g1.seeds \in Seq(Stored(g1)) /\ Bounded(g1, Stored(g1))
  BY <1>1, <1>2, AddedIs
<1> HIDE DEF id
<1>h. h = [g1 EXCEPT !.entry = id, !.last = id]
  OBVIOUS
<1> HIDE DEF h
<1>5. /\ h = [store |-> g1.store, links |-> g1.links, entry |-> id, last |-> id,
              seeds |-> g1.seeds]
      /\ g1.store \in Seq(Points) /\ g1.links \in Seq(Seq(Nat)) /\ g1.seeds \in Seq(Nat)
  <2>1. /\ g1 = [store |-> g1.store, links |-> g1.links, entry |-> g1.entry, last |-> g1.last,
                seeds |-> g1.seeds]
        /\ g1.store \in Seq(Points) /\ g1.links \in Seq(Seq(Nat)) /\ g1.seeds \in Seq(Nat)
    BY <1>3 DEF Graphs
  <2> QED
    BY <2>1, <1>h
<1>6. /\ h \in Graphs /\ h.store = g1.store /\ h.links = g1.links /\ h.entry = id /\ h.last = id
      /\ h.seeds = g1.seeds
  BY <1>3, <1>5 DEF Graphs
<1>7. Stored(h) = Stored(g1)
  BY <1>6 DEF Stored
<1>8. Sound(h) /\ Bounded(h, Stored(h))
  BY <1>3, <1>4, <1>6, <1>7 DEF Sound, List, Bounded
<1>9. Good([g |-> h, v |-> s.v])
  BY <1>1, <1>8, GoodIs
<1> QED
  BY <1>9 DEF h, g1, id, g

(* A node joins: it is linked both ways with the new ones, which are pruned*)
(* when that gives them too many.                                          *)
Joined(g1, id, new) ==
    [AllTrimmed(AllLinked(g1, id, new), new) EXCEPT !.last = id]

LEMMA JoinedIs ==
  ASSUME VamanaConstants, NEW g1, Sound(g1), Bounded(g1, Stored(g1)), NEW id \in Stored(g1),
         g1.links[id] = <<>>, \A k \in Stored(g1) : id \notin Range(g1.links[k]),
         NEW new \in List(g1, id), IsInjective(new), Len(new) <= R
  PROVE  Sound(Joined(g1, id, new)) /\ Bounded(Joined(g1, id, new), Stored(Joined(g1, id, new)))
<1> DEFINE a == AllLinked(g1, id, new)
           t == AllTrimmed(a, new)
           h == Joined(g1, id, new)
<1>1. Linking(g1, id, Range(new), a)
  BY AllLinkedIs
<1> HIDE DEF a
<1>2. /\ Sound(a) /\ Stored(a) = Stored(g1)
      /\ Len(a.links[id]) = Cardinality(Range(new))
      /\ \A k \in Stored(g1) \ {id} : k \notin Range(new) => a.links[k] = g1.links[k]
  BY <1>1 DEF Linking
<1>3. new \in Seq(Stored(a)) /\ id \notin Range(new)
  <2>1. new \in Seq(Stored(g1) \ {id})
    BY DEF List
  <2> QED
    BY <2>1, <1>2 DEF Range
<1>4. Len(a.links[id]) <= R
  <2>1. Cardinality(Range(new)) <= Len(new) /\ Len(new) \in Nat
    BY <1>3, RangeFits
  <2>2. a.links[id] \in Seq(Stored(a) \ {id})
    BY <1>2 DEF Sound, List
  <2>3. Len(a.links[id]) \in Nat /\ R \in Nat
    BY <2>2 DEF VamanaConstants
  <2> QED
    BY <2>1, <2>3, <1>2
<1>5. Trimming(a, Range(new), t)
  BY <1>2, <1>3, AllTrimmedIs
<1> HIDE DEF t
<1>6. Sound(t) /\ Stored(t) = Stored(g1) /\ Bounded(t, Stored(t))
  <2>1. /\ Sound(t) /\ Stored(t) = Stored(g1) /\ Bounded(t, Range(new))
        /\ \A k \in Stored(g1) \ Range(new) : t.links[k] = a.links[k]
    BY <1>2, <1>5 DEF Trimming
  <2>2. ASSUME NEW k \in Stored(g1) PROVE Len(t.links[k]) <= R
    <3>1. CASE k \in Range(new)
      BY <3>1, <2>1 DEF Bounded
    <3>2. CASE k \notin Range(new) /\ k = id
      BY <3>2, <2>1, <1>4
    <3>3. CASE k \notin Range(new) /\ k # id
      <4>1. t.links[k] = g1.links[k]
        BY <3>3, <2>1, <1>2
      <4> QED
        BY <4>1 DEF Bounded
    <3> QED
      BY <3>1, <3>2, <3>3
  <2> QED
    BY <2>1, <2>2 DEF Bounded
<1>7. id \in Nat /\ id # 0
  BY NodesAre
<1>8. /\ t \in Graphs /\ t = [store |-> t.store, links |-> t.links, entry |-> t.entry,
                             last |-> t.last, seeds |-> t.seeds]
  BY <1>6 DEF Sound, Graphs
<1>9. h = [t EXCEPT !.last = id]
  BY DEF Joined, t, a
<1> HIDE DEF h
<1>10. h = [store |-> t.store, links |-> t.links, entry |-> t.entry, last |-> id,
            seeds |-> t.seeds]
  BY <1>8, <1>9
<1>11. /\ h \in Graphs /\ h.store = t.store /\ h.links = t.links /\ h.entry = t.entry
       /\ h.last = id /\ h.seeds = t.seeds
  BY <1>7, <1>8, <1>10 DEF Graphs
<1>12. Stored(h) = Stored(t)
  BY <1>11 DEF Stored
<1>13. Sound(h)
  <2>1. \A n \in Stored(h) : h.links[n] \in List(h, n) /\ IsInjective(h.links[n])
    BY <1>6, <1>11, <1>12 DEF Sound, List
  <2>2. /\ Len(h.links) = Len(h.store) /\ h.seeds \in Seq(Stored(h))
        /\ h.entry \in Stored(h) \cup {0} /\ (Stored(h) # {} => h.entry # 0)
    BY <1>6, <1>11, <1>12 DEF Sound
  <2> QED
    BY <2>1, <2>2, <1>6, <1>7, <1>11, <1>12 DEF Sound
<1>14. Bounded(h, Stored(h))
  BY <1>6, <1>11, <1>12 DEF Bounded
<1> QED
  BY <1>13, <1>14 DEF h

LEMMA InsertedIs ==
  ASSUME VamanaConstants, NEW s, Good(s), NEW x \in Points
  PROVE  Good(Inserted(s, x))
<1> DEFINE g == s.g
           id == Len(g.store) + 1
           g1 == WithPoint(g, x)
           starts == <<g1.entry, g1.last>> \o g1.seeds
           beam == BeamSearch(g1, s.v, x, starts, Greater(L, R))
           new == RobustPrune(g1, id, beam.found)
           joined == Joined(g1, id, new)
           h == IF (id - 1) % RecenterEvery = 0 THEN Recentered(joined) ELSE joined
           e == Inserted(s, x)
<1>1. e = IF g.entry = 0 THEN [g |-> [g1 EXCEPT !.entry = id, !.last = id], v |-> s.v]
          ELSE [g |-> h, v |-> beam.v]
  BY DEF Inserted, WithPoint, Joined, AllLinked, AllTrimmed
<1>2. CASE g.entry = 0
  <2>1. e = [g |-> [g1 EXCEPT !.entry = id, !.last = id], v |-> s.v]
    BY <1>1, <1>2
  <2> HIDE DEF e
  <2>2. Good(e)
    BY <2>1, <1>2, FirstNode
  <2> QED
    BY <2>2 DEF e
<1>3. CASE g.entry # 0
  <2>1. e = [g |-> h, v |-> beam.v]
    BY <1>1, <1>3
  <2>2. Sound(g) /\ Bounded(g, Stored(g)) /\ StampsOK(s.v)
    BY DEF Good
  <2> HIDE DEF e, g
  <2>3. Added(g, g1)
    BY <2>2, WithPointIs
  <2> HIDE DEF g1
  <2>4. /\ id \in Stored(g1) /\ g1 \in Graphs /\ Len(g1.links) = Len(g1.store)
        /\ g1.links[id] = <<>> /\ Stored(g1) = Stored(g) \cup {id}
        /\ g1.entry = g.entry /\ g1.last = g.last
    BY <2>3 DEF Added
  <2>5. /\ \A n \in Stored(g1) : g1.links[n] \in List(g1, n) /\ IsInjective(g1.links[n])
        /\ \A n \in Stored(g1) : id \notin Range(g1.links[n])
        /\ g1.seeds \in Seq(Stored(g1)) /\ Bounded(g1, Stored(g1))
    BY <2>2, <2>3, AddedIs
  <2> HIDE DEF id
  <2>6. /\ g1.entry \in Stored(g1) /\ g1.last \in Stored(g1) /\ g1.entry # 0 /\ g1.last # 0
    <3>1. g.entry \in Stored(g) /\ g.last \in Stored(g) /\ g.last # 0
      BY <2>2, <1>3 DEF Sound
    <3> QED
      BY <3>1, <2>4, <1>3
  <2>7. Sound(g1)
    BY <2>4, <2>5, <2>6 DEF Sound
  <2>8. starts \in Seq(Stored(g1))
    <3>1. <<g1.entry, g1.last>> \in Seq(Stored(g1))
      BY <2>6
    <3> QED
      BY <3>1, <2>5
  <2>9. x \in Int /\ Greater(L, R) \in Nat \ {0}
    BY DEF VamanaConstants, Greater
  <2> HIDE DEF starts
  <2>10. Searched(g1, s.v, Far(g1, x), starts, Greater(L, R), beam)
    BY <2>2, <2>7, <2>8, <2>9, BeamSearchIs
  <2> HIDE DEF beam
  <2>11. beam.found \in Seq(Stored(g1)) /\ IsInjective(beam.found) /\ StampsOK(beam.v)
    BY <2>10 DEF Searched
  <2>12. new \in List(g1, id) /\ IsInjective(new) /\ Len(new) <= R
    BY <2>4, <2>7, <2>11, RobustPruneIs
  <2> HIDE DEF new
  <2>13. Sound(joined) /\ Bounded(joined, Stored(joined))
    BY <2>4, <2>5, <2>7, <2>12, JoinedIs
  <2> HIDE DEF joined
  <2>14. Sound(h) /\ Bounded(h, Stored(h))
    <3>1. CASE h = joined
      BY <3>1, <2>13
    <3>2. CASE h = Recentered(joined)
      BY <3>2, <2>13, RecenteredIs DEF Bounded
    <3> QED
      BY <3>1, <3>2
  <2> HIDE DEF h
  <2>15. Good(e)
    BY <2>1, <2>11, <2>14, GoodIs
  <2> QED
    BY <2>15 DEF e
<1> QED
  BY <1>2, <1>3

-----------------------------------------------------------------------------
(* Refinement, which for a while leaves nodes with too many links.         *)
Fair(s) == s \in [g : Graphs, v : Stamps] /\ Sound(s.g) /\ StampsOK(s.v)

LEMMA RelinkedIs ==
  ASSUME VamanaConstants, NEW g, Sound(g), NEW i \in Stored(g), NEW kept \in List(g, i),
         IsInjective(kept)
  PROVE  Sound(Relinked(g, i, kept)) /\ Stored(Relinked(g, i, kept)) = Stored(g)
<1> DEFINE N == Stored(g)
           At(n) == g.links[n]
           New(n) == IF n = i THEN kept
                     ELSE IF n \in Range(g.links[i]) \ Range(kept)
                     THEN Without(At(n), {i})
                     ELSE IF n \in Range(kept) /\ i \notin Range(At(n)) THEN Append(At(n), i)
                     ELSE At(n)
           z == [n \in N |-> New(n)]
           h == Relinked(g, i, kept)
<1>1. DOMAIN g.links = N /\ N \in SUBSET Nat
  BY NodesAre
<1>2. h = [g EXCEPT !.links = z]
  BY <1>1 DEF Relinked
<1>3. \A n \in N : At(n) \in List(g, n) /\ IsInjective(At(n))
  BY DEF Sound
<1> HIDE DEF h, N
<1>4. ASSUME NEW n \in N PROVE New(n) \in List(g, n) /\ IsInjective(New(n))
  <2> DEFINE C == Stored(g) \ {n}
             s == At(n)
  <2>1. s \in Seq(C) /\ IsInjective(s) /\ List(g, n) = Seq(C)
    BY <1>3 DEF List
  <2>2. i \in N
    BY DEF N
  <2>3. n # i => i \in C
    OBVIOUS
  <2> HIDE DEF C, s
  <2>4. Without(s, {i}) \in Seq(C) /\ IsInjective(Without(s, {i}))
    BY <2>1, WithoutIs
  <2>5. n # i /\ i \notin Range(s) => Append(s, i) \in Seq(C) /\ IsInjective(Append(s, i))
    BY <2>1, <2>3, AppendIs
  <2>6. \/ n = i /\ New(n) = kept
        \/ New(n) = Without(s, {i})
        \/ n # i /\ i \notin Range(s) /\ New(n) = Append(s, i)
        \/ New(n) = s
    BY DEF s
  <2> HIDE DEF New
  <2> QED
    BY <2>1, <2>4, <2>5, <2>6
<1> HIDE DEF New
<1>5. z \in [N -> Seq(Nat)] /\ \A n \in N : z[n] = New(n)
  <2>1. \A n \in N : \A t \in List(g, n) : t \in Seq(Nat)
    BY <1>1 DEF List, N
  <2> QED
    BY <2>1, <1>4
<1> HIDE DEF z
<1>6. Relisted(g, h, z) /\ \A n \in N : z[n] \in List(g, n) /\ IsInjective(z[n])
  BY <1>2, <1>4, <1>5 DEF Relisted
<1>7. Sound(h) /\ Stored(h) = Stored(g)
  BY <1>5, <1>6, RelistedIs DEF N
<1> QED
  BY <1>7 DEF h

LEMMA RefinedIs ==
  ASSUME VamanaConstants, NEW s, Fair(s), NEW i \in Stored(s.g)
  PROVE  Fair(Refined(s, i)) /\ Stored(Refined(s, i).g) = Stored(s.g)
<1> DEFINE g == s.g
           before == IF i > 1 THEN i - 1 ELSE i
           starts == <<g.entry, before>> \o g.seeds
           beam == BeamSearch(g, s.v, g.store[i], starts, Greater(L, R))
           pool == beam.found \o Without(g.links[i], Range(beam.found))
           kept == RobustPrune(g, i, pool)
           h == Relinked(g, i, kept)
           e == Refined(s, i)
<1>1. e = [g |-> h, v |-> beam.v]
  BY DEF Refined
<1>2. Sound(g) /\ StampsOK(s.v) /\ i \in Stored(g)
  BY DEF Fair
<1> HIDE DEF g, e
<1>3. /\ Stored(g) = 1 .. Len(g.store) /\ Len(g.store) \in Nat /\ g.store[i] \in Int
      /\ g.links[i] \in Seq(Stored(g) \ {i}) /\ IsInjective(g.links[i])
      /\ g.entry \in Stored(g) /\ g.seeds \in Seq(Stored(g))
  BY <1>2, NodesAre DEF Sound, List
<1>4. before \in Stored(g)
  BY <1>2, <1>3
<1> HIDE DEF before
<1>5. starts \in Seq(Stored(g))
  <2>1. <<g.entry, before>> \in Seq(Stored(g))
    BY <1>3, <1>4
  <2> QED
    BY <2>1, <1>3
<1>6. Greater(L, R) \in Nat \ {0}
  BY DEF VamanaConstants, Greater
<1> HIDE DEF starts
<1>7. Searched(g, s.v, Far(g, g.store[i]), starts, Greater(L, R), beam)
  BY <1>2, <1>3, <1>5, <1>6, BeamSearchIs
<1> HIDE DEF beam
<1>8. beam.found \in Seq(Stored(g)) /\ IsInjective(beam.found) /\ StampsOK(beam.v)
  BY <1>7 DEF Searched
<1>9. pool \in Seq(Stored(g)) /\ IsInjective(pool)
  <2> DEFINE N == Stored(g)
             f == beam.found
             at == g.links[i]
             rest == Without(at, Range(f))
  <2>1. f \in Seq(N) /\ IsInjective(f) /\ at \in Seq(N) /\ IsInjective(at)
    BY <1>3, <1>8
  <2> HIDE DEF N, f, at
  <2>2. rest \in Seq(N) /\ IsInjective(rest) /\ Range(rest) = Range(at) \ Range(f)
    BY <2>1, WithoutIs
  <2> HIDE DEF rest
  <2>3. Range(f) \cap Range(rest) = {}
    BY <2>2
  <2>4. f \o rest \in Seq(N) /\ IsInjective(f \o rest)
    BY <2>1, <2>2, <2>3, ConcatIs
  <2> QED
    BY <2>4 DEF N, f, at, rest
<1> HIDE DEF pool
<1>10. kept \in List(g, i) /\ IsInjective(kept)
  BY <1>2, <1>9, RobustPruneIs
<1> HIDE DEF kept
<1>11. Sound(h) /\ Stored(h) = Stored(g)
  BY <1>2, <1>10, RelinkedIs
<1> HIDE DEF h
<1>12. e.g = h /\ e.v = beam.v
  BY <1>1
<1>13. e \in [g : Graphs, v : Stamps]
  <2>1. h \in Graphs /\ beam.v \in Stamps
    BY <1>8, <1>11 DEF Sound, StampsOK, Stamps
  <2> QED
    BY <2>1, <1>1
<1>14. Fair(e) /\ Stored(e.g) = Stored(g)
  BY <1>8, <1>11, <1>12, <1>13 DEF Fair
<1> QED
  BY <1>14 DEF e, g

LEMMA AllRefinedIs ==
  ASSUME VamanaConstants, NEW b, Fair(b), NEW s \in Seq(Stored(b.g))
  PROVE  Fair(FoldLeft(Refined, b, s)) /\ Stored(FoldLeft(Refined, b, s).g) = Stored(b.g)
<1> DEFINE n == Len(s)
           C == Stored(b.g)
           U == {u \in [g : Graphs, v : Stamps] : Fair(u) /\ Stored(u.g) = Stored(b.g)}
           op(u, k) == Refined(u, k)
           t == FoldLeft(Refined, b, s)
           Steps(f) == f = [r \in SUBSET DOMAIN s |->
                          IF r = {} THEN b ELSE op(f[r \ {Max(r)}], s[Max(r)])]
           V == [r \in SUBSET (1 .. n) |-> U]
           G == [p \in (1 .. n) \X U |-> op(p[2], s[p[1]])]
<1>1. n \in Nat /\ DOMAIN s = 1 .. n /\ \A k \in 1 .. n : s[k] \in C
  OBVIOUS
<1>2. ASSUME NEW u \in U, NEW x \in C PROVE op(u, x) \in U
  BY <1>2, RefinedIs DEF Fair
<1>3. b \in V[{}]
  <2>1. {} \in SUBSET (1 .. n) /\ b \in U
    BY DEF Fair
  <2> QED
    BY <2>1
<1> HIDE DEF op, U, C
<1>4. ASSUME NEW r \in SUBSET (1 .. n), r # {}, NEW u \in V[r \ {Max(r)}]
      PROVE  op(u, s[Max(r)]) \in V[r]
  <2>1. Max(r) \in r /\ Max(r) \in 1 .. n /\ r \ {Max(r)} \in SUBSET (1 .. n)
    BY <1>1, <1>4, Lasts
  <2>2. s[Max(r)] \in C /\ u \in U
    BY <2>1, <1>1
  <2>3. op(u, s[Max(r)]) \in U
    BY <2>2, <1>2
  <2> QED
    BY <2>3
<1>5. \A r \in SUBSET (1 .. n) : V[r] \subseteq U
  OBVIOUS
<1> HIDE DEF n, V
<1>6. \A k \in 1 .. n, u \in U : G[<<k, u>>] = op(u, s[k])
  OBVIOUS
<1> HIDE DEF G
<1>7. \E f : Steps(f)
  <2>1. \A r \in SUBSET (1 .. n) : r # {} => /\ Max(r) \in 1 .. n /\ r \ {Max(r)} \in SUBSET (1 .. n)
    BY <1>1, Lasts
  <2>2. \A r \in SUBSET (1 .. n) : r # {} => \A u \in V[r \ {Max(r)}] :
            /\ G[<<Max(r), u>>] = op(u, s[Max(r)]) /\ G[<<Max(r), u>>] \in V[r]
    BY <2>1, <1>4, <1>5, <1>6
  <2>3. PICK f : Solution(f, n, V, b, G)
    BY <2>2, <1>1, <1>3, FamilyExists
  <2>4. f = [r \in SUBSET (1 .. n) |->
               IF r = {} THEN b ELSE op(f[r \ {Max(r)}], s[Max(r)])]
    BY <2>2, <2>3 DEF Solution
  <2> QED
    BY <2>4, <1>1
<1>8. PICK f : Steps(f) /\ t = f[DOMAIN s]
  <2>1. \E f : Steps(f) /\ t = f[DOMAIN s]
    BY <1>7 DEF FoldLeft, MapThenFoldSet, op
  <2> QED
    BY <2>1
<1> HIDE DEF t
<1>9. t \in V[1 .. n]
  <2>1. /\ f[{}] = b
        /\ \A r \in SUBSET (1 .. n) : r # {} => f[r] = op(f[r \ {Max(r)}], s[Max(r)])
    <3>1. f = [r \in SUBSET (1 .. n) |->
                 IF r = {} THEN b ELSE op(f[r \ {Max(r)}], s[Max(r)])]
      BY <1>8, <1>1
    <3>2. {} \in SUBSET (1 .. n)
      OBVIOUS
    <3> QED
      BY <3>1, <3>2, Zenon
  <2>2. n \in Nat /\ f[{}] \in V[{}]
    BY <2>1, <1>1, <1>3
  <2>3. \A r \in SUBSET (1 .. n) :
           r # {} /\ f[r \ {Max(r)}] \in V[r \ {Max(r)}] => f[r] \in V[r]
    BY <2>1, <1>4
  <2>4. f[1 .. n] \in V[1 .. n]
    BY <2>2, <2>3, FamilyEnds
  <2> QED
    BY <2>4, <1>1, <1>8
<1>10. t \in U
  BY <1>9, <1>1 DEF V
<1> QED
  BY <1>10 DEF t, U

LEMMA UpToIs ==
  ASSUME NEW n \in Nat
  PROVE  UpTo(n) \in Seq(1 .. n) /\ Range(UpTo(n)) = 1 .. n
<1> DEFINE s == [i \in 1 .. n |-> i]
<1>1. s \in [1 .. n -> 1 .. n] /\ DOMAIN s = 1 .. n /\ \A i \in 1 .. n : s[i] = i
  OBVIOUS
<1>2. UpTo(n) = s
  BY DEF UpTo
<1> HIDE DEF s
<1>3. s \in Seq(1 .. n)
  BY <1>1
<1>4. Range(s) = 1 .. n
  BY <1>1 DEF Range
<1> QED
  BY <1>2, <1>3, <1>4

LEMMA RefinePassIs ==
  ASSUME VamanaConstants, NEW s, Good(s), NEW pass
  PROVE  Good(RefinePass(s, pass))
<1> DEFINE p == FoldLeft(Refined, s, UpTo(Len(s.g.store)))
           q == UpTo(Len(p.g.store))
           h == AllTrimmed(p.g, q)
           e == RefinePass(s, pass)
<1>1. e = [p EXCEPT !.g = h]
  BY DEF RefinePass, AllTrimmed
<1>2. Fair(s) /\ Sound(s.g)
  BY DEF Good, Fair
<1>3. UpTo(Len(s.g.store)) \in Seq(Stored(s.g))
  <2>1. Len(s.g.store) \in Nat /\ Stored(s.g) = 1 .. Len(s.g.store)
    BY <1>2, NodesAre
  <2> QED
    BY <2>1, UpToIs
<1>4. Fair(p)
  BY <1>2, <1>3, AllRefinedIs
<1> HIDE DEF p, e
<1>5. p = [g |-> p.g, v |-> p.v] /\ Sound(p.g) /\ StampsOK(p.v)
  BY <1>4 DEF Fair
<1>6. q \in Seq(Stored(p.g)) /\ Range(q) = Stored(p.g)
  <2>1. Len(p.g.store) \in Nat /\ Stored(p.g) = 1 .. Len(p.g.store)
    BY <1>5, NodesAre
  <2> QED
    BY <2>1, UpToIs
<1> HIDE DEF q
<1>7. Trimming(p.g, Stored(p.g), h)
  BY <1>5, <1>6, AllTrimmedIs
<1> HIDE DEF h
<1>8. Sound(h) /\ Bounded(h, Stored(h))
  BY <1>7 DEF Trimming
<1>9. e = [g |-> h, v |-> p.v]
  BY <1>1, <1>5
<1>10. Good(e)
  BY <1>5, <1>8, <1>9, GoodIs
<1> QED
  BY <1>10 DEF e

LEMMA AllPassedIs ==
  ASSUME VamanaConstants, NEW b, Good(b), NEW s \in Seq(Nat)
  PROVE  Good(FoldLeft(RefinePass, b, s))
<1> DEFINE n == Len(s)
           C == Nat
           U == {u \in [g : Graphs, v : Stamps] : Good(u)}
           op(u, k) == RefinePass(u, k)
           t == FoldLeft(RefinePass, b, s)
           Steps(f) == f = [r \in SUBSET DOMAIN s |->
                          IF r = {} THEN b ELSE op(f[r \ {Max(r)}], s[Max(r)])]
           V == [r \in SUBSET (1 .. n) |-> U]
           G == [p \in (1 .. n) \X U |-> op(p[2], s[p[1]])]
<1>1. n \in Nat /\ DOMAIN s = 1 .. n /\ \A k \in 1 .. n : s[k] \in C
  OBVIOUS
<1>2. ASSUME NEW u \in U, NEW x \in C PROVE op(u, x) \in U
  BY <1>2, RefinePassIs DEF Good
<1>3. b \in V[{}]
  <2>1. {} \in SUBSET (1 .. n) /\ b \in U
    BY DEF Good
  <2> QED
    BY <2>1
<1> HIDE DEF op, U, C
<1>4. ASSUME NEW r \in SUBSET (1 .. n), r # {}, NEW u \in V[r \ {Max(r)}]
      PROVE  op(u, s[Max(r)]) \in V[r]
  <2>1. Max(r) \in r /\ Max(r) \in 1 .. n /\ r \ {Max(r)} \in SUBSET (1 .. n)
    BY <1>1, <1>4, Lasts
  <2>2. s[Max(r)] \in C /\ u \in U
    BY <2>1, <1>1
  <2>3. op(u, s[Max(r)]) \in U
    BY <2>2, <1>2
  <2> QED
    BY <2>3
<1>5. \A r \in SUBSET (1 .. n) : V[r] \subseteq U
  OBVIOUS
<1> HIDE DEF n, V
<1>6. \A k \in 1 .. n, u \in U : G[<<k, u>>] = op(u, s[k])
  OBVIOUS
<1> HIDE DEF G
<1>7. \E f : Steps(f)
  <2>1. \A r \in SUBSET (1 .. n) : r # {} => /\ Max(r) \in 1 .. n /\ r \ {Max(r)} \in SUBSET (1 .. n)
    BY <1>1, Lasts
  <2>2. \A r \in SUBSET (1 .. n) : r # {} => \A u \in V[r \ {Max(r)}] :
            /\ G[<<Max(r), u>>] = op(u, s[Max(r)]) /\ G[<<Max(r), u>>] \in V[r]
    BY <2>1, <1>4, <1>5, <1>6
  <2>3. PICK f : Solution(f, n, V, b, G)
    BY <2>2, <1>1, <1>3, FamilyExists
  <2>4. f = [r \in SUBSET (1 .. n) |->
               IF r = {} THEN b ELSE op(f[r \ {Max(r)}], s[Max(r)])]
    BY <2>2, <2>3 DEF Solution
  <2> QED
    BY <2>4, <1>1
<1>8. PICK f : Steps(f) /\ t = f[DOMAIN s]
  <2>1. \E f : Steps(f) /\ t = f[DOMAIN s]
    BY <1>7 DEF FoldLeft, MapThenFoldSet, op
  <2> QED
    BY <2>1
<1> HIDE DEF t
<1>9. t \in V[1 .. n]
  <2>1. /\ f[{}] = b
        /\ \A r \in SUBSET (1 .. n) : r # {} => f[r] = op(f[r \ {Max(r)}], s[Max(r)])
    <3>1. f = [r \in SUBSET (1 .. n) |->
                 IF r = {} THEN b ELSE op(f[r \ {Max(r)}], s[Max(r)])]
      BY <1>8, <1>1
    <3>2. {} \in SUBSET (1 .. n)
      OBVIOUS
    <3> QED
      BY <3>1, <3>2, Zenon
  <2>2. n \in Nat /\ f[{}] \in V[{}]
    BY <2>1, <1>1, <1>3
  <2>3. \A r \in SUBSET (1 .. n) :
           r # {} /\ f[r \ {Max(r)}] \in V[r \ {Max(r)}] => f[r] \in V[r]
    BY <2>1, <1>4
  <2>4. f[1 .. n] \in V[1 .. n]
    BY <2>2, <2>3, FamilyEnds
  <2> QED
    BY <2>4, <1>1, <1>8
<1>10. t \in U
  BY <1>9, <1>1 DEF V
<1> QED
  BY <1>10 DEF t, U

LEMMA AllInsertedIs ==
  ASSUME VamanaConstants, NEW b, Good(b), NEW s \in Seq(Points)
  PROVE  Good(FoldLeft(Inserted, b, s))
<1> DEFINE n == Len(s)
           C == Points
           U == {u \in [g : Graphs, v : Stamps] : Good(u)}
           op(u, k) == Inserted(u, k)
           t == FoldLeft(Inserted, b, s)
           Steps(f) == f = [r \in SUBSET DOMAIN s |->
                          IF r = {} THEN b ELSE op(f[r \ {Max(r)}], s[Max(r)])]
           V == [r \in SUBSET (1 .. n) |-> U]
           G == [p \in (1 .. n) \X U |-> op(p[2], s[p[1]])]
<1>1. n \in Nat /\ DOMAIN s = 1 .. n /\ \A k \in 1 .. n : s[k] \in C
  OBVIOUS
<1>2. ASSUME NEW u \in U, NEW x \in C PROVE op(u, x) \in U
  BY <1>2, InsertedIs DEF Good
<1>3. b \in V[{}]
  <2>1. {} \in SUBSET (1 .. n) /\ b \in U
    BY DEF Good
  <2> QED
    BY <2>1
<1> HIDE DEF op, U, C
<1>4. ASSUME NEW r \in SUBSET (1 .. n), r # {}, NEW u \in V[r \ {Max(r)}]
      PROVE  op(u, s[Max(r)]) \in V[r]
  <2>1. Max(r) \in r /\ Max(r) \in 1 .. n /\ r \ {Max(r)} \in SUBSET (1 .. n)
    BY <1>1, <1>4, Lasts
  <2>2. s[Max(r)] \in C /\ u \in U
    BY <2>1, <1>1
  <2>3. op(u, s[Max(r)]) \in U
    BY <2>2, <1>2
  <2> QED
    BY <2>3
<1>5. \A r \in SUBSET (1 .. n) : V[r] \subseteq U
  OBVIOUS
<1> HIDE DEF n, V
<1>6. \A k \in 1 .. n, u \in U : G[<<k, u>>] = op(u, s[k])
  OBVIOUS
<1> HIDE DEF G
<1>7. \E f : Steps(f)
  <2>1. \A r \in SUBSET (1 .. n) : r # {} => /\ Max(r) \in 1 .. n /\ r \ {Max(r)} \in SUBSET (1 .. n)
    BY <1>1, Lasts
  <2>2. \A r \in SUBSET (1 .. n) : r # {} => \A u \in V[r \ {Max(r)}] :
            /\ G[<<Max(r), u>>] = op(u, s[Max(r)]) /\ G[<<Max(r), u>>] \in V[r]
    BY <2>1, <1>4, <1>5, <1>6
  <2>3. PICK f : Solution(f, n, V, b, G)
    BY <2>2, <1>1, <1>3, FamilyExists
  <2>4. f = [r \in SUBSET (1 .. n) |->
               IF r = {} THEN b ELSE op(f[r \ {Max(r)}], s[Max(r)])]
    BY <2>2, <2>3 DEF Solution
  <2> QED
    BY <2>4, <1>1
<1>8. PICK f : Steps(f) /\ t = f[DOMAIN s]
  <2>1. \E f : Steps(f) /\ t = f[DOMAIN s]
    BY <1>7 DEF FoldLeft, MapThenFoldSet, op
  <2> QED
    BY <2>1
<1> HIDE DEF t
<1>9. t \in V[1 .. n]
  <2>1. /\ f[{}] = b
        /\ \A r \in SUBSET (1 .. n) : r # {} => f[r] = op(f[r \ {Max(r)}], s[Max(r)])
    <3>1. f = [r \in SUBSET (1 .. n) |->
                 IF r = {} THEN b ELSE op(f[r \ {Max(r)}], s[Max(r)])]
      BY <1>8, <1>1
    <3>2. {} \in SUBSET (1 .. n)
      OBVIOUS
    <3> QED
      BY <3>1, <3>2, Zenon
  <2>2. n \in Nat /\ f[{}] \in V[{}]
    BY <2>1, <1>1, <1>3
  <2>3. \A r \in SUBSET (1 .. n) :
           r # {} /\ f[r \ {Max(r)}] \in V[r \ {Max(r)}] => f[r] \in V[r]
    BY <2>1, <1>4
  <2>4. f[1 .. n] \in V[1 .. n]
    BY <2>2, <2>3, FamilyEnds
  <2> QED
    BY <2>4, <1>1, <1>8
<1>10. t \in U
  BY <1>9, <1>1 DEF V
<1> QED
  BY <1>10 DEF t, U

-----------------------------------------------------------------------------
(* The steps of the index.                                                 *)
Inv == Sound(graph) /\ Bounded(graph, Stored(graph)) /\ StampsOK(visited)

LEMMA InvGood == Inv => Good([g |-> graph, v |-> visited])
BY GoodIs DEF Inv

LEMMA InitInv ==
  ASSUME VamanaConstants, Init
  PROVE  Inv
<1>1. /\ graph.store = <<>> /\ graph.links = <<>> /\ graph.entry = 0 /\ graph.last = 0
      /\ graph.seeds = <<>> /\ graph \in Graphs
  BY DEF Init, Graphs
<1>2. Stored(graph) = {}
  BY <1>1 DEF Stored
<1>3. Sound(graph) /\ Bounded(graph, Stored(graph))
  BY <1>1, <1>2 DEF Sound, Bounded
<1>4. visited.stamps = <<>> /\ visited.gen = 0 /\ visited = [stamps |-> <<>>, gen |-> 0]
  BY DEF Init, NewStamps
<1>5. MaxGen \in Nat /\ <<>> \in Seq(Nat) /\ DOMAIN <<>> = {}
  BY DEF VamanaConstants
<1>6. 0 \in 0 .. MaxGen
  BY <1>5
<1>7. StampsOK(visited)
  BY <1>4, <1>5, <1>6 DEF StampsOK
<1> QED
  BY <1>3, <1>7 DEF Inv

LEMMA InsertInv ==
  ASSUME VamanaConstants, Inv, NEW x \in Points, Insert(x)
  PROVE  Inv'
<1> DEFINE b == [g |-> graph, v |-> visited]
           s == Inserted(b, x)
<1>1. graph' = s.g /\ visited' = s.v
  BY DEF Insert
<1>2. Good(b)
  BY InvGood
<1> HIDE DEF b
<1>3. Good(s)
  BY <1>2, InsertedIs
<1> HIDE DEF s
<1>4. Sound(graph') /\ Bounded(graph', Stored(graph')) /\ StampsOK(visited')
  BY <1>1, <1>3 DEF Good
<1> QED
  BY <1>4 DEF Inv

LEMMA BuiltIs ==
  ASSUME VamanaConstants, Inv, NEW batch \in Seq(Points)
  PROVE  Good(Built(batch))
<1> DEFINE b == [g |-> graph, v |-> visited]
           i == FoldLeft(Inserted, b, batch)
           p == FoldLeft(RefinePass, i, UpTo(RefinePasses))
           h == Recentered(p.g)
           e == Built(batch)
<1>1. e = [p EXCEPT !.g = h]
  BY DEF Built
<1>2. Good(b)
  BY InvGood
<1> HIDE DEF b, e
<1>3. Good(i)
  BY <1>2, AllInsertedIs
<1> HIDE DEF i
<1>4. UpTo(RefinePasses) \in Seq(Nat)
  <2>1. RefinePasses \in Nat
    BY DEF VamanaConstants
  <2> QED
    BY <2>1, UpToIs
<1>5. Good(p)
  BY <1>3, <1>4, AllPassedIs
<1> HIDE DEF p
<1>6. p = [g |-> p.g, v |-> p.v] /\ Sound(p.g) /\ Bounded(p.g, Stored(p.g)) /\ StampsOK(p.v)
  BY <1>5 DEF Good
<1>7. Sound(h) /\ Bounded(h, Stored(h))
  BY <1>6, RecenteredIs DEF Bounded
<1> HIDE DEF h
<1>8. e = [g |-> h, v |-> p.v]
  BY <1>1, <1>6
<1>9. Good(e)
  BY <1>6, <1>7, <1>8, GoodIs
<1> QED
  BY <1>9 DEF e

(* Other seeds are drawn.                                                  *)
LEMMA SeededIs ==
  ASSUME VamanaConstants, NEW g, Sound(g), Bounded(g, Stored(g)),
         NEW seeds \in Draws(Len(g.store)), NEW h, h = [g EXCEPT !.seeds = seeds]
  PROVE  Sound(h) /\ Bounded(h, Stored(h))
<1>1. Stored(g) = 1 .. Len(g.store) /\ Len(g.store) \in Nat /\ Stored(g) \in SUBSET Nat
  BY NodesAre
<1>2. seeds \in Seq(Stored(g)) /\ seeds \in Seq(Nat)
  <2> DEFINE n == Len(g.store)
             k == Smaller(n, SeedCount)
  <2>1. k \in Nat
    BY <1>1 DEF Smaller, VamanaConstants
  <2>2. seeds \in [1 .. k -> Stored(g)]
    BY <1>1 DEF Draws
  <2> HIDE DEF k, n
  <2>3. seeds \in Seq(Stored(g))
    BY <2>1, <2>2
  <2> QED
    BY <2>3, <1>1
<1>3. /\ g = [store |-> g.store, links |-> g.links, entry |-> g.entry, last |-> g.last,
              seeds |-> g.seeds]
      /\ g.store \in Seq(Points) /\ g.links \in Seq(Seq(Nat)) /\ g.entry \in Nat /\ g.last \in Nat
  BY DEF Sound, Graphs
<1>4. h = [store |-> g.store, links |-> g.links, entry |-> g.entry, last |-> g.last,
           seeds |-> seeds]
  BY <1>3
<1>5. /\ h \in Graphs /\ h.store = g.store /\ h.links = g.links /\ h.entry = g.entry
      /\ h.last = g.last /\ h.seeds = seeds
  BY <1>2, <1>3, <1>4 DEF Graphs
<1>6. Stored(h) = Stored(g)
  BY <1>5 DEF Stored
<1> QED
  BY <1>2, <1>5, <1>6 DEF Sound, List, Bounded

LEMMA BuildInv ==
  ASSUME VamanaConstants, Inv, NEW batch \in SeqOf(Points, MaxBatch), Build(batch)
  PROVE  Inv'
<1> DEFINE s == Built(batch)
<1>1. batch \in Seq(Points)
  BY DEF SeqOf, VamanaConstants
<1>2. Good(s)
  BY <1>1, BuiltIs
<1>3. /\ \E seeds \in Draws(Len(s.g.store)) : graph' = [s.g EXCEPT !.seeds = seeds]
      /\ visited' = s.v
  BY DEF Build
<1> HIDE DEF s
<1>4. Sound(s.g) /\ Bounded(s.g, Stored(s.g)) /\ StampsOK(s.v)
  BY <1>2 DEF Good
<1>5. Sound(graph') /\ Bounded(graph', Stored(graph'))
  BY <1>3, <1>4, SeededIs
<1>6. StampsOK(visited')
  BY <1>3, <1>4
<1> QED
  BY <1>5, <1>6 DEF Inv

(* A search of the index, for up to l results.                             *)
LEMMA FoundIs ==
  ASSUME VamanaConstants, Inv, NEW q \in Points, NEW l \in Nat \ {0}, graph.store # <<>>
  PROVE  /\ Starts \in Seq(Stored(graph)) /\ graph.entry \in Range(Starts)
         /\ Searched(graph, visited, Far(graph, q), Starts \o graph.seeds, l, Found(q, l))
<1> DEFINE N == Stored(graph)
<1>1. Sound(graph) /\ StampsOK(visited) /\ q \in Int
  BY DEF Inv, VamanaConstants
<1>2. graph.entry \in N /\ graph.seeds \in Seq(N)
  <2>1. Stored(graph) = 1 .. Len(graph.store) /\ Len(graph.store) \in Nat
    BY <1>1, NodesAre
  <2>2. Len(graph.store) # 0
    BY <1>1, EmptySeq DEF Sound, Graphs
  <2>3. 1 \in Stored(graph)
    BY <2>1, <2>2
  <2> QED
    BY <1>1, <2>3 DEF Sound
<1>3. <<graph.entry>> \in Seq(N) /\ Range(<<graph.entry>>) = {graph.entry}
  BY <1>2 DEF Range
<1> HIDE DEF N
<1>4. Starts \in Seq(N) /\ graph.entry \in Range(Starts)
  <2> DEFINE one == <<graph.entry>>
             seeds == graph.seeds
  <2>1. one \in Seq(N) /\ seeds \in Seq(N) /\ graph.entry \in Range(one)
    BY <1>2, <1>3
  <2>2. Starts = one \o seeds
    BY DEF Starts
  <2> HIDE DEF one, seeds
  <2>3. one \o seeds \in Seq(N) /\ Range(one \o seeds) = Range(one) \cup Range(seeds)
    BY <2>1, ConcatIs
  <2> QED
    BY <2>1, <2>2, <2>3
<1>5. Starts \o graph.seeds \in Seq(N)
  BY <1>2, <1>4, ConcatIs
<1> DEFINE starts == Starts \o graph.seeds
<1>6. Found(q, l) = BeamSearch(graph, visited, q, starts, l)
  BY DEF Found
<1> HIDE DEF starts
<1>7. Searched(graph, visited, Far(graph, q), starts, l, Found(q, l))
  BY <1>1, <1>5, <1>6, BeamSearchIs DEF N, starts
<1> QED
  BY <1>4, <1>7 DEF N, starts

LEMMA SearchInv ==
  ASSUME VamanaConstants, Inv, NEW q \in Points, Search(q)
  PROVE  Inv'
<1>1. graph.store # <<>> /\ visited' = Found(q, L).v /\ graph' = graph
  BY DEF Search
<1>2. L \in Nat \ {0}
  BY DEF VamanaConstants
<1>3. StampsOK(visited')
  BY <1>1, <1>2, FoundIs DEF Searched
<1> QED
  BY <1>1, <1>3 DEF Inv

LEMMA NextInv ==
  ASSUME VamanaConstants, Inv, [Next]_vars
  PROVE  Inv'
<1>1. CASE \E x \in Points : Insert(x)
  BY <1>1, InsertInv
<1>2. CASE \E batch \in SeqOf(Points, MaxBatch) : Build(batch)
  BY <1>2, BuildInv
<1>3. CASE \E q \in Points : Search(q)
  BY <1>3, SearchInv
<1>4. CASE UNCHANGED vars
  BY <1>4 DEF vars, Inv
<1> QED
  BY <1>1, <1>2, <1>3, <1>4 DEF Next

-----------------------------------------------------------------------------
(* What the invariant gives.                                               *)

LEMMA InvLinksSound ==
  ASSUME Inv
  PROVE  LinksSound
<1>1. Sound(graph) /\ Bounded(graph, Stored(graph))
  BY DEF Inv
<1>2. graph.entry \in Stored(graph) \cup {0} /\ graph.last \in Stored(graph) \cup {0}
  BY <1>1 DEF Sound
<1>3. ASSUME NEW n \in Stored(graph)
      PROVE  /\ Len(graph.links[n]) <= R /\ IsInjective(graph.links[n])
             /\ Range(graph.links[n]) \subseteq Stored(graph) \ {n}
  <2>1. graph.links[n] \in Seq(Stored(graph) \ {n}) /\ IsInjective(graph.links[n])
    BY <1>1 DEF Sound, List
  <2> QED
    BY <2>1, <1>1 DEF Bounded, Range
<1> QED
  BY <1>2, <1>3 DEF LinksSound

(* No start is closer than the first node found, or the store is empty or  *)
(* the stamps are Stale.                                                   *)
LEMMA InvNoWorse ==
  ASSUME VamanaConstants, Inv
  PROVE  SearchNoWorse
<1> SUFFICES ASSUME graph.store # <<>>, ~Stale(visited),
                    NEW q \in Points, NEW l \in 1 .. 2
             PROVE  LET found == Found(q, l).found
                        d == Far(graph, q)
                    IN  /\ Len(found) \in 1 .. l
                        /\ \A n \in Range(Starts) : d[found[1]] <= d[n]
  BY DEF SearchNoWorse
<1> DEFINE found == Found(q, l).found
           d == Far(graph, q)
           starts == Starts \o graph.seeds
<1>1. l \in Nat \ {0}
  OBVIOUS
<1>2. /\ Starts \in Seq(Stored(graph)) /\ graph.entry \in Range(Starts)
      /\ Searched(graph, visited, d, starts, l, Found(q, l))
  BY <1>1, FoundIs
<1> HIDE DEF d
<1>3. /\ found \in Seq(Stored(graph)) /\ Len(found) <= l
      /\ \A a \in Range(starts) : found # <<>> /\ d[found[1]] <= d[a]
  BY <1>2 DEF Searched
<1>4. Range(Starts) \subseteq Range(starts)
  <2>1. graph.seeds \in Seq(Stored(graph))
    BY DEF Inv, Sound
  <2> QED
    BY <2>1, <1>2, ConcatIs
<1> HIDE DEF found, starts
<1>5. Len(found) \in 1 .. l
  <2>1. found # <<>>
    BY <1>2, <1>3, <1>4
  <2>2. Len(found) \in Nat /\ Len(found) # 0
    BY <2>1, <1>3, EmptySeq
  <2> QED
    BY <2>2, <1>3
<1>6. \A n \in Range(Starts) : d[found[1]] <= d[n]
  BY <1>3, <1>4
<1> QED
  BY <1>5, <1>6 DEF found, d

(* The seeds are named twice, which changes nothing: see FirstAgain.       *)
LEMMA InvReaches ==
  ASSUME VamanaConstants, Inv
  PROVE  SearchReaches
<1> SUFFICES ASSUME graph.store # <<>>, ~Stale(visited), NEW q \in Points
             PROVE  Range(Found(q, Len(graph.store)).found)
                      = Reachable(graph.links, Range(Starts)) \ PassedOver(q)
  BY DEF SearchReaches
<1> DEFINE N == Stored(graph)
           n == Len(graph.store)
           d == Far(graph, q)
           s == Starts
           seeds == graph.seeds
           one == <<graph.entry>>
<1>1. Sound(graph) /\ StampsOK(visited) /\ q \in Int
  BY DEF Inv, VamanaConstants
<1>2. IsFiniteSet(N) /\ Measured(d, N) /\ Cardinality(N) = n /\ n \in Nat \ {0}
  <2>1. N = 1 .. n /\ n \in Nat /\ IsFiniteSet(N) /\ Measured(d, N)
    BY <1>1, NodesAre
  <2>2. n # 0
    BY <1>1, EmptySeq DEF Sound, Graphs
  <2> HIDE DEF N, n, d
  <2> QED
    BY <2>1, <2>2, FS_Interval
<1>3. s \in Seq(N) /\ graph.entry \in Range(s) /\ seeds \in Seq(N)
  BY <1>1, <1>2, FoundIs DEF Sound
<1>4. graph.entry \in N
  BY <1>3 DEF Range
<1>5. s = one \o seeds /\ one \in Seq(N)
  BY <1>4 DEF Starts
<1> HIDE DEF N, n, d, s, seeds, one
<1>6. s \o seeds \in Seq(N) /\ Range(s \o seeds) = Range(s)
  <2>1. Range(s) = Range(one) \cup Range(seeds)
    BY <1>3, <1>5, ConcatIs
  <2> QED
    BY <2>1, <1>3, ConcatIs
<1>7. First(d, s \o seeds) = First(d, s)
  <2>1. Range(seeds) \subseteq Range(s)
    BY <1>3, <1>5, ConcatIs
  <2>2. s # <<>>
    BY <1>3 DEF Range
  <2>3. \A a \in N : d[a] \in Int
    BY <1>2 DEF Measured
  <2> QED
    BY <2>1, <2>2, <2>3, <1>3, FirstAgain
<1>8. Found(q, n) = BeamSearch(graph, visited, q, s \o seeds, n)
  BY DEF Found, s, seeds
<1>9. Range(Found(q, n).found)
        = Reachable(graph.links, Range(s \o seeds)) \ (Range(s \o seeds) \ First(d, s \o seeds))
  <2> DEFINE starts == s \o seeds
  <2>1. starts \in Seq(Stored(graph)) /\ Cardinality(Stored(graph)) <= n
    BY <1>2, <1>6 DEF N
  <2> HIDE DEF starts
  <2>2. Reaches(graph, visited, q, starts, n)
    <3>1. n \in Nat \ {0} /\ Sound(graph) /\ StampsOK(visited) /\ q \in Int /\ ~Stale(visited)
      BY <1>1, <1>2
    <3> QED
      BY <2>1, <3>1, WideSearchIs
  <2> QED
    BY <2>2, <1>8 DEF Reaches, starts, d
<1>10. Range(Found(q, n).found) = Reachable(graph.links, Range(s)) \ (Range(s) \ First(d, s))
  BY <1>6, <1>7, <1>9
<1> QED
  BY <1>10 DEF PassedOver, s, d, n

=============================================================================
