-------------------------- MODULE RetrievalProofs --------------------------
(***************************************************************************)
(* What recall finds, for any texts, keywords, levels and distances. First *)
(* what an insertion makes of the index, fold by fold; then what a recall  *)
(* considers, whatever index, tail and postings still hold of records that *)
(* were closed, archived or deleted; then what the operations keep of the  *)
(* index, as an inductive invariant, and what follows from it; and last    *)
(* how the hits that are chosen fill the budget.                           *)
(***************************************************************************)
EXTENDS Retrieval, SearchProofs

(* A choice of up to k elements has none of another set.                   *)
LEMMA SomeAmong ==
  ASSUME NEW k, NEW S, NEW T \in Some(k, S)
  PROVE  T \subseteq S
BY DEF Some, kSubset

-----------------------------------------------------------------------------
(* The index.                                                              *)

(* As many sketches as nodes, which give a distance between any two.       *)
Sketched(g) ==
    "sketches" \in DOMAIN g /\ g.sketches \in Seq(Sketches) /\ Len(g.sketches) = Len(g.links)

LEMMA AroundIs ==
  ASSUME NEW g, WellLinked(g), Sketched(g)
  PROVE  /\ \A q \in Sketches : Measured(Distances(g, q), Nodes(g))
         /\ \A n \in Nodes(g) : g.sketches[n] \in Sketches /\ Measured(Around(g, n), Nodes(g))
<1>1. Nodes(g) = 1 .. Len(g.links) /\ Len(g.links) \in Nat /\ Nodes(g) \in SUBSET Int
  BY LevelsAre
<1>2. \A n \in Nodes(g) : g.sketches[n] \in Sketches
  BY <1>1 DEF Sketched
<1>3. ASSUME NEW q \in Sketches PROVE Measured(Distances(g, q), Nodes(g))
  <2>1. \A n \in Nodes(g) : Distances(g, q)[n] = Distance[q][g.sketches[n]]
    BY DEF Distances
  <2>2. \A p \in Sketches : Distance[q][p] \in Nat
    BY IndexAssumption
  <2> QED
    BY <1>1, <1>2, <2>1, <2>2 DEF Measured
<1> QED
  BY <1>2, <1>3 DEF Around

(* Only the links differ, so that the distances are the same.              *)
LEMMA SketchedStill ==
  ASSUME NEW g, NEW h, WellLinked(g), WellLinked(h), Sketched(g), SameNodes(g, h), OnlyLinks(g, h)
  PROVE  Sketched(h)
<1>1. Len(g.links) \in Nat /\ Len(h.links) \in Nat /\ 1 .. Len(g.links) = 1 .. Len(h.links)
  BY LevelsAre DEF SameNodes
<1>2. Len(g.links) = Len(h.links)
  BY <1>1
<1>3. h.sketches = g.sketches /\ DOMAIN h = DOMAIN g
  BY DEF OnlyLinks, Sketched
<1> QED
  BY <1>2, <1>3 DEF Sketched

(* What is selected: of the candidates, none twice, no more than the cap,  *)
(* and something when there is a candidate.                                *)
Selected(s, C, cap) ==
    /\ s \in Seq(C) /\ IsInjective(s) /\ Len(s) <= cap
    /\ C # {} => s # <<>>

LEMMA SelectIs ==
  ASSUME NEW g, WellLinked(g), Sketched(g), NEW new \in Nodes(g),
         NEW cands \in SUBSET Nodes(g), NEW cap \in Nat \ {0}
  PROVE  Selected(GreedySelect(g, new, cands, cap), cands \ {new}, cap)
<1> DEFINE C == cands \ {new}
           d == Around(g, new)
           s == InOrder(d, C)
           n == Len(s)
           op(u, c) == IF Len(u) < cap /\ \A k \in DOMAIN u : Around(g, u[k])[c] > d[c]
                       THEN Append(u, c) ELSE u
           t == FoldLeft(op, <<>>, s)
           Steps(f) == f = [r \in SUBSET DOMAIN s |->
                          IF r = {} THEN <<>> ELSE op(f[r \ {Max(r)}], s[Max(r)])]
           Of(r) == {s[i] : i \in r}
           V == [r \in SUBSET (1 .. n) |->
                   {u \in Seq(C) : Len(u) <= cap /\ IsInjective(u) /\ Range(u) \subseteq Of(r)}]
           G == [p \in (1 .. n) \X Seq(C) |-> op(p[2], s[p[1]])]
<1>1. IsFiniteSet(C) /\ Measured(d, C)
  <2>1. Measured(d, Nodes(g)) /\ IsFiniteSet(Nodes(g))
    BY AroundIs, LevelsAre
  <2>2. C \subseteq Nodes(g)
    OBVIOUS
  <2> QED
    BY <2>1, <2>2, FS_Subset DEF Measured
<1> HIDE DEF C, d
<1>2. s \in Seq(C) /\ IsInjective(s) /\ Range(s) = C
  BY <1>1, InOrderIs
<1> HIDE DEF s
<1>3. n \in Nat /\ DOMAIN s = 1 .. n /\ \A k \in 1 .. n : s[k] \in C
  BY <1>2
<1> HIDE DEF op
<1>4. ASSUME NEW r \in SUBSET (1 .. n), r # {}, NEW u \in V[r \ {Max(r)}]
      PROVE  op(u, s[Max(r)]) \in V[r]
  <2>1. Max(r) \in r /\ Max(r) \in 1 .. n /\ r \ {Max(r)} \in SUBSET (1 .. n)
    BY <1>3, <1>4, Lasts
  <2> DEFINE x == s[Max(r)]
             q == r \ {Max(r)}
  <2>2. x \in C /\ x \notin Of(q) /\ Of(r) = Of(q) \cup {x}
    <3>1. x \in C
      BY <2>1, <1>3
    <3>2. x \notin Of(q)
      BY <2>1, <1>2, <1>3 DEF IsInjective
    <3>3. Of(r) = Of(q) \cup {x}
      BY <2>1
    <3> QED
      BY <3>1, <3>2, <3>3
  <2>3. u \in Seq(C) /\ Len(u) <= cap /\ IsInjective(u) /\ Range(u) \subseteq Of(q)
    BY <2>1
  <2> HIDE DEF x, q, Of
  <2>4. /\ Append(u, x) \in Seq(C) /\ Len(Append(u, x)) = Len(u) + 1
        /\ Range(Append(u, x)) = Range(u) \cup {x} /\ IsInjective(Append(u, x))
    BY <2>2, <2>3, AppendIs
  <2>5. op(u, x) = u \/ (Len(u) < cap /\ op(u, x) = Append(u, x))
    BY DEF op
  <2>6. Len(u) \in Nat
    BY <2>3
  <2>7. /\ op(u, x) \in Seq(C) /\ Len(op(u, x)) <= cap /\ IsInjective(op(u, x))
        /\ Range(op(u, x)) \subseteq Of(r)
    <3>1. CASE op(u, x) = u
      BY <3>1, <2>2, <2>3
    <3>2. CASE Len(u) < cap /\ op(u, x) = Append(u, x)
      <4>1. Len(Append(u, x)) <= cap
        BY <3>2, <2>4, <2>6
      <4>2. Range(Append(u, x)) \subseteq Of(r)
        BY <2>2, <2>3, <2>4
      <4> QED
        BY <3>2, <4>1, <4>2, <2>4
    <3> QED
      BY <3>1, <3>2, <2>5
  <2> QED
    BY <2>7 DEF x
<1>5. <<>> \in V[{}]
  <2>1. IsInjective(<<>>) /\ Range(<<>>) = {} /\ {} \in SUBSET (1 .. n)
    BY DEF IsInjective, Range
  <2>2. <<>> \in Seq(C) /\ Len(<<>>) <= cap
    OBVIOUS
  <2> QED
    BY <2>1, <2>2
<1>6. \A r \in SUBSET (1 .. n) : V[r] \subseteq Seq(C)
  OBVIOUS
<1> HIDE DEF n, V
<1>7. \A k \in 1 .. n, u \in Seq(C) : G[<<k, u>>] = op(u, s[k])
  OBVIOUS
<1> HIDE DEF G
<1>8. \E f : Steps(f)
  <2>1. \A r \in SUBSET (1 .. n) : r # {} => /\ Max(r) \in 1 .. n /\ r \ {Max(r)} \in SUBSET (1 .. n)
    BY <1>3, Lasts
  <2>2. \A r \in SUBSET (1 .. n) : r # {} => \A u \in V[r \ {Max(r)}] :
            /\ G[<<Max(r), u>>] = op(u, s[Max(r)]) /\ G[<<Max(r), u>>] \in V[r]
    BY <2>1, <1>4, <1>6, <1>7
  <2>3. PICK f : Solution(f, n, V, <<>>, G)
    BY <2>2, <1>3, <1>5, FamilyExists
  <2>4. f = [r \in SUBSET (1 .. n) |->
               IF r = {} THEN <<>> ELSE op(f[r \ {Max(r)}], s[Max(r)])]
    BY <2>2, <2>3 DEF Solution
  <2> QED
    BY <2>4, <1>3
<1>9. PICK f : Steps(f) /\ t = f[DOMAIN s]
  <2>1. \E f : Steps(f) /\ t = f[DOMAIN s]
    BY <1>8 DEF FoldLeft, MapThenFoldSet, op
  <2> QED
    BY <2>1
<1> HIDE DEF t
<1>10. t \in V[1 .. n]
  <2>1. /\ f[{}] = <<>>
        /\ \A r \in SUBSET (1 .. n) : r # {} => f[r] = op(f[r \ {Max(r)}], s[Max(r)])
    <3>1. f = [r \in SUBSET (1 .. n) |->
                 IF r = {} THEN <<>> ELSE op(f[r \ {Max(r)}], s[Max(r)])]
      BY <1>9, <1>3
    <3>2. {} \in SUBSET (1 .. n)
      OBVIOUS
    <3> QED
      BY <3>1, <3>2, Zenon
  <2>2. n \in Nat /\ f[{}] \in V[{}]
    BY <2>1, <1>3, <1>5
  <2>3. \A r \in SUBSET (1 .. n) :
           r # {} /\ f[r \ {Max(r)}] \in V[r \ {Max(r)}] => f[r] \in V[r]
    BY <2>1, <1>4
  <2>4. f[1 .. n] \in V[1 .. n]
    BY <2>2, <2>3, FamilyEnds
  <2> QED
    BY <2>4, <1>3, <1>9
<1>11. t \in Seq(C) /\ Len(t) <= cap /\ IsInjective(t)
  BY <1>10, <1>3 DEF V
<1> DEFINE e == GreedySelect(g, new, cands, cap)
<1>12. e = IF t = <<>> THEN FirstOf(s, 1) ELSE t
  BY DEF GreedySelect, t, op, s, d, C
<1>13. CASE t = <<>> /\ s # <<>>
  <2>1. n \in Nat \ {0}
    BY <1>2, <1>3, <1>13, EmptySeq DEF n
  <2>2. e = SubSeq(s, 1, 1)
    BY <2>1, <1>12, <1>13 DEF FirstOf, Smaller, n
  <2> HIDE DEF e
  <2>3. e \in Seq(C) /\ Len(e) = 1
    BY <2>1, <2>2, <1>2, <1>3 DEF n
  <2>4. e # <<>> /\ IsInjective(e)
    BY <2>3 DEF IsInjective
  <2> QED
    BY <2>3, <2>4 DEF Selected, e, C
<1>14. CASE t = <<>> /\ s = <<>>
  <2>1. C = {}
    BY <1>2, <1>14 DEF Range
  <2>2. e = <<>>
    BY <1>12, <1>14 DEF FirstOf, Smaller
  <2>3. IsInjective(<<>>)
    BY DEF IsInjective
  <2> QED
    BY <2>1, <2>2, <2>3 DEF Selected, C
<1>15. CASE t # <<>>
  BY <1>11, <1>12, <1>15 DEF Selected, C
<1> QED
  BY <1>13, <1>14, <1>15

(* A node on its way down has joined the layers above lc: none of its links*)
(* is on lc or below, and the layer is entered at another node of it.      *)
OnWay(g)  == [g : Relinkings(g), ep : Nat, ef : Nat \ {0}, ended : BOOLEAN]

Joining(g, new, lc, s) ==
    /\ s \in OnWay(g)
    /\ WellLinked(s.g) /\ SameNodes(g, s.g) /\ OnlyLinks(g, s.g)
    /\ NotYet(s.g, new, lc)
    /\ s.ep \in OnLayer(g, lc) \ {new}

(* All of s link back.                                                     *)
AllBack(h, new, lc, s) ==
    FoldLeft(LAMBDA u, c : LinkBack(u, Around(u, c), c, new, lc), h, s)

LEMMA LinkBackAll ==
  ASSUME NEW g, WellLinked(g), Sketched(g), NEW lc \in Nat, NEW new \in OnLayer(g, lc),
         NEW s \in Seq(OnLayer(g, lc) \ {new}), IsInjective(s),
         NEW h, LinkedBack(g, new, lc, {}, h)
  PROVE  LinkedBack(g, new, lc, Range(s), AllBack(h, new, lc, s))
<1> DEFINE n == Len(s)
           U == Relinkings(g)
           op(u, c) == LinkBack(u, Around(u, c), c, new, lc)
           t == FoldLeft(op, h, s)
           Steps(f) == f = [r \in SUBSET DOMAIN s |->
                          IF r = {} THEN h ELSE op(f[r \ {Max(r)}], s[Max(r)])]
           Of(r) == {s[i] : i \in r}
           V == [r \in SUBSET (1 .. n) |-> {u \in U : LinkedBack(g, new, lc, Of(r), u)}]
           G == [p \in (1 .. n) \X U |-> op(p[2], s[p[1]])]
<1>1. n \in Nat /\ DOMAIN s = 1 .. n /\ \A k \in 1 .. n : s[k] \in OnLayer(g, lc) \ {new}
  OBVIOUS
<1>2. ASSUME NEW u, NEW done, LinkedBack(g, new, lc, done, u) PROVE u \in U
  BY <1>2, GraphsAre DEF LinkedBack
<1>3. ASSUME NEW u, NEW done, LinkedBack(g, new, lc, done, u),
             NEW c \in OnLayer(g, lc) \ {new}, c \notin done
      PROVE  LinkedBack(g, new, lc, done \cup {c}, op(u, c))
  <2>1. WellLinked(u) /\ SameNodes(g, u) /\ OnlyLinks(g, u)
    BY <1>3 DEF LinkedBack
  <2>2. Sketched(u) /\ c \in Nodes(u) /\ Nodes(u) = Nodes(g)
    BY <2>1, SketchedStill DEF SameNodes, OnLayer
  <2>3. \A x \in Nodes(g) : Around(u, c)[x] \in Int
    BY <2>1, <2>2, AroundIs DEF Measured
  <2> QED
    BY <1>3, <2>3, LinkBackKeeps
<1> HIDE DEF op, U
<1>4. ASSUME NEW r \in SUBSET (1 .. n), r # {}, NEW u \in V[r \ {Max(r)}]
      PROVE  op(u, s[Max(r)]) \in V[r]
  <2>1. Max(r) \in r /\ Max(r) \in 1 .. n /\ r \ {Max(r)} \in SUBSET (1 .. n)
    BY <1>1, <1>4, Lasts
  <2> DEFINE x == s[Max(r)]
             q == r \ {Max(r)}
  <2>2. x \in OnLayer(g, lc) \ {new} /\ x \notin Of(q) /\ Of(r) = Of(q) \cup {x}
    <3>1. x \in OnLayer(g, lc) \ {new}
      BY <2>1, <1>1
    <3>2. x \notin Of(q)
      BY <2>1, <1>1 DEF IsInjective
    <3>3. Of(r) = Of(q) \cup {x}
      BY <2>1
    <3> QED
      BY <3>1, <3>2, <3>3
  <2>3. LinkedBack(g, new, lc, Of(q), u)
    BY <2>1
  <2> HIDE DEF x, q, Of
  <2>4. LinkedBack(g, new, lc, Of(r), op(u, x))
    BY <2>2, <2>3, <1>3
  <2> QED
    BY <2>4, <1>2 DEF x
<1>5. h \in V[{}]
  <2>1. {} \in SUBSET (1 .. n) /\ Of({}) = {} /\ h \in U
    BY <1>2
  <2> QED
    BY <2>1
<1>6. \A r \in SUBSET (1 .. n) : V[r] \subseteq U
  OBVIOUS
<1> HIDE DEF n, V
<1>7. \A k \in 1 .. n, u \in U : G[<<k, u>>] = op(u, s[k])
  OBVIOUS
<1> HIDE DEF G
<1>8. \E f : Steps(f)
  <2>1. \A r \in SUBSET (1 .. n) : r # {} => /\ Max(r) \in 1 .. n /\ r \ {Max(r)} \in SUBSET (1 .. n)
    BY <1>1, Lasts
  <2>2. \A r \in SUBSET (1 .. n) : r # {} => \A u \in V[r \ {Max(r)}] :
            /\ G[<<Max(r), u>>] = op(u, s[Max(r)]) /\ G[<<Max(r), u>>] \in V[r]
    BY <2>1, <1>4, <1>6, <1>7
  <2>3. PICK f : Solution(f, n, V, h, G)
    BY <2>2, <1>1, <1>5, FamilyExists
  <2>4. f = [r \in SUBSET (1 .. n) |->
               IF r = {} THEN h ELSE op(f[r \ {Max(r)}], s[Max(r)])]
    BY <2>2, <2>3 DEF Solution
  <2> QED
    BY <2>4, <1>1
<1>9. PICK f : Steps(f) /\ t = f[DOMAIN s]
  <2>1. \E f : Steps(f) /\ t = f[DOMAIN s]
    BY <1>8 DEF FoldLeft, MapThenFoldSet, op
  <2> QED
    BY <2>1
<1> HIDE DEF t
<1>10. t \in V[1 .. n]
  <2>1. /\ f[{}] = h
        /\ \A r \in SUBSET (1 .. n) : r # {} => f[r] = op(f[r \ {Max(r)}], s[Max(r)])
    <3>1. f = [r \in SUBSET (1 .. n) |->
                 IF r = {} THEN h ELSE op(f[r \ {Max(r)}], s[Max(r)])]
      BY <1>9, <1>1
    <3>2. {} \in SUBSET (1 .. n)
      OBVIOUS
    <3> QED
      BY <3>1, <3>2, Zenon
  <2>2. n \in Nat /\ f[{}] \in V[{}]
    BY <2>1, <1>1, <1>5
  <2>3. \A r \in SUBSET (1 .. n) :
           r # {} /\ f[r \ {Max(r)}] \in V[r \ {Max(r)}] => f[r] \in V[r]
    BY <2>1, <1>4
  <2>4. f[1 .. n] \in V[1 .. n]
    BY <2>2, <2>3, FamilyEnds
  <2> QED
    BY <2>4, <1>1, <1>9
<1>11. Of(1 .. n) = Range(s)
  BY <1>1 DEF Range
<1>12. LinkedBack(g, new, lc, Range(s), t)
  BY <1>10, <1>11 DEF V
<1> QED
  BY <1>12 DEF t, op, AllBack

LEMMA JoinLayerIs ==
  ASSUME NEW g, WellLinked(g), Sketched(g), NEW lc \in Nat, NEW new \in OnLayer(g, lc),
         NEW s, Joining(g, new, lc, s)
  PROVE  Joining(g, new, lc - 1, JoinLayer(s, new, lc))
<1> DEFINE h == s.g
           cands == SearchLayer(h, h.sketches[new], s.ep, lc, s.ef)
           selected == GreedySelect(h, new, cands, CapOf(lc))
           h0 == [h EXCEPT !.links[new][lc + 1] = selected]
           h1 == AllBack(h0, new, lc, selected)
           t == JoinLayer(s, new, lc)
<1>1. /\ WellLinked(h) /\ SameNodes(g, h) /\ OnlyLinks(g, h) /\ NotYet(h, new, lc)
      /\ s.ep \in OnLayer(g, lc) \ {new} /\ s.ef \in Nat \ {0} /\ s.ep \in Nat
      /\ s = [g |-> s.g, ep |-> s.ep, ef |-> s.ef, ended |-> s.ended] /\ s.ended \in BOOLEAN
      /\ h \in Relinkings(g)
  BY DEF Joining, OnWay
<1>2. OnLayer(g, lc) \ {new} \subseteq OnLayer(g, lc - 1) \ {new} /\ OnLayer(g, lc) \subseteq Nat
  BY LevelsAre DEF OnLayer
<1>3. t = IF s.ended \/ selected = <<>> THEN [s EXCEPT !.ended = TRUE]
          ELSE [g |-> h1, ep |-> selected[1], ef |-> 2 * s.ef, ended |-> FALSE]
  BY DEF JoinLayer, AllBack
<1> HIDE DEF t, h1
<1>4. CASE s.ended \/ selected = <<>>
  <2>1. t = [g |-> s.g, ep |-> s.ep, ef |-> s.ef, ended |-> TRUE]
    BY <1>1, <1>3, <1>4
  <2>2. NotYet(h, new, lc - 1)
    <3>1. \A x \in 0 .. lc - 1 : x \in 0 .. lc
      OBVIOUS
    <3> QED
      BY <3>1, <1>1 DEF NotYet
  <2> HIDE DEF selected
  <2>3. t \in OnWay(g) /\ t.g = h /\ t.ep \in OnLayer(g, lc - 1) \ {new}
    BY <2>1, <1>1, <1>2 DEF OnWay
  <2> QED
    BY <2>2, <2>3, <1>1 DEF Joining, t
<1>5. CASE ~ (s.ended \/ selected = <<>>)
  <2>1. /\ OnLayer(h, lc) = OnLayer(g, lc) /\ Nodes(h) = Nodes(g) /\ Sketched(h)
        /\ new \in Nodes(h) /\ new \in Nat /\ "links" \in DOMAIN h
    BY <1>1, SameLayers, SketchedStill, LevelsAre DEF OnLayer, SameNodes, OnlyLinks
  <2>2. cands \subseteq OnLayer(h, lc) \ {new}
    <3> DEFINE d == Distances(h, h.sketches[new])
    <3>1. Measured(d, Nodes(h))
      BY <2>1, <1>1, AroundIs
    <3> HIDE DEF d, h
    <3> DEFINE ep == s.ep
               ef == s.ef
    <3>2. /\ ep \in OnLayer(h, lc) \ {new} /\ ef \in Nat \ {0} /\ new \in Nat /\ lc <= lc
          /\ WellLinked(h) /\ NotYet(h, new, lc)
      BY <2>1, <1>1
    <3> HIDE DEF ep, ef
    <3>3. FoundOn(d, OnLayer(h, lc) \ {new}, ep, Beam(d, Layer(h, lc), From(ep), ef).results)
      BY <3>1, <3>2, BeamOnLayer
    <3> QED
      BY <3>3 DEF FoundOn, SearchLayer, d, ep, ef
  <2> HIDE DEF cands
  <2>3. Selected(selected, cands \ {new}, CapOf(lc))
    <3>1. CapOf(lc) \in Nat \ {0}
      BY CapsAssumption DEF CapOf
    <3>2. cands \in SUBSET Nodes(h)
      BY <2>2 DEF OnLayer
    <3> QED
      BY <3>1, <3>2, <2>1, <1>1, SelectIs
  <2> HIDE DEF selected, h
  <2>4. selected \in Seq(OnLayer(h, lc) \ {new})
    BY <2>2, <2>3 DEF Selected
  <2>5. IsInjective(selected) /\ Len(selected) <= CapOf(lc)
    BY <2>3 DEF Selected
  <2>6. LinkedBack(h, new, lc, {}, h0)
    BY <2>1, <2>4, <2>5, <1>1, ListSet
  <2> HIDE DEF h0
  <2>7. LinkedBack(h, new, lc, Range(selected), h1)
    BY <2>1, <2>4, <2>5, <2>6, <1>1, LinkBackAll DEF h1
  <2>8. WellLinked(h1) /\ SameNodes(g, h1) /\ OnlyLinks(g, h1)
    <3>1. WellLinked(h1) /\ SameNodes(h, h1) /\ OnlyLinks(h, h1)
      BY <2>7 DEF LinkedBack
    <3> QED
      BY <3>1, <1>1, OnlyLinksAgain DEF SameNodes
  <2>9. NotYet(h1, new, lc - 1)
    BY <2>7, JoinedAbove
  <2>10. selected[1] \in OnLayer(g, lc) \ {new}
    BY <2>1, <2>4, <1>5, EmptySeq
  <2>11. t = [g |-> h1, ep |-> selected[1], ef |-> 2 * s.ef, ended |-> FALSE]
    BY <1>3, <1>5
  <2>12. t \in OnWay(g)
    <3>1. h1 \in Relinkings(g)
      BY <2>8, GraphsAre
    <3>2. 2 * s.ef \in Nat \ {0} /\ selected[1] \in Nat
      BY <1>1, <1>2, <2>10
    <3> QED
      BY <3>1, <3>2, <2>11 DEF OnWay
  <2>13. t.g = h1 /\ t.ep = selected[1]
    BY <2>11
  <2>14. Joining(g, new, lc - 1, t)
    BY <2>8, <2>9, <2>10, <2>12, <2>13, <1>2 DEF Joining
  <2> QED
    BY <2>14 DEF t
<1> QED
  BY <1>4, <1>5

LEMMA JoiningBelow ==
  ASSUME NEW g, NEW new, NEW a \in Int, NEW b \in Int, b <= a, NEW s, Joining(g, new, a, s),
         WellLinked(g)
  PROVE  Joining(g, new, b, s)
<1>1. \A n \in Nodes(g) : Level(g, n) \in Nat
  BY LevelsAre
<1>2. OnLayer(g, a) \subseteq OnLayer(g, b)
  BY <1>1 DEF OnLayer
<1>3. \A x \in 0 .. b : x \in 0 .. a
  OBVIOUS
<1>4. NotYet(s.g, new, b)
  BY <1>3 DEF NotYet, Joining
<1> QED
  BY <1>2, <1>4 DEF Joining

(* A node joins the layers from top to the lowest.                         *)
AllLayers(start, new, top) ==
    FoldLeft(LAMBDA s, lc : JoinLayer(s, new, lc), start, DownFrom(top, 0))

LEMMA AllLayersAre ==
  ASSUME NEW g, WellLinked(g), Sketched(g), NEW top \in Nat, NEW new \in OnLayer(g, top),
         NEW start, Joining(g, new, top, start)
  PROVE  Joining(g, new, -1, AllLayers(start, new, top))
<1> DEFINE s == DownFrom(top, 0)
           n == Len(s)
           U == OnWay(g)
           op(u, lc) == JoinLayer(u, new, lc)
           t == FoldLeft(op, start, s)
           Steps(f) == f = [r \in SUBSET DOMAIN s |->
                          IF r = {} THEN start ELSE op(f[r \ {Max(r)}], s[Max(r)])]
           Past(r) == IF r = {} THEN 0 ELSE Max(r)
           V == [r \in SUBSET (1 .. n) |-> {u \in U : Joining(g, new, top - Past(r), u)}]
           G == [p \in (1 .. n) \X U |-> op(p[2], s[p[1]])]
<1>1. n \in Nat /\ DOMAIN s = 1 .. n /\ n = top + 1 /\ \A k \in 1 .. n : s[k] = top - k + 1
  BY DEF DownFrom
<1>2. ASSUME NEW lc, NEW u, Joining(g, new, lc, u) PROVE u \in U
  BY <1>2 DEF Joining
<1>3. ASSUME NEW lc \in 0 .. top, NEW u, Joining(g, new, lc, u)
      PROVE  Joining(g, new, lc - 1, op(u, lc))
  <2>1. new \in OnLayer(g, lc) /\ lc \in Nat
    BY LevelsAre DEF OnLayer
  <2> QED
    BY <2>1, <1>3, JoinLayerIs
<1> HIDE DEF op, U, s
<1>4. ASSUME NEW r \in SUBSET (1 .. n), r # {}, NEW u \in V[r \ {Max(r)}]
      PROVE  op(u, s[Max(r)]) \in V[r]
  <2> DEFINE k == Max(r)
             q == r \ {k}
  <2>1. k \in r /\ k \in 1 .. n /\ q \in SUBSET (1 .. n) /\ \A y \in r : k >= y
    BY <1>1, <1>4, Lasts
  <2>2. Past(q) \in 0 .. k - 1
    <3>1. CASE q = {}
      BY <3>1, <2>1
    <3>2. CASE q # {}
      <4>1. Max(q) \in q /\ Max(q) \in 1 .. n
        BY <3>2, <2>1, <1>1, Lasts
      <4>2. Max(q) \in r /\ Max(q) # k /\ Max(q) <= k
        BY <4>1, <2>1
      <4> QED
        BY <3>2, <4>1, <4>2, <2>1
    <3> QED
      BY <3>1, <3>2
  <2>3. Joining(g, new, top - Past(q), u)
    BY <2>1
  <2>4. s[k] = top - k + 1 /\ s[k] \in 0 .. top /\ s[k] - 1 = top - k
    BY <2>1, <1>1
  <2>5. Past(r) = k
    BY <1>4
  <2> HIDE DEF k, q, Past
  <2>6. Joining(g, new, s[k], u)
    <3>1. s[k] <= top - Past(q) /\ s[k] \in Int /\ top - Past(q) \in Int
      BY <2>1, <2>2, <2>4
    <3> QED
      BY <3>1, <2>3, JoiningBelow
  <2>7. Joining(g, new, s[k] - 1, op(u, s[k]))
    BY <2>4, <2>6, <1>3
  <2>8. Joining(g, new, top - Past(r), op(u, s[k]))
    BY <2>4, <2>5, <2>7
  <2> QED
    BY <2>8, <1>2 DEF k
<1>5. start \in V[{}]
  <2>1. {} \in SUBSET (1 .. n) /\ top - Past({}) = top /\ start \in U
    BY <1>2
  <2> HIDE DEF Past
  <2> QED
    BY <2>1
<1>6. \A r \in SUBSET (1 .. n) : V[r] \subseteq U
  OBVIOUS
<1> HIDE DEF n, V
<1>7. \A k \in 1 .. n, u \in U : G[<<k, u>>] = op(u, s[k])
  OBVIOUS
<1> HIDE DEF G
<1>8. \E f : Steps(f)
  <2>1. \A r \in SUBSET (1 .. n) : r # {} => /\ Max(r) \in 1 .. n /\ r \ {Max(r)} \in SUBSET (1 .. n)
    BY <1>1, Lasts
  <2>2. \A r \in SUBSET (1 .. n) : r # {} => \A u \in V[r \ {Max(r)}] :
            /\ G[<<Max(r), u>>] = op(u, s[Max(r)]) /\ G[<<Max(r), u>>] \in V[r]
    BY <2>1, <1>4, <1>6, <1>7
  <2>3. PICK f : Solution(f, n, V, start, G)
    BY <2>2, <1>1, <1>5, FamilyExists
  <2>4. f = [r \in SUBSET (1 .. n) |->
               IF r = {} THEN start ELSE op(f[r \ {Max(r)}], s[Max(r)])]
    BY <2>2, <2>3 DEF Solution
  <2> QED
    BY <2>4, <1>1
<1>9. PICK f : Steps(f) /\ t = f[DOMAIN s]
  <2>1. \E f : Steps(f) /\ t = f[DOMAIN s]
    BY <1>8 DEF FoldLeft, MapThenFoldSet, op
  <2> QED
    BY <2>1
<1> HIDE DEF t
<1>10. t \in V[1 .. n]
  <2>1. /\ f[{}] = start
        /\ \A r \in SUBSET (1 .. n) : r # {} => f[r] = op(f[r \ {Max(r)}], s[Max(r)])
    <3>1. f = [r \in SUBSET (1 .. n) |->
                 IF r = {} THEN start ELSE op(f[r \ {Max(r)}], s[Max(r)])]
      BY <1>9, <1>1
    <3>2. {} \in SUBSET (1 .. n)
      OBVIOUS
    <3> QED
      BY <3>1, <3>2, Zenon
  <2>2. \A r \in SUBSET (1 .. n) :
           r # {} /\ f[r \ {Max(r)}] \in V[r \ {Max(r)}] => f[r] \in V[r]
    BY <2>1, <1>4
  <2>3. f[{}] \in V[{}] /\ n \in Nat
    BY <2>1, <1>1, <1>5
  <2>4. f[1 .. n] \in V[1 .. n]
    BY <2>2, <2>3, FamilyEnds
  <2> QED
    BY <2>4, <1>1, <1>9
<1>11. top - Past(1 .. n) = -1
  <2>1. n \in Nat \ {0}
    BY <1>1
  <2>2. Max(1 .. n) = n /\ 1 .. n # {}
    BY <2>1, MaxUpTo
  <2> QED
    BY <2>2, <1>1
<1> HIDE DEF Past
<1>12. Joining(g, new, -1, t)
  BY <1>10, <1>11 DEF V
<1> QED
  BY <1>12 DEF t, op, s, AllLayers

-----------------------------------------------------------------------------
(* An index as insertions make it, each node with an id and a sketch.      *)

Built(g, levels) ==
    /\ g \in Indexes(levels)
    /\ Len(g.ids) = Len(g.links) /\ Len(g.sketches) = Len(g.links)
    /\ LinksLevelled(g) /\ LinksBounded(g) /\ EntryOnTop(g)
    /\ Nodes(g) = {} => g.entry = 0

LEMMA NewIndexIs ==
  ASSUME NEW levels
  PROVE  Built(NewIndex(levels), levels) /\ NewIndex(levels).ids = <<>>
<1> DEFINE g == NewIndex(levels)
<1>1. g \in Indexes(levels) /\ g.ids = <<>> /\ g.sketches = <<>> /\ g.links = <<>> /\ g.entry = 0
  BY DEF NewIndex, Indexes
<1> HIDE DEF g
<1>2. Nodes(g) = {}
  BY <1>1 DEF Nodes
<1>3. LinksLevelled(g) /\ LinksBounded(g) /\ EntryOnTop(g)
  BY <1>2 DEF LinksLevelled, LinksBounded, EntryOnTop
<1>4. Built(g, levels)
  BY <1>1, <1>3 DEF Built
<1> QED
  BY <1>1, <1>4 DEF g

LEMMA BuiltIs ==
  ASSUME NEW levels, NEW g, Built(g, levels)
  PROVE  /\ WellLinked(g) /\ Sketched(g)
         /\ g.entry # 0 => /\ g.entry \in Nodes(g) /\ Level(g, g.entry) = g.max_level
                           /\ \A n \in Nodes(g) : Level(g, n) <= g.max_level
BY DEF Built, Indexes, WellLinked, Sketched, EntryOnTop

LEMMA InsertNodeIs ==
  ASSUME NEW levels \in Seq(Nat), NEW g, Built(g, levels), Len(g.links) < Len(levels),
         NEW id \in Nat, NEW sk \in Sketches
  PROVE  /\ Built(InsertNode(g, id, sk), levels)
         /\ InsertNode(g, id, sk).ids = Append(g.ids, id)
<1> DEFINE new == Len(g.ids) + 1
           level == g.levels[new]
           g1 == [WithNode(g, level) EXCEPT !.ids = Append(@, id), !.sketches = Append(@, sk)]
           e == InsertNode(g, id, sk)
<1>1. /\ g.ids \in Seq(Nat) /\ g.sketches \in Seq(Sketches) /\ g.levels = levels
      /\ g.links \in Seq(Seq(Seq(Nat)) \ {<<>>}) /\ g.entry \in Nat /\ g.max_level \in Nat
      /\ Len(g.ids) = Len(g.links) /\ Len(g.sketches) = Len(g.links)
      /\ g = [ids |-> g.ids, sketches |-> g.sketches, links |-> g.links, entry |-> g.entry,
              max_level |-> g.max_level, levels |-> g.levels]
  BY DEF Built, Indexes
<1>2. /\ WellLinked(g) /\ Len(g.links) \in Nat /\ new = Len(g.links) + 1 /\ new \in Nat \ {0}
      /\ level \in Nat
  <2>1. WellLinked(g) /\ Len(g.links) \in Nat
    BY BuiltIs, LevelsAre
  <2>2. new \in 1 .. Len(levels)
    BY <2>1, <1>1
  <2> QED
    BY <2>1, <2>2, <1>1
<1> HIDE DEF level
<1>3. g1 = [ids |-> Append(g.ids, id), sketches |-> Append(g.sketches, sk),
            links |-> Append(g.links, Unlinked(level)), entry |-> g.entry,
            max_level |-> g.max_level, levels |-> g.levels]
  <2> DEFINE i == Append(g.ids, id)
             s == Append(g.sketches, sk)
             l == Append(g.links, Unlinked(level))
  <2>1. WithNode(g, level) = [g EXCEPT !.links = l]
    BY DEF WithNode, Unlinked
  <2> HIDE DEF l
  <2> DEFINE w == WithNode(g, level)
  <2>2. w = [ids |-> g.ids, sketches |-> g.sketches, links |-> l, entry |-> g.entry,
             max_level |-> g.max_level, levels |-> g.levels]
    BY <2>1, <1>1
  <2> HIDE DEF w
  <2>3. w.ids = g.ids /\ w.sketches = g.sketches
    BY <2>2
  <2>4. g1 = [w EXCEPT !.ids = i, !.sketches = s]
    BY <2>3 DEF w
  <2> HIDE DEF i, s, g1
  <2>5. g1 = [ids |-> i, sketches |-> s, links |-> l, entry |-> g.entry,
              max_level |-> g.max_level, levels |-> g.levels]
    BY <2>2, <2>4
  <2> QED
    BY <2>5 DEF l, i, s, g1
<1>4. e = IF g.entry = 0 THEN [g1 EXCEPT !.entry = new, !.max_level = level]
          ELSE Raise(AllLayers([g |-> g1,
                                ep |-> Descend(g1, Around(g1, new), g.max_level, level + 1),
                                ef |-> EfSearch, ended |-> FALSE],
                               new, TopLayer(level, g.max_level)).g, new, level)
  BY DEF InsertNode, level, AllLayers
<1> HIDE DEF g1, e, new
<1>5. /\ g1.ids = Append(g.ids, id) /\ g1.sketches = Append(g.sketches, sk)
      /\ g1.links = Append(g.links, Unlinked(level))
      /\ g1.entry = g.entry /\ g1.max_level = g.max_level /\ g1.levels = levels
      /\ DOMAIN g1 = {"ids", "sketches", "links", "entry", "max_level", "levels"}
  BY <1>1, <1>3
<1>6. WellLinked(g1) /\ NodeAdded(g, g1, level) /\ \A top : NotYet(g1, new, top)
  BY <1>2, <1>5, WithNodeIs
<1>7. /\ Nodes(g1) = Nodes(g) \cup {new} /\ new \notin Nodes(g) /\ Level(g1, new) = level
      /\ \A n \in Nodes(g) : Level(g1, n) = Level(g, n)
  BY <1>2, <1>6 DEF NodeAdded
<1>8. /\ Append(g.ids, id) \in Seq(Nat) /\ Append(g.sketches, sk) \in Seq(Sketches)
      /\ Len(Append(g.ids, id)) = new /\ Len(Append(g.sketches, sk)) = new
  <2>1. /\ Append(g.ids, id) \in Seq(Nat) /\ Len(Append(g.ids, id)) = Len(g.ids) + 1
    BY <1>1, AppendIs
  <2>2. /\ Append(g.sketches, sk) \in Seq(Sketches)
        /\ Len(Append(g.sketches, sk)) = Len(g.sketches) + 1
    BY <1>1, AppendIs
  <2> QED
    BY <2>1, <2>2, <1>1, <1>2
<1>9. Len(g1.links) = new /\ Sketched(g1)
  <2>1. Len(g1.links) = Len(g.links) + 1
    <3> DEFINE x == Unlinked(level)
    <3> HIDE DEF x
    <3> QED
      BY <1>1, <1>5 DEF x
  <2> QED
    BY <2>1, <1>2, <1>5, <1>8 DEF Sketched
<1>10. ASSUME NEW h, h.links \in Seq(Seq(Seq(Nat)) \ {<<>>}),
              h = [ids |-> Append(g.ids, id), sketches |-> Append(g.sketches, sk),
                   links |-> h.links, entry |-> h.entry, max_level |-> h.max_level,
                   levels |-> levels],
              WellLinked(h), EntryOnTop(h), SameNodes(g1, h), h.entry \in Nat, h.max_level \in Nat
       PROVE  Built(h, levels) /\ h.ids = Append(g.ids, id)
  <2> DEFINE i == Append(g.ids, id)
             s == Append(g.sketches, sk)
  <2> HIDE DEF i, s
  <2>1. h.ids = i /\ h.sketches = s
    BY <1>10 DEF i, s
  <2>2. h \in Indexes(levels)
    <3>1. h = [ids |-> i, sketches |-> s, links |-> h.links, entry |-> h.entry,
               max_level |-> h.max_level, levels |-> levels]
      BY <1>10 DEF i, s
    <3>2. i \in Seq(Nat) /\ s \in Seq(Sketches)
      BY <1>8 DEF i, s
    <3> QED
      BY <3>1, <3>2, <1>10 DEF Indexes
  <2>3. Len(h.links) = new
    <3>1. Nodes(h) = 1 .. Len(h.links) /\ Nodes(g1) = 1 .. Len(g1.links) /\ Len(h.links) \in Nat
      BY <1>10, <1>6, LevelsAre
    <3> QED
      BY <3>1, <1>2, <1>9, <1>10 DEF SameNodes
  <2>4. new \in Nodes(h)
    BY <1>7, <1>10 DEF SameNodes
  <2> QED
    BY <2>1, <2>2, <2>3, <2>4, <1>8, <1>10 DEF Built, WellLinked, i, s
<1>11. CASE g.entry = 0
  <2>1. e = [ids |-> Append(g.ids, id), sketches |-> Append(g.sketches, sk),
             links |-> g1.links, entry |-> new, max_level |-> level, levels |-> levels]
    BY <1>1, <1>3, <1>4, <1>5, <1>11
  <2>2. e.links = g1.links /\ e.entry = new /\ e.max_level = level
    BY <2>1
  <2>3. WellLinked(e) /\ SameNodes(g1, e)
    BY <2>2, <1>6, SameLinks
  <2>4. Nodes(g) = {}
    <3>1. 0 \notin Nodes(g)
      BY <1>2, LevelsAre
    <3> QED
      BY <3>1, <1>11 DEF Built, EntryOnTop
  <2>5. EntryOnTop(e)
    <3>1. Nodes(e) = {new} /\ Level(e, new) = level
      BY <2>3, <2>4, <1>7 DEF SameNodes
    <3> QED
      BY <3>1, <2>2, <1>2 DEF EntryOnTop
  <2>6. e.links \in Seq(Seq(Seq(Nat)) \ {<<>>})
    BY <2>3 DEF WellLinked
  <2> QED
    BY <2>1, <2>2, <2>3, <2>5, <2>6, <1>2, <1>10 DEF e
<1>12. CASE g.entry # 0
  <2> DEFINE top == TopLayer(level, g.max_level)
             ep == Descend(g1, Around(g1, new), g.max_level, level + 1)
             start == [g |-> g1, ep |-> ep, ef |-> EfSearch, ended |-> FALSE]
             j == AllLayers(start, new, top)
             h == j.g
  <2>1. top \in Nat /\ top <= level /\ top <= g.max_level
    BY <1>1, <1>2 DEF TopLayer, Smaller
  <2>2. /\ g.entry \in Nodes(g) /\ Level(g, g.entry) = g.max_level
        /\ \A n \in Nodes(g) : Level(g, n) <= g.max_level
    BY <1>12, BuiltIs
  <2>3. ep \in OnLayer(g1, Smaller(g.max_level, level + 1)) \ {new}
    <3> DEFINE d == Around(g1, new)
    <3>1. Measured(d, Nodes(g1))
      BY <1>6, <1>7, <1>9, AroundIs
    <3> HIDE DEF d
    <3>2. g1.entry \in OnLayer(g1, g.max_level) \ {new}
      BY <2>2, <1>1, <1>5, <1>7 DEF OnLayer
    <3>3. g.max_level \in Nat /\ level + 1 \in Nat /\ new \in Nat /\ NotYet(g1, new, g.max_level)
      BY <1>1, <1>2, <1>6
    <3>4. Descend(g1, d, g.max_level, level + 1)
             \in OnLayer(g1, Smaller(g.max_level, level + 1)) \ {new}
      BY <3>1, <3>2, <3>3, <1>6, DescendIs
    <3> QED
      BY <3>4 DEF d
  <2> HIDE DEF ep, top
  <2>4. ep \in OnLayer(g1, top) \ {new} /\ ep \in Nat
    <3>1. \A n \in Nodes(g1) : Level(g1, n) \in Nat /\ n \in Nat
      BY <1>6, LevelsAre
    <3>2. top <= Smaller(g.max_level, level + 1) /\ Smaller(g.max_level, level + 1) \in Nat
      BY <2>1, <1>1, <1>2 DEF Smaller
    <3> QED
      BY <3>1, <3>2, <2>1, <2>3 DEF OnLayer
  <2>5. Joining(g1, new, top, start)
    <3>1. OnlyLinks(g1, g1)
      BY <1>3, <1>5 DEF OnlyLinks
    <3>2. g1 \in Relinkings(g1)
      BY <3>1, <1>6, GraphsAre
    <3>3. start \in OnWay(g1)
      BY <3>2, <2>4, IndexAssumption DEF OnWay
    <3>4. start.g = g1 /\ start.ep = ep
      OBVIOUS
    <3>5. SameNodes(g1, g1)
      BY DEF SameNodes
    <3> HIDE DEF start
    <3> QED
      BY <3>1, <3>3, <3>4, <3>5, <2>4, <1>6 DEF Joining
  <2>6. new \in OnLayer(g1, top)
    BY <2>1, <1>7 DEF OnLayer
  <2> HIDE DEF start
  <2>7. Joining(g1, new, -1, j)
    BY <2>1, <2>5, <2>6, <1>6, <1>9, AllLayersAre
  <2> HIDE DEF j
  <2>8. WellLinked(h) /\ SameNodes(g1, h) /\ OnlyLinks(g1, h)
    BY <2>7 DEF Joining
  <2> HIDE DEF h
  <2>9. h = [ids |-> Append(g.ids, id), sketches |-> Append(g.sketches, sk),
             links |-> h.links, entry |-> g.entry, max_level |-> g.max_level, levels |-> levels]
    BY <2>8, <1>1, <1>3 DEF OnlyLinks
  <2>10. h.entry = g.entry /\ h.max_level = g.max_level
         /\ {"links", "entry", "max_level"} \subseteq DOMAIN h
    BY <2>9
  <2>11. /\ Nodes(h) = Nodes(g) \cup {new} /\ Level(h, new) = level
         /\ \A n \in Nodes(g) : Level(h, n) = Level(g, n)
    BY <2>8, <1>7 DEF SameNodes
  <2>12. /\ Raise(h, new, level).links = h.links /\ EntryOnTop(Raise(h, new, level))
         /\ Raise(h, new, level).max_level \in Nat
    <3>1. /\ h.max_level \in Nat /\ new \in Nodes(h) /\ h.entry \in Nodes(h)
          /\ Level(h, h.entry) = h.max_level
          /\ \A n \in Nodes(h) \ {new} : Level(h, n) <= h.max_level
      BY <2>2, <2>10, <2>11, <1>1
    <3>2. /\ Raise(h, new, Level(h, new)).links = h.links
          /\ EntryOnTop(Raise(h, new, Level(h, new)))
          /\ Raise(h, new, Level(h, new)).max_level \in Nat
      BY <3>1, <2>8, <2>10, RaiseIs
    <3> QED
      BY <3>2, <2>11
  <2>13. e = Raise(h, new, level)
    BY <1>4, <1>12 DEF h, j, start, top, ep
  <2>14. /\ e = [ids |-> Append(g.ids, id), sketches |-> Append(g.sketches, sk),
                 links |-> e.links, entry |-> e.entry, max_level |-> e.max_level,
                 levels |-> levels]
         /\ e.entry \in Nat
    <3>1. e = IF level > h.max_level THEN [h EXCEPT !.max_level = level, !.entry = new] ELSE h
      BY <2>13 DEF Raise
    <3>2. CASE level > h.max_level
      <4> DEFINE i == Append(g.ids, id)
                 s == Append(g.sketches, sk)
                 l == h.links
      <4>1. h = [ids |-> i, sketches |-> s, links |-> l, entry |-> g.entry,
                 max_level |-> g.max_level, levels |-> levels]
        BY <2>9
      <4>2. e = [h EXCEPT !.max_level = level, !.entry = new]
        BY <3>1, <3>2
      <4> HIDE DEF i, s, l
      <4>3. e = [ids |-> i, sketches |-> s, links |-> l, entry |-> new, max_level |-> level,
                 levels |-> levels]
        BY <4>1, <4>2
      <4>4. e.links = l /\ e.entry = new /\ e.max_level = level
        BY <4>3
      <4> QED
        BY <4>3, <4>4, <1>2 DEF i, s
    <3>3. CASE ~ (level > h.max_level)
      <4>1. e = h
        BY <3>1, <3>3
      <4> QED
        BY <4>1, <2>9, <2>10, <1>1
    <3> QED
      BY <3>2, <3>3
  <2>15. WellLinked(e) /\ SameNodes(h, e)
    BY <2>8, <2>12, <2>13, SameLinks
  <2>16. SameNodes(g1, e)
    BY <2>8, <2>15 DEF SameNodes
  <2>17. e.links \in Seq(Seq(Seq(Nat)) \ {<<>>})
    BY <2>15 DEF WellLinked
  <2> QED
    BY <2>12, <2>13, <2>14, <2>15, <2>16, <2>17, <1>10 DEF e
<1> QED
  BY <1>11, <1>12

-----------------------------------------------------------------------------
(* What a recall considers.                                                *)

(* Keywords lead to records that are allowed and were not seen.            *)
LEMMA ExpandFresh ==
  ASSUME NEW kws, NEW allowed, NEW seen, NEW x \in Expand(kws, allowed, seen)
  PROVE  x \subseteq allowed \ seen
<1> DEFINE matched == {w \in kws : post[w] # {}}
           Through(near) == UNION {post[n] : n \in UNION {near[w] : w \in matched}}
           Near == {f \in [matched -> SUBSET Words] :
                      \A w \in matched : f[w] \in Some(NeighborsPerKw, adj[w])}
<1>1. PICK near \in Near : x \in Some(MaxExpanded, Through(near) \cap Fresh(allowed, seen))
  BY DEF Expand
<1> HIDE DEF Through
<1>2. x \subseteq Through(near) \cap Fresh(allowed, seen)
  BY <1>1, SomeAmong
<1> QED
  BY <1>2 DEF Fresh

(* What a recall sets aside when all it found is cold, and takes back.     *)
LEMMA FillHidden ==
  ASSUME NEW view, NEW hidden, NEW fill \in Fill(view, hidden)
  PROVE  fill \subseteq hidden
BY SomeAmong DEF Fill

(* What a recall classifies, and what of it is set aside.                  *)
Near(nearest, how) == (nearest \cup Recent) \cap Visible(how.past)
Pool(nearest, how) ==
    IF Scanned(Near(nearest, how), nearest, how) THEN Visible(how.past) ELSE Near(nearest, how)
Aside(nearest, how) == Hidden(Pool(nearest, how), how)
Shown(nearest, how) == Pool(nearest, how) \ Aside(nearest, how)

(* An outcome of a recall: the view is what was classified and not hidden, *)
(* or some of what was; the keywords add what is neither.                  *)
LEMMA OutcomeParts ==
  ASSUME NEW q, NEW nearest, NEW how, NEW r \in Considered(q, nearest, how)
  PROVE  /\ r.scanned = Scanned(Near(nearest, how), nearest, how)
         /\ \E fill \in Fill(Shown(nearest, how), Aside(nearest, how)) :
               r.view = Shown(nearest, how) \cup fill
         /\ r.view \subseteq Pool(nearest, how) /\ Shown(nearest, how) \subseteq r.view
         /\ r.expanded \subseteq (Visible(how.past) \ Aside(nearest, how)) \ r.view
<1> DEFINE visible == Visible(how.past)
           scanned == Scanned(Near(nearest, how), nearest, how)
           pool    == Pool(nearest, how)
           hidden  == Aside(nearest, how)
           shown   == Shown(nearest, how)
           Added(view) == UNION {Expand(kws, Allowed(visible, hidden), view) : kws \in Keywords(q)}
           Outcome(view) == {[view |-> view, expanded |-> x, scanned |-> scanned] : x \in Added(view)}
<1>1. PICK fill \in Fill(shown, hidden) : r \in Outcome(shown \cup fill)
  BY DEF Considered, Near, Pool, Aside, Shown
<1>2. PICK x \in Added(shown \cup fill) :
        r = [view |-> shown \cup fill, expanded |-> x, scanned |-> scanned]
  BY <1>1
<1>3. PICK kws \in Keywords(q) : x \in Expand(kws, Allowed(visible, hidden), shown \cup fill)
  BY <1>2
<1>4. hidden \subseteq pool /\ shown = pool \ hidden
  BY DEF Aside, Shown, Hidden
<1> HIDE DEF visible, scanned, pool, hidden, shown
<1>5. x \subseteq (visible \ hidden) \ (shown \cup fill)
  BY <1>3, ExpandFresh DEF Allowed
<1>6. fill \subseteq hidden
  BY FillHidden
<1>7. r.view = shown \cup fill /\ r.expanded = x /\ r.scanned = scanned
  BY <1>2
<1>8. /\ r.scanned = scanned
      /\ \E f \in Fill(shown, hidden) : r.view = shown \cup f
      /\ r.view \subseteq pool /\ shown \subseteq r.view
      /\ r.expanded \subseteq (visible \ hidden) \ r.view
  BY <1>1, <1>4, <1>5, <1>6, <1>7
<1> QED
  BY <1>8 DEF visible, scanned, pool, hidden, shown

(* A recall considers only records that are visible at its time, and none  *)
(* of them twice, whatever index, tail and postings hold of others.        *)
THEOREM HitsAlwaysVisibleOnce == Spec => []HitsVisibleOnce
<1>1. HitsVisibleOnce
  <2> SUFFICES ASSUME NEW past \in Pasts, NEW q \in Queries, NEW how \in How(past),
                      NEW r \in Considered(q, Nearest(q, past), how)
               PROVE  /\ r.view \cup r.expanded \subseteq Visible(how.past)
                      /\ r.view \cap r.expanded = {}
    BY DEF HitsVisibleOnce, EveryRecall
  <2> DEFINE nearest == Nearest(q, past)
  <2>1. /\ r.view \subseteq Pool(nearest, how)
        /\ r.expanded \subseteq (Visible(how.past) \ Aside(nearest, how)) \ r.view
    BY OutcomeParts
  <2>2. Pool(nearest, how) \subseteq Visible(how.past)
    BY DEF Pool, Near
  <2> QED
    BY <2>1, <2>2
<1> QED
  BY <1>1, PTL

(* An overview considers a summary whenever one is visible at its time,    *)
(* also one that consolidate never put into the index.                     *)
THEOREM OverviewAlwaysSeesSummary == Spec => []OverviewSeesSummary
<1>1. OverviewSeesSummary
  <2> SUFFICES ASSUME NEW past \in Pasts, NEW q \in Queries, NEW how \in How(past),
                      how.overview, Visible(how.past) \cap Summaries # {},
                      NEW r \in Considered(q, Nearest(q, past), how)
               PROVE  r.view \cap Summaries # {}
    BY DEF OverviewSeesSummary, EveryRecall
  <2> DEFINE nearest == Nearest(q, past)
             near    == Near(nearest, how)
             scanned == Scanned(near, nearest, how)
  <2>1. Shown(nearest, how) \subseteq r.view
    BY OutcomeParts
  <2>2. \A S : Hidden(S, how) \cap Summaries = {}
    BY DEF Hidden, Summaries
  <2>3. CASE scanned
    BY <2>1, <2>2, <2>3 DEF Pool, Aside, Shown
  <2>4. CASE ~scanned
    <3>1. (near \ Hidden(near, how)) \cap Summaries # {}
      BY <2>4 DEF Scanned
    <3> QED
      BY <2>1, <2>4, <3>1 DEF Pool, Aside, Shown
  <2> QED
    BY <2>3, <2>4
<1> QED
  BY <1>1, PTL

-----------------------------------------------------------------------------
(* The invariant that what is kept of the index follows from: its nodes are*)
(* records of their own, with ids given out before, and the live ones are  *)
(* among them; as long as there is no index the tail has not been filled   *)
(* by the building of one.                                                 *)
Kept(g, due, next) ==
    /\ Built(g, LevelsDrawn)
    /\ IsInjective(g.ids) /\ Range(g.ids) \subseteq {i \in Ids : i < next}
    /\ due \subseteq Range(g.ids)

State ==
    /\ docs \in [Ids -> Doc \cup {Absent}] /\ next_id \in 1 .. MaxId + 1
    /\ hot_tail \in Seq(Ids) /\ Len(hot_tail) <= 2 * HotTailCap
    /\ post \in [Words -> SUBSET Ids] /\ adj \in [Words -> SUBSET Words]
    /\ bypassed \subseteq Ids

Inv ==
    /\ State
    /\ \A i \in Known : i < next_id
    /\ index = NoIndex => Len(hot_tail) <= HotTailCap
    /\ index # NoIndex => Kept(index, Indexable \ bypassed, next_id)

(* An index with a node for each id of I.                                  *)
Over(g, I) == Built(g, LevelsDrawn) /\ IsInjective(g.ids) /\ Range(g.ids) = I

LEMMA InjectiveFits ==
  ASSUME NEW S, IsFiniteSet(S), NEW s \in Seq(S), IsInjective(s), NEW x \in S, x \notin Range(s)
  PROVE  Len(s) < Cardinality(S)
<1> DEFINE n == Len(s)
           T == S \ {x}
<1>1. n \in Nat /\ DOMAIN s = 1 .. n /\ s \in [1 .. n -> T]
  BY DEF Range
<1>2. IsFiniteSet(T) /\ Cardinality(T) = Cardinality(S) - 1 /\ Cardinality(S) \in Nat
  BY FS_RemoveElement, FS_CardinalityType
<1>3. \A i, j \in 1 .. n : s[i] = s[j] => i = j
  BY <1>1 DEF IsInjective
<1>4. IsFiniteSet(1 .. n) /\ Cardinality(1 .. n) = n
  <2> HIDE DEF n
  <2> QED
    BY <1>1, FS_Interval
<1> HIDE DEF n, T
<1>5. ~ (Cardinality(T) < n)
  <2>1. SUFFICES ASSUME Cardinality(T) < n PROVE FALSE
    OBVIOUS
  <2>2. PICK i, j \in 1 .. n : i # j /\ s[i] = s[j]
    BY <2>1, <1>1, <1>2, <1>4, FS_PigeonHole
  <2> QED
    BY <2>2, <1>3
<1> QED
  BY <1>1, <1>2, <1>5, FS_CardinalityType DEF n

LEMMA OverInserted ==
  ASSUME NEW g, NEW I \in SUBSET Ids, Over(g, I), NEW i \in Ids \ I, NEW sk \in Sketches
  PROVE  Over(InsertNode(g, i, sk), I \cup {i})
<1> DEFINE s == g.ids
<1>1. /\ Built(g, LevelsDrawn) /\ s \in Seq(Nat) /\ IsInjective(s) /\ Range(s) = I
      /\ Len(s) = Len(g.links)
  BY DEF Over, Built, Indexes
<1>2. LevelsDrawn \in Seq(Nat) /\ Len(LevelsDrawn) >= MaxId /\ MaxId \in Nat
  BY RetrievalAssumption
<1> HIDE DEF s
<1>3. s \in Seq(Ids)
  BY <1>1 DEF Range
<1>4. IsFiniteSet(Ids) /\ Cardinality(Ids) = MaxId
  BY <1>2, FS_Interval DEF Ids
<1>5. Len(s) < MaxId
  BY <1>1, <1>3, <1>4, InjectiveFits
<1>6. Len(g.links) < Len(LevelsDrawn)
  BY <1>1, <1>2, <1>5
<1>7. i \in Nat
  BY DEF Ids
<1>8. /\ Built(InsertNode(g, i, sk), LevelsDrawn)
      /\ InsertNode(g, i, sk).ids = Append(s, i)
  BY <1>1, <1>2, <1>6, <1>7, InsertNodeIs DEF s
<1>9. Range(Append(s, i)) = I \cup {i} /\ IsInjective(Append(s, i))
  BY <1>1, <1>7, AppendIs
<1> QED
  BY <1>8, <1>9 DEF Over

LEMMA OrderIs ==
  ASSUME NEW S, IsFiniteSet(S), NEW o \in Orders(S)
  PROVE  /\ o \in Seq(S) /\ Len(o) = Cardinality(S) /\ Len(o) \in Nat
         /\ IsInjective(o) /\ Range(o) = S
<1> DEFINE n == Cardinality(S)
<1>1. n \in Nat
  BY FS_CardinalityType
<1>2. o \in [1 .. n -> S] /\ \A i, j \in 1 .. n : i # j => o[i] # o[j]
  BY DEF Orders, SetToSeqs
<1>3. IsFiniteSet(1 .. n) /\ Cardinality(1 .. n) = n
  <2> HIDE DEF n
  <2> QED
    BY <1>1, FS_Interval
<1>4. o \in Injection(1 .. n, S)
  BY <1>2 DEF Injection, IsInjective
<1>5. o \in Surjection(1 .. n, S)
  BY <1>3, <1>4, FS_Injection
<1>6. Range(o) = S
  BY <1>2, <1>5 DEF Surjection, Range
<1> HIDE DEF n
<1>7. o \in Seq(S) /\ Len(o) = n /\ IsInjective(o)
  BY <1>1, <1>2 DEF IsInjective
<1> QED
  BY <1>1, <1>6, <1>7 DEF n

LEMMA IdsAre ==
  IsFiniteSet(Ids) /\ Cardinality(Ids) = MaxId /\ Ids \subseteq Nat /\ MaxId \in Nat
<1>1. MaxId \in Nat
  BY RetrievalAssumption
<1>2. IsFiniteSet(1 .. MaxId) /\ Cardinality(1 .. MaxId) = MaxId
  BY <1>1, FS_Interval
<1> QED
  BY <1>1, <1>2 DEF Ids

(* The index that is built has a node for each record there is to index.   *)
LEMMA IndexOfIs ==
  ASSUME docs \in [Ids -> Doc \cup {Absent}], NEW s \in Orders(Indexable)
  PROVE  Over(IndexOf(s), Indexable)
<1> DEFINE n == Len(s)
           new == NewIndex(LevelsDrawn)
           U == Indexes(LevelsDrawn)
           op(g, i) == InsertNode(g, i, docs[i].text)
           t == FoldLeft(op, new, s)
           Steps(f) == f = [r \in SUBSET DOMAIN s |->
                          IF r = {} THEN new ELSE op(f[r \ {Max(r)}], s[Max(r)])]
           Of(r) == {s[i] : i \in r}
           V == [r \in SUBSET (1 .. n) |-> {g \in U : Over(g, Of(r))}]
           G == [p \in (1 .. n) \X U |-> op(p[2], s[p[1]])]
<1>0. Indexable \subseteq Ids /\ IsFiniteSet(Indexable)
  BY IdsAre, FS_Subset DEF Indexable, Live
<1>1. n \in Nat /\ DOMAIN s = 1 .. n /\ (\A k \in 1 .. n : s[k] \in Indexable)
      /\ IsInjective(s) /\ Range(s) = Indexable
  BY <1>0, OrderIs
<1>2. ASSUME NEW g, NEW I, Over(g, I) PROVE g \in U
  BY <1>2 DEF Over, Built
<1>3. ASSUME NEW g, NEW I \in SUBSET Ids, Over(g, I), NEW i \in Indexable \ I
      PROVE  Over(op(g, i), I \cup {i})
  <2>1. i \in Ids /\ docs[i] \in Doc
    BY <1>0 DEF Indexable, Live
  <2>2. docs[i].text \in Sketches
    BY <2>1 DEF Doc
  <2> QED
    BY <2>1, <2>2, <1>3, OverInserted
<1> HIDE DEF op, U
<1>4. ASSUME NEW r \in SUBSET (1 .. n), r # {}, NEW u \in V[r \ {Max(r)}]
      PROVE  op(u, s[Max(r)]) \in V[r]
  <2>1. Max(r) \in r /\ Max(r) \in 1 .. n /\ r \ {Max(r)} \in SUBSET (1 .. n)
    BY <1>1, <1>4, Lasts
  <2> DEFINE x == s[Max(r)]
             q == r \ {Max(r)}
  <2>2. x \in Indexable /\ x \notin Of(q) /\ Of(r) = Of(q) \cup {x} /\ Of(q) \subseteq Ids
    <3>1. x \in Indexable
      BY <2>1, <1>1
    <3>2. x \notin Of(q)
      BY <2>1, <1>1 DEF IsInjective
    <3>3. Of(r) = Of(q) \cup {x}
      BY <2>1
    <3>4. Of(q) \subseteq Ids
      BY <2>1, <1>0, <1>1
    <3> QED
      BY <3>1, <3>2, <3>3, <3>4
  <2>3. Over(u, Of(q))
    BY <2>1
  <2> HIDE DEF x, q, Of
  <2>4. Over(op(u, x), Of(r))
    BY <2>2, <2>3, <1>3
  <2> QED
    BY <2>4, <1>2 DEF x
<1>5. new \in V[{}]
  <2>1. {} \in SUBSET (1 .. n) /\ Of({}) = {}
    OBVIOUS
  <2>2. Over(new, {})
    <3>1. IsInjective(<<>>) /\ Range(<<>>) = {}
      BY DEF IsInjective, Range
    <3> QED
      BY <3>1, NewIndexIs DEF Over
  <2> HIDE DEF new, Of
  <2> QED
    BY <2>1, <2>2, <1>2
<1>6. \A r \in SUBSET (1 .. n) : V[r] \subseteq U
  OBVIOUS
<1> HIDE DEF n, V, new
<1>7. \A k \in 1 .. n, u \in U : G[<<k, u>>] = op(u, s[k])
  OBVIOUS
<1> HIDE DEF G
<1>8. \E f : Steps(f)
  <2>1. \A r \in SUBSET (1 .. n) : r # {} => /\ Max(r) \in 1 .. n /\ r \ {Max(r)} \in SUBSET (1 .. n)
    BY <1>1, Lasts
  <2>2. \A r \in SUBSET (1 .. n) : r # {} => \A u \in V[r \ {Max(r)}] :
            /\ G[<<Max(r), u>>] = op(u, s[Max(r)]) /\ G[<<Max(r), u>>] \in V[r]
    BY <2>1, <1>4, <1>6, <1>7
  <2>3. PICK f : Solution(f, n, V, new, G)
    BY <2>2, <1>1, <1>5, FamilyExists
  <2>4. f = [r \in SUBSET (1 .. n) |->
               IF r = {} THEN new ELSE op(f[r \ {Max(r)}], s[Max(r)])]
    BY <2>2, <2>3 DEF Solution
  <2> QED
    BY <2>4, <1>1
<1>9. PICK f : Steps(f) /\ t = f[DOMAIN s]
  <2>1. \E f : Steps(f) /\ t = f[DOMAIN s]
    BY <1>8 DEF FoldLeft, MapThenFoldSet, op
  <2> QED
    BY <2>1
<1> HIDE DEF t
<1>10. t \in V[1 .. n]
  <2>1. /\ f[{}] = new
        /\ \A r \in SUBSET (1 .. n) : r # {} => f[r] = op(f[r \ {Max(r)}], s[Max(r)])
    <3>1. f = [r \in SUBSET (1 .. n) |->
                 IF r = {} THEN new ELSE op(f[r \ {Max(r)}], s[Max(r)])]
      BY <1>9, <1>1
    <3>2. {} \in SUBSET (1 .. n)
      OBVIOUS
    <3> QED
      BY <3>1, <3>2, Zenon
  <2>2. \A r \in SUBSET (1 .. n) :
           r # {} /\ f[r \ {Max(r)}] \in V[r \ {Max(r)}] => f[r] \in V[r]
    BY <2>1, <1>4
  <2>3. f[{}] \in V[{}] /\ n \in Nat
    BY <2>1, <1>1, <1>5
  <2>4. f[1 .. n] \in V[1 .. n]
    BY <2>2, <2>3, FamilyEnds
  <2> QED
    BY <2>4, <1>1, <1>9
<1>11. Of(1 .. n) = Indexable
  BY <1>1 DEF Range
<1>12. Over(t, Indexable)
  BY <1>10, <1>11 DEF V
<1> QED
  BY <1>12 DEF t, op, new, IndexOf

Tailable(index0, tail) ==
    /\ tail \in Seq(Ids) /\ Len(tail) <= 2 * HotTailCap
    /\ index0 = NoIndex => Len(tail) <= HotTailCap

(* What ensure_graph leaves.                                               *)
LEMMA EnsuredIs ==
  ASSUME Inv, NEW e \in Ensured
  PROVE  /\ Tailable(e.index, e.tail)
         /\ e.index # NoIndex => Kept(e.index, Indexable \ bypassed, next_id)
<1>1. HotTailCap \in Nat \ {0}
  BY RetrievalAssumption
<1>2. CASE Settled
  <2>1. e.index = index /\ e.tail = hot_tail
    BY <1>2 DEF Ensured
  <2> QED
    BY <2>1 DEF Inv, State, Tailable
<1>3. CASE ~Settled
  <2>1. index = NoIndex
    BY <1>3 DEF Settled
  <2>2. PICK o \in Orders(Indexable), n \in Newest : e = [index |-> IndexOf(o), tail |-> hot_tail \o n]
    BY <1>3 DEF Ensured
  <2>3. e.index = IndexOf(o) /\ e.tail = hot_tail \o n
    BY <2>2
  <2>4. Over(IndexOf(o), Indexable)
    BY IndexOfIs DEF Inv, State
  <2>5. IndexOf(o) # NoIndex
    BY <2>4, RetrievalAssumption DEF Over, Built
  <2>6. Kept(IndexOf(o), Indexable \ bypassed, next_id)
    <3>1. \A i \in Indexable : i \in Ids /\ i < next_id
      BY DEF Inv, Indexable, Live, Known
    <3> QED
      BY <2>4, <3>1 DEF Over, Kept
  <2>7. n \in Seq(Ids) /\ Len(n) <= HotTailCap
    <3>1. PICK S \in Some(HotTailCap, Live) : n \in Orders(S)
      BY DEF Newest
    <3>2. S \in SUBSET Live /\ Cardinality(S) = Smaller(HotTailCap, Cardinality(Live))
      BY <3>1 DEF Some, kSubset
    <3>3. IsFiniteSet(S) /\ S \subseteq Ids /\ Cardinality(Live) \in Nat
      BY <3>2, IdsAre, FS_Subset, FS_CardinalityType DEF Live
    <3>4. n \in Seq(S) /\ Len(n) = Cardinality(S)
      BY <3>1, <3>3, OrderIs
    <3>5. Cardinality(S) <= HotTailCap
      BY <3>2, <3>3, <1>1 DEF Smaller
    <3> QED
      BY <3>3, <3>4, <3>5
  <2>8. hot_tail \in Seq(Ids) /\ Len(hot_tail) <= HotTailCap
    BY <2>1 DEF Inv, State
  <2>9. hot_tail \o n \in Seq(Ids) /\ Len(hot_tail \o n) = Len(hot_tail) + Len(n)
    BY <2>7, <2>8, ConcatIs
  <2>10. Len(hot_tail \o n) <= 2 * HotTailCap
    <3>1. Len(hot_tail) \in Nat /\ Len(n) \in Nat
      BY <2>7, <2>8
    <3> QED
      BY <3>1, <2>7, <2>8, <2>9, <1>1
  <2> QED
    BY <2>3, <2>5, <2>6, <2>9, <2>10 DEF Tailable
<1> QED
  BY <1>2, <1>3

(* The latest id is put at the end of the tail, the first one drops out.   *)
LEMMA TailedIs ==
  ASSUME NEW e, Tailable(e.index, e.tail), NEW i \in Ids, NEW index1,
         index1 = NoIndex => e.index = NoIndex
  PROVE  Tailable(index1, Tailed(e, i))
<1> DEFINE s == e.tail
           r == Tail(s)
<1>1. HotTailCap \in Nat \ {0}
  BY RetrievalAssumption
<1>2. s \in Seq(Ids) /\ Len(s) \in Nat /\ Len(s) <= 2 * HotTailCap
      /\ (index1 = NoIndex => Len(s) <= HotTailCap)
  BY DEF Tailable
<1>3. Tailed(e, i) = IF Len(s) >= HotTailCap THEN Append(r, i) ELSE Append(s, i)
  BY DEF Tailed
<1> HIDE DEF s
<1>4. CASE Len(s) >= HotTailCap
  <2>1. s # <<>>
    BY <1>1, <1>4
  <2>2. r \in Seq(Ids) /\ Len(r) = Len(s) - 1
    BY <1>2, <2>1
  <2> HIDE DEF r
  <2>3. Append(r, i) \in Seq(Ids) /\ Len(Append(r, i)) = Len(s)
    BY <1>2, <2>2, AppendIs
  <2> QED
    BY <1>2, <1>3, <1>4, <2>3 DEF Tailable
<1>5. CASE ~ (Len(s) >= HotTailCap)
  <2>1. Append(s, i) \in Seq(Ids) /\ Len(Append(s, i)) = Len(s) + 1
    BY <1>2, AppendIs
  <2>2. Len(s) + 1 <= HotTailCap /\ Len(s) + 1 <= 2 * HotTailCap
    BY <1>1, <1>2, <1>5
  <2> QED
    BY <1>3, <1>5, <2>1, <2>2 DEF Tailable
<1> QED
  BY <1>4, <1>5

(* The graph of keywords keeps its type.                                   *)
LEMMA KeywordsAre ==
  ASSUME NEW t \in Sketches, NEW kws \in Keywords(t)
  PROVE  kws \subseteq Words
BY SomeAmong, RetrievalAssumption DEF Keywords

LEMMA PostIs ==
  ASSUME State, NEW t \in Sketches, NEW i \in Ids, Post(i, t)
  PROVE  post' \in [Words -> SUBSET Ids] /\ adj' \in [Words -> SUBSET Words]
<1>1. PICK kws \in Keywords(t) : post' = AddDoc(post, i, kws) /\ adj' = Join(adj, kws)
  BY DEF Post
<1>2. kws \subseteq Words
  BY KeywordsAre
<1> QED
  BY <1>1, <1>2 DEF State, AddDoc, Join

LEMMA KeptMoves ==
  ASSUME NEW g, NEW due, NEW next \in Nat, Kept(g, due, next),
         NEW due1, due1 \subseteq due, NEW next1 \in Nat, next <= next1
  PROVE  Kept(g, due1, next1)
<1>1. \A i \in Range(g.ids) : i \in Ids /\ i < next
  BY DEF Kept
<1>2. ASSUME NEW i \in Range(g.ids) PROVE i \in Ids /\ i < next1
  <2>1. i \in Ids /\ i < next /\ i \in Nat
    BY <1>1, IdsAre
  <2> QED
    BY <2>1
<1> QED
  BY <1>2 DEF Kept

LEMMA KeptInserted ==
  ASSUME NEW g, NEW due, NEW next \in Ids, Kept(g, due, next), NEW sk \in Sketches
  PROVE  Kept(InsertNode(g, next, sk), due \cup {next}, next + 1)
<1> DEFINE h == InsertNode(g, next, sk)
<1>1. Over(g, Range(g.ids)) /\ Range(g.ids) \in SUBSET Ids /\ next \notin Range(g.ids)
  BY IdsAre DEF Kept, Over
<1>2. Over(h, Range(g.ids) \cup {next})
  BY <1>1, OverInserted
<1> HIDE DEF h
<1>3. ASSUME NEW i \in Range(g.ids) \cup {next} PROVE i \in Ids /\ i < next + 1
  <2>1. i \in Ids /\ (i < next \/ i = next)
    BY DEF Kept
  <2>2. i \in Nat /\ next \in Nat
    BY <2>1, IdsAre
  <2> QED
    BY <2>1, <2>2
<1>4. Kept(h, due \cup {next}, next + 1)
  BY <1>2, <1>3 DEF Over, Kept
<1> QED
  BY <1>4 DEF h

LEMMA InitInv == Init => Inv
<1> SUFFICES ASSUME Init PROVE Inv
  OBVIOUS
<1>1. MaxId \in Nat /\ HotTailCap \in Nat
  BY RetrievalAssumption
<1>2. State
  BY <1>1 DEF Init, State
<1>3. Known = {}
  BY DEF Init, Known
<1> QED
  BY <1>1, <1>2, <1>3 DEF Init, Inv

(* What an action that leaves index and tail alone has to keep.            *)
LEMMA LeftAlone ==
  ASSUME Inv, State', index' = index, hot_tail' = hot_tail, next_id <= next_id',
         \A i \in Known' : i < next_id',
         index # NoIndex => Indexable' \ bypassed' \subseteq Indexable \ bypassed
  PROVE  Inv'
<1>1. next_id \in Nat /\ next_id' \in Nat
  BY RetrievalAssumption DEF Inv, State
<1>2. index # NoIndex => Kept(index, Indexable' \ bypassed', next_id')
  BY <1>1, KeptMoves DEF Inv
<1> QED
  BY <1>2 DEF Inv

LEMMA RememberInv ==
  ASSUME Inv, NEW t \in Texts, Remember(t)
  PROVE  Inv'
<1> DEFINE i == next_id
<1>1. t \in Sketches /\ MaxId \in Nat
  BY RetrievalAssumption
<1>2. i \in Ids /\ i \in Nat /\ next_id' = i + 1
  BY <1>1 DEF Remember, Inv, State, Ids
<1>3. PICK e \in Ensured, old \in {{}} \cup {{j} : j \in InDocs \ Summaries} :
        /\ index' = Indexed(e, i, t) /\ hot_tail' = Tailed(e, i)
        /\ docs' = [j \in Ids |->
              IF j = i THEN [text |-> t, live |-> TRUE, summary |-> FALSE, archived |-> FALSE]
              ELSE IF j \in old THEN [docs[j] EXCEPT !.live = FALSE] ELSE docs[j]]
  BY DEF Remember
<1>4. /\ Tailable(e.index, e.tail)
      /\ e.index # NoIndex => Kept(e.index, Indexable \ bypassed, i)
  BY EnsuredIs
<1>5. index' = NoIndex <=> e.index = NoIndex
  <2>1. CASE e.index # NoIndex
    <3>1. Kept(InsertNode(e.index, i, t), (Indexable \ bypassed) \cup {i}, i + 1)
      BY <2>1, <1>1, <1>2, <1>4, KeptInserted
    <3> QED
      BY <2>1, <3>1, <1>3, RetrievalAssumption DEF Indexed, Kept, Built
  <2>2. CASE e.index = NoIndex
    BY <2>2, <1>3 DEF Indexed
  <2> QED
    BY <2>1, <2>2
<1>6. Tailable(index', hot_tail')
  BY <1>2, <1>3, <1>4, <1>5, TailedIs
<1>7. docs' \in [Ids -> Doc \cup {Absent}]
  <2>1. ASSUME NEW j \in old PROVE [docs[j] EXCEPT !.live = FALSE] \in Doc
    <3>1. docs[j] \in Doc
      BY <2>1 DEF Inv, State, InDocs
    <3> QED
      BY <3>1 DEF Doc
  <2>2. [text |-> t, live |-> TRUE, summary |-> FALSE, archived |-> FALSE] \in Doc
    BY <1>1 DEF Doc
  <2> QED
    BY <2>1, <2>2, <1>3 DEF Inv, State
<1>8. \A j \in Ids \ {i} : /\ docs'[j] # Absent => docs[j] # Absent
                           /\ j \in Indexable' => j \in Indexable
  <2> SUFFICES ASSUME NEW j \in Ids \ {i}
               PROVE  /\ docs'[j] # Absent => docs[j] # Absent
                      /\ j \in Indexable' => j \in Indexable
    OBVIOUS
  <2>1. CASE j \in old
    <3>1. docs[j] \in Doc /\ docs[j] # Absent
      BY <2>1, <1>3 DEF InDocs, Inv, State
    <3>2. docs'[j] = [docs[j] EXCEPT !.live = FALSE]
      BY <2>1, <1>3
    <3>3. ~docs'[j].live
      BY <3>1, <3>2 DEF Doc
    <3> QED
      BY <3>1, <3>3 DEF Indexable, Live
  <2>2. CASE j \notin old
    <3>1. docs'[j] = docs[j]
      BY <2>2, <1>3
    <3> QED
      BY <3>1 DEF Indexable, Live
  <2> QED
    BY <2>1, <2>2
<1>9. \A j \in Known' : j < next_id'
  <2>1. \A j \in Known' : j \in Ids /\ (j = i \/ j \in Known)
    BY <1>8 DEF Known
  <2>2. ASSUME NEW j \in Known' PROVE j < next_id'
    <3>1. j \in Nat /\ (j = i \/ j < i)
      BY <2>1, IdsAre DEF Inv
    <3> QED
      BY <3>1, <1>2
  <2> QED
    BY <2>2
<1>10. post' \in [Words -> SUBSET Ids] /\ adj' \in [Words -> SUBSET Words]
  BY <1>1, <1>2, PostIs DEF Remember, Inv
<1>11. State'
  <2>1. next_id' \in 1 .. MaxId + 1
    BY <1>1, <1>2 DEF Ids
  <2>2. hot_tail' \in Seq(Ids) /\ Len(hot_tail') <= 2 * HotTailCap
    BY <1>6 DEF Tailable
  <2>3. bypassed' \subseteq Ids
    BY DEF Remember, Inv, State
  <2> QED
    BY <2>1, <2>2, <2>3, <1>7, <1>10 DEF State
<1>12. index' # NoIndex => Kept(index', Indexable' \ bypassed', next_id')
  <2> SUFFICES ASSUME index' # NoIndex PROVE Kept(index', Indexable' \ bypassed', next_id')
    OBVIOUS
  <2>1. e.index # NoIndex /\ index' = InsertNode(e.index, i, t)
    BY <1>3, <1>5 DEF Indexed
  <2>2. Kept(index', (Indexable \ bypassed) \cup {i}, i + 1)
    BY <2>1, <1>1, <1>2, <1>4, KeptInserted
  <2>3. Indexable' \ bypassed' \subseteq (Indexable \ bypassed) \cup {i}
    BY <1>8 DEF Remember, Indexable, Live
  <2>4. next_id' \in Nat
    BY <1>2
  <2> QED
    BY <2>2, <2>3, <2>4, <1>2, KeptMoves
<1> QED
  BY <1>6, <1>9, <1>11, <1>12 DEF Inv, Tailable

LEMMA ForgetInv ==
  ASSUME Inv, NEW i \in Ids, Forget(i)
  PROVE  Inv'
<1>1. /\ docs' = [docs EXCEPT ![i].live = FALSE] /\ docs[i] \in Doc
      /\ UNCHANGED <<next_id, index, hot_tail, post, adj, bypassed>>
  BY DEF Forget, InDocs, Inv, State
<1>2. [docs[i] EXCEPT !.live = FALSE] \in Doc /\ ~[docs[i] EXCEPT !.live = FALSE].live
  BY <1>1 DEF Doc
<1>3. docs' = [docs EXCEPT ![i] = [docs[i] EXCEPT !.live = FALSE]]
  BY <1>1
<1>4. \A j \in Ids : docs'[j] = IF j = i THEN [docs[i] EXCEPT !.live = FALSE] ELSE docs[j]
  BY <1>3 DEF Inv, State
<1>5. docs' \in [Ids -> Doc \cup {Absent}]
  BY <1>2, <1>3 DEF Inv, State
<1>6. State'
  BY <1>1, <1>5 DEF Inv, State
<1>7. Known' \subseteq Known /\ Indexable' \subseteq Indexable
  BY <1>2, <1>4 DEF Known, Indexable, Live, Forget, InDocs
<1>8. (\A j \in Known' : j < next_id') /\ next_id <= next_id'
  BY <1>1, <1>7, RetrievalAssumption DEF Inv, State
<1> QED
  BY <1>1, <1>6, <1>7, <1>8, LeftAlone

LEMMA HardDeleteInv ==
  ASSUME Inv, NEW i \in Ids, HardDelete(i)
  PROVE  Inv'
<1>1. /\ docs' = [docs EXCEPT ![i] = Absent]
      /\ UNCHANGED <<next_id, index, hot_tail, adj, bypassed>>
  BY DEF HardDelete
<1>2. docs' \in [Ids -> Doc \cup {Absent}] /\ \A j \in Ids : docs'[j] = IF j = i THEN Absent ELSE docs[j]
  BY <1>1 DEF Inv, State
<1>3. post' \in [Words -> SUBSET Ids]
  BY DEF HardDelete, RemoveDoc, Inv, State
<1>4. State'
  BY <1>1, <1>2, <1>3 DEF Inv, State
<1>5. Known' \subseteq Known /\ Indexable' \subseteq Indexable
  BY <1>2 DEF Known, Indexable, Live
<1>6. (\A j \in Known' : j < next_id') /\ next_id <= next_id'
  BY <1>1, <1>5, RetrievalAssumption DEF Inv, State
<1> QED
  BY <1>1, <1>4, <1>5, <1>6, LeftAlone

LEMMA ImportRowInv ==
  ASSUME Inv, NEW i \in DOMAIN ImportRows, ImportRow(i)
  PROVE  Inv'
<1>1. /\ docs' = [docs EXCEPT ![i] = ImportRows[i]]
      /\ next_id' = IF i >= next_id THEN i + 1 ELSE next_id
      /\ index' = index /\ hot_tail' = hot_tail /\ Post(i, ImportRows[i].text)
      /\ bypassed' = IF ImportRows[i].archived THEN bypassed ELSE PastIndex(i)
  BY DEF ImportRow
<1>2. i \in Ids /\ i \in Nat /\ ImportRows[i] \in Doc /\ MaxId \in Nat
  BY RetrievalAssumption DEF Ids
<1>3. docs' \in [Ids -> Doc \cup {Absent}] /\ \A j \in Ids : docs'[j] = IF j = i THEN ImportRows[i] ELSE docs[j]
  BY <1>1, <1>2 DEF Inv, State
<1>4. post' \in [Words -> SUBSET Ids] /\ adj' \in [Words -> SUBSET Words]
  <2>1. ImportRows[i].text \in Sketches
    BY <1>2 DEF Doc
  <2> QED
    BY <2>1, <1>1, <1>2, PostIs DEF Inv
<1>5. /\ next_id \in 1 .. MaxId + 1 /\ next_id' \in 1 .. MaxId + 1
      /\ next_id <= next_id' /\ i < next_id'
  <2>1. next_id \in 1 .. MaxId + 1 /\ i \in 1 .. MaxId
    BY <1>2 DEF Inv, State, Ids
  <2> QED
    BY <2>1, <1>1, <1>2
<1>6. bypassed' \subseteq Ids
  BY <1>1, <1>2 DEF PastIndex, Inv, State
<1>7. State'
  BY <1>1, <1>3, <1>4, <1>5, <1>6 DEF Inv, State
<1>8. ASSUME NEW j \in Known' PROVE j < next_id'
  <2>1. j \in Ids /\ j \in Nat /\ (j = i \/ j \in Known)
    BY <1>3, IdsAre DEF Known
  <2>2. j = i \/ j < next_id
    BY <2>1 DEF Inv
  <2> QED
    BY <2>1, <2>2, <1>2, <1>5
<1>9. ASSUME index # NoIndex PROVE Indexable' \ bypassed' \subseteq Indexable \ bypassed
  <2>1. bypassed \subseteq bypassed' /\ (i \in bypassed' \/ ImportRows[i].archived)
    BY <1>1, <1>9 DEF PastIndex
  <2>2. ASSUME NEW j \in Indexable' \ bypassed' PROVE j \in Indexable \ bypassed
    <3>1. j \in Ids /\ ~docs'[j].archived
      BY <2>2 DEF Indexable, Live
    <3>2. j # i
      BY <3>1, <2>1, <2>2, <1>3
    <3>3. docs'[j] = docs[j]
      BY <3>1, <3>2, <1>3
    <3> QED
      BY <3>3, <2>1, <2>2 DEF Indexable, Live
  <2> QED
    BY <2>2
<1> QED
  BY <1>1, <1>5, <1>7, <1>8, <1>9, LeftAlone

LEMMA ConsolidateInv ==
  ASSUME Inv, NEW members \in SUBSET Live, NEW t \in Texts, Consolidate(members, t)
  PROVE  Inv'
<1> DEFINE i == next_id
           summary == [text |-> t, live |-> TRUE, summary |-> TRUE, archived |-> FALSE]
<1>1. /\ docs' = [j \in Ids |-> IF j = i THEN summary
                                ELSE IF j \in members THEN [docs[j] EXCEPT !.archived = TRUE]
                                ELSE docs[j]]
      /\ next_id' = i + 1 /\ i <= MaxId /\ bypassed' = PastIndex(i)
      /\ index' = index /\ hot_tail' = hot_tail
  BY DEF Consolidate
<1>2. t \in Sketches /\ MaxId \in Nat /\ summary \in Doc
  BY RetrievalAssumption DEF Doc
<1>3. i \in Ids /\ i \in Nat /\ next_id' \in 1 .. MaxId + 1 /\ next_id <= next_id'
  BY <1>1, <1>2 DEF Inv, State, Ids
<1> HIDE DEF summary
<1>4. ASSUME NEW j \in members
      PROVE  /\ docs[j] \in Doc /\ [docs[j] EXCEPT !.archived = TRUE] \in Doc
             /\ [docs[j] EXCEPT !.archived = TRUE].archived /\ docs[j] # Absent
  <2>1. docs[j] \in Doc /\ docs[j] # Absent
    BY DEF Live, Inv, State
  <2> QED
    BY <2>1 DEF Doc
<1>5. docs' \in [Ids -> Doc \cup {Absent}]
  BY <1>1, <1>2, <1>4 DEF Inv, State
<1>6. post' \in [Words -> SUBSET Ids] /\ adj' \in [Words -> SUBSET Words]
  <2>1. PICK kws \in Keywords(t), gone \in [members -> SUBSET Words] :
          /\ post' = [w \in Words |-> AddDoc(post, i, kws)[w] \ {j \in members : w \in gone[j]}]
          /\ adj' = Join(adj, kws)
    BY DEF Consolidate
  <2>2. kws \subseteq Words
    BY <1>2, KeywordsAre
  <2>3. AddDoc(post, i, kws) \in [Words -> SUBSET Ids]
    BY <1>3 DEF AddDoc, Inv, State
  <2> QED
    BY <2>1, <2>2, <2>3 DEF Join, Inv, State
<1>7. State'
  <2>1. bypassed' \subseteq Ids
    BY <1>1, <1>3 DEF PastIndex, Inv, State
  <2> QED
    BY <2>1, <1>1, <1>3, <1>5, <1>6 DEF Inv, State
<1>8. ASSUME NEW j \in Ids, j # i
      PROVE  /\ docs'[j] # Absent => docs[j] # Absent
             /\ j \in Indexable' => j \in Indexable
  <2>1. CASE j \in members
    <3>1. docs'[j] = [docs[j] EXCEPT !.archived = TRUE]
      BY <2>1, <1>1, <1>8
    <3> QED
      BY <2>1, <3>1, <1>4 DEF Indexable, Live
  <2>2. CASE j \notin members
    <3>1. docs'[j] = docs[j]
      BY <2>2, <1>1, <1>8
    <3> QED
      BY <3>1 DEF Indexable, Live
  <2> QED
    BY <2>1, <2>2
<1>9. ASSUME NEW j \in Known' PROVE j < next_id'
  <2>1. j \in Ids /\ j \in Nat /\ (j = i \/ j \in Known)
    BY <1>8, IdsAre DEF Known
  <2>2. j = i \/ j < i
    BY <2>1 DEF Inv
  <2> QED
    BY <2>1, <2>2, <1>1, <1>3
<1>10. ASSUME index # NoIndex PROVE Indexable' \ bypassed' \subseteq Indexable \ bypassed
  <2>1. bypassed' = bypassed \cup {i}
    BY <1>1, <1>10 DEF PastIndex
  <2>2. \A j \in Indexable' : j \in Ids
    BY DEF Indexable, Live
  <2> QED
    BY <2>1, <2>2, <1>8
<1> QED
  BY <1>1, <1>3, <1>7, <1>9, <1>10, LeftAlone

LEMMA CompactInv ==
  ASSUME Inv, NEW dead \in SUBSET Known, Compact(dead)
  PROVE  Inv'
<1>1. /\ docs' = [i \in Ids |-> IF i \in dead THEN Absent ELSE docs[i]]
      /\ UNCHANGED <<next_id, index, hot_tail, adj, bypassed>>
  BY DEF Compact
<1>2. docs' \in [Ids -> Doc \cup {Absent}]
  BY <1>1 DEF Inv, State
<1>3. post' \in [Words -> SUBSET Ids]
  BY DEF Compact, Inv, State
<1>4. State'
  BY <1>1, <1>2, <1>3 DEF Inv, State
<1>5. Known' \subseteq Known /\ Indexable' \subseteq Indexable
  BY <1>1 DEF Known, Indexable, Live
<1>6. (\A j \in Known' : j < next_id') /\ next_id <= next_id'
  BY <1>1, <1>5, RetrievalAssumption DEF Inv, State
<1> QED
  BY <1>1, <1>4, <1>5, <1>6, LeftAlone

LEMMA ReopenInv ==
  ASSUME Inv, Reopen
  PROVE  Inv'
<1>1. /\ index' = NoIndex /\ hot_tail' = <<>> /\ bypassed' = {}
      /\ docs' = docs /\ next_id' = next_id
  BY DEF Reopen
<1>2. PICK kws \in [InDocs -> SUBSET Words] :
        /\ post' = [w \in Words |-> {i \in InDocs : w \in kws[i]}]
        /\ adj' = [w \in Words |-> UNION {kws[i] \ {w} : i \in {k \in InDocs : w \in kws[k]}}]
  BY DEF Reopen
<1>3. post' \in [Words -> SUBSET Ids] /\ adj' \in [Words -> SUBSET Words]
  BY <1>2 DEF InDocs
<1>4. HotTailCap \in Nat
  BY RetrievalAssumption
<1>5. hot_tail' \in Seq(Ids) /\ Len(hot_tail') <= HotTailCap /\ Len(hot_tail') <= 2 * HotTailCap
  BY <1>1, <1>4
<1>6. State'
  BY <1>1, <1>3, <1>5 DEF Inv, State
<1>7. Known' = Known
  BY <1>1 DEF Known
<1> QED
  BY <1>1, <1>5, <1>6, <1>7 DEF Inv

LEMMA RecallInv ==
  ASSUME Inv, Recall
  PROVE  Inv'
<1>1. PICK e \in Ensured : index' = e.index /\ hot_tail' = e.tail
  BY DEF Recall
<1>2. UNCHANGED <<docs, next_id, post, adj, bypassed>>
  BY DEF Recall
<1>3. Tailable(index', hot_tail') /\ (index' # NoIndex => Kept(index', Indexable \ bypassed, next_id))
  BY <1>1, EnsuredIs
<1>4. Indexable' = Indexable /\ Known' = Known
  BY <1>2 DEF Indexable, Live, Known
<1>5. State'
  BY <1>2, <1>3 DEF Inv, State, Tailable
<1> QED
  BY <1>2, <1>3, <1>4, <1>5 DEF Inv, Tailable

LEMMA NextInv == Inv /\ [Next]_vars => Inv'
<1> SUFFICES ASSUME Inv, [Next]_vars PROVE Inv'
  OBVIOUS
<1>1. CASE \E t \in Texts : Remember(t)
  BY <1>1, RememberInv
<1>2. CASE \E i \in Ids : Forget(i) \/ HardDelete(i)
  BY <1>2, ForgetInv, HardDeleteInv
<1>3. CASE \E i \in DOMAIN ImportRows : ImportRow(i)
  BY <1>3, ImportRowInv
<1>4. CASE \E members \in SUBSET Live, t \in Texts : Consolidate(members, t)
  BY <1>4, ConsolidateInv
<1>5. CASE \E dead \in SUBSET Known : Compact(dead)
  BY <1>5, CompactInv
<1>6. CASE Reopen
  BY <1>6, ReopenInv
<1>7. CASE Recall
  BY <1>7, RecallInv
<1>8. CASE UNCHANGED vars
  <2>1. UNCHANGED <<docs, next_id, index, hot_tail, post, adj, bypassed>>
    BY <1>8 DEF vars
  <2>2. Indexable' = Indexable /\ Known' = Known /\ State'
    BY <2>1 DEF Indexable, Live, Known, Inv, State
  <2> QED
    BY <2>1, <2>2 DEF Inv
<1> QED
  BY <1>1, <1>2, <1>3, <1>4, <1>5, <1>6, <1>7, <1>8 DEF Next

(* The invariant holds throughout.                                         *)
THEOREM Invariant == Spec => []Inv
BY InitInv, NextInv, PTL DEF Spec

(* The types, and the bound on the tail: whoever builds the index adds up  *)
(* to HotTailCap ids to a tail that has no more than that yet, and from    *)
(* then on an id is dropped for each one added.                            *)
THEOREM TypesKept == Spec => []TypeOK
<1>1. Inv => TypeOK
  BY DEF Inv, State, Kept, Built, Indexes, TypeOK
<1> QED
  BY <1>1, Invariant, PTL

(* Whatever is inserted, with whatever level, between whatever sketches,   *)
(* the index can be walked: links lead to nodes of their layer, never      *)
(* twice to one nor to more than the cap, and the entry is on the top.     *)
THEOREM IndexAlwaysSound == Spec => []IndexSound
<1>1. Inv => IndexSound
  BY DEF Inv, Kept, Built, IndexSound
<1> QED
  BY <1>1, Invariant, PTL

(* A live record whose text has a token is in the index once it exists,    *)
(* with one node, unless import_row or consolidate added it past the index.*)
THEOREM LiveAlwaysFindable == Spec => []Findable
<1>1. ASSUME Inv PROVE Findable
  <2> SUFFICES ASSUME index # NoIndex, NEW i \in Indexable \ bypassed
               PROVE  Cardinality({n \in DOMAIN index.ids : index.ids[n] = i}) = 1
    BY DEF Findable
  <2> DEFINE s == index.ids
  <2>1. IsInjective(s) /\ i \in Range(s)
    BY <1>1 DEF Inv, Kept
  <2> HIDE DEF s
  <2>2. PICK n \in DOMAIN s : s[n] = i
    BY <2>1 DEF Range
  <2>3. {k \in DOMAIN s : s[k] = i} = {n}
    BY <2>1, <2>2 DEF IsInjective
  <2> QED
    BY <2>3, FS_Singleton DEF s
<1> QED
  BY <1>1, Invariant, PTL

-----------------------------------------------------------------------------
(* What a search of the index returns is alive.                            *)

LEMMA SearchAlive ==
  ASSUME NEW g, NEW levels, Built(g, levels), NEW q \in Sketches, NEW top_k \in Nat, NEW Alive
  PROVE  Range(Search(g, q, top_k, Alive)) \subseteq Alive
<1> DEFINE d == Distances(g, q)
           top == g.max_level
           ep == Descend(g, d, top, 1)
           ef == Greater(EfSearch, 2 * top_k)
           found == Beam(d, Layer(g, 0), From(ep), ef).results
           some == {n \in found : g.ids[n] \in Alive}
           s == InOrder(d, some)
           alive == FirstOf(s, top_k)
           e == Search(g, q, top_k, Alive)
<1>1. e = IF Nodes(g) = {} THEN <<>> ELSE [k \in DOMAIN alive |-> g.ids[alive[k]]]
  BY DEF Search, SearchLayer
<1> HIDE DEF e
<1>2. WellLinked(g) /\ Sketched(g)
  BY BuiltIs
<1>3. CASE Nodes(g) = {}
  <2>1. Range(e) \subseteq Alive
    BY <1>1, <1>3 DEF Range
  <2> QED
    BY <2>1 DEF e
<1>4. CASE Nodes(g) # {}
  <2>1. /\ Measured(d, Nodes(g)) /\ IsFiniteSet(Nodes(g)) /\ 0 \notin Nodes(g)
    BY <1>2, AroundIs, LevelsAre
  <2>2. top \in Nat /\ g.entry \in OnLayer(g, top) \ {0}
    BY <1>4, <2>1 DEF Built, Indexes, EntryOnTop, OnLayer
  <2>3. NotYet(g, 0, top)
    <3> SUFFICES ASSUME NEW n \in Nodes(g), NEW lc \in 0 .. top
                 PROVE  0 \notin Range(LinksAt(g, n, lc))
      BY DEF NotYet
    <3> DEFINE l == LinksAt(g, n, lc)
    <3>1. lc \in Nat
      BY <2>2
    <3>2. l \in Seq(OnLayer(g, lc) \ {n})
      BY <3>1, <1>2, ListIs
    <3> HIDE DEF l
    <3>3. Range(l) \subseteq OnLayer(g, lc)
      BY <3>2 DEF Range
    <3> QED
      BY <3>3, <2>1 DEF OnLayer, l
  <2>4. ef \in Nat \ {0}
    BY IndexAssumption DEF Greater
  <2> HIDE DEF d, top, ef
  <2>5. ep \in OnLayer(g, Smaller(top, 1)) \ {0}
    BY <2>1, <2>2, <2>3, <1>2, DescendIs
  <2>6. ep \in OnLayer(g, 0) \ {0}
    BY <2>5, <1>2, LevelsAre DEF OnLayer
  <2> HIDE DEF ep
  <2>7. found \subseteq OnLayer(g, 0) \ {0}
    <3>1. /\ WellLinked(g) /\ Measured(d, Nodes(g)) /\ NotYet(g, 0, top)
          /\ 0 \in Nat /\ top \in Nat /\ 0 <= top
      BY <2>1, <2>2, <2>3, <1>2
    <3>2. FoundOn(d, OnLayer(g, 0) \ {0}, ep, found)
      BY <3>1, <2>4, <2>6, BeamOnLayer
    <3> QED
      BY <3>2 DEF FoundOn
  <2> HIDE DEF found
  <2>8. some \subseteq Nodes(g)
    BY <2>7 DEF OnLayer
  <2>9. IsFiniteSet(some) /\ Measured(d, some)
    BY <2>1, <2>8, FS_Subset DEF Measured
  <2>10. \A n \in some : g.ids[n] \in Alive
    OBVIOUS
  <2> HIDE DEF some
  <2>11. s \in Seq(some)
    BY <2>9, InOrderIs
  <2> HIDE DEF s
  <2>12. \A k \in DOMAIN alive : alive[k] \in some
    <3>1. Len(s) \in Nat /\ Smaller(top_k, Len(s)) \in Nat /\ Smaller(top_k, Len(s)) <= Len(s)
      BY <2>11 DEF Smaller
    <3> QED
      BY <3>1, <2>11 DEF FirstOf
  <2> HIDE DEF alive
  <2>13. Range(e) \subseteq Alive
    BY <2>10, <2>12, <1>1, <1>4 DEF Range
  <2> QED
    BY <2>13 DEF e
<1> QED
  BY <1>3, <1>4

(* Of a set that is not empty some are chosen.                             *)
LEMMA SomeChosen ==
  ASSUME NEW k \in Nat \ {0}, NEW S, IsFiniteSet(S), S # {}, NEW T \in Some(k, S)
  PROVE  T # {}
<1>1. Cardinality(S) \in Nat \ {0}
  BY FS_CardinalityType, FS_EmptySet
<1>2. Cardinality(T) = Smaller(k, Cardinality(S))
  BY DEF Some, kSubset
<1> QED
  BY <1>1, <1>2, FS_EmptySet DEF Smaller

(* A recall considers a record whenever one is visible at its time, and one*)
(* that classified all records does not mix cold ones with others.         *)
THEOREM ColdAlwaysLastResort == Spec => []ColdIsLastResort
<1>1. ASSUME Inv PROVE ColdIsLastResort
  <2> SUFFICES ASSUME NEW past \in Pasts, NEW q \in Queries, NEW how \in How(past),
                      Visible(how.past) # {},
                      NEW r \in Considered(q, Nearest(q, past), how)
               PROVE  /\ r.view # {}
                      /\ r.scanned /\ ~how.include_cold => Unmixed(how, r)
    BY DEF ColdIsLastResort, EveryRecall
  <2> DEFINE visible == Visible(how.past)
             nearest == Nearest(q, past)
             scanned == Scanned(Near(nearest, how), nearest, how)
             pool    == Pool(nearest, how)
             hidden  == Aside(nearest, how)
             shown   == Shown(nearest, how)
  <2>1. PICK fill \in Fill(shown, hidden) : r.view = shown \cup fill
    BY OutcomeParts
  <2>2. r.scanned = scanned /\ r.view \subseteq pool /\ r.expanded \subseteq (visible \ hidden) \ r.view
    BY OutcomeParts
  <2>3. nearest \subseteq visible
    <3>1. how.past = past
      BY DEF How
    <3>2. CASE index = NoIndex
      BY <3>2 DEF Nearest
    <3>3. CASE index # NoIndex
      <4>1. Built(index, LevelsDrawn)
        BY <1>1, <3>3 DEF Inv, Kept
      <4>2. q \in Sketches /\ GraphPool \in Nat
        BY RetrievalAssumption
      <4>3. Range(Search(index, q, GraphPool, Visible(past))) \subseteq Visible(past)
        BY <4>1, <4>2, SearchAlive
      <4> QED
        BY <3>1, <3>3, <4>3 DEF Nearest
    <3> QED
      BY <3>2, <3>3
  <2>4. pool # {} /\ pool \subseteq visible
    BY <2>3 DEF Scanned, Pool, Near
  <2>5. hidden \subseteq pool /\ IsFiniteSet(hidden)
    <3>1. hidden \subseteq pool
      BY DEF Hidden, Aside
    <3>2. visible \subseteq Ids
      BY DEF Visible, InDocs, Live
    <3> QED
      BY <3>1, <3>2, <2>4, IdsAre, FS_Subset
  <2>6. (scanned => pool = visible) /\ shown = pool \ hidden
    BY DEF Pool, Shown
  <2>7. ~how.include_cold =>
            /\ hidden \subseteq how.cold
            /\ \A i \in pool \ hidden : i \in how.cold => how.overview /\ docs[i].summary
    BY DEF Hidden, Aside
  <2> HIDE DEF visible, nearest, scanned, pool, hidden, shown
  <2>8. CASE shown = {}
    <3>1. hidden # {} /\ fill \in Some(ColdFill, hidden)
      BY <2>1, <2>4, <2>6, <2>8 DEF Fill
    <3>2. fill # {} /\ fill \subseteq hidden
      BY <3>1, <2>5, SomeChosen, SomeAmong, RetrievalAssumption
    <3> QED
      BY <2>1, <2>2, <2>6, <2>7, <2>8, <3>2 DEF Unmixed
  <2>9. CASE shown # {}
    <3>1. fill = {}
      BY <2>1, <2>9 DEF Fill
    <3> QED
      BY <2>1, <2>2, <2>6, <2>7, <2>9, <3>1 DEF Unmixed
  <2> QED
    BY <2>8, <2>9
<1> QED
  BY <1>1, Invariant, PTL

-----------------------------------------------------------------------------
(* The budget. The tokens of some hits are a sum that FoldSeq makes in an  *)
(* order of its own: F has the sum of every set of the terms c[1 .. n].    *)
Summed(F, n, c) ==
    /\ \A s \in SUBSET (1 .. n) : F[s] \in Int
    /\ F = [s \in SUBSET (1 .. n) |-> F[s]]
    /\ F[{}] = 0
    /\ \A s \in SUBSET (1 .. n) : \A x \in s : F[s] = F[s \ {x}] + c[x]

(* As a fold from the last to the first there is one, and it does not      *)
(* matter which term is the last: by induction on the greatest of a set.   *)
LEMMA SumExists ==
  ASSUME NEW n \in Nat, NEW c, \A k \in 1 .. n : c[k] \in Int
  PROVE  \E F : Summed(F, n, c)
<1> DEFINE D == SUBSET (1 .. n)
           G == [p \in (1 .. n) \X Int |-> p[2] + c[p[1]]]
<1>1. G \in [(1 .. n) \X Int -> Int] /\ \A k \in 1 .. n, u \in Int : G[<<k, u>>] = u + c[k]
  OBVIOUS
<1> HIDE DEF G
<1>2. PICK F : Solves(F, n, Int, 0, G)
  <2> DEFINE V == Int
  <2>1. 0 \in V /\ G \in [(1 .. n) \X V -> V]
    BY <1>1
  <2> HIDE DEF V
  <2>2. \E F : Solves(F, n, V, 0, G)
    BY <2>1, FoldExists
  <2> QED
    BY <2>2 DEF V
<1>3. /\ F = [s \in D |-> F[s]] /\ F[{}] = 0
      /\ \A s \in D : s # {} => /\ Max(s) \in 1 .. n /\ F[s \ {Max(s)}] \in Int
                                /\ F[s] = F[s \ {Max(s)}] + c[Max(s)]
  BY <1>1, <1>2 DEF Solves
<1>4. \A s \in D : F[s] \in Int
  <2> SUFFICES ASSUME NEW s \in D PROVE F[s] \in Int
    OBVIOUS
  <2>1. CASE s = {}
    BY <2>1, <1>3
  <2>2. CASE s # {}
    <3>1. Max(s) \in 1 .. n /\ F[s \ {Max(s)}] \in Int /\ F[s] = F[s \ {Max(s)}] + c[Max(s)]
      BY <2>2, <1>3
    <3>2. c[Max(s)] \in Int
      BY <3>1
    <3> QED
      BY <3>1, <3>2
  <2> QED
    BY <2>1, <2>2
<1> DEFINE Done == {k \in 0 .. n : \A s \in SUBSET (1 .. k) : \A x \in s :
                                      s \in D => F[s] = F[s \ {x}] + c[x]}
<1>5. 0 \in Done
  <2>1. 1 .. 0 = {} /\ 0 \in 0 .. n
    OBVIOUS
  <2> QED
    BY <2>1
<1>6. ASSUME NEW k \in 1 .. n, k - 1 \in Done
      PROVE  k \in Done
  <2>1. ASSUME NEW s \in SUBSET (1 .. k), NEW x \in s
        PROVE  F[s] = F[s \ {x}] + c[x]
    <3> DEFINE e == Max(s)
    <3>1. /\ s \in D /\ s # {} /\ e \in s /\ e \in 1 .. k /\ \A y \in s : e >= y
      BY <2>1, Lasts
    <3>2. CASE x = e
      BY <3>1, <3>2, <1>3
    <3>3. CASE x # e
      <4> DEFINE t == s \ {x}
                 w == s \ {e}
      <4>1. e \in t /\ t \in D /\ w \in D /\ x \in w /\ \A y \in t : e >= y
        BY <3>1, <3>3, <2>1
      <4>2. Max(t) = e
        <5>1. Max(t) \in t /\ \A y \in t : Max(t) >= y
          BY <4>1, Lasts
        <5>2. Max(t) \in Int /\ e \in Int /\ Max(t) >= e /\ e >= Max(t)
          BY <5>1, <4>1, <3>1
        <5> QED
          BY <5>2
      <4>3. w \in SUBSET (1 .. k - 1)
        <5>1. \A y \in w : y \in 1 .. k /\ e >= y /\ y # e
          BY <3>1, <2>1
        <5>2. \A y \in w : y \in 1 .. k - 1
          BY <5>1, <3>1
        <5> QED
          BY <5>2
      <4>4. w \ {x} = t \ {e}
        OBVIOUS
      <4> HIDE DEF t, w
      <4>5. F[w] = F[w \ {x}] + c[x]
        BY <4>1, <4>3, <1>6
      <4>6. F[s] = F[w] + c[e]
        BY <3>1, <1>3 DEF w
      <4>7. F[t] = F[t \ {e}] + c[e]
        BY <4>1, <4>2, <1>3
      <4>8. c[e] \in Int /\ c[x] \in Int /\ F[t \ {e}] \in Int
        <5>1. e \in 1 .. n /\ x \in 1 .. n /\ t \ {e} \in D
          BY <3>1, <4>1, <2>1
        <5> QED
          BY <5>1, <1>4
      <4>9. F[s] = F[t] + c[x]
        BY <4>4, <4>5, <4>6, <4>7, <4>8
      <4> QED
        BY <4>9 DEF t
    <3> QED
      BY <3>2, <3>3
  <2>2. k \in 0 .. n
    OBVIOUS
  <2> QED
    BY <2>1, <2>2
<1>7. n \in Done
  <2>1. \A k \in 0 .. n : k \in Done
    <3> HIDE DEF Done
    <3> QED
      BY <1>5, <1>6, Induct
  <2>2. n \in 0 .. n
    OBVIOUS
  <2> HIDE DEF Done
  <2> QED
    BY <2>1, <2>2
<1>8. \A s \in D : \A x \in s : F[s] = F[s \ {x}] + c[x]
  BY <1>7
<1> HIDE DEF Done
<1>9. Summed(F, n, c)
  <2>1. \A s \in SUBSET (1 .. n) : F[s] \in Int
    BY <1>4
  <2>2. F = [s \in SUBSET (1 .. n) |-> F[s]] /\ F[{}] = 0
    BY <1>3, Zenon
  <2>3. \A s \in SUBSET (1 .. n) : \A x \in s : F[s] = F[s \ {x}] + c[x]
    BY <1>8
  <2> QED
    BY <2>1, <2>2, <2>3, Zenon DEF Summed
<1> QED
  BY <1>9

AnyOf(s) == CHOOSE x \in s : TRUE

Adds(f, n, c) ==
    f = [s \in SUBSET (1 .. n) |-> IF s = {} THEN 0 ELSE f[s \ {AnyOf(s)}] + c[AnyOf(s)]]

(* It is what adding in any order makes, one after the other.              *)
LEMMA SumAdds ==
  ASSUME NEW n \in Nat, NEW c, NEW F, Summed(F, n, c)
  PROVE  Adds(F, n, c) /\ \A f : Adds(f, n, c) => f[1 .. n] = F[1 .. n]
<1> DEFINE D == SUBSET (1 .. n)
<1>1. \A s \in D : s # {} => AnyOf(s) \in s /\ s \ {AnyOf(s)} \in D
  BY DEF AnyOf
<1>2. /\ F = [s \in D |-> F[s]] /\ F[{}] = 0
      /\ \A s \in D : s # {} => F[s] = F[s \ {AnyOf(s)}] + c[AnyOf(s)]
  BY <1>1 DEF Summed
<1>3. Adds(F, n, c)
  BY <1>2 DEF Adds
<1>4. ASSUME NEW f, Adds(f, n, c)
      PROVE  f[1 .. n] = F[1 .. n]
  <2>1. /\ f[{}] = 0
        /\ \A s \in D : s # {} => f[s] = f[s \ {AnyOf(s)}] + c[AnyOf(s)]
    <3>1. {} \in D
      OBVIOUS
    <3> QED
      BY <3>1, <1>4, Zenon DEF Adds
  <2> DEFINE Done == {k \in 0 .. n : \A s \in D : Cardinality(s) = k => f[s] = F[s]}
  <2>2. \A s \in D : IsFiniteSet(s) /\ Cardinality(s) \in 0 .. n
    <3>1. IsFiniteSet(1 .. n) /\ Cardinality(1 .. n) = n
      BY FS_Interval
    <3> SUFFICES ASSUME NEW s \in D PROVE IsFiniteSet(s) /\ Cardinality(s) \in 0 .. n
      OBVIOUS
    <3> DEFINE S == 1 .. n
    <3>2. IsFiniteSet(S) /\ Cardinality(S) = n /\ s \in SUBSET S
      BY <3>1
    <3> HIDE DEF S
    <3>3. IsFiniteSet(s) /\ Cardinality(s) <= n
      BY <3>2, FS_Subset
    <3>4. Cardinality(s) \in Nat
      BY <3>3, FS_CardinalityType
    <3> QED
      BY <3>3, <3>4
  <2>3. 0 \in Done
    <3>1. \A s \in D : Cardinality(s) = 0 => s = {}
      BY <2>2, FS_EmptySet
    <3>2. f[{}] = F[{}] /\ 0 \in 0 .. n
      BY <2>1, <1>2
    <3> HIDE DEF D
    <3> QED
      BY <3>1, <3>2
  <2>4. ASSUME NEW k \in 1 .. n, k - 1 \in Done
        PROVE  k \in Done
    <3>1. ASSUME NEW s \in D, Cardinality(s) = k
          PROVE  f[s] = F[s]
      <4>1. s # {}
        BY <3>1, FS_EmptySet
      <4>2. AnyOf(s) \in s /\ s \ {AnyOf(s)} \in D
        BY <4>1, <1>1
      <4>3. Cardinality(s \ {AnyOf(s)}) = k - 1
        BY <3>1, <4>2, <2>2, FS_RemoveElement
      <4>4. f[s \ {AnyOf(s)}] = F[s \ {AnyOf(s)}]
        BY <4>2, <4>3, <2>4
      <4> QED
        BY <4>1, <4>4, <2>1, <1>2
    <3>2. k \in 0 .. n
      OBVIOUS
    <3> QED
      BY <3>1, <3>2
  <2>5. \A k \in 0 .. n : k \in Done
    <3> HIDE DEF Done
    <3> QED
      BY <2>3, <2>4, Induct
  <2>6. 1 .. n \in D /\ Cardinality(1 .. n) \in 0 .. n
    BY <2>2
  <2> QED
    BY <2>5, <2>6
<1> QED
  BY <1>3, <1>4

(* t is the sum of the n terms.                                            *)
Totals(t, n, c) == \E F : Summed(F, n, c) /\ t = F[1 .. n]

LEMMA TotalsAre ==
  ASSUME NEW n \in Nat, NEW t, NEW c, Totals(t, n, c)
  PROVE  /\ t \in Int /\ (n = 0 => t = 0)
         /\ \A u, e : Totals(u, n, e) /\ (\A k \in 1 .. n : e[k] = c[k]) => u = t
         /\ \A u, e : Totals(u, n + 1, e) /\ (\A k \in 1 .. n : e[k] = c[k]) => u = t + e[n + 1]
<1>1. PICK F : Summed(F, n, c) /\ t = F[1 .. n]
  BY DEF Totals
<1>2. ASSUME NEW o \in Nat, n <= o, NEW H, NEW e, Summed(H, o, e), \A k \in 1 .. n : e[k] = c[k]
      PROVE  H[1 .. n] = F[1 .. n]
  <2> DEFINE Done == {k \in 0 .. n : H[1 .. k] = F[1 .. k]}
  <2>1. 0 \in Done
    <3>1. 1 .. 0 = {} /\ 0 \in 0 .. n
      OBVIOUS
    <3>2. H[{}] = 0 /\ F[{}] = 0
      BY <1>1, <1>2 DEF Summed
    <3> QED
      BY <3>1, <3>2
  <2>2. ASSUME NEW k \in 1 .. n, k - 1 \in Done
        PROVE  k \in Done
    <3>1. /\ 1 .. k \in SUBSET (1 .. n) /\ 1 .. k \in SUBSET (1 .. o) /\ k \in 1 .. k
          /\ (1 .. k) \ {k} = 1 .. k - 1 /\ k \in 0 .. n
      BY <1>2
    <3>2. H[1 .. k] = H[1 .. k - 1] + e[k] /\ F[1 .. k] = F[1 .. k - 1] + c[k]
      <4> DEFINE s == 1 .. k
                 q == 1 .. k - 1
      <4>1. s \in SUBSET (1 .. n) /\ s \in SUBSET (1 .. o) /\ k \in s /\ s \ {k} = q
        BY <3>1
      <4> HIDE DEF s, q
      <4>2. H[s] = H[s \ {k}] + e[k] /\ F[s] = F[s \ {k}] + c[k]
        BY <4>1, <1>1, <1>2, Zenon DEF Summed
      <4> QED
        BY <4>1, <4>2 DEF s, q
    <3> QED
      BY <3>1, <3>2, <2>2, <1>2
  <2>3. \A k \in 0 .. n : k \in Done
    <3> HIDE DEF Done
    <3> QED
      BY <2>1, <2>2, Induct
  <2>4. n \in 0 .. n
    OBVIOUS
  <2> QED
    BY <2>3, <2>4
<1>3. t \in Int /\ (n = 0 => t = 0)
  <2>1. 1 .. n \in SUBSET (1 .. n) /\ (n = 0 => 1 .. n = {})
    OBVIOUS
  <2> QED
    BY <2>1, <1>1 DEF Summed
<1>4. ASSUME NEW u, NEW e, Totals(u, n, e), \A k \in 1 .. n : e[k] = c[k]
      PROVE  u = t
  <2>1. PICK H : Summed(H, n, e) /\ u = H[1 .. n]
    BY <1>4 DEF Totals
  <2> QED
    BY <2>1, <1>1, <1>2, <1>4
<1>5. ASSUME NEW u, NEW e, Totals(u, n + 1, e), \A k \in 1 .. n : e[k] = c[k]
      PROVE  u = t + e[n + 1]
  <2>1. PICK H : Summed(H, n + 1, e) /\ u = H[1 .. n + 1]
    BY <1>5 DEF Totals
  <2>2. H[1 .. n] = F[1 .. n]
    <3>1. n + 1 \in Nat /\ n <= n + 1
      OBVIOUS
    <3> QED
      BY <3>1, <2>1, <1>2, <1>5
  <2>3. /\ 1 .. n + 1 \in SUBSET (1 .. n + 1) /\ n + 1 \in 1 .. n + 1
        /\ (1 .. n + 1) \ {n + 1} = 1 .. n
    OBVIOUS
  <2>4. H[1 .. n + 1] = H[1 .. n] + e[n + 1]
    <3> DEFINE s == 1 .. n + 1
               q == 1 .. n
               x == n + 1
    <3>1. s \in SUBSET (1 .. x) /\ x \in s /\ s \ {x} = q /\ Summed(H, x, e)
      BY <2>1, <2>3
    <3> HIDE DEF s, q, x
    <3>2. H[s] = H[s \ {x}] + e[x]
      BY <3>1, Zenon DEF Summed
    <3> QED
      BY <3>1, <3>2 DEF s, q, x
  <2> QED
    BY <2>1, <2>2, <2>4, <1>1
<1> QED
  BY <1>3, <1>4, <1>5

(* The tokens of some hits are the sum of the tokens of each.              *)
Terms(chars, picked) == [k \in 1 .. Len(picked) |-> EstimateTokens(chars[picked[k]])]

LEMMA UsedIs ==
  ASSUME NEW N, NEW chars, \A i \in N : EstimateTokens(chars[i]) \in Int, NEW picked \in Seq(N)
  PROVE  Totals(Used(chars, picked), Len(picked), Terms(chars, picked))
<1> DEFINE n == Len(picked)
           c == Terms(chars, picked)
           op(i, sum) == sum + EstimateTokens(chars[i])
           t == Used(chars, picked)
           Steps(f) == f = [r \in SUBSET DOMAIN picked |->
                          IF r = {} THEN 0 ELSE op(picked[AnyOf(r)], f[r \ {AnyOf(r)}])]
<1>1. /\ n \in Nat /\ DOMAIN picked = 1 .. n
      /\ \A k \in 1 .. n : c[k] = EstimateTokens(chars[picked[k]]) /\ c[k] \in Int
  BY DEF Terms
<1> HIDE DEF c, n
<1>2. PICK F : Summed(F, n, c)
  BY <1>1, SumExists
<1>3. ASSUME NEW f PROVE Steps(f) <=> Adds(f, n, c)
  <2>1. \A r \in SUBSET (1 .. n) : r # {} =>
           op(picked[AnyOf(r)], f[r \ {AnyOf(r)}]) = f[r \ {AnyOf(r)}] + c[AnyOf(r)]
    BY <1>1 DEF AnyOf
  <2>2. [r \in SUBSET (1 .. n) |->
           IF r = {} THEN 0 ELSE op(picked[AnyOf(r)], f[r \ {AnyOf(r)}])]
          = [r \in SUBSET (1 .. n) |->
               IF r = {} THEN 0 ELSE f[r \ {AnyOf(r)}] + c[AnyOf(r)]]
    BY <2>1
  <2> QED
    BY <2>2, <1>1, Zenon DEF Adds
<1> HIDE DEF Steps
<1>4. PICK f : Steps(f) /\ t = f[DOMAIN picked]
  <2>1. \E f : Steps(f)
    <3>1. Adds(F, n, c)
      BY <1>1, <1>2, SumAdds
    <3> QED
      BY <3>1, <1>3, Zenon
  <2>2. \E f : Steps(f) /\ t = f[DOMAIN picked]
    BY <2>1 DEF Steps, Used, FoldSeq, FoldFunction, FoldFunctionOnSet, MapThenFoldSet, AnyOf
  <2> QED
    BY <2>2
<1> HIDE DEF t
<1>5. t = F[1 .. n]
  <2>1. Adds(f, n, c)
    BY <1>3, <1>4, Zenon
  <2> QED
    BY <2>1, <1>1, <1>2, <1>4, SumAdds
<1>6. Totals(t, n, c)
  BY <1>2, <1>5 DEF Totals
<1> QED
  BY <1>6 DEF t, n, c

LEMMA UsedNone ==
  ASSUME NEW chars
  PROVE  Used(chars, <<>>) = 0
<1> DEFINE z == <<>>
           N == {}
<1>1. z \in Seq(N) /\ Len(z) = 0 /\ \A i \in N : EstimateTokens(chars[i]) \in Int
  OBVIOUS
<1> HIDE DEF z, N
<1>2. Totals(Used(chars, z), 0, Terms(chars, z))
  BY <1>1, UsedIs
<1>3. Used(chars, z) = 0
  BY <1>2, TotalsAre
<1> QED
  BY <1>3 DEF z

(* One more hit costs its tokens.                                          *)
LEMMA UsedNext ==
  ASSUME NEW N, NEW chars, \A i \in N : EstimateTokens(chars[i]) \in Int, NEW picked \in Seq(N),
         NEW x \in N
  PROVE  /\ Used(chars, picked) \in Int
         /\ Used(chars, Append(picked, x)) = Used(chars, picked) + EstimateTokens(chars[x])
<1> DEFINE n == Len(picked)
           more == Append(picked, x)
           c == Terms(chars, picked)
           e == Terms(chars, more)
<1>1. /\ n \in Nat /\ more \in Seq(N) /\ Len(more) = n + 1
      /\ more[n + 1] = x /\ \A k \in 1 .. n : more[k] = picked[k]
  OBVIOUS
<1>2. Totals(Used(chars, picked), n, c)
  BY UsedIs
<1> HIDE DEF more
<1>3. Totals(Used(chars, more), n + 1, e)
  BY <1>1, UsedIs
<1>4. (\A k \in 1 .. n : e[k] = c[k]) /\ e[n + 1] = EstimateTokens(chars[x])
  BY <1>1 DEF Terms
<1> HIDE DEF n, c, e
<1>5. Used(chars, picked) \in Int /\ Used(chars, more) = Used(chars, picked) + e[n + 1]
  BY <1>1, <1>2, <1>3, <1>4, TotalsAre
<1> QED
  BY <1>4, <1>5 DEF more

(* What k rounds have picked: hits within the budget, of which the first is*)
(* the best that fits it; less than k only when no other would fit.        *)
Picked(base, chars, pool, budget, k, p) ==
    /\ p \in Seq(pool) /\ Used(chars, p) <= budget
    /\ Len(p) = k \/ \A i \in pool \ Range(p) : ~Fits(chars, p, i, budget)
    /\ p # <<>> => \A i \in pool : EstimateTokens(chars[i]) <= budget => base[i] <= base[p[1]]

Priced(base, chars, pool) ==
    \A i \in pool : base[i] \in Int /\ EstimateTokens(chars[i]) \in Int

Open(chars, pool, budget, p) == {i \in pool \ Range(p) : Fits(chars, p, i, budget)}
Longer(base, chars, sim, pool, budget, p) ==
    LET open == Open(chars, pool, budget, p) IN
    IF open = {} THEN {p} ELSE {Append(p, i) : i \in Best(base, sim, p, open)}

(* Nothing is like what there is none of, so that the first round is by    *)
(* score alone.                                                            *)
LEMMA BestFirst ==
  ASSUME SelectionAssumption, NEW base, NEW sim, NEW S, \A i \in S : base[i] \in Int,
         NEW x \in Best(base, sim, <<>>, S)
  PROVE  \A i \in S : base[i] <= base[x]
<1> DEFINE Penalty(i) == Max({0} \cup {sim[i][p] : p \in Range(<<>>)})
           Score(i)   == base[i] - Weights.diversity * Penalty(i)
<1>1. \A i \in S : Score(x) > Score(i) \/ (Score(x) = Score(i) /\ base[x] >= base[i])
  BY DEF Best
<1>2. x \in S
  BY DEF Best
<1>3. \A i : Penalty(i) = 0
  <2>1. Range(<<>>) = {}
    BY DEF Range
  <2>2. \A i : {0} \cup {sim[i][p] : p \in Range(<<>>)} = {0}
    BY <2>1
  <2>3. Max({0}) = 0
    BY DEF Max
  <2> QED
    BY <2>2, <2>3
<1> HIDE DEF Penalty
<1>4. Weights.diversity \in Nat
  BY DEF SelectionAssumption
<1>5. \A i \in S : Score(i) = base[i]
  BY <1>3, <1>4
<1> HIDE DEF Score
<1> QED
  BY <1>1, <1>2, <1>5

LEMMA LongerIs ==
  ASSUME SelectionAssumption, NEW base, NEW chars, NEW sim, NEW pool, NEW budget \in Int,
         Priced(base, chars, pool), NEW k \in Nat, NEW p, Picked(base, chars, pool, budget, k, p),
         NEW q \in Longer(base, chars, sim, pool, budget, p)
  PROVE  Picked(base, chars, pool, budget, k + 1, q)
<1> DEFINE open == Open(chars, pool, budget, p)
           cost(i) == EstimateTokens(chars[i])
<1>1. /\ p \in Seq(pool) /\ Used(chars, p) <= budget
      /\ p # <<>> => \A i \in pool : cost(i) <= budget => base[i] <= base[p[1]]
      /\ \A i \in pool : base[i] \in Int /\ cost(i) \in Int
  BY DEF Picked, Priced
<1>2. CASE open = {}
  <2>1. q = p
    BY <1>2 DEF Longer
  <2>2. \A i \in pool \ Range(p) : ~Fits(chars, p, i, budget)
    BY <1>2 DEF Open
  <2> QED
    BY <1>1, <2>1, <2>2 DEF Picked
<1>3. CASE open # {}
  <2>1. PICK x \in Best(base, sim, p, open) : q = Append(p, x)
    BY <1>3 DEF Longer
  <2>2. x \in pool /\ Fits(chars, p, x, budget) /\ x \in open /\ open \subseteq pool
    BY <2>1 DEF Best, Open
  <2>3. Len(p) = k
    BY <2>2 DEF Open, Picked
  <2>4. q \in Seq(pool) /\ Len(q) = k + 1
    BY <1>1, <2>1, <2>2, <2>3, AppendIs
  <2>5. Used(chars, q) <= budget
    <3>1. Used(chars, q) = Used(chars, p) + cost(x)
      BY <1>1, <2>1, <2>2, UsedNext
    <3> QED
      BY <3>1, <2>2 DEF Fits
  <2>6. \A i \in pool : cost(i) <= budget => base[i] <= base[q[1]]
    <3>1. CASE p = <<>>
      <4>1. q[1] = x
        BY <2>1, <3>1
      <4>2. \A i \in open : base[i] <= base[x]
        <5>1. \A i \in open : base[i] \in Int
          BY <1>1, <2>2
        <5>2. x \in Best(base, sim, <<>>, open)
          BY <2>1, <3>1
        <5> HIDE DEF open
        <5> QED
          BY <5>1, <5>2, BestFirst
      <4>3. \A i \in pool : cost(i) <= budget => i \in open
        <5>1. Used(chars, p) = 0 /\ Range(p) = {}
          BY <3>1, UsedNone DEF Range
        <5> QED
          BY <5>1, <1>1 DEF Open, Fits
      <4> QED
        BY <4>1, <4>2, <4>3
    <3>2. CASE p # <<>>
      <4>1. q[1] = p[1]
        <5>1. Len(p) \in Nat /\ Len(p) # 0
          BY <1>1, <3>2, EmptySeq
        <5>2. 1 \in 1 .. Len(p)
          BY <5>1
        <5> QED
          BY <5>2, <1>1, <2>1, <2>2
      <4> QED
        BY <4>1, <1>1, <3>2
    <3> QED
      BY <3>1, <3>2
  <2> QED
    BY <2>4, <2>5, <2>6 DEF Picked
<1> QED
  BY <1>2, <1>3

(* The rounds, one after the other.                                        *)
LEMMA MmrSelectIs ==
  ASSUME SelectionAssumption, NEW base, NEW chars, NEW sim, NEW pool, NEW budget \in Nat,
         NEW k_max \in Nat, Priced(base, chars, pool),
         NEW hits \in MmrSelect(base, chars, sim, pool, budget, k_max)
  PROVE  Picked(base, chars, pool, budget, k_max, hits)
<1> DEFINE n == k_max
           s == [k \in 1 .. n |-> k]
           b == {<<>>}
           U == SUBSET Seq(pool)
           op(outcomes, k) == UNION {Longer(base, chars, sim, pool, budget, p) : p \in outcomes}
           t == MmrSelect(base, chars, sim, pool, budget, k_max)
           Steps(f) == f = [r \in SUBSET DOMAIN s |->
                          IF r = {} THEN b ELSE op(f[r \ {Max(r)}], s[Max(r)])]
           After(k, o) == \A p \in o : Picked(base, chars, pool, budget, k, p)
           V == [r \in SUBSET (1 .. n) |-> {o \in U : After(Cardinality(r), o)}]
           G == [p \in (1 .. n) \X U |-> op(p[2], s[p[1]])]
<1>1. n \in Nat /\ DOMAIN s = 1 .. n /\ budget \in Int
  OBVIOUS
<1>2. b \in V[{}]
  <2>1. {} \in SUBSET (1 .. n) /\ Cardinality({}) = 0
    BY FS_EmptySet
  <2>2. Picked(base, chars, pool, budget, 0, <<>>)
    <3>1. Used(chars, <<>>) <= budget
      BY UsedNone
    <3> QED
      BY <3>1 DEF Picked
  <2>3. b \in U
    OBVIOUS
  <2> HIDE DEF U
  <2> QED
    BY <2>1, <2>2, <2>3
<1>3. ASSUME NEW k \in Nat, NEW o, After(k, o), NEW j
      PROVE  After(k + 1, op(o, j)) /\ op(o, j) \in U
  <2>1. \A p \in op(o, j) : Picked(base, chars, pool, budget, k + 1, p)
    <3> SUFFICES ASSUME NEW p \in o, NEW q \in Longer(base, chars, sim, pool, budget, p)
                 PROVE  Picked(base, chars, pool, budget, k + 1, q)
      OBVIOUS
    <3>1. Picked(base, chars, pool, budget, k, p)
      BY <1>3
    <3> QED
      BY <3>1, <1>1, LongerIs
  <2>2. op(o, j) \subseteq Seq(pool)
    BY <2>1 DEF Picked
  <2> QED
    BY <2>1, <2>2
<1> HIDE DEF op, b, U, After, s
<1>4. ASSUME NEW r \in SUBSET (1 .. n), r # {}, NEW u \in V[r \ {Max(r)}]
      PROVE  op(u, s[Max(r)]) \in V[r]
  <2>1. Max(r) \in r /\ Max(r) \in 1 .. n /\ r \ {Max(r)} \in SUBSET (1 .. n)
    BY <1>1, <1>4, Lasts
  <2> DEFINE q == r \ {Max(r)}
             k == Cardinality(q)
  <2>2. IsFiniteSet(r)
    <3> DEFINE all == 1 .. n
    <3>1. IsFiniteSet(all)
      BY <1>1, FS_Interval
    <3>2. r \in SUBSET all
      OBVIOUS
    <3> HIDE DEF all
    <3> QED
      BY <3>1, <3>2, FS_Subset
  <2>3. k \in Nat /\ Cardinality(r) = k + 1
    <3>1. IsFiniteSet(q) /\ k = Cardinality(r) - 1 /\ Cardinality(r) \in Nat
      BY <2>1, <2>2, FS_RemoveElement, FS_CardinalityType
    <3> HIDE DEF q
    <3>2. k \in Nat
      BY <3>1, FS_CardinalityType
    <3> QED
      BY <3>1, <3>2
  <2>4. After(k, u)
    BY <2>1
  <2>5. After(k + 1, op(u, s[Max(r)])) /\ op(u, s[Max(r)]) \in U
    BY <2>3, <2>4, <1>3
  <2> HIDE DEF k
  <2> QED
    BY <2>3, <2>5
<1>5. \A r \in SUBSET (1 .. n) : V[r] \subseteq U
  OBVIOUS
<1> HIDE DEF V
<1>6. \A k \in 1 .. n, u \in U : G[<<k, u>>] = op(u, s[k])
  OBVIOUS
<1> HIDE DEF G
<1>7. \E f : Steps(f)
  <2>1. \A r \in SUBSET (1 .. n) : r # {} => /\ Max(r) \in 1 .. n /\ r \ {Max(r)} \in SUBSET (1 .. n)
    BY <1>1, Lasts
  <2>2. \A r \in SUBSET (1 .. n) : r # {} => \A u \in V[r \ {Max(r)}] :
            /\ G[<<Max(r), u>>] = op(u, s[Max(r)]) /\ G[<<Max(r), u>>] \in V[r]
    BY <2>1, <1>4, <1>5, <1>6
  <2>3. PICK f : Solution(f, n, V, b, G)
    BY <2>2, <1>1, <1>2, FamilyExists
  <2>4. f = [r \in SUBSET (1 .. n) |->
               IF r = {} THEN b ELSE op(f[r \ {Max(r)}], s[Max(r)])]
    BY <2>2, <2>3 DEF Solution
  <2> QED
    BY <2>4, <1>1
<1>8. PICK f : Steps(f) /\ t = f[DOMAIN s]
  <2>1. \E f : Steps(f) /\ t = f[DOMAIN s]
    BY <1>7 DEF MmrSelect, FoldLeft, MapThenFoldSet, op, b, s, Longer, Open
  <2> QED
    BY <2>1
<1> HIDE DEF t
<1>9. t \in V[1 .. n]
  <2>1. /\ f[{}] = b
        /\ \A r \in SUBSET (1 .. n) : r # {} => f[r] = op(f[r \ {Max(r)}], s[Max(r)])
    <3>1. f = [r \in SUBSET (1 .. n) |->
                 IF r = {} THEN b ELSE op(f[r \ {Max(r)}], s[Max(r)])]
      BY <1>8, <1>1
    <3>2. {} \in SUBSET (1 .. n)
      OBVIOUS
    <3> QED
      BY <3>1, <3>2, Zenon
  <2>2. \A r \in SUBSET (1 .. n) :
           r # {} /\ f[r \ {Max(r)}] \in V[r \ {Max(r)}] => f[r] \in V[r]
    BY <2>1, <1>4
  <2>3. f[{}] \in V[{}] /\ n \in Nat
    BY <2>1, <1>1, <1>2
  <2>4. f[1 .. n] \in V[1 .. n]
    BY <2>2, <2>3, FamilyEnds
  <2> QED
    BY <2>4, <1>1, <1>8
<1>10. After(n, t)
  <2>1. Cardinality(1 .. n) = n
    BY <1>1, FS_Interval
  <2>2. After(Cardinality(1 .. n), t)
    BY <1>9 DEF V
  <2> HIDE DEF n
  <2> QED
    BY <2>1, <2>2
<1> QED
  BY <1>10 DEF After, t

(* What the hits cost, counted from the records themselves.                *)
Cost(i) == EstimateTokens(Chars[docs[i].text])
Spent(hits) == FoldSeq(LAMBDA i, sum : sum + Cost(i), 0, hits)

LEMMA SpentIs ==
  ASSUME NEW N, \A i \in N : Cost(i) \in Int, NEW hits \in Seq(N), NEW chars,
         \A i \in N : EstimateTokens(chars[i]) = Cost(i)
  PROVE  Spent(hits) = Used(chars, hits) /\ Spent(hits) \in Int
<1> DEFINE n == Len(hits)
           c == Terms(chars, hits)
           op(i, sum) == sum + Cost(i)
           t == Spent(hits)
           Steps(f) == f = [r \in SUBSET DOMAIN hits |->
                          IF r = {} THEN 0 ELSE op(hits[AnyOf(r)], f[r \ {AnyOf(r)}])]
<1>1. /\ n \in Nat /\ DOMAIN hits = 1 .. n
      /\ \A k \in 1 .. n : c[k] = Cost(hits[k]) /\ c[k] \in Int
  BY DEF Terms
<1>2. Totals(Used(chars, hits), n, c)
  BY UsedIs
<1> HIDE DEF c, n
<1>3. PICK F : Summed(F, n, c)
  BY <1>1, SumExists
<1>4. ASSUME NEW f PROVE Steps(f) <=> Adds(f, n, c)
  <2>1. \A r \in SUBSET (1 .. n) : r # {} =>
           op(hits[AnyOf(r)], f[r \ {AnyOf(r)}]) = f[r \ {AnyOf(r)}] + c[AnyOf(r)]
    BY <1>1 DEF AnyOf
  <2>2. [r \in SUBSET (1 .. n) |->
           IF r = {} THEN 0 ELSE op(hits[AnyOf(r)], f[r \ {AnyOf(r)}])]
          = [r \in SUBSET (1 .. n) |->
               IF r = {} THEN 0 ELSE f[r \ {AnyOf(r)}] + c[AnyOf(r)]]
    BY <2>1
  <2> QED
    BY <2>2, <1>1, Zenon DEF Adds
<1> HIDE DEF Steps
<1>5. PICK f : Steps(f) /\ t = f[DOMAIN hits]
  <2>1. \E f : Steps(f)
    <3>1. Adds(F, n, c)
      BY <1>1, <1>3, SumAdds
    <3> QED
      BY <3>1, <1>4, Zenon
  <2>2. \E f : Steps(f) /\ t = f[DOMAIN hits]
    BY <2>1 DEF Steps, Spent, FoldSeq, FoldFunction, FoldFunctionOnSet, MapThenFoldSet, AnyOf
  <2> QED
    BY <2>2
<1> HIDE DEF t
<1>6. t = F[1 .. n]
  <2>1. Adds(f, n, c)
    BY <1>4, <1>5, Zenon
  <2> QED
    BY <2>1, <1>1, <1>3, <1>5, SumAdds
<1>7. Totals(t, n, c)
  BY <1>3, <1>6 DEF Totals
<1> QED
  BY <1>1, <1>2, <1>7, TotalsAre DEF t

(* What a recall considers is priced.                                      *)
LEMMA ScoresAre ==
  ASSUME Inv, NEW q \in Queries, NEW S \in SUBSET Ids, \A i \in S : docs[i] \in Doc,
         NEW r, r.view \cup r.expanded = S
  PROVE  /\ DOMAIN Scores(q, r) = S
         /\ \A i \in S : Scores(q, r)[i] \in Int /\ EstimateTokens(Chars[docs[i].text]) \in Int
<1> DEFINE fuse(i) == Fuse(Alike[q][docs[i].text], Cardinality(TextWords[q] \cap TextWords[docs[i].text]),
                           Salience[i], IF i \in r.expanded THEN 1 ELSE 0)
<1>1. Scores(q, r) = [i \in S |-> fuse(i)]
  BY DEF Scores
<1>2. ASSUME NEW i \in S
      PROVE  fuse(i) \in Int /\ EstimateTokens(Chars[docs[i].text]) \in Int
  <2> DEFINE x == docs[i].text
  <2>1. x \in Sketches /\ q \in Sketches /\ i \in 1 .. MaxId
    BY RetrievalAssumption DEF Doc, Ids
  <2> HIDE DEF x
  <2>2. Alike[q][x] \in Nat /\ Salience[i] \in Nat /\ Chars[x] \in Nat
    BY <2>1, RetrievalAssumption
  <2>3. Cardinality(TextWords[q] \cap TextWords[x]) \in Nat
    <3>1. IsFiniteSet(TextWords[q])
      BY <2>1, RetrievalAssumption
    <3>2. IsFiniteSet(TextWords[q] \cap TextWords[x])
      BY <3>1, FS_Intersection
    <3> QED
      BY <3>2, FS_CardinalityType
  <2>4. /\ Weights.semantic \in Nat /\ Weights.lexical \in Nat
        /\ Weights.salience \in Nat /\ Weights.graph \in Nat
    BY SelectionAssumption
  <2> DEFINE g == IF i \in r.expanded THEN 1 ELSE 0
             w == Cardinality(TextWords[q] \cap TextWords[x])
  <2>5. g \in Nat
    OBVIOUS
  <2> HIDE DEF g, w
  <2>6. Fuse(Alike[q][x], w, Salience[i], g) \in Int
    BY <2>2, <2>3, <2>4, <2>5 DEF Fuse, w
  <2>7. EstimateTokens(Chars[x]) \in Int
    BY <2>2, SelectionAssumption DEF EstimateTokens
  <2> QED
    BY <2>6, <2>7 DEF x, w, g
<1> HIDE DEF fuse
<1> QED
  BY <1>1, <1>2

(* The hits of a recall stay within the budget together; the best record   *)
(* that fits it comes first, and one that is left out would not fit beside *)
(* them, unless there are k_max: Used is what was spent, whatever order    *)
(* the lengths are summed in (collection.rs mmr_select).                   *)
THEOREM BudgetAlwaysUsed == Spec => []BudgetUsed
<1>1. ASSUME Inv PROVE BudgetUsed
  <2> DEFINE how == [past |-> FALSE, overview |-> FALSE, include_cold |-> TRUE, cold |-> {}]
             BestOne(base, fit, hits) ==
                 fit # {} => hits # <<>> /\ \A i \in fit : base[i] <= base[hits[1]]
  <2> SUFFICES ASSUME NEW q \in Queries, NEW limit \in Limits,
                      NEW r \in Considered(q, Nearest(q, FALSE), how),
                      NEW pool \in Pools(Scores(q, r), DOMAIN Scores(q, r)),
                      NEW hits \in Hits(Scores(q, r), pool, limit)
               PROVE  /\ Spent(hits) <= limit.budget
                      /\ limit.k_max > 0 =>
                            BestOne(Scores(q, r), {i \in pool : Cost(i) <= limit.budget}, hits)
                      /\ \/ Len(hits) = limit.k_max
                         \/ \A i \in pool \ Range(hits) : Spent(hits) + Cost(i) > limit.budget
    BY DEF BudgetUsed, Spent, Cost
  <2> DEFINE base == Scores(q, r)
             chars == Lengths(pool)
             S == r.view \cup r.expanded
  <2>1. S \in SUBSET Ids /\ \A i \in S : docs[i] \in Doc
    <3>1. S \subseteq Live
      <4>1. /\ r.view \subseteq Pool(Nearest(q, FALSE), how)
            /\ r.expanded \subseteq (Visible(how.past) \ Aside(Nearest(q, FALSE), how)) \ r.view
        <5> DEFINE nearest == Nearest(q, FALSE)
        <5> HIDE DEF nearest, how
        <5> QED
          BY OutcomeParts DEF nearest
      <4>2. Visible(how.past) = Live
        BY DEF Visible
      <4>3. Pool(Nearest(q, FALSE), how) \subseteq Visible(how.past)
        BY DEF Pool, Near
      <4> QED
        BY <4>1, <4>2, <4>3
    <3>2. docs \in [Ids -> Doc \cup {Absent}]
      BY <1>1 DEF Inv, State
    <3> QED
      BY <3>1, <3>2 DEF Live
  <2>2. DOMAIN base = S /\ \A i \in S : base[i] \in Int /\ Cost(i) \in Int
    BY <1>1, <2>1, ScoresAre DEF Cost
  <2>3. pool \subseteq S
    <3> HIDE DEF base, S
    <3>1. pool \in Pools(base, S)
      BY <2>2 DEF base
    <3> QED
      BY <3>1 DEF Pools, kSubset
  <2>4. limit.budget \in Nat /\ limit.k_max \in Nat
    BY RetrievalAssumption
  <2>5. \A i \in pool : EstimateTokens(chars[i]) = Cost(i)
    BY DEF Lengths, Cost
  <2>6. Priced(base, chars, pool)
    <3> HIDE DEF base, chars, S
    <3> QED
      BY <2>2, <2>3, <2>5 DEF Priced
  <2>7. hits \in MmrSelect(base, chars, Similarity(pool), pool, limit.budget, limit.k_max)
    BY DEF Hits
  <2> HIDE DEF base, chars, S
  <2>8. Picked(base, chars, pool, limit.budget, limit.k_max, hits)
    BY <2>4, <2>6, <2>7, MmrSelectIs, SelectionAssumption
  <2>9. Spent(hits) = Used(chars, hits) /\ Used(chars, hits) \in Int
    <3>1. hits \in Seq(pool)
      BY <2>8 DEF Picked
    <3>2. \A i \in pool : Cost(i) \in Int
      BY <2>2, <2>3
    <3> QED
      BY <3>1, <3>2, <2>5, SpentIs
  <2> DEFINE used == Used(chars, hits)
             budget == limit.budget
  <2>10. \A i \in pool : Fits(chars, hits, i, budget) <=> used + Cost(i) <= budget
    BY <2>5 DEF Fits
  <2>11. /\ used <= budget
         /\ Len(hits) = limit.k_max \/ \A i \in pool \ Range(hits) : ~(used + Cost(i) <= budget)
         /\ hits # <<>> => \A i \in pool : Cost(i) <= budget => base[i] <= base[hits[1]]
    BY <2>5, <2>8, <2>10 DEF Picked
  <2> HIDE DEF used
  <2>12. \/ Len(hits) = limit.k_max
         \/ \A i \in pool \ Range(hits) : Spent(hits) + Cost(i) > budget
    <3>1. \A i \in pool : Cost(i) \in Int
      BY <2>2, <2>3
    <3> QED
      BY <3>1, <2>4, <2>9, <2>11 DEF used
  <2>13. ASSUME limit.k_max > 0, NEW i \in pool, Cost(i) <= budget
         PROVE  hits # <<>> /\ base[i] <= base[hits[1]]
    <3>1. hits # <<>>
      <4> SUFFICES ASSUME hits = <<>> PROVE FALSE
        OBVIOUS
      <4>1. Len(hits) = 0 /\ Range(hits) = {}
        BY DEF Range
      <4>2. used = 0
        BY UsedNone DEF used
      <4> QED
        BY <4>1, <4>2, <2>2, <2>3, <2>4, <2>11, <2>13
    <3> QED
      BY <3>1, <2>11, <2>13
  <2> QED
    BY <2>9, <2>11, <2>12, <2>13 DEF used, base
<1> QED
  BY <1>1, Invariant, PTL

=============================================================================
