---------------------------- MODULE HnswProofs ----------------------------
(***************************************************************************)
(* An index of Hnsw can always be walked, for any vectors, any two measures*)
(* of distance and any levels: what an insertion makes of it, fold by fold.*)
(***************************************************************************)
EXTENDS Hnsw, SearchProofs

(* As many vectors as nodes, which give distances to any vector and node.  *)
Stored(g) == "store" \in DOMAIN g /\ g.store \in Seq(Vectors) /\ Len(g.store) = Len(g.links)

LEMMA DistancesAre ==
  ASSUME HnswConstants, NEW g, WellLinked(g), Stored(g)
  PROVE  /\ \A q \in Vectors : \A n \in Nodes(g) : FromQuery(g, q)[n] \in Int
         /\ \A n \in Nodes(g) : g.store[n] \in Vectors /\ Measured(FromNode(g, n), Nodes(g))
<1>1. Nodes(g) = 1 .. Len(g.links) /\ Len(g.links) \in Nat /\ Nodes(g) \in SUBSET Int
  BY LevelsAre
<1>2. \A n \in Nodes(g) : g.store[n] \in Vectors
  BY <1>1 DEF Stored
<1>3. \A x, y \in Vectors : NodeDist[x][y] \in Int /\ QueryDist[x][y] \in Int
  BY DEF HnswConstants
<1>4. \A q \in Vectors : \A n \in Nodes(g) : FromQuery(g, q)[n] \in Int
  BY <1>2, <1>3 DEF FromQuery
<1>5. \A x \in Nodes(g) : \A n \in Nodes(g) : FromNode(g, x)[n] \in Int
  BY <1>2, <1>3 DEF FromNode
<1> QED
  BY <1>1, <1>2, <1>4, <1>5 DEF Measured

(* Only the links differ, so that the distances are the same.              *)
LEMMA StoredStill ==
  ASSUME NEW g, NEW h, WellLinked(g), WellLinked(h), Stored(g), SameNodes(g, h), OnlyLinks(g, h)
  PROVE  Stored(h)
<1>1. Len(g.links) \in Nat /\ Len(h.links) \in Nat /\ 1 .. Len(g.links) = 1 .. Len(h.links)
  BY LevelsAre DEF SameNodes
<1>2. Len(g.links) = Len(h.links)
  BY <1>1
<1>3. h.store = g.store /\ DOMAIN h = DOMAIN g
  BY DEF OnlyLinks, Stored
<1> QED
  BY <1>2, <1>3 DEF Stored

(* What is selected: of the candidates, none twice, no more than the cap,  *)
(* and something.                                                          *)
Selected(s, C, cap) == s \in Seq(C) /\ IsInjective(s) /\ Len(s) <= cap /\ s # <<>>

LEMMA SelectIs ==
  ASSUME NEW g, NEW d, NEW C, NEW s \in Seq(C), IsInjective(s), s # <<>>, NEW cap \in Nat \ {0}
  PROVE  Selected(Select(g, d, s, cap), C, cap)
<1> DEFINE n == Len(s)
           op(u, c) == IF Len(u) < cap /\ \A k \in DOMAIN u : FromNode(g, u[k])[c] > d[c]
                       THEN Append(u, c) ELSE u
           t == FoldLeft(op, <<>>, s)
           Steps(f) == f = [r \in SUBSET DOMAIN s |->
                          IF r = {} THEN <<>> ELSE op(f[r \ {Max(r)}], s[Max(r)])]
           Of(r) == {s[i] : i \in r}
           V == [r \in SUBSET (1 .. n) |->
                   {u \in Seq(C) : Len(u) <= cap /\ IsInjective(u) /\ Range(u) \subseteq Of(r)}]
           G == [p \in (1 .. n) \X Seq(C) |-> op(p[2], s[p[1]])]
<1>2. s \in Seq(C) /\ IsInjective(s)
  OBVIOUS
<1>3. n \in Nat /\ DOMAIN s = 1 .. n /\ \A k \in 1 .. n : s[k] \in C
  BY <1>2
<1> HIDE DEF op
<1>4. ASSUME NEW r \in SUBSET (1 .. n), r # {}, NEW u \in V[r \ {Max(r)}]
      PROVE  op(u, s[Max(r)]) \in V[r]
  <2>1. Max(r) \in r /\ Max(r) \in 1 .. n /\ r \ {Max(r)} \in SUBSET (1 .. n)
    BY <1>3, <1>4, Lasts
  <2> DEFINE x == s[Max(r)]
             q == r \ {Max(r)}
  <2>2. x \in C /\ x \notin Of(q) /\ Of(r) = Of(q) \cup {x}
    <3>1. x \in C
      BY <2>1, <1>3
    <3>2. x \notin Of(q)
      BY <2>1, <1>2, <1>3 DEF IsInjective
    <3>3. Of(r) = Of(q) \cup {x}
      BY <2>1
    <3> QED
      BY <3>1, <3>2, <3>3
  <2>3. u \in Seq(C) /\ Len(u) <= cap /\ IsInjective(u) /\ Range(u) \subseteq Of(q)
    BY <2>1
  <2> HIDE DEF x, q, Of
  <2>4. /\ Append(u, x) \in Seq(C) /\ Len(Append(u, x)) = Len(u) + 1
        /\ Range(Append(u, x)) = Range(u) \cup {x} /\ IsInjective(Append(u, x))
    BY <2>2, <2>3, AppendIs
  <2>5. op(u, x) = u \/ (Len(u) < cap /\ op(u, x) = Append(u, x))
    BY DEF op
  <2>6. Len(u) \in Nat
    BY <2>3
  <2>7. /\ op(u, x) \in Seq(C) /\ Len(op(u, x)) <= cap /\ IsInjective(op(u, x))
        /\ Range(op(u, x)) \subseteq Of(r)
    <3>1. CASE op(u, x) = u
      BY <3>1, <2>2, <2>3
    <3>2. CASE Len(u) < cap /\ op(u, x) = Append(u, x)
      <4>1. Len(Append(u, x)) <= cap
        BY <3>2, <2>4, <2>6
      <4>2. Range(Append(u, x)) \subseteq Of(r)
        BY <2>2, <2>3, <2>4
      <4> QED
        BY <3>2, <4>1, <4>2, <2>4
    <3> QED
      BY <3>1, <3>2, <2>5
  <2> QED
    BY <2>7 DEF x
<1>5. <<>> \in V[{}]
  <2>1. IsInjective(<<>>) /\ Range(<<>>) = {} /\ {} \in SUBSET (1 .. n)
    BY DEF IsInjective, Range
  <2>2. <<>> \in Seq(C) /\ Len(<<>>) <= cap
    OBVIOUS
  <2> QED
    BY <2>1, <2>2
<1>6. \A r \in SUBSET (1 .. n) : V[r] \subseteq Seq(C)
  OBVIOUS
<1> HIDE DEF n, V
<1>7. \A k \in 1 .. n, u \in Seq(C) : G[<<k, u>>] = op(u, s[k])
  OBVIOUS
<1> HIDE DEF G
<1>8. \E f : Steps(f)
  <2>1. \A r \in SUBSET (1 .. n) : r # {} => /\ Max(r) \in 1 .. n /\ r \ {Max(r)} \in SUBSET (1 .. n)
    BY <1>3, Lasts
  <2>2. \A r \in SUBSET (1 .. n) : r # {} => \A u \in V[r \ {Max(r)}] :
            /\ G[<<Max(r), u>>] = op(u, s[Max(r)]) /\ G[<<Max(r), u>>] \in V[r]
    BY <2>1, <1>4, <1>6, <1>7
  <2>3. PICK f : Solution(f, n, V, <<>>, G)
    BY <2>2, <1>3, <1>5, FamilyExists
  <2>4. f = [r \in SUBSET (1 .. n) |->
               IF r = {} THEN <<>> ELSE op(f[r \ {Max(r)}], s[Max(r)])]
    BY <2>2, <2>3 DEF Solution
  <2> QED
    BY <2>4, <1>3
<1>9. PICK f : Steps(f) /\ t = f[DOMAIN s]
  <2>1. \E f : Steps(f) /\ t = f[DOMAIN s]
    BY <1>8 DEF FoldLeft, MapThenFoldSet, op
  <2> QED
    BY <2>1
<1> HIDE DEF t
<1>10. t \in V[1 .. n]
  <2>1. /\ f[{}] = <<>>
        /\ \A r \in SUBSET (1 .. n) : r # {} => f[r] = op(f[r \ {Max(r)}], s[Max(r)])
    <3>1. f = [r \in SUBSET (1 .. n) |->
                 IF r = {} THEN <<>> ELSE op(f[r \ {Max(r)}], s[Max(r)])]
      BY <1>9, <1>3
    <3>2. {} \in SUBSET (1 .. n)
      OBVIOUS
    <3> QED
      BY <3>1, <3>2, Zenon
  <2>2. n \in Nat /\ f[{}] \in V[{}]
    BY <2>1, <1>3, <1>5
  <2>3. \A r \in SUBSET (1 .. n) :
           r # {} /\ f[r \ {Max(r)}] \in V[r \ {Max(r)}] => f[r] \in V[r]
    BY <2>1, <1>4
  <2>4. f[1 .. n] \in V[1 .. n]
    BY <2>2, <2>3, FamilyEnds
  <2> QED
    BY <2>4, <1>3, <1>9
<1>11. t \in Seq(C) /\ Len(t) <= cap /\ IsInjective(t)
  BY <1>10, <1>3 DEF V
<1> DEFINE rest == Without(s, Range(t))
           all == t \o rest
           e == Select(g, d, s, cap)
<1>12. e = FirstOf(all, cap)
  BY DEF Select, t, op
<1>13. rest \in Seq(C) /\ Range(rest) = Range(s) \ Range(t) /\ IsInjective(rest)
  BY WithoutIs
<1> HIDE DEF rest
<1>14. all \in Seq(C) /\ IsInjective(all) /\ Range(all) = Range(t) \cup (Range(s) \ Range(t))
  <2>1. Range(t) \cap Range(rest) = {}
    BY <1>13
  <2> QED
    BY <2>1, <1>11, <1>13, ConcatIs
<1>15. all # <<>>
  <2>1. 1 \in DOMAIN s
    BY EmptySeq
  <2>2. Range(all) # {}
    BY <2>1, <1>14 DEF Range
  <2> HIDE DEF all
  <2>3. all = <<>> => Range(all) = {}
    BY DEF Range
  <2> QED
    BY <2>2, <2>3
<1> HIDE DEF all, e
<1>16. e \in Seq(C) /\ IsInjective(e) /\ Len(e) <= cap /\ e # <<>>
  BY <1>12, <1>14, <1>15, FirstOfIs
<1> QED
  BY <1>16 DEF Selected, e

(* A node on its way down has joined the layers above lc: none of its links*)
(* is on lc or below, and the layer is entered at another node of it.      *)
OnWay(g) == [g : Relinkings(g), ep : Nat, ep_dist : Int]

Joining(g, new, lc, s) ==
    /\ s \in OnWay(g)
    /\ WellLinked(s.g) /\ SameNodes(g, s.g) /\ OnlyLinks(g, s.g)
    /\ NotYet(s.g, new, lc)
    /\ s.ep \in OnLayer(g, lc) \ {new}

(* All of s link back.                                                     *)
AllBack(h, new, lc, s) ==
    FoldLeft(LAMBDA u, c : LinkBack(u, FromNode(u, c), c, new, lc), h, s)

LEMMA LinkBackAll ==
  ASSUME HnswConstants, NEW g, WellLinked(g), Stored(g), NEW lc \in Nat, NEW new \in OnLayer(g, lc),
         NEW s \in Seq(OnLayer(g, lc) \ {new}), IsInjective(s),
         NEW h, LinkedBack(g, new, lc, {}, h)
  PROVE  LinkedBack(g, new, lc, Range(s), AllBack(h, new, lc, s))
<1> DEFINE n == Len(s)
           U == Relinkings(g)
           op(u, c) == LinkBack(u, FromNode(u, c), c, new, lc)
           t == FoldLeft(op, h, s)
           Steps(f) == f = [r \in SUBSET DOMAIN s |->
                          IF r = {} THEN h ELSE op(f[r \ {Max(r)}], s[Max(r)])]
           Of(r) == {s[i] : i \in r}
           V == [r \in SUBSET (1 .. n) |-> {u \in U : LinkedBack(g, new, lc, Of(r), u)}]
           G == [p \in (1 .. n) \X U |-> op(p[2], s[p[1]])]
<1>1. n \in Nat /\ DOMAIN s = 1 .. n /\ \A k \in 1 .. n : s[k] \in OnLayer(g, lc) \ {new}
  OBVIOUS
<1>2. ASSUME NEW u, NEW done, LinkedBack(g, new, lc, done, u) PROVE u \in U
  BY <1>2, GraphsAre DEF LinkedBack
<1>3. ASSUME NEW u, NEW done, LinkedBack(g, new, lc, done, u),
             NEW c \in OnLayer(g, lc) \ {new}, c \notin done
      PROVE  LinkedBack(g, new, lc, done \cup {c}, op(u, c))
  <2>1. WellLinked(u) /\ SameNodes(g, u) /\ OnlyLinks(g, u)
    BY <1>3 DEF LinkedBack
  <2>2. Stored(u) /\ c \in Nodes(u) /\ Nodes(u) = Nodes(g)
    BY <2>1, StoredStill DEF SameNodes, OnLayer
  <2>3. \A x \in Nodes(g) : FromNode(u, c)[x] \in Int
    BY <2>1, <2>2, DistancesAre DEF Measured
  <2> QED
    BY <1>3, <2>3, LinkBackKeeps
<1> HIDE DEF op, U
<1>4. ASSUME NEW r \in SUBSET (1 .. n), r # {}, NEW u \in V[r \ {Max(r)}]
      PROVE  op(u, s[Max(r)]) \in V[r]
  <2>1. Max(r) \in r /\ Max(r) \in 1 .. n /\ r \ {Max(r)} \in SUBSET (1 .. n)
    BY <1>1, <1>4, Lasts
  <2> DEFINE x == s[Max(r)]
             q == r \ {Max(r)}
  <2>2. x \in OnLayer(g, lc) \ {new} /\ x \notin Of(q) /\ Of(r) = Of(q) \cup {x}
    <3>1. x \in OnLayer(g, lc) \ {new}
      BY <2>1, <1>1
    <3>2. x \notin Of(q)
      BY <2>1, <1>1 DEF IsInjective
    <3>3. Of(r) = Of(q) \cup {x}
      BY <2>1
    <3> QED
      BY <3>1, <3>2, <3>3
  <2>3. LinkedBack(g, new, lc, Of(q), u)
    BY <2>1
  <2> HIDE DEF x, q, Of
  <2>4. LinkedBack(g, new, lc, Of(r), op(u, x))
    BY <2>2, <2>3, <1>3
  <2> QED
    BY <2>4, <1>2 DEF x
<1>5. h \in V[{}]
  <2>1. {} \in SUBSET (1 .. n) /\ Of({}) = {} /\ h \in U
    BY <1>2
  <2> QED
    BY <2>1
<1>6. \A r \in SUBSET (1 .. n) : V[r] \subseteq U
  OBVIOUS
<1> HIDE DEF n, V
<1>7. \A k \in 1 .. n, u \in U : G[<<k, u>>] = op(u, s[k])
  OBVIOUS
<1> HIDE DEF G
<1>8. \E f : Steps(f)
  <2>1. \A r \in SUBSET (1 .. n) : r # {} => /\ Max(r) \in 1 .. n /\ r \ {Max(r)} \in SUBSET (1 .. n)
    BY <1>1, Lasts
  <2>2. \A r \in SUBSET (1 .. n) : r # {} => \A u \in V[r \ {Max(r)}] :
            /\ G[<<Max(r), u>>] = op(u, s[Max(r)]) /\ G[<<Max(r), u>>] \in V[r]
    BY <2>1, <1>4, <1>6, <1>7
  <2>3. PICK f : Solution(f, n, V, h, G)
    BY <2>2, <1>1, <1>5, FamilyExists
  <2>4. f = [r \in SUBSET (1 .. n) |->
               IF r = {} THEN h ELSE op(f[r \ {Max(r)}], s[Max(r)])]
    BY <2>2, <2>3 DEF Solution
  <2> QED
    BY <2>4, <1>1
<1>9. PICK f : Steps(f) /\ t = f[DOMAIN s]
  <2>1. \E f : Steps(f) /\ t = f[DOMAIN s]
    BY <1>8 DEF FoldLeft, MapThenFoldSet, op
  <2> QED
    BY <2>1
<1> HIDE DEF t
<1>10. t \in V[1 .. n]
  <2>1. /\ f[{}] = h
        /\ \A r \in SUBSET (1 .. n) : r # {} => f[r] = op(f[r \ {Max(r)}], s[Max(r)])
    <3>1. f = [r \in SUBSET (1 .. n) |->
                 IF r = {} THEN h ELSE op(f[r \ {Max(r)}], s[Max(r)])]
      BY <1>9, <1>1
    <3>2. {} \in SUBSET (1 .. n)
      OBVIOUS
    <3> QED
      BY <3>1, <3>2, Zenon
  <2>2. n \in Nat /\ f[{}] \in V[{}]
    BY <2>1, <1>1, <1>5
  <2>3. \A r \in SUBSET (1 .. n) :
           r # {} /\ f[r \ {Max(r)}] \in V[r \ {Max(r)}] => f[r] \in V[r]
    BY <2>1, <1>4
  <2>4. f[1 .. n] \in V[1 .. n]
    BY <2>2, <2>3, FamilyEnds
  <2> QED
    BY <2>4, <1>1, <1>9
<1>11. Of(1 .. n) = Range(s)
  BY <1>1 DEF Range
<1>12. LinkedBack(g, new, lc, Range(s), t)
  BY <1>10, <1>11 DEF V
<1> QED
  BY <1>12 DEF t, op, AllBack

LEMMA JoinLayerIs ==
  ASSUME HnswConstants, NEW g, WellLinked(g), Stored(g), NEW lc \in Nat,
         NEW new \in OnLayer(g, lc), NEW s, Joining(g, new, lc, s)
  PROVE  Joining(g, new, lc - 1, JoinLayer(s, new, lc))
<1> DEFINE h == s.g
           ep == s.ep
           f == FromQuery(h, h.store[new])
           d == [f EXCEPT ![ep] = s.ep_dist]
           ef == Greater(EfSearch, 2 * m)
           found == Beam(d, Layer(h, lc), From(ep), ef).results
           selected == Select(h, d, InOrder(d, found), CapOf(lc))
           h0 == [h EXCEPT !.links[new][lc + 1] = selected]
           h1 == AllBack(h0, new, lc, selected)
           ep1 == selected[1]
           t == JoinLayer(s, new, lc)
<1>1. /\ WellLinked(h) /\ SameNodes(g, h) /\ OnlyLinks(g, h) /\ NotYet(h, new, lc)
      /\ ep \in OnLayer(g, lc) \ {new} /\ s.ep_dist \in Int
  BY DEF Joining, OnWay
<1>2. OnLayer(g, lc) \ {new} \subseteq OnLayer(g, lc - 1) \ {new} /\ OnLayer(g, lc) \subseteq Nat
  BY LevelsAre DEF OnLayer
<1>3. t = [g |-> h1, ep |-> ep1, ep_dist |-> d[ep1]]
  BY DEF JoinLayer, AllBack
<1>4. /\ OnLayer(h, lc) = OnLayer(g, lc) /\ Nodes(h) = Nodes(g) /\ Stored(h)
      /\ new \in Nodes(h) /\ new \in Nat /\ "links" \in DOMAIN h
      /\ IsFiniteSet(Nodes(h)) /\ Nodes(h) \in SUBSET Int
  BY <1>1, SameLayers, StoredStill, LevelsAre DEF OnLayer, SameNodes, OnlyLinks
<1>5. Measured(d, Nodes(h))
  <2>1. DOMAIN f = Nodes(h) /\ ep \in Nodes(h) /\ \A n \in Nodes(h) : f[n] \in Int
    BY <1>1, <1>4, DistancesAre DEF FromQuery, OnLayer
  <2> HIDE DEF f
  <2> QED
    BY <2>1, <1>1, <1>4 DEF Measured
<1> HIDE DEF t, h1, d
<1>6. found \subseteq OnLayer(h, lc) \ {new} /\ found # {}
  <2>1. /\ ep \in OnLayer(h, lc) \ {new} /\ ef \in Nat \ {0} /\ lc <= lc
        /\ WellLinked(h) /\ NotYet(h, new, lc)
    BY <1>1, <1>4, CapsAssumption DEF HnswConstants, Greater
  <2> HIDE DEF ep, ef, h
  <2>2. FoundOn(d, OnLayer(h, lc) \ {new}, ep, found)
    BY <2>1, <1>4, <1>5, BeamOnLayer
  <2> QED
    BY <2>2 DEF FoundOn
<1> HIDE DEF found
<1>7. Selected(selected, found, CapOf(lc))
  <2> DEFINE cands == InOrder(d, found)
  <2>1. CapOf(lc) \in Nat \ {0}
    BY CapsAssumption DEF CapOf
  <2>2. found \subseteq Nodes(h)
    BY <1>6 DEF OnLayer
  <2>3. IsFiniteSet(found) /\ Measured(d, found)
    BY <2>2, <1>4, <1>5, FS_Subset DEF Measured
  <2>4. cands \in Seq(found) /\ IsInjective(cands) /\ Range(cands) = found
    BY <2>3, InOrderIs
  <2> HIDE DEF cands
  <2>5. cands # <<>>
    BY <2>4, <1>6 DEF Range
  <2>6. Selected(Select(h, d, cands, CapOf(lc)), found, CapOf(lc))
    BY <2>1, <2>4, <2>5, SelectIs
  <2> QED
    BY <2>6 DEF cands
<1> HIDE DEF selected
<1>8. selected \in Seq(OnLayer(h, lc) \ {new})
  BY <1>6, <1>7 DEF Selected
<1>9. IsInjective(selected) /\ Len(selected) <= CapOf(lc)
  BY <1>7 DEF Selected
<1>10. ep1 \in OnLayer(g, lc) \ {new} /\ d[ep1] \in Int
  <2>1. ep1 \in OnLayer(h, lc) \ {new}
    BY <1>7, <1>8, EmptySeq DEF Selected
  <2> QED
    BY <2>1, <1>4, <1>5 DEF Measured, OnLayer
<1> HIDE DEF h
<1>11. LinkedBack(h, new, lc, {}, h0)
  BY <1>4, <1>8, <1>9, <1>1, ListSet
<1> HIDE DEF h0, ep1, ep
<1>12. LinkedBack(h, new, lc, Range(selected), h1)
  BY <1>4, <1>8, <1>9, <1>11, <1>1, LinkBackAll DEF h1
<1>13. WellLinked(h1) /\ SameNodes(g, h1) /\ OnlyLinks(g, h1)
  <2>1. WellLinked(h1) /\ SameNodes(h, h1) /\ OnlyLinks(h, h1)
    BY <1>12 DEF LinkedBack
  <2> QED
    BY <2>1, <1>1, OnlyLinksAgain DEF SameNodes
<1>14. NotYet(h1, new, lc - 1)
  BY <1>12, JoinedAbove
<1>15. t \in OnWay(g) /\ t.g = h1 /\ t.ep = ep1
  <2>1. h1 \in Relinkings(g)
    BY <1>13, GraphsAre
  <2> QED
    BY <2>1, <1>2, <1>3, <1>10 DEF OnWay
<1>16. Joining(g, new, lc - 1, t)
  BY <1>2, <1>10, <1>13, <1>14, <1>15 DEF Joining
<1> QED
  BY <1>16 DEF t

LEMMA JoiningBelow ==
  ASSUME NEW g, NEW new, NEW a \in Int, NEW b \in Int, b <= a, NEW s, Joining(g, new, a, s),
         WellLinked(g)
  PROVE  Joining(g, new, b, s)
<1>1. \A n \in Nodes(g) : Level(g, n) \in Nat
  BY LevelsAre
<1>2. OnLayer(g, a) \subseteq OnLayer(g, b)
  BY <1>1 DEF OnLayer
<1>3. \A x \in 0 .. b : x \in 0 .. a
  OBVIOUS
<1>4. NotYet(s.g, new, b)
  BY <1>3 DEF NotYet, Joining
<1> QED
  BY <1>2, <1>4 DEF Joining

(* A node joins the layers from top to the lowest.                         *)
AllLayers(start, new, top) ==
    FoldLeft(LAMBDA s, lc : JoinLayer(s, new, lc), start, DownFrom(top, 0))

LEMMA AllLayersAre ==
  ASSUME HnswConstants, NEW g, WellLinked(g), Stored(g), NEW top \in Nat, NEW new \in OnLayer(g, top),
         NEW start, Joining(g, new, top, start)
  PROVE  Joining(g, new, -1, AllLayers(start, new, top))
<1> DEFINE s == DownFrom(top, 0)
           n == Len(s)
           U == OnWay(g)
           op(u, lc) == JoinLayer(u, new, lc)
           t == FoldLeft(op, start, s)
           Steps(f) == f = [r \in SUBSET DOMAIN s |->
                          IF r = {} THEN start ELSE op(f[r \ {Max(r)}], s[Max(r)])]
           Past(r) == IF r = {} THEN 0 ELSE Max(r)
           V == [r \in SUBSET (1 .. n) |-> {u \in U : Joining(g, new, top - Past(r), u)}]
           G == [p \in (1 .. n) \X U |-> op(p[2], s[p[1]])]
<1>1. n \in Nat /\ DOMAIN s = 1 .. n /\ n = top + 1 /\ \A k \in 1 .. n : s[k] = top - k + 1
  BY DEF DownFrom
<1>2. ASSUME NEW lc, NEW u, Joining(g, new, lc, u) PROVE u \in U
  BY <1>2 DEF Joining
<1>3. ASSUME NEW lc \in 0 .. top, NEW u, Joining(g, new, lc, u)
      PROVE  Joining(g, new, lc - 1, op(u, lc))
  <2>1. new \in OnLayer(g, lc) /\ lc \in Nat
    BY LevelsAre DEF OnLayer
  <2> QED
    BY <2>1, <1>3, JoinLayerIs
<1> HIDE DEF op, U, s
<1>4. ASSUME NEW r \in SUBSET (1 .. n), r # {}, NEW u \in V[r \ {Max(r)}]
      PROVE  op(u, s[Max(r)]) \in V[r]
  <2> DEFINE k == Max(r)
             q == r \ {k}
  <2>1. k \in r /\ k \in 1 .. n /\ q \in SUBSET (1 .. n) /\ \A y \in r : k >= y
    BY <1>1, <1>4, Lasts
  <2>2. Past(q) \in 0 .. k - 1
    <3>1. CASE q = {}
      BY <3>1, <2>1
    <3>2. CASE q # {}
      <4>1. Max(q) \in q /\ Max(q) \in 1 .. n
        BY <3>2, <2>1, <1>1, Lasts
      <4>2. Max(q) \in r /\ Max(q) # k /\ Max(q) <= k
        BY <4>1, <2>1
      <4> QED
        BY <3>2, <4>1, <4>2, <2>1
    <3> QED
      BY <3>1, <3>2
  <2>3. Joining(g, new, top - Past(q), u)
    BY <2>1
  <2>4. s[k] = top - k + 1 /\ s[k] \in 0 .. top /\ s[k] - 1 = top - k
    BY <2>1, <1>1
  <2>5. Past(r) = k
    BY <1>4
  <2> HIDE DEF k, q, Past
  <2>6. Joining(g, new, s[k], u)
    <3>1. s[k] <= top - Past(q) /\ s[k] \in Int /\ top - Past(q) \in Int
      BY <2>1, <2>2, <2>4
    <3> QED
      BY <3>1, <2>3, JoiningBelow
  <2>7. Joining(g, new, s[k] - 1, op(u, s[k]))
    BY <2>4, <2>6, <1>3
  <2>8. Joining(g, new, top - Past(r), op(u, s[k]))
    BY <2>4, <2>5, <2>7
  <2> QED
    BY <2>8, <1>2 DEF k
<1>5. start \in V[{}]
  <2>1. {} \in SUBSET (1 .. n) /\ top - Past({}) = top /\ start \in U
    BY <1>2
  <2> HIDE DEF Past
  <2> QED
    BY <2>1
<1>6. \A r \in SUBSET (1 .. n) : V[r] \subseteq U
  OBVIOUS
<1> HIDE DEF n, V
<1>7. \A k \in 1 .. n, u \in U : G[<<k, u>>] = op(u, s[k])
  OBVIOUS
<1> HIDE DEF G
<1>8. \E f : Steps(f)
  <2>1. \A r \in SUBSET (1 .. n) : r # {} => /\ Max(r) \in 1 .. n /\ r \ {Max(r)} \in SUBSET (1 .. n)
    BY <1>1, Lasts
  <2>2. \A r \in SUBSET (1 .. n) : r # {} => \A u \in V[r \ {Max(r)}] :
            /\ G[<<Max(r), u>>] = op(u, s[Max(r)]) /\ G[<<Max(r), u>>] \in V[r]
    BY <2>1, <1>4, <1>6, <1>7
  <2>3. PICK f : Solution(f, n, V, start, G)
    BY <2>2, <1>1, <1>5, FamilyExists
  <2>4. f = [r \in SUBSET (1 .. n) |->
               IF r = {} THEN start ELSE op(f[r \ {Max(r)}], s[Max(r)])]
    BY <2>2, <2>3 DEF Solution
  <2> QED
    BY <2>4, <1>1
<1>9. PICK f : Steps(f) /\ t = f[DOMAIN s]
  <2>1. \E f : Steps(f) /\ t = f[DOMAIN s]
    BY <1>8 DEF FoldLeft, MapThenFoldSet, op
  <2> QED
    BY <2>1
<1> HIDE DEF t
<1>10. t \in V[1 .. n]
  <2>1. /\ f[{}] = start
        /\ \A r \in SUBSET (1 .. n) : r # {} => f[r] = op(f[r \ {Max(r)}], s[Max(r)])
    <3>1. f = [r \in SUBSET (1 .. n) |->
                 IF r = {} THEN start ELSE op(f[r \ {Max(r)}], s[Max(r)])]
      BY <1>9, <1>1
    <3>2. {} \in SUBSET (1 .. n)
      OBVIOUS
    <3> QED
      BY <3>1, <3>2, Zenon
  <2>2. \A r \in SUBSET (1 .. n) :
           r # {} /\ f[r \ {Max(r)}] \in V[r \ {Max(r)}] => f[r] \in V[r]
    BY <2>1, <1>4
  <2>3. f[{}] \in V[{}] /\ n \in Nat
    BY <2>1, <1>1, <1>5
  <2>4. f[1 .. n] \in V[1 .. n]
    BY <2>2, <2>3, FamilyEnds
  <2> QED
    BY <2>4, <1>1, <1>9
<1>11. top - Past(1 .. n) = -1
  <2>1. n \in Nat \ {0}
    BY <1>1
  <2>2. Max(1 .. n) = n /\ 1 .. n # {}
    BY <2>1, MaxUpTo
  <2> QED
    BY <2>2, <1>1
<1> HIDE DEF Past
<1>12. Joining(g, new, -1, t)
  BY <1>10, <1>11 DEF V
<1> QED
  BY <1>12 DEF t, op, s, AllLayers

-----------------------------------------------------------------------------
(* An index as insertions make it, each node with a vector.                *)
Built(g) ==
    /\ g \in [store : Seq(Vectors), links : Seq(Seq(Seq(Nat)) \ {<<>>}), entry : Nat, max_level : Nat]
    /\ Len(g.store) = Len(g.links) /\ Len(g.store) <= MaxVectors
    /\ LinksLevelled(g) /\ LinksBounded(g) /\ EntryOnTop(g)
    /\ Nodes(g) = {} => g.entry = 0

LEMMA BuiltIs ==
  ASSUME NEW g, Built(g)
  PROVE  /\ WellLinked(g) /\ Stored(g)
         /\ g.entry # 0 => /\ g.entry \in Nodes(g) /\ Level(g, g.entry) = g.max_level
                           /\ \A n \in Nodes(g) : Level(g, n) <= g.max_level
BY DEF Built, WellLinked, Stored, EntryOnTop

LEMMA InsertedIs ==
  ASSUME HnswConstants, NEW x \in Vectors, Built(hnsw), Len(hnsw.store) < MaxVectors
  PROVE  Built(Inserted(hnsw, x))
<1> DEFINE g == hnsw
           new == Len(g.store) + 1
           level == LevelsDrawn[new]
           g1 == [WithNode(g, level) EXCEPT !.store = Append(@, x)]
           f == FromNode(g1, new)
           ep == Descend(g1, f, g.max_level, level + 1)
           e == Inserted(g, x)
<1>1. /\ g.store \in Seq(Vectors)
      /\ g.links \in Seq(Seq(Seq(Nat)) \ {<<>>}) /\ g.entry \in Nat /\ g.max_level \in Nat
      /\ Len(g.store) = Len(g.links) /\ Built(g) /\ Len(g.store) < MaxVectors
      /\ g = [store |-> g.store, links |-> g.links, entry |-> g.entry, max_level |-> g.max_level]
  BY DEF Built
<1> HIDE DEF g
<1>2. /\ WellLinked(g) /\ Len(g.links) \in Nat /\ new = Len(g.links) + 1 /\ new \in Nat \ {0}
      /\ level \in Nat /\ new <= MaxVectors
  <2>1. WellLinked(g) /\ Len(g.links) \in Nat
    BY <1>1, BuiltIs, LevelsAre
  <2>2. new \in 1 .. MaxVectors
    BY <2>1, <1>1 DEF HnswConstants
  <2>3. level \in Nat
    BY <2>2 DEF HnswConstants
  <2> QED
    BY <2>1, <2>2, <2>3, <1>1
<1> HIDE DEF level
<1>3. g1 = [store |-> Append(g.store, x), links |-> Append(g.links, Unlinked(level)),
            entry |-> g.entry, max_level |-> g.max_level]
  <2> DEFINE s == Append(g.store, x)
             l == Append(g.links, Unlinked(level))
             w == WithNode(g, level)
  <2>1. w = [g EXCEPT !.links = l]
    BY DEF WithNode, Unlinked
  <2> HIDE DEF l, w
  <2>2. w = [store |-> g.store, links |-> l, entry |-> g.entry, max_level |-> g.max_level]
    BY <2>1, <1>1
  <2>3. w.store = g.store
    BY <2>2
  <2>4. g1 = [w EXCEPT !.store = s]
    BY <2>3 DEF w
  <2> HIDE DEF s, g1
  <2>5. g1 = [store |-> s, links |-> l, entry |-> g.entry, max_level |-> g.max_level]
    BY <2>2, <2>4
  <2> QED
    BY <2>5 DEF l, s, g1
<1>4. e = IF g.entry = 0 THEN [g1 EXCEPT !.entry = new, !.max_level = level]
          ELSE Raise(AllLayers([g |-> g1, ep |-> ep, ep_dist |-> f[ep]],
                               new, TopLayer(level, g.max_level)).g, new, level)
  BY DEF Inserted, level, AllLayers
<1> HIDE DEF g1, e, new
<1>5. /\ g1.store = Append(g.store, x) /\ g1.links = Append(g.links, Unlinked(level))
      /\ g1.entry = g.entry /\ g1.max_level = g.max_level
      /\ DOMAIN g1 = {"store", "links", "entry", "max_level"}
  BY <1>1, <1>3
<1>6. WellLinked(g1) /\ NodeAdded(g, g1, level) /\ \A top : NotYet(g1, new, top)
  BY <1>2, <1>5, WithNodeIs
<1>7. /\ Nodes(g1) = Nodes(g) \cup {new} /\ new \notin Nodes(g) /\ Level(g1, new) = level
      /\ \A n \in Nodes(g) : Level(g1, n) = Level(g, n)
  BY <1>2, <1>6 DEF NodeAdded
<1>8. Append(g.store, x) \in Seq(Vectors) /\ Len(Append(g.store, x)) = new
  BY <1>1, <1>2, AppendIs
<1>9. Len(g1.links) = new /\ Stored(g1)
  <2>1. Len(g1.links) = Len(g.links) + 1
    <3> DEFINE rows == Unlinked(level)
    <3> HIDE DEF rows
    <3> QED
      BY <1>1, <1>5 DEF rows
  <2> QED
    BY <2>1, <1>2, <1>5, <1>8 DEF Stored
<1>10. ASSUME NEW h, h.links \in Seq(Seq(Seq(Nat)) \ {<<>>}),
              h = [store |-> Append(g.store, x), links |-> h.links, entry |-> h.entry,
                   max_level |-> h.max_level],
              WellLinked(h), EntryOnTop(h), SameNodes(g1, h), h.entry \in Nat, h.max_level \in Nat
       PROVE  Built(h)
  <2> DEFINE s == Append(g.store, x)
  <2> HIDE DEF s
  <2>1. h.store = s /\ s \in Seq(Vectors) /\ Len(s) = new
    BY <1>8, <1>10 DEF s
  <2>2. h = [store |-> s, links |-> h.links, entry |-> h.entry, max_level |-> h.max_level]
    BY <1>10 DEF s
  <2>3. Len(h.links) = new
    <3>1. Nodes(h) = 1 .. Len(h.links) /\ Nodes(g1) = 1 .. Len(g1.links) /\ Len(h.links) \in Nat
      BY <1>10, <1>6, LevelsAre
    <3> QED
      BY <3>1, <1>2, <1>9, <1>10 DEF SameNodes
  <2>4. new \in Nodes(h)
    BY <1>7, <1>10 DEF SameNodes
  <2> QED
    BY <2>1, <2>2, <2>3, <2>4, <1>2, <1>10 DEF Built, WellLinked
<1>11. CASE g.entry = 0
  <2>1. e = [store |-> Append(g.store, x),
             links |-> g1.links, entry |-> new, max_level |-> level]
    BY <1>1, <1>3, <1>4, <1>5, <1>11
  <2>2. e.links = g1.links /\ e.entry = new /\ e.max_level = level
    BY <2>1
  <2>3. WellLinked(e) /\ SameNodes(g1, e)
    BY <2>2, <1>6, SameLinks
  <2>4. Nodes(g) = {}
    <3>1. 0 \notin Nodes(g)
      BY <1>2, LevelsAre
    <3> QED
      BY <3>1, <1>1, <1>11 DEF Built, EntryOnTop
  <2>5. EntryOnTop(e)
    <3>1. Nodes(e) = {new} /\ Level(e, new) = level
      BY <2>3, <2>4, <1>7 DEF SameNodes
    <3> QED
      BY <3>1, <2>2, <1>2 DEF EntryOnTop
  <2>6. e.links \in Seq(Seq(Seq(Nat)) \ {<<>>})
    BY <2>3 DEF WellLinked
  <2> QED
    BY <2>1, <2>2, <2>3, <2>5, <2>6, <1>2, <1>10 DEF e, g
<1>12. CASE g.entry # 0
  <2> DEFINE top == TopLayer(level, g.max_level)
             start == [g |-> g1, ep |-> ep, ep_dist |-> f[ep]]
             j == AllLayers(start, new, top)
             h == j.g
  <2>1. top \in Nat /\ top <= level /\ top <= g.max_level
    BY <1>1, <1>2 DEF TopLayer, Smaller
  <2>2. /\ g.entry \in Nodes(g) /\ Level(g, g.entry) = g.max_level
        /\ \A n \in Nodes(g) : Level(g, n) <= g.max_level
    BY <1>1, <1>12, BuiltIs
  <2>3. ep \in OnLayer(g1, Smaller(g.max_level, level + 1)) \ {new}
    <3>1. Measured(f, Nodes(g1))
      BY <1>6, <1>7, <1>9, DistancesAre
    <3> HIDE DEF f
    <3>2. g1.entry \in OnLayer(g1, g.max_level) \ {new}
      BY <2>2, <1>1, <1>5, <1>7 DEF OnLayer
    <3>3. g.max_level \in Nat /\ level + 1 \in Nat /\ new \in Nat /\ NotYet(g1, new, g.max_level)
      BY <1>1, <1>2, <1>6
    <3>4. Descend(g1, f, g.max_level, level + 1)
             \in OnLayer(g1, Smaller(g.max_level, level + 1)) \ {new}
      BY <3>1, <3>2, <3>3, <1>6, DescendIs
    <3> QED
      BY <3>4
  <2>18. \A n \in Nodes(g1) : f[n] \in Int
    BY <1>6, <1>7, <1>9, DistancesAre DEF Measured
  <2> HIDE DEF ep, top, f
  <2>4. ep \in OnLayer(g1, top) \ {new} /\ ep \in Nat
    <3>1. \A n \in Nodes(g1) : Level(g1, n) \in Nat /\ n \in Nat
      BY <1>6, LevelsAre
    <3>2. top <= Smaller(g.max_level, level + 1) /\ Smaller(g.max_level, level + 1) \in Nat
      BY <2>1, <1>1, <1>2 DEF Smaller
    <3> QED
      BY <3>1, <3>2, <2>1, <2>3 DEF OnLayer
  <2>5. Joining(g1, new, top, start)
    <3>1. OnlyLinks(g1, g1)
      BY <1>3, <1>5 DEF OnlyLinks
    <3>2. g1 \in Relinkings(g1)
      BY <3>1, <1>6, GraphsAre
    <3>3. start \in OnWay(g1)
      BY <3>2, <2>4, <2>18 DEF OnWay, OnLayer
    <3>4. start.g = g1 /\ start.ep = ep
      OBVIOUS
    <3>5. SameNodes(g1, g1)
      BY DEF SameNodes
    <3> HIDE DEF start
    <3> QED
      BY <3>1, <3>3, <3>4, <3>5, <2>4, <1>6 DEF Joining
  <2>6. new \in OnLayer(g1, top)
    BY <2>1, <1>7 DEF OnLayer
  <2> HIDE DEF start
  <2>7. Joining(g1, new, -1, j)
    BY <2>1, <2>5, <2>6, <1>6, <1>9, AllLayersAre
  <2> HIDE DEF j
  <2>8. WellLinked(h) /\ SameNodes(g1, h) /\ OnlyLinks(g1, h)
    BY <2>7 DEF Joining
  <2> HIDE DEF h
  <2>9. h = [store |-> Append(g.store, x),
             links |-> h.links, entry |-> g.entry, max_level |-> g.max_level]
    BY <2>8, <1>1, <1>3 DEF OnlyLinks
  <2>10. h.entry = g.entry /\ h.max_level = g.max_level
         /\ {"links", "entry", "max_level"} \subseteq DOMAIN h
    BY <2>9
  <2>11. /\ Nodes(h) = Nodes(g) \cup {new} /\ Level(h, new) = level
         /\ \A n \in Nodes(g) : Level(h, n) = Level(g, n)
    BY <2>8, <1>7 DEF SameNodes
  <2>12. /\ Raise(h, new, level).links = h.links /\ EntryOnTop(Raise(h, new, level))
         /\ Raise(h, new, level).max_level \in Nat
    <3>1. /\ h.max_level \in Nat /\ new \in Nodes(h) /\ h.entry \in Nodes(h)
          /\ Level(h, h.entry) = h.max_level
          /\ \A n \in Nodes(h) \ {new} : Level(h, n) <= h.max_level
      BY <2>2, <2>10, <2>11, <1>1
    <3>2. /\ Raise(h, new, Level(h, new)).links = h.links
          /\ EntryOnTop(Raise(h, new, Level(h, new)))
          /\ Raise(h, new, Level(h, new)).max_level \in Nat
      BY <3>1, <2>8, <2>10, RaiseIs
    <3> QED
      BY <3>2, <2>11
  <2>13. e = Raise(h, new, level)
    BY <1>4, <1>12 DEF h, j, start, top, ep, f
  <2>14. /\ e = [store |-> Append(g.store, x),
                 links |-> e.links, entry |-> e.entry, max_level |-> e.max_level]
         /\ e.entry \in Nat
    <3>1. e = IF level > h.max_level THEN [h EXCEPT !.max_level = level, !.entry = new] ELSE h
      BY <2>13 DEF Raise
    <3>2. CASE level > h.max_level
      <4> DEFINE s == Append(g.store, x)
                 l == h.links
      <4>1. h = [store |-> s, links |-> l, entry |-> g.entry,
                 max_level |-> g.max_level]
        BY <2>9
      <4>2. e = [h EXCEPT !.max_level = level, !.entry = new]
        BY <3>1, <3>2
      <4> HIDE DEF s, l
      <4>3. e = [store |-> s, links |-> l, entry |-> new, max_level |-> level]
        BY <4>1, <4>2
      <4>4. e.links = l /\ e.entry = new /\ e.max_level = level
        BY <4>3
      <4> QED
        BY <4>3, <4>4, <1>2 DEF s
    <3>3. CASE ~ (level > h.max_level)
      <4>1. e = h
        BY <3>1, <3>3
      <4> QED
        BY <4>1, <2>9, <2>10, <1>1
    <3> QED
      BY <3>2, <3>3
  <2>15. WellLinked(e) /\ SameNodes(h, e)
    BY <2>8, <2>12, <2>13, SameLinks
  <2>16. SameNodes(g1, e)
    BY <2>8, <2>15 DEF SameNodes
  <2>17. e.links \in Seq(Seq(Seq(Nat)) \ {<<>>})
    BY <2>15 DEF WellLinked
  <2> QED
    BY <2>12, <2>13, <2>14, <2>15, <2>16, <2>17, <1>10 DEF e, g
<1> QED
  BY <1>11, <1>12

-----------------------------------------------------------------------------
LEMMA InitBuilt ==
  ASSUME HnswConstants, Init
  PROVE  Built(hnsw)
<1>1. hnsw.store = <<>> /\ hnsw.links = <<>> /\ hnsw.entry = 0 /\ hnsw.max_level = 0
  BY DEF Init
<1>2. Nodes(hnsw) = {}
  BY <1>1 DEF Nodes
<1>3. LinksLevelled(hnsw) /\ LinksBounded(hnsw) /\ EntryOnTop(hnsw)
  BY <1>2 DEF LinksLevelled, LinksBounded, EntryOnTop
<1>4. hnsw \in [store : Seq(Vectors), links : Seq(Seq(Seq(Nat)) \ {<<>>}), entry : Nat, max_level : Nat]
  BY DEF Init
<1> QED
  BY <1>1, <1>3, <1>4 DEF Built, HnswConstants

LEMMA NextBuilt ==
  ASSUME HnswConstants, Built(hnsw), [Next]_hnsw
  PROVE  Built(hnsw')
<1>1. ASSUME NEW x \in Vectors, Insert(x) PROVE Built(hnsw')
  BY <1>1, InsertedIs DEF Insert
<1> QED
  BY <1>1 DEF Next

-----------------------------------------------------------------------------
(* The first layer of an index, as the lemmas about the beam take it.      *)
LEMMA GroundIs ==
  ASSUME NEW g, WellLinked(g)
  PROVE  /\ DOMAIN Layer(g, 0) = Nodes(g) /\ IsFiniteSet(Nodes(g))
         /\ Linked(Layer(g, 0), Nodes(g))
         /\ \A n \in Nodes(g) : Layer(g, 0)[n] = LinksAt(g, n, 0)
         /\ \A top \in Nat : NotYet(g, 0, top)
<1>1. Nodes(g) = 1 .. Len(g.links) /\ Len(g.links) \in Nat /\ IsFiniteSet(Nodes(g))
  BY LevelsAre
<1>2. ASSUME NEW n \in Nodes(g), NEW lc \in Nat
      PROVE  0 \notin Range(LinksAt(g, n, lc))
  <2> DEFINE s == LinksAt(g, n, lc)
             C == OnLayer(g, lc) \ {n}
  <2>1. s \in Seq(C)
    BY ListIs
  <2>2. C \subseteq Nodes(g)
    BY DEF OnLayer
  <2> HIDE DEF s, C
  <2>3. Range(s) \subseteq Nodes(g)
    BY <2>1, <2>2 DEF Range
  <2> QED
    BY <2>3, <1>1 DEF s
<1>3. \A top \in Nat : NotYet(g, 0, top)
  BY <1>2 DEF NotYet
<1>4. DOMAIN Layer(g, 0) = Nodes(g) /\ Linked(Layer(g, 0), Nodes(g))
  BY LayerIs
<1>5. \A n \in Nodes(g) : Layer(g, 0)[n] = LinksAt(g, n, 0)
  BY DEF Layer
<1> QED
  BY <1>1, <1>3, <1>4, <1>5

(* Where the descent of a search ends.                                     *)
LEMMA BottomIs ==
  ASSUME HnswConstants, Built(hnsw), hnsw.store # <<>>, NEW q \in Vectors
  PROVE  /\ Measured(FromQuery(hnsw, q), Nodes(hnsw)) /\ hnsw.entry \in Nodes(hnsw)
         /\ Bottom(q) \in Nodes(hnsw)
         /\ FromQuery(hnsw, q)[Bottom(q)] <= FromQuery(hnsw, q)[hnsw.entry]
<1> DEFINE g == hnsw
           d == FromQuery(hnsw, q)
           top == hnsw.max_level
<1>1. WellLinked(g) /\ Stored(g) /\ top \in Nat /\ EntryOnTop(g)
  BY BuiltIs DEF Built
<1>2. Nodes(g) = 1 .. Len(g.links) /\ Len(g.links) \in Nat /\ Nodes(g) \in SUBSET Int
  BY <1>1, LevelsAre
<1>3. Len(g.links) > 0
  BY <1>1, <1>2, EmptySeq DEF Stored
<1>4. g.entry \in Nodes(g) /\ Level(g, g.entry) = top
  <2>1. 1 \in Nodes(g)
    BY <1>2, <1>3
  <2>2. Nodes(g) # {}
    BY <2>1
  <2> QED
    BY <2>2, <1>1 DEF EntryOnTop
<1>5. Measured(d, Nodes(g))
  BY <1>1, <1>2, DistancesAre DEF Measured
<1>6. NotYet(g, 0, top) /\ g.entry \in OnLayer(g, top) \ {0}
  BY <1>1, <1>2, <1>4, GroundIs DEF OnLayer
<1> HIDE DEF d
<1>7. /\ Descend(g, d, top, 1) \in OnLayer(g, Smaller(top, 1)) \ {0}
      /\ d[Descend(g, d, top, 1)] <= d[g.entry]
  BY <1>1, <1>5, <1>6, DescendIs
<1>8. Bottom(q) = Descend(g, d, top, 1)
  BY DEF Bottom, d
<1> QED
  BY <1>4, <1>5, <1>7, <1>8 DEF d, OnLayer

(* A search is as sound as SearchSound has it.                             *)
LEMMA InvSearchSound ==
  ASSUME HnswConstants, Built(hnsw)
  PROVE  SearchSound
<1> SUFFICES ASSUME hnsw.store # <<>>, NEW q \in Vectors
             PROVE  LET d == FromQuery(hnsw, q)
                        all == Search(q, Len(hnsw.store))
                        one == Search(q, 1)
                    IN  /\ Range(all) = Reachable(Layer(hnsw, 0), {Bottom(q)})
                        /\ Len(one) = 1 /\ d[one[1]] <= d[hnsw.entry]
                        /\ \A n \in Range(LinksAt(hnsw, one[1], 0)) : d[n] >= d[one[1]]
  BY DEF SearchSound
<1> DEFINE d == FromQuery(hnsw, q)
           links == Layer(hnsw, 0)
           N == Nodes(hnsw)
           ep == Bottom(q)
           found(k) == Beam(d, links, From(ep), Breadth(k)).results
           n == Len(hnsw.store)
<1>1. /\ WellLinked(hnsw) /\ Stored(hnsw) /\ EfSearch \in Nat \ {0}
      /\ N = 1 .. n /\ n \in Nat /\ IsFiniteSet(N) /\ Cardinality(N) = n /\ n > 0
  <2>1. WellLinked(hnsw) /\ Stored(hnsw) /\ EfSearch \in Nat \ {0}
    BY BuiltIs DEF HnswConstants
  <2>2. N = 1 .. n /\ n \in Nat /\ n > 0
    BY <2>1, LevelsAre, EmptySeq DEF Stored
  <2> QED
    BY <2>1, <2>2, FS_Interval
<1>2. /\ DOMAIN links = N /\ Linked(links, N)
      /\ \A v \in N : links[v] = LinksAt(hnsw, v, 0)
  BY <1>1, GroundIs
<1>3. Measured(d, N) /\ hnsw.entry \in N /\ ep \in N /\ d[ep] <= d[hnsw.entry]
  BY BottomIs
<1>4. \A k \in Nat : Search(q, k) = FirstOf(InOrder(d, found(k)), k)
  BY DEF Search
<1>5. Breadth(n) \in Nat \ {0} /\ Breadth(n) >= n /\ Breadth(1) \in Nat \ {0}
  BY <1>1 DEF Breadth, Greater
<1> HIDE DEF d, links, N, ep, n
<1>10. /\ IsFiniteSet(DOMAIN links) /\ Measured(d, DOMAIN links) /\ Linked(links, DOMAIN links)
       /\ ep \in DOMAIN links /\ Cardinality(DOMAIN links) <= Breadth(n)
  BY <1>1, <1>2, <1>3, <1>5
<1>6. Range(Search(q, n)) = Reachable(links, {ep})
  <2> DEFINE all == found(n)
             s == InOrder(d, all)
  <2>1. From(ep) = [seen |-> {ep}, frontier |-> {ep}, results |-> {ep}]
    BY DEF From
  <2>2. all = Reachable(links, {ep}) \ ({ep} \ {ep})
    <3> DEFINE l == Breadth(n)
               S == {ep}
    <3>1. S \in SUBSET DOMAIN links /\ S \in SUBSET S /\ l \in Nat \ {0}
      BY <1>5, <1>10
    <3>2. Cardinality(DOMAIN links) <= l
      BY <1>10
    <3> HIDE DEF l, S
    <3>3. Beam(d, links, [seen |-> S, frontier |-> S, results |-> S], l).results
            = Reachable(links, S) \ (S \ S)
      BY <3>1, <3>2, <1>10, WideBeamIs
    <3> QED
      BY <3>3, <2>1 DEF l, S
  <2>3. Reachable(links, {ep}) \subseteq N
    BY <1>2 DEF Reachable
  <2>4. all = Reachable(links, {ep}) /\ all \subseteq N
    BY <2>2, <2>3
  <2>5. Search(q, n) = FirstOf(s, n)
    BY <1>1, <1>4
  <2> HIDE DEF all
  <2>6. IsFiniteSet(all) /\ Cardinality(all) <= n /\ Measured(d, all)
    BY <2>4, <1>1, <1>3, FS_Subset DEF Measured
  <2>7. s \in Seq(all) /\ Len(s) = Cardinality(all) /\ Range(s) = all
    BY <2>6, InOrderIs
  <2> HIDE DEF s
  <2>8. FirstOf(s, n) = s
    BY <2>6, <2>7, <1>1, FirstOfIs
  <2> QED
    BY <2>4, <2>5, <2>7, <2>8
<1>7. /\ Len(Search(q, 1)) = 1 /\ Search(q, 1)[1] \in N
      /\ d[Search(q, 1)[1]] <= d[ep]
      /\ \A v \in Range(links[Search(q, 1)[1]]) : d[Search(q, 1)[1]] <= d[v]
  <2> DEFINE few == found(1)
             s == InOrder(d, few)
  <2>1. /\ few \subseteq N /\ \E r \in few : d[r] <= d[ep]
        /\ \A a \in few : (\A b \in few : d[a] <= d[b]) => \A v \in Range(links[a]) : d[a] <= d[v]
    <3> DEFINE l == Breadth(1)
    <3>1. l \in Nat \ {0}
      BY <1>5
    <3> HIDE DEF l
    <3>2. LET f == Beam(d, links, From(ep), l).results IN
          /\ f \subseteq DOMAIN links /\ \E r \in f : d[r] <= d[ep]
          /\ \A a \in f : (\A b \in f : d[a] <= d[b]) => \A v \in Range(links[a]) : d[a] <= d[v]
      BY <3>1, <1>10, LocalBeamIs
    <3> QED
      BY <3>2, <1>2 DEF l
  <2>2. Search(q, 1) = FirstOf(s, 1)
    BY <1>4
  <2> HIDE DEF few
  <2>3. IsFiniteSet(few) /\ Measured(d, few) /\ Cardinality(few) \in Nat \ {0}
    <3>1. IsFiniteSet(few) /\ Measured(d, few) /\ few # {}
      BY <2>1, <1>1, <1>3, FS_Subset DEF Measured
    <3> QED
      BY <3>1, FS_CardinalityType, FS_EmptySet
  <2>4. /\ s \in Seq(few) /\ Len(s) = Cardinality(few) /\ Range(s) = few
        /\ \A i, j \in DOMAIN s : i < j => Before(d, s[i], s[j])
    BY <2>3, InOrderIs
  <2> HIDE DEF s
  <2>5. s # <<>> /\ 1 \in DOMAIN s /\ s[1] \in few
    BY <2>3, <2>4
  <2>6. FirstOf(s, 1)[1] = s[1] /\ Len(FirstOf(s, 1)) = 1
    <3>1. /\ Len(FirstOf(s, 1)) = Smaller(1, Len(s))
          /\ FirstOf(s, 1) # <<>> /\ FirstOf(s, 1)[1] = s[1]
      BY <2>4, <2>5, FirstOfIs
    <3>2. Smaller(1, Len(s)) = 1
      BY <2>3, <2>4 DEF Smaller
    <3> QED
      BY <3>1, <3>2
  <2>7. \A b \in few : d[s[1]] <= d[b]
    <3> SUFFICES ASSUME NEW b \in few PROVE d[s[1]] <= d[b]
      OBVIOUS
    <3>1. PICK j \in DOMAIN s : s[j] = b
      BY <2>4 DEF Range
    <3>2. j = 1 \/ Before(d, s[1], s[j])
      BY <2>4, <2>5
    <3>3. d[s[1]] \in Int /\ d[b] \in Int
      BY <2>3, <2>5 DEF Measured
    <3> QED
      BY <3>1, <3>2, <3>3 DEF Before
  <2>8. d[s[1]] <= d[ep]
    <3>1. PICK r \in few : d[r] <= d[ep]
      BY <2>1
    <3>2. d[s[1]] \in Int /\ d[r] \in Int /\ d[ep] \in Int /\ d[s[1]] <= d[r]
      BY <2>3, <2>5, <2>7, <1>3 DEF Measured
    <3> QED
      BY <3>1, <3>2
  <2> QED
    BY <2>1, <2>2, <2>5, <2>6, <2>7, <2>8
<1>8. d[Search(q, 1)[1]] <= d[hnsw.entry]
  <2>1. d[Search(q, 1)[1]] \in Int /\ d[ep] \in Int /\ d[hnsw.entry] \in Int
    BY <1>3, <1>7, Zenon DEF Measured
  <2> QED
    BY <2>1, <1>3, <1>7
<1>9. \A v \in Range(LinksAt(hnsw, Search(q, 1)[1], 0)) : d[v] >= d[Search(q, 1)[1]]
  <2>1. \A v \in Range(links[Search(q, 1)[1]]) : v \in N
    <3> DEFINE at == Search(q, 1)[1]
               s == links[at]
    <3>1. s \in Seq(N)
      BY <1>2, <1>7 DEF Linked
    <3> HIDE DEF s
    <3>2. \A v \in Range(s) : v \in N
      BY <3>1 DEF Range
    <3> QED
      BY <3>2 DEF s
  <2> QED
    BY <2>1, <1>2, <1>3, <1>7 DEF Measured
<1> QED
  BY <1>6, <1>7, <1>8, <1>9 DEF d, links, N, ep, n

=============================================================================
