----------------------------- MODULE Retrieval ------------------------------
(***************************************************************************)
(* What recall finds: the records of a collection together with the        *)
(* structures that lead to them - the sketch index, built when there are   *)
(* many live records and kept up to date by some operations only, the tail *)
(* of the latest ids, and the association graph of keywords.               *)
(*                                                                         *)
(* Every operation holds the mutex of the collection throughout, so that it*)
(* is one action here; files, logs and deaths are in module Collection.    *)
(* A text stands for itself, its sketch and its keywords. Whether a record *)
(* is cold depends on the half life and the time of the call as much as on *)
(* the record, so that it is an input of a recall. Considered has what a   *)
(* recall selects from, Hits what it selects.                              *)
(***************************************************************************)
EXTENDS SketchHnsw, Selection

CONSTANTS
    Words,
    TextWords,        \* [Sketches -> SUBSET Words]
    Blank,            \* the texts without a token: their sketch is empty
    Chars,            \* [Sketches -> Nat]: how long a text is
    Alike,            \* [Sketches -> [Sketches -> Nat]]: the dot product
    Salience,         \* what recency and importance make of a record, by id
    KeywordsPerDoc, NeighborsPerKw, MaxExpanded,
    GraphThreshold, GraphPool, HotTailCap, ColdFill,
    MinCluster,
    LevelsDrawn,      \* the levels a new index gives its nodes
    Absent, NoIndex,
    ImportRows,       \* [ids -> Doc], the rows there are to import
    Texts, Queries,   \* the texts there are to remember, and to recall with
    Limits,           \* the budgets and k_max to recall with
    Ops,              \* the operations an instance performs
    MaxId,            \* bound: the ids
    MaxAtOpen         \* bound: the records there are when the collection is opened

Doc  == [text : Sketches, live : BOOLEAN, summary : BOOLEAN, archived : BOOLEAN]

ASSUME RetrievalAssumption ==
    /\ TextWords \in [Sketches -> SUBSET Words] /\ \A t \in Sketches : IsFiniteSet(TextWords[t])
    /\ Blank \subseteq Sketches
    /\ Chars \in [Sketches -> Nat] /\ Alike \in [Sketches -> [Sketches -> Nat]]
    /\ Salience \in [1 .. MaxId -> Nat] /\ Limits \subseteq [budget : Nat, k_max : Nat]
    /\ {KeywordsPerDoc, NeighborsPerKw, MaxExpanded} \subseteq Nat \ {0}
    /\ {GraphThreshold, GraphPool, HotTailCap, ColdFill} \subseteq Nat \ {0}
    /\ MinCluster \in Nat /\ MinCluster >= 2 /\ {MaxId, MaxAtOpen} \subseteq Nat
    /\ Texts \subseteq Sketches /\ Queries \subseteq Sketches
    /\ LevelsDrawn \in Seq(Nat \ {0}) /\ Len(LevelsDrawn) >= MaxId
    /\ ImportRows \in [DOMAIN ImportRows -> Doc] /\ DOMAIN ImportRows \subseteq 1 .. MaxId
    /\ NoIndex \notin Indexes(LevelsDrawn)

VARIABLES docs, next_id, index, hot_tail, post, adj,
          bypassed    \* history: the ids added to docs past an existing index

vars == <<docs, next_id, index, hot_tail, post, adj, bypassed>>

Ids  == 1 .. MaxId

Known    == {i \in Ids : docs[i] # Absent}
InDocs   == {i \in Ids : docs[i] # Absent /\ ~docs[i].archived}
Live     == {i \in Ids : docs[i] # Absent /\ ~docs[i].archived /\ docs[i].live}
(* live_at(as_of): now, or a time before anything was closed.              *)
Visible(past) == IF past THEN InDocs ELSE Live
Summaries     == {i \in InDocs : docs[i].summary}

Some(k, S)    == kSubset(Smaller(k, Cardinality(S)), S)

(* top_keywords: which of a text's words have the highest idf varies.      *)
Keywords(t) == Some(KeywordsPerDoc, TextWords[t])

-----------------------------------------------------------------------------
(* The association graph.                                                  *)

AddDoc(p, i, kws)    == [w \in Words |-> IF w \in kws THEN p[w] \cup {i} ELSE p[w]]
RemoveDoc(p, i, kws) == [w \in Words |-> IF w \in kws THEN p[w] \ {i} ELSE p[w]]
Join(a, kws)         == [w \in Words |-> IF w \in kws THEN a[w] \cup (kws \ {w}) ELSE a[w]]

SeenToo(allowed, seen) == allowed      \* mutant of Fresh: seen documents too
Fresh(allowed, seen) == allowed \ seen

(* expand_candidates: through some of the neighbours of each keyword of the*)
(* query that is posted. Which neighbours are the heaviest is left open.   *)
Expand(kws, allowed, seen) ==
    LET matched == {w \in kws : post[w] # {}}
        Through(near) == UNION {post[n] : n \in UNION {near[w] : w \in matched}}
    IN  UNION {Some(MaxExpanded, Through(near) \cap Fresh(allowed, seen)) :
                 near \in {f \in [matched -> SUBSET Words] :
                             \A w \in matched : f[w] \in Some(NeighborsPerKw, adj[w])}}

-----------------------------------------------------------------------------
(* The index.                                                              *)

Orders(S) == SetToSeqs(S)
Indexable == {i \in Live : docs[i].text \notin Blank}
IndexOf(order) == FoldLeft(LAMBDA g, i : InsertNode(g, i, docs[i].text),
                           NewIndex(LevelsDrawn), order)
(* The newest first by ingest_time, which has ties and is any for imports. *)
Newest == UNION {Orders(S) : S \in Some(HotTailCap, Live)}

(* ensure_graph, called before the operation changes anything.             *)
Settled == index # NoIndex \/ Cardinality(Live) < GraphThreshold
Ensured ==
    IF Settled THEN {[index |-> index, tail |-> hot_tail]}
    ELSE {[index |-> IndexOf(o), tail |-> hot_tail \o n] : o \in Orders(Indexable), n \in Newest}

IndexAlone(e, i, t) == e.index         \* mutant of Indexed: nothing is inserted
Indexed(e, i, t) == IF e.index = NoIndex THEN NoIndex ELSE InsertNode(e.index, i, t)

TailedOn(e, i) == Append(e.tail, i)    \* mutant of Tailed: nothing is dropped
Tailed(e, i) == Append(IF Len(e.tail) >= HotTailCap THEN Tail(e.tail) ELSE e.tail, i)

PastIndex(i) == IF index = NoIndex THEN bypassed ELSE bypassed \cup {i}

Post(i, t) == \E kws \in Keywords(t) : post' = AddDoc(post, i, kws) /\ adj' = Join(adj, kws)

-----------------------------------------------------------------------------
Init ==
    /\ docs = [i \in Ids |-> Absent] /\ next_id = 1
    /\ index = NoIndex /\ hot_tail = <<>>
    /\ post = [w \in Words |-> {}] /\ adj = [w \in Words |-> {}]
    /\ bypassed = {}

(* The subject of the text may have a live version, which is closed after  *)
(* the index was built.                                                    *)
Remember(t) ==
    /\ "remember" \in Ops /\ next_id <= MaxId
    /\ \E e \in Ensured, old \in {{}} \cup {{i} : i \in InDocs \ Summaries} :
        /\ index' = Indexed(e, next_id, t)
        /\ hot_tail' = Tailed(e, next_id)
        /\ docs' = [i \in Ids |->
              IF i = next_id
              THEN [text |-> t, live |-> TRUE, summary |-> FALSE, archived |-> FALSE]
              ELSE IF i \in old THEN [docs[i] EXCEPT !.live = FALSE] ELSE docs[i]]
    /\ Post(next_id, t)
    /\ next_id' = next_id + 1
    /\ UNCHANGED bypassed

(* Closing an archived record, which nothing here looks at, is left out.   *)
Forget(i) ==
    /\ "forget" \in Ops /\ i \in InDocs
    /\ docs' = [docs EXCEPT ![i].live = FALSE]
    /\ UNCHANGED <<next_id, index, hot_tail, post, adj, bypassed>>

(* The keywords are computed again, and may be others than those posted.   *)
HardDelete(i) ==
    /\ "hard_delete" \in Ops /\ i \in Known
    /\ docs' = [docs EXCEPT ![i] = Absent]
    /\ \E kws \in Keywords(docs[i].text) : post' = RemoveDoc(post, i, kws)
    /\ UNCHANGED <<next_id, index, hot_tail, adj, bypassed>>

ImportRow(i) ==
    /\ "import_row" \in Ops /\ i \notin Known
    /\ docs' = [docs EXCEPT ![i] = ImportRows[i]]
    /\ next_id' = IF i >= next_id THEN i + 1 ELSE next_id
    /\ Post(i, ImportRows[i].text)
    /\ bypassed' = IF ImportRows[i].archived THEN bypassed ELSE PastIndex(i)
    /\ UNCHANGED <<index, hot_tail>>

(* One group: records with a keyword in common, and records without any    *)
(* that have this word as their subject, become a summary that has it.     *)
Group(members, t) ==
    /\ Cardinality(members) >= MinCluster
    /\ \E w \in TextWords[t] : \A i \in members :
          w \in TextWords[docs[i].text] \/ TextWords[docs[i].text] = {}

Consolidate(members, t) ==
    /\ "consolidate" \in Ops /\ next_id <= MaxId /\ t \notin Blank
    /\ members \subseteq Live \ Summaries /\ Group(members, t)
    /\ docs' = [i \in Ids |->
          IF i = next_id
          THEN [text |-> t, live |-> TRUE, summary |-> TRUE, archived |-> FALSE]
          ELSE IF i \in members THEN [docs[i] EXCEPT !.archived = TRUE] ELSE docs[i]]
    /\ \E kws \in Keywords(t), gone \in [members -> SUBSET Words] :
        /\ \A i \in members : gone[i] \in Keywords(docs[i].text)
        /\ post' = [w \in Words |-> AddDoc(post, next_id, kws)[w]
                                      \ {i \in members : w \in gone[i]}]
        /\ adj' = Join(adj, kws)
    /\ next_id' = next_id + 1
    /\ bypassed' = PastIndex(next_id)
    /\ UNCHANGED <<index, hot_tail>>

(* Any record old enough: closed ones of docs, and archived ones, whose    *)
(* postings stay.                                                          *)
Compact(dead) ==
    /\ "compact" \in Ops /\ dead # {}
    /\ dead \subseteq {i \in Known : ~docs[i].summary /\ (docs[i].archived \/ ~docs[i].live)}
    /\ docs' = [i \in Ids |-> IF i \in dead THEN Absent ELSE docs[i]]
    /\ \E gone \in [dead \cap InDocs -> SUBSET Words] :
        /\ \A i \in DOMAIN gone : gone[i] \in Keywords(docs[i].text)
        /\ post' = [w \in Words |-> post[w] \ {i \in DOMAIN gone : w \in gone[i]}]
    /\ UNCHANGED <<next_id, index, hot_tail, adj, bypassed>>

(* The process ends and open builds the association graph from docs; index *)
(* and tail begin empty.                                                   *)
Reopen ==
    /\ "reopen" \in Ops /\ Cardinality(InDocs) <= MaxAtOpen
    /\ \E kws \in [InDocs -> SUBSET Words] :
        /\ \A i \in InDocs : kws[i] \in Keywords(docs[i].text)
        /\ post' = [w \in Words |-> {i \in InDocs : w \in kws[i]}]
        /\ adj' = [w \in Words |-> UNION {kws[i] \ {w} : i \in {k \in InDocs : w \in kws[k]}}]
    /\ index' = NoIndex /\ hot_tail' = <<>> /\ bypassed' = {}
    /\ UNCHANGED <<docs, next_id>>

-----------------------------------------------------------------------------
(* Recall.                                                                 *)

NearestOfAll(q, past) ==               \* mutant of Nearest: dead ones too
    IF index = NoIndex THEN {} ELSE Range(Search(index, q, GraphPool, Ids))
Nearest(q, past) ==
    IF index = NoIndex THEN {} ELSE Range(Search(index, q, GraphPool, Visible(past)))

Recent == {hot_tail[k] : k \in {n \in DOMAIN hot_tail : n > Len(hot_tail) - HotTailCap}}

(* classify_doc: what a call without include_cold sets aside.              *)
Hidden(S, how) ==
    IF how.include_cold THEN {}
    ELSE {i \in S \cap how.cold : ~(how.overview /\ docs[i].summary)}

(* The documents that are classified: those the index and the tail lead to,*)
(* or all of them.                                                         *)
ScannedIfEmpty(near, nearest, how) ==  \* mutant of Scanned: overview or not
    nearest = {}
Scanned(near, nearest, how) ==
    \/ nearest = {}
    \/ how.overview /\ (near \ Hidden(near, how)) \cap Summaries = {}

Fill(view, hidden) == IF view = {} THEN Some(ColdFill, hidden) ELSE {{}}

ClosedToo(visible, hidden) ==          \* mutant of Allowed: nobody asks live_at
    InDocs \ hidden
Allowed(visible, hidden) == visible \ hidden

(* What the selection by score chooses from once ensure_graph has run:     *)
(* `view`, and what the keywords of the query add to it. There are several *)
(* outcomes, for the orders of equals differ.                              *)
Considered(q, nearest, how) ==
    LET visible == Visible(how.past)
        near    == (nearest \cup Recent) \cap visible
        scanned == Scanned(near, nearest, how)
        pool    == IF scanned THEN visible ELSE near
        hidden  == Hidden(pool, how)
        Added(view) == UNION {Expand(kws, Allowed(visible, hidden), view) : kws \in Keywords(q)}
        Outcome(view) == {[view |-> view, expanded |-> x, scanned |-> scanned] : x \in Added(view)}
    IN  UNION {Outcome((pool \ hidden) \cup fill) : fill \in Fill(pool \ hidden, hidden)}

(* What is selected of an outcome r, by score and within the budget.       *)
Scores(q, r) ==
    [i \in r.view \cup r.expanded |->
        Fuse(Alike[q][docs[i].text], Cardinality(TextWords[q] \cap TextWords[docs[i].text]),
             Salience[i], IF i \in r.expanded THEN 1 ELSE 0)]
Lengths(S) == [i \in S |-> Chars[docs[i].text]]
Similarity(S) == [i \in S |-> [j \in S |-> Alike[docs[i].text][docs[j].text]]]
Hits(base, pool, limit) ==
    MmrSelect(base, Lengths(pool), Similarity(pool), pool, limit.budget, limit.k_max)

(* How it may be asked, leaving out what makes no difference here.         *)
Pasts == {past \in BOOLEAN : past => InDocs # Live}
How(past) ==
    LET overviews == {o \in BOOLEAN : o => Visible(past) \cap Summaries # {}}
        Asked(with, colds) ==
            [past : {past}, overview : overviews, include_cold : {with}, cold : colds]
    IN  Asked(TRUE, {{}}) \cup Asked(FALSE, SUBSET Visible(past))

(* What a recall changes here. The hits of its results are in Collection.  *)
Recall ==
    /\ "recall" \in Ops
    /\ \E e \in Ensured : index' = e.index /\ hot_tail' = e.tail
    /\ UNCHANGED <<docs, next_id, post, adj, bypassed>>

Next ==
    \/ \E t \in Texts : Remember(t)
    \/ \E i \in Ids : Forget(i) \/ HardDelete(i)
    \/ \E i \in DOMAIN ImportRows : ImportRow(i)
    \/ \E members \in SUBSET Live, t \in Texts : Consolidate(members, t)
    \/ \E dead \in SUBSET Known : Compact(dead)
    \/ Reopen
    \/ Recall

Spec == Init /\ [][Next]_vars

-----------------------------------------------------------------------------
TypeOK ==
    /\ docs \in [Ids -> Doc \cup {Absent}] /\ next_id \in 1 .. MaxId + 1
    /\ index # NoIndex => Range(index.ids) \subseteq Ids /\ index.sketches \in Seq(Sketches)
    /\ hot_tail \in Seq(Ids) /\ Len(hot_tail) <= 2 * HotTailCap
    /\ post \in [Words -> SUBSET Ids] /\ adj \in [Words -> SUBSET Words]
    /\ bypassed \subseteq Ids

(* The index can be walked from its entry without an access out of bounds, *)
(* which would panic with the mutex held and poison the collection.        *)
IndexSound ==
    index # NoIndex => LinksLevelled(index) /\ EntryOnTop(index) /\ LinksBounded(index)

(* While there is an index, a live record has exactly one node in it, the  *)
(* ones import_row and consolidate add excepted: remember builds the index *)
(* before it inserts, and the index is never built again.                  *)
Findable ==
    index # NoIndex =>
        \A i \in Indexable \ bypassed :
            Cardinality({n \in DOMAIN index.ids : index.ids[n] = i}) = 1

(* P of every recall of a kind. One that builds the index first is seen in *)
(* the state after Recall.                                                 *)
EveryRecall(Kind(_), P(_, _)) ==
    Settled =>
        \A past \in Pasts :
            LET hows == {how \in How(past) : Kind(how)} IN
            \A q \in Queries :
                LET nearest == Nearest(q, past) IN
                \A how \in hows : \A r \in Considered(q, nearest, how) : P(how, r)

(* A recall considers only records of docs that are live at its time, and  *)
(* none of them twice, whatever the index, the tail and the postings hold  *)
(* of records forgotten, archived or deleted since.                        *)
HitsVisibleOnce ==
    EveryRecall(LAMBDA how : TRUE,
                LAMBDA how, r : /\ r.view \cup r.expanded \subseteq Visible(how.past)
                                /\ r.view \cap r.expanded = {})

(* An overview considers a summary whenever one is live at its time, also  *)
(* one that the index does not have.                                       *)
OverviewSeesSummary ==
    EveryRecall(LAMBDA how : how.overview /\ Visible(how.past) \cap Summaries # {},
                LAMBDA how, r : r.view \cap Summaries # {})

(* Cold records are filtered by default: of what a recall considers, the   *)
(* summaries of an overview aside, not some are cold and others warm       *)
(* (tests/memory_ops.rs:39; cold ones alone are a last resort).            *)
Unmixed(how, r) ==
    LET judged == {i \in r.view \cup r.expanded : ~(how.overview /\ docs[i].summary)}
    IN  judged \subseteq how.cold \/ judged \cap how.cold = {}

ColdFiltered == EveryRecall(LAMBDA how : ~how.include_cold, Unmixed)

(* As long as a record is live at its time a recall considers one, whatever*)
(* lazy deletion left of the index and however cold the record; and one    *)
(* that classified all records considers cold ones only as a last resort.  *)
ColdIsLastResort ==
    EveryRecall(LAMBDA how : Visible(how.past) # {},
                LAMBDA how, r : /\ r.view # {}
                                /\ r.scanned /\ ~how.include_cold => Unmixed(how, r))

(* The best record that the budget has room for comes first, the hits stay *)
(* within the budget together, and what is left out would not fit beside   *)
(* them, unless there are k_max: longer records that score better do not   *)
(* keep shorter ones out. Beyond CAND_POOL_CAP they do: `pool` is cut by   *)
(* score before anyone looks at lengths.                                   *)
BudgetUsed ==
    LET how == [past |-> FALSE, overview |-> FALSE, include_cold |-> TRUE, cold |-> {}]
        Cost(i) == EstimateTokens(Chars[docs[i].text])
        Spent(hits) == FoldSeq(LAMBDA i, sum : sum + Cost(i), 0, hits)
        BestFirst(base, fit, hits) ==
            fit # {} => hits # <<>> /\ \A i \in fit : base[i] <= base[hits[1]]
    IN  Settled =>
            \A q \in Queries, limit \in Limits : \A r \in Considered(q, Nearest(q, FALSE), how) :
                LET base == Scores(q, r) IN
                \A pool \in Pools(base, DOMAIN base) : \A hits \in Hits(base, pool, limit) :
                    /\ Spent(hits) <= limit.budget
                    /\ limit.k_max > 0 =>
                          BestFirst(base, {i \in pool : Cost(i) <= limit.budget}, hits)
                    /\ \/ Len(hits) = limit.k_max
                       \/ \A i \in pool \ Range(hits) : Spent(hits) + Cost(i) > limit.budget

=============================================================================
