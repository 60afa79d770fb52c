---------------------------- MODULE MCRetrieval -----------------------------
(* Small instances of Retrieval for TLC.                                    *)
EXTENDS Retrieval

CONSTANTS alpha, beta, blank, kx, ky

(* Twice one minus the cosine: 0 for the same sketch, 2 for an empty one.   *)
Apartness == (alpha :> (alpha :> 0 @@ beta :> 1 @@ blank :> 2)) @@
             (beta  :> (alpha :> 1 @@ beta :> 0 @@ blank :> 2)) @@
             (blank :> (alpha :> 2 @@ beta :> 2 @@ blank :> 2))
WordsOf == alpha :> {kx, ky} @@ beta :> {ky} @@ blank :> {}

(* The dot product, in halves.                                              *)
Likeness == [x \in Sketches |-> [y \in Sketches |-> 2 - Apartness[x][y]]]
Length == alpha :> 9 @@ beta :> 4 @@ blank :> 1
Newer == [i \in 1 .. MaxId |-> i \div 2]
EachOne == [semantic |-> 2, lexical |-> 1, salience |-> 1, graph |-> 1, diversity |-> 2]
TwoLimits == {[budget |-> 2, k_max |-> 2], [budget |-> 4, k_max |-> 2]}

Levels == <<1, 2, 1, 1>>

Row(t, live, archived) == [text |-> t, live |-> live, summary |-> FALSE, archived |-> archived]
OneRow == 4 :> Row(blank, TRUE, FALSE)

AllOps == {"remember", "forget", "hard_delete", "import_row", "consolidate", "compact",
           "reopen", "recall"}
=============================================================================
