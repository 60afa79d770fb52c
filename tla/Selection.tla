----------------------------- MODULE Selection ------------------------------
(***************************************************************************)
(* How recall chooses its hits from what it considers: the candidates with *)
(* the best scores, then one after the other the one with the best score,  *)
(* less a penalty for what it repeats, that still fits the token budget.   *)
(* `base` gives each candidate its score, `chars` its length, `sim` how    *)
(* alike two are. Equals come in any order: a choice is a set of outcomes. *)
(***************************************************************************)
EXTENDS Integers, SequencesExt

CONSTANTS
    CharsPerToken,
    Weights,          \* semantic, lexical, salience, graph, diversity
    CandPoolCap       \* 256 in the code

ASSUME SelectionAssumption ==
    /\ CharsPerToken \in Nat \ {0} /\ CandPoolCap \in Nat \ {0}
    /\ Weights \in [{"semantic", "lexical", "salience", "graph", "diversity"} -> Nat]

EstimateTokens(chars) == (chars + CharsPerToken - 1) \div CharsPerToken

(* fuse, recency and importance as one number that does not depend on the  *)
(* query.                                                                  *)
Fuse(semantic, lexical, salience, graph) ==
    Weights.semantic * semantic + Weights.lexical * lexical
        + Weights.salience * salience + Weights.graph * graph

(* The best of S by `base`, of which equal ones may be left out.           *)
Pools(base, S) ==
    IF Cardinality(S) <= CandPoolCap THEN {S}
    ELSE {P \in kSubset(CandPoolCap, S) : \A i \in P, j \in S \ P : base[i] >= base[j]}

Used(chars, picked) == FoldSeq(LAMBDA i, sum : sum + EstimateTokens(chars[i]), 0, picked)

FitsAlone(chars, picked, i, budget) ==      \* mutant of Fits: each on its own
    EstimateTokens(chars[i]) <= budget
Fits(chars, picked, i, budget) ==
    Used(chars, picked) + EstimateTokens(chars[i]) <= budget

(* The best score first; of equal scores, the better base.                 *)
Best(base, sim, picked, S) ==
    LET Penalty(i) == Max({0} \cup {sim[i][p] : p \in Range(picked)})
        Score(i)   == base[i] - Weights.diversity * Penalty(i)
        Ahead(i, j) == \/ Score(i) > Score(j)
                       \/ Score(i) = Score(j) /\ base[i] >= base[j]
    IN  {i \in S : \A j \in S : Ahead(i, j)}

(* Up to k_max rounds.                                                     *)
MmrSelect(base, chars, sim, pool, budget, k_max) ==
    LET Longer(picked) ==
            LET open == {i \in pool \ Range(picked) : Fits(chars, picked, i, budget)} IN
            IF open = {} THEN {picked}
            ELSE {Append(picked, i) : i \in Best(base, sim, picked, open)}
        Round(outcomes, k) == UNION {Longer(picked) : picked \in outcomes}
    IN  FoldLeft(Round, {<<>>}, [k \in 1 .. k_max |-> k])

=============================================================================
