--------------------------- MODULE VisitedStamps ----------------------------
(***************************************************************************)
(* The set of nodes a search has visited, emptied for the next search by   *)
(* counting on: a node is in it when its stamp is the generation. The      *)
(* counter wraps. The stamps are the code's vector, from 1 instead of 0.   *)
(***************************************************************************)
EXTENDS Naturals, Sequences

CONSTANT MaxGen         \* u32::MAX in the code

NewStamps == [stamps |-> <<>>, gen |-> 0]

Resized(stamps, count) ==
    [i \in 1 .. (IF Len(stamps) < count THEN count ELSE Len(stamps)) |->
        IF i <= Len(stamps) THEN stamps[i] ELSE 0]

BeginUncleared(v, count) ==     \* mutant of Begin: the stamps survive a wrap
    [stamps |-> Resized(v.stamps, count), gen |-> IF v.gen = MaxGen THEN 1 ELSE v.gen + 1]
Begin(v, count) ==
    LET stamps == Resized(v.stamps, count) IN
    IF v.gen = MaxGen THEN [stamps |-> [i \in DOMAIN stamps |-> MaxGen], gen |-> 1]
    ELSE [stamps |-> stamps, gen |-> v.gen + 1]

Visited(v, i) == v.stamps[i] = v.gen
Visit(v, i)   == [v EXCEPT !.stamps[i] = v.gen]
VisitAll(v, S) == [v EXCEPT !.stamps = [i \in DOMAIN @ |-> IF i \in S THEN v.gen ELSE @[i]]]

(* The search before the counter wraps again takes what was not visited    *)
(* since the last wrap for visited.                                        *)
Stale(v) == v.gen = MaxGen - 1 /\ \E i \in DOMAIN v.stamps : v.stamps[i] = MaxGen

=============================================================================
