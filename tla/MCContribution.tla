--------------------------- MODULE MCContribution ---------------------------
(* A small instance of Contribution for TLC. *)
EXTENDS Contribution

CONSTANTS p1, x, y

OnePeer == {p1}
MCKey == {x, y}
TwoShards == {0, 1}
MCCall == 1..(MaxBatches + 1)

(* Two sentences with one concept in common, and keys on both shards. *)
MCHash == [k \in MCKey |-> IF k = y THEN 1 ELSE 0]
MCSentenceKeys == [i \in 1..CorpusSize |-> IF i = 1 THEN {x, y} ELSE {y}]
=============================================================================
