----------------------------- MODULE DedupStore -----------------------------
(***************************************************************************)
(* What the contributed store promises, however many shards, workers and   *)
(* processes it is made of: a key gets one row, and a row stays.           *)
(***************************************************************************)
EXTENDS Naturals

CONSTANT Key

VARIABLE count   \* key -> the number of its rows

Init == count = [k \in Key |-> 0]

Add(k) == count[k] = 0 /\ count' = [count EXCEPT ![k] = 1]

Next == \E k \in Key : Add(k)

Spec == Init /\ [][Next]_count
=============================================================================
