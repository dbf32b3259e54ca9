------------------------------- MODULE FactLog -------------------------------
(***************************************************************************)
(* What packages/graph_scale promises its callers, with the files left     *)
(* out: a durable set of facts that only grows, and by nothing but facts   *)
(* that were handed to the store.  Facts accepted but not yet durable may  *)
(* be lost by a crash, all of them at once.                                *)
(***************************************************************************)
CONSTANT Fact

VARIABLES durable,   \* facts any later reader of the files will find
          pending    \* facts accepted in memory only

vars == <<durable, pending>>

Init == durable \in SUBSET Fact /\ pending = {}

(* The caller hands over facts, which stay in memory. *)
Accept ==
    /\ pending \subseteq pending' /\ pending' \subseteq Fact
    /\ UNCHANGED durable

(* Everything pending becomes durable in one step. *)
Commit ==
    /\ durable' = durable \cup pending
    /\ pending' = {}

(* The process dies and its memory goes with it. *)
Lose ==
    /\ pending' = {}
    /\ UNCHANGED durable

Next == Accept \/ Commit \/ Lose

Spec == Init /\ [][Next]_vars
=============================================================================
