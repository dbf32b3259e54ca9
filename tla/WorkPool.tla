------------------------------ MODULE WorkPool ------------------------------
(***************************************************************************)
(* What the Brain Link coordinator promises about a piece of work: it      *)
(* waits, is handed out, comes back when nobody answers for it, and is     *)
(* settled once.  A restart of the coordinator forgets unsettled work.     *)
(***************************************************************************)
CONSTANT Work

VARIABLES todo,     \* work waiting for a peer
          out,      \* work handed to a peer
          settled   \* work merged, or refused for good

vars == <<todo, out, settled>>

Init == todo = {} /\ out = {} /\ settled = {}

(* New work arrives; it is no work the pool has seen settled. *)
Fill(W) ==
    /\ W \cap (todo \cup out \cup settled) = {}
    /\ todo' = todo \cup W
    /\ UNCHANGED <<out, settled>>

HandOut(W) ==
    /\ W \subseteq todo
    /\ todo' = todo \ W /\ out' = out \cup W
    /\ UNCHANGED settled

GiveBack(W) ==
    /\ W \subseteq out
    /\ out' = out \ W /\ todo' = todo \cup W
    /\ UNCHANGED settled

Settle(W) ==
    /\ W \subseteq out
    /\ out' = out \ W /\ settled' = settled \cup W
    /\ UNCHANGED todo

Forget ==
    /\ todo' = {} /\ out' = {}
    /\ UNCHANGED settled

Next ==
    \/ \E W \in SUBSET Work : Fill(W) \/ HandOut(W) \/ GiveBack(W) \/ Settle(W)
    \/ Forget

Spec == Init /\ [][Next]_vars
=============================================================================
