---------------------------- MODULE MCTripleStore ----------------------------
(* Small instances of TripleStore for TLC. *)
EXTENDS TripleStore

CONSTANTS a, b, r   \* terms

MCTerm == {a, b, r, Blank}
MCFact == {<<a, r, b>>, <<b, r, a>>}
MCFact3 == MCFact \cup {<<a, r, a>>}
MCRetractable == {<<a, r, b>>}

(* With KeyBase = 2 they have one key if they are added in this order. *)
CoreFact == {<<a, r, b>>, <<r, a, a>>}

(* A legacy store of one row, whose terms the new facts share. *)
MCLegacy == {<< <<b, r, a>> >>}
CoreLegacy == {<< <<r, a, a>> >>}
NoLegacy == {}

NoBatch == {}
MCBatch == {<< <<a, r, b>>, <<b, r, a>>, <<a, r, b>> >>, << <<a, r, a>> >>}

AllPoints == PC \ {"down"}

(* A crash between the s append and the o append tears rows apart. *)
TornPoints == {"p", "o"}
SafePoints == AllPoints \ (TornPoints \cup AuditPC)

(* A crash between the two saves of rebuild_index. *)
SavePoint == {"reindex_sorted"}

(* Between two operations, so outside a turbo batch: the writer is closed. *)
IdlePoint == {"idle"}
NoPoint == {}
=============================================================================
