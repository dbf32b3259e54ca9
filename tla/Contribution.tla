---------------------------- MODULE Contribution ----------------------------
(***************************************************************************)
(* From a peer's submission to rows in the contributed store: the handlers *)
(* of BrainLinkPool, whose merge step calls the sharded store of           *)
(* ShardedMerge (_accumulate_decompositions).  While a call waits, time,   *)
(* peers and the store's workers go on, and a restart of the coordinator   *)
(* hits both.                                                              *)
(***************************************************************************)
EXTENDS BrainLinkPool, ShardedMerge

CONSTANT SentenceKeys   \* place of a sentence -> keys of the valid rows extracted from it

ASSUME SentenceAssumption ==
    /\ SentenceKeys \in [1..CorpusSize -> (SUBSET Key) \ {{}}]
    /\ Call = 1..(MaxBatches + Cardinality(Peer))

contribVars == <<vars, mergeVars>>

ContribInit == Init /\ MergeInit

KeysOf(work) == UNION {SentenceKeys[w[2]] : w \in Elems(work)}

Merging(p) == At(p, "merge") /\ h[p].answer = "good"

CallMerge(p) ==
    /\ Merging(p) /\ FanOut(h[p].batch, KeysOf(h[p].work))
    /\ UNCHANGED vars

(* The work counts as merged when every shard took its share. *)
EndMerge(p) ==
    /\ Merging(p) /\ Return(h[p].batch)
    /\ Merge(p)
    /\ merged' = IF Landed(h[p].batch) THEN merged \cup Elems(h[p].work) ELSE merged

(* Nothing was extracted: no call. *)
SkipMerge(p) == At(p, "merge") /\ ~Merging(p) /\ Merge(p) /\ UNCHANGED mergeVars

Serve(p) ==
    \/ HandleAlone(p) /\ UNCHANGED mergeVars
    \/ CallMerge(p) \/ EndMerge(p) \/ SkipMerge(p)

ContribNext ==
    \/ \E p \in Peer : Serve(p)
    \/ Around /\ UNCHANGED mergeVars
    \/ MergeStep /\ UNCHANGED vars
    \/ Restart /\ RestartStore

ContribSpec == ContribInit /\ [][ContribNext]_contribVars

(* The coordinator's fairness; nothing is assumed of the store's workers.  *)
ContribFairness ==
    /\ \A p \in Peer : WF_contribVars(Serve(p))
    /\ \A p \in Peer : WF_contribVars(Send(p) /\ UNCHANGED mergeVars)
    /\ \A b \in Call : WF_contribVars(Age(b) /\ UNCHANGED mergeVars)
    /\ WF_contribVars(PoolStatus /\ UNCHANGED mergeVars)

ContribFairSpec == ContribSpec /\ ContribFairness
-----------------------------------------------------------------------------
(* Properties *)

(* Work that was accepted and merged has its rows in the store, also when  *)
(* another batch or an earlier process brought the same keys; but for keys *)
(* a fault caught between the worker's memory, its index and the row.      *)
MergedIsStored ==
    \A w \in merged, k \in Key :
        k \in SentenceKeys[w[2]] =>
            k \in broken \/ \E row \in StoredRows : row.key = k

(* The handler of a submission ends, whatever happens to the store's       *)
(* workers (t.join(timeout=120), process_sharded_store.py:155).            *)
SubmissionsEnd == \A p \in Peer : At(p, "merge") ~> ~At(p, "merge")
=============================================================================
