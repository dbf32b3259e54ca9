---------------------------- MODULE ShardedMerge ----------------------------
(***************************************************************************)
(* The merge of peers' extractions into the contributed store:             *)
(* packages/brain_link_pool's ProcessShardedStore, whose shards are worker *)
(* processes behind one pipe each, and the VerifiedStore every worker      *)
(* owns.  accumulate routes the rows of a batch by their dedupe keys,      *)
(* sends each touched shard its share from a thread of its own, and waits  *)
(* 120 s for each thread.  ShardedContributedStore is the same without     *)
(* processes: nothing dies and nothing times out.                          *)
(***************************************************************************)
EXTENDS Naturals, Sequences, FiniteSets
Sets == INSTANCE FiniteSetsExt

CONSTANTS
    Call,        \* calls of accumulate: numbers above 0
    Key,         \* dedupe keys of rows
    Shard,       \* 0..K-1
    Hash,        \* key -> its shard, for the number of shards there are
    MaxFaults    \* bound of the model: workers killed and writes refused

ASSUME RouteAssumption == Hash \in [Key -> Shard] /\ IsFiniteSet(Key) /\ IsFiniteSet(Shard)
ASSUME CallAssumption == Call \subseteq Nat \ {0} /\ MaxFaults \in Nat

VARIABLES
    (* ---- files of the shards ---- *)
    index,       \* indexes/dedupe_index.jsonl
    rows,        \* concepts.jsonl and the like: each row with the call that brought it
    (* ---- worker processes ---- *)
    up,          \* the process lives
    keys,        \* dedupe_keys
    pipe,        \* its requests, the first one in work: call, keys to do, rows added
    half,        \* the key it has indexed and not written
    (* ---- memory of the coordinator process ---- *)
    holder,      \* _conn_locks: the call whose thread has it, 0 if none
    bundle,      \* call -> the keys of its rows (those _validate_common lets pass)
    part,        \* call -> shard -> state of its thread, or its entry in results
    got,         \* call -> shard -> rows added, as the reply says
    totals,      \* _totals
    (* ---- files of the coordinator ---- *)
    credit,      \* call -> rows added, in contributions.jsonl
    (* ---- history and bounds ---- *)
    broken,      \* keys a fault caught between memory, index and row
    faults

shards == <<index, rows, up, keys, pipe, half>>
calls  == <<holder, bundle, part, got, totals, credit>>
mergeVars == <<shards, calls, broken, faults>>

MergeInit ==
    /\ index = [s \in Shard |-> {}] /\ rows = [s \in Shard |-> {}]
    /\ up = [s \in Shard |-> TRUE] /\ keys = [s \in Shard |-> {}]
    /\ pipe = [s \in Shard |-> <<>>] /\ half = [s \in Shard |-> {}]
    /\ holder = [s \in Shard |-> 0]
    /\ bundle = [c \in Call |-> {}]
    /\ part = [c \in Call |-> [s \in Shard |-> "none"]]
    /\ got = [c \in Call |-> [s \in Shard |-> 0]]
    /\ totals = 0 /\ credit = [c \in Call |-> 0]
    /\ broken = {} /\ faults = 0

(* A fault, the routing the module had before: by the source of the batch. *)
ShareBySource(c, ks, s) ==
    IF s = CHOOSE t \in Shard : \E k \in ks : Hash[k] = t THEN ks ELSE {}

(* _route_rows: the shard of a row is that of its own key. *)
Share(c, ks, s) == {k \in ks : Hash[k] = s}
-----------------------------------------------------------------------------
(* accumulate *)

(* One thread for each shard the batch touches. *)
FanOut(c, ks) ==
    /\ bundle[c] = {} /\ ks \in (SUBSET Key) \ {{}}
    /\ bundle' = [bundle EXCEPT ![c] = ks]
    /\ part' = [part EXCEPT ![c] =
                   [s \in Shard |-> IF Share(c, ks, s) = {} THEN "none" ELSE "wait"]]
    /\ UNCHANGED <<shards, holder, got, totals, credit, broken, faults>>

(* A fault: the lock does not cover the answer. *)
SendShareUnlocked(c, s) ==
    /\ part[c][s] = "wait" /\ up[s]
    /\ holder' = [holder EXCEPT ![s] = c]
    /\ part' = [part EXCEPT ![c][s] = "sent"]
    /\ pipe' = [pipe EXCEPT ![s] =
                   Append(@, [call |-> c, left |-> Share(c, bundle[c], s), added |-> 0])]
    /\ UNCHANGED <<index, rows, up, keys, half, bundle, got, totals, credit, broken, faults>>

(* _call: the thread takes the pipe's lock and keeps it till the answer. *)
SendShare(c, s) ==
    /\ part[c][s] = "wait" /\ holder[s] = 0 /\ up[s]
    /\ holder' = [holder EXCEPT ![s] = c]
    /\ part' = [part EXCEPT ![c][s] = "sent"]
    /\ pipe' = [pipe EXCEPT ![s] =
                   Append(@, [call |-> c, left |-> Share(c, bundle[c], s), added |-> 0])]
    /\ UNCHANGED <<index, rows, up, keys, half, bundle, got, totals, credit, broken, faults>>

(* No process at the other end: the rows of this shard are dropped. *)
SendShareFails(c, s) ==
    /\ part[c][s] = "wait" /\ holder[s] = 0 /\ ~up[s]
    /\ part' = [part EXCEPT ![c][s] = "error"]
    /\ UNCHANGED <<shards, holder, bundle, got, totals, credit, broken, faults>>

(* Threads that are not done after 120 s are left to themselves. *)
Outstanding(c) == {s \in Shard : part[c][s] \in {"wait", "sent"}}

Added(c) == Sets!MapThenSumSet(LAMBDA s : got[c][s], {s \in Shard : part[c][s] = "ok"})

(* A fault: accumulate waits for every thread. *)
ReturnWhenDone(c) ==
    /\ bundle[c] # {} /\ Outstanding(c) = {}
    /\ totals' = totals + Added(c)
    /\ credit' = [credit EXCEPT ![c] = Added(c)]
    /\ UNCHANGED <<shards, holder, bundle, part, got, broken, faults>>

(* The answers there are add up.  A thread that is late may add to results *)
(* under the loop over it, which raises: nothing is counted.               *)
Return(c) ==
    /\ bundle[c] # {}
    /\ \/ /\ totals' = totals + Added(c)
          /\ credit' = [credit EXCEPT ![c] = Added(c)]
       \/ Outstanding(c) # {} /\ UNCHANGED <<totals, credit>>
    /\ UNCHANGED <<shards, holder, bundle, part, got, broken, faults>>

(* Every shard has answered for its share. *)
Landed(c) == \A s \in Shard : part[c][s] \in {"none", "ok"}
-----------------------------------------------------------------------------
(* _worker_main: VerifiedStore.accumulate, row after row *)

Busy(s) == up[s] /\ pipe[s] # <<>>
NextKey(s) == CHOOSE k \in Head(pipe[s]).left : TRUE
Done(s, k, more) ==
    LET m == Head(pipe[s]) IN
    [pipe[s] EXCEPT ![1] = [call |-> m.call, left |-> m.left \ {k}, added |-> m.added + more]]

Deduped(s) ==
    /\ Busy(s) /\ half[s] = {} /\ Head(pipe[s]).left # {} /\ NextKey(s) \in keys[s]
    /\ pipe' = [pipe EXCEPT ![s] = Done(s, NextKey(s), 0)]
    /\ UNCHANGED <<index, rows, up, keys, half, calls, broken, faults>>

IndexKey(s) ==
    /\ Busy(s) /\ half[s] = {} /\ Head(pipe[s]).left # {} /\ NextKey(s) \notin keys[s]
    /\ keys' = [keys EXCEPT ![s] = @ \cup {NextKey(s)}]
    /\ index' = [index EXCEPT ![s] = @ \cup {NextKey(s)}]
    /\ half' = [half EXCEPT ![s] = {NextKey(s)}]
    /\ UNCHANGED <<rows, up, pipe, calls, broken, faults>>

WriteRow(s) ==
    /\ Busy(s) /\ half[s] # {} /\ half' = [half EXCEPT ![s] = {}]
    /\ \E k \in half[s] :
        /\ rows' = [rows EXCEPT ![s] = @ \cup {[key |-> k, call |-> Head(pipe[s]).call]}]
        /\ pipe' = [pipe EXCEPT ![s] = Done(s, k, 1)]
    /\ UNCHANGED <<index, up, keys, calls, broken, faults>>

(* The answer goes to the thread that reads the pipe. *)
Deliver(s, result) ==
    /\ pipe' = [pipe EXCEPT ![s] = Tail(@)]
    /\ part' = [part EXCEPT ![holder[s]][s] = result]
    /\ got' = [got EXCEPT ![holder[s]][s] = IF result = "ok" THEN Head(pipe[s]).added ELSE @]
    /\ holder' = [holder EXCEPT ![s] = 0]
    /\ UNCHANGED <<bundle, totals, credit>>

(* A fault: the worker answers when the keys are indexed. *)
ReplyEarly(s) ==
    /\ Busy(s) /\ Head(pipe[s]).left \subseteq keys[s]
    /\ Deliver(s, "ok")
    /\ half' = [half EXCEPT ![s] = {}]
    /\ UNCHANGED <<index, rows, up, keys, broken, faults>>

Reply(s) ==
    /\ Busy(s) /\ half[s] = {} /\ Head(pipe[s]).left = {}
    /\ Deliver(s, "ok")
    /\ UNCHANGED <<index, rows, up, keys, half, broken, faults>>

(* A write is refused: of the index entry, when memory has the key, or of  *)
(* the row, when the index has it.  The rest of the share is not tried.    *)
WriteFails(s) ==
    /\ Busy(s) /\ faults < MaxFaults /\ faults' = faults + 1
    /\ \/ /\ half[s] = {} /\ Head(pipe[s]).left # {} /\ NextKey(s) \notin keys[s]
          /\ keys' = [keys EXCEPT ![s] = @ \cup {NextKey(s)}]
          /\ broken' = broken \cup {NextKey(s)}
       \/ /\ half[s] # {} /\ broken' = broken \cup half[s]
          /\ UNCHANGED keys
    /\ half' = [half EXCEPT ![s] = {}]
    /\ Deliver(s, "error")
    /\ UNCHANGED <<index, rows, up>>

(* A fault: the thread that waited keeps the pipe's lock. *)
KillKeepsLock(s) ==
    /\ up[s] /\ faults < MaxFaults /\ faults' = faults + 1
    /\ up' = [up EXCEPT ![s] = FALSE]
    /\ broken' = broken \cup half[s] /\ half' = [half EXCEPT ![s] = {}]
    /\ pipe' = [pipe EXCEPT ![s] = <<>>]
    /\ part' = [c \in Call |-> [part[c] EXCEPT ![s] = IF @ = "sent" THEN "error" ELSE @]]
    /\ UNCHANGED <<index, rows, keys, holder, bundle, got, totals, credit>>

(* The process is killed; nobody starts it again. *)
Kill(s) ==
    /\ up[s] /\ faults < MaxFaults /\ faults' = faults + 1
    /\ up' = [up EXCEPT ![s] = FALSE]
    /\ broken' = broken \cup half[s] /\ half' = [half EXCEPT ![s] = {}]
    /\ IF pipe[s] # <<>> THEN Deliver(s, "error") ELSE UNCHANGED <<pipe, calls>>
    /\ UNCHANGED <<index, rows, keys>>

(* A new coordinator process, and the old one's workers are gone with it:  *)
(* the new ones read the index.                                            *)
RestartStore ==
    /\ up' = [s \in Shard |-> TRUE] /\ keys' = index
    /\ pipe' = [s \in Shard |-> <<>>] /\ half' = [s \in Shard |-> {}]
    /\ holder' = [s \in Shard |-> 0]
    /\ part' = [c \in Call |-> [s \in Shard |->
                   IF s \in Outstanding(c) THEN "error" ELSE part[c][s]]]
    /\ totals' = 0
    /\ broken' = broken \cup UNION {half[s] : s \in Shard}
    /\ UNCHANGED <<index, rows, bundle, got, credit, faults>>

MergeStep ==
    \/ \E c \in Call, s \in Shard : SendShare(c, s) \/ SendShareFails(c, s)
    \/ \E s \in Shard :
          Deduped(s) \/ IndexKey(s) \/ WriteRow(s) \/ Reply(s) \/ WriteFails(s) \/ Kill(s)
-----------------------------------------------------------------------------
(* Properties *)

(* Files, workers, pipes and threads hold values of their types; a worker  *)
(* has work exactly while a thread waits for it, and it is that thread's.  *)
MergeTypeOK ==
    /\ index \in [Shard -> SUBSET Key] /\ keys \in [Shard -> SUBSET Key]
    /\ rows \in [Shard -> SUBSET [key : Key, call : Call]]
    /\ up \in [Shard -> BOOLEAN] /\ half \in [Shard -> SUBSET Key]
    /\ holder \in [Shard -> Call \cup {0}] /\ bundle \in [Call -> SUBSET Key]
    /\ part \in [Call -> [Shard -> {"none", "wait", "sent", "ok", "error"}]]
    /\ got \in [Call -> [Shard -> Nat]] /\ totals \in Nat /\ credit \in [Call -> Nat]
    /\ broken \subseteq Key /\ faults \in 0..MaxFaults
    /\ \A s \in Shard :
          /\ pipe[s] \in Seq([call : Call, left : SUBSET Key, added : Nat])
          /\ [i \in DOMAIN pipe[s] |-> pipe[s][i].call] =
                IF holder[s] = 0 THEN <<>> ELSE <<holder[s]>>

StoredRows == UNION {rows[s] : s \in Shard}

(* What is credited for a batch are rows this batch brought, and the       *)
(* totals are rows in the store: no answer is taken for another's, a       *)
(* replay counts nothing ("the shared totals grow solely from work peers   *)
(* actually did", brain_link.py:10), whatever times out, dies or raises.   *)
CreditIsEarned ==
    /\ \A c \in Call : credit[c] <= Cardinality({r \in StoredRows : r.call = c})
    /\ totals <= Cardinality(StoredRows)

Copies(k) == {c \in Shard \X StoredRows : c[2] \in rows[c[1]] /\ c[2].key = k}

(* One row for every key, in all shards together, and rows stay ("de-dup   *)
(* stays EXACT at any worker count", process_sharded_store.py:7).          *)
Promise == INSTANCE DedupStore WITH count <- [k \in Key |-> Cardinality(Copies(k))]

ImplementsStore == Promise!Spec
=============================================================================
