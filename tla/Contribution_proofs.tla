------------------------- MODULE Contribution_proofs -------------------------
(***************************************************************************)
(* The contributed store behind the coordinator keeps one row per key, has *)
(* the rows of merged work and credits rows it has, for any shards, keys,  *)
(* peers, calls and faults.                                                *)
(***************************************************************************)
EXTENDS Contribution, BrainLinkWork_proofs

(* A request to a worker: keys of the worker's own shard are left to do.   *)
RequestOf(s) == [call : Call, left : SUBSET {k \in Key : Hash[k] = s}, added : Nat]

StoreShape ==
    /\ bundle \in [Call -> SUBSET Key]
    /\ index \in [Shard -> SUBSET Key] /\ keys \in [Shard -> SUBSET Key]
    /\ half \in [Shard -> SUBSET Key]
    /\ rows \in [Shard -> SUBSET [key : Key, call : Call]]
    /\ pipe = [s \in Shard |-> pipe[s]]
    /\ \A s \in Shard : pipe[s] \in Seq(RequestOf(s))

(* A shard holds keys that are routed to it; memory knows what the index   *)
(* has, and the key in hand is in both.                                    *)
Indexed(s) ==
    /\ \A k \in index[s] : Hash[k] = s
    /\ half[s] \subseteq index[s] /\ index[s] \subseteq keys[s]

(* A row was indexed before, is not in hand, and is the only one of its key. *)
RowsOnce(s) ==
    /\ \A r \in rows[s] : r.key \in index[s] /\ r.key \notin half[s]
    /\ \A r, q \in rows[s] : r.key = q.key => r = q

StoreInv == StoreShape /\ \A s \in Shard : Indexed(s) /\ RowsOnce(s)
-----------------------------------------------------------------------------
LEMMA QueueEdits ==
    ASSUME NEW S, NEW q \in Seq(S)
    PROVE  /\ \A e \in S : Append(q, e) \in Seq(S)
           /\ q # <<>> => /\ Head(q) \in S /\ Tail(q) \in Seq(S)
                          /\ q[1] \in S /\ Head(q) = q[1]
                          /\ \A e \in S : [q EXCEPT ![1] = e] \in Seq(S)
OBVIOUS

(* A busy worker has a key of its own shard before it, and what is left    *)
(* after it is one of its requests.                                        *)
LEMMA AtWork ==
    ASSUME StoreInv, NEW s \in Shard, Busy(s)
    PROVE  /\ Head(pipe[s]) \in RequestOf(s) /\ Tail(pipe[s]) \in Seq(RequestOf(s))
           /\ \A k \in Key, more \in {0, 1} : Done(s, k, more) \in Seq(RequestOf(s))
           /\ Head(pipe[s]).left # {} => /\ NextKey(s) \in Key
                                         /\ Hash[NextKey(s)] = s
<1> DEFINE q == pipe[s]
<1>1. q \in Seq(RequestOf(s)) /\ q # <<>>
  BY DEF StoreInv, StoreShape, Busy
<1>2. /\ Head(q) \in RequestOf(s) /\ Tail(q) \in Seq(RequestOf(s))
      /\ q[1] \in RequestOf(s) /\ Head(q) = q[1]
      /\ \A e \in RequestOf(s) : [q EXCEPT ![1] = e] \in Seq(RequestOf(s))
  BY <1>1, QueueEdits
<1>3. ASSUME NEW k \in Key, NEW more \in {0, 1}
      PROVE  Done(s, k, more) \in Seq(RequestOf(s))
  <2> DEFINE m == Head(q)
             e == [call |-> m.call, left |-> m.left \ {k}, added |-> m.added + more]
  <2>1. e \in RequestOf(s)
    BY <1>2 DEF RequestOf
  <2>2. [q EXCEPT ![1] = e] \in Seq(RequestOf(s))
    BY <1>2, <2>1
  <2> QED BY <2>2 DEF Done
<1>4. Head(q).left # {} => NextKey(s) \in Key /\ Hash[NextKey(s)] = s
  BY <1>2 DEF NextKey, RequestOf
<1> QED BY <1>2, <1>3, <1>4

LEMMA PipeTyped ==
    ASSUME StoreShape, NEW s \in Shard, NEW v \in Seq(RequestOf(s)),
           pipe' = [pipe EXCEPT ![s] = v]
    PROVE  /\ pipe' = [t \in Shard |-> pipe'[t]]
           /\ \A t \in Shard : pipe'[t] \in Seq(RequestOf(t))
<1>1. \A t \in Shard : pipe'[t] = IF t = s THEN v ELSE pipe[t]
  BY DEF StoreShape
<1>2. pipe' = [t \in Shard |-> pipe'[t]]
  BY DEF StoreShape
<1> QED BY <1>1, <1>2 DEF StoreShape

(* Steps that touch the pipe of one shard, and of its memory and files at  *)
(* most the memory of keys and the key in hand.                            *)
LEMMA PipeStep ==
    ASSUME StoreInv, NEW s \in Shard, NEW v \in Seq(RequestOf(s)),
           pipe' = [pipe EXCEPT ![s] = v], UNCHANGED <<index, rows, bundle>>,
           UNCHANGED half \/ half' = [half EXCEPT ![s] = {}],
           UNCHANGED keys \/ \E k \in Key : keys' = [keys EXCEPT ![s] = @ \cup {k}]
    PROVE  StoreInv'
<1>1. StoreShape'
  <2>1. /\ pipe' = [t \in Shard |-> pipe'[t]]
        /\ \A t \in Shard : pipe'[t] \in Seq(RequestOf(t))
    BY PipeTyped DEF StoreInv
  <2>2. half' \in [Shard -> SUBSET Key]
    BY DEF StoreInv, StoreShape
  <2>3. keys' \in [Shard -> SUBSET Key]
    <3>1. CASE UNCHANGED keys
      BY <3>1 DEF StoreInv, StoreShape
    <3>2. CASE \E k \in Key : keys' = [keys EXCEPT ![s] = @ \cup {k}]
      <4>1. PICK k \in Key : keys' = [keys EXCEPT ![s] = keys[s] \cup {k}]
        BY <3>2
      <4>2. keys[s] \cup {k} \in SUBSET Key
        BY DEF StoreInv, StoreShape
      <4> QED BY <4>1, <4>2 DEF StoreInv, StoreShape
    <3> QED BY <3>1, <3>2
  <2> QED BY <2>1, <2>2, <2>3 DEF StoreInv, StoreShape
<1>2. ASSUME NEW t \in Shard PROVE Indexed(t)' /\ RowsOnce(t)'
  <2>1. half'[t] \subseteq half[t]
    BY DEF StoreInv, StoreShape
  <2>2. keys[t] \subseteq keys'[t]
    BY DEF StoreInv, StoreShape
  <2> QED BY <2>1, <2>2 DEF StoreInv, Indexed, RowsOnce
<1> QED BY <1>1, <1>2 DEF StoreInv

LEMMA StoreInvInit == MergeInit => StoreInv
BY DEF MergeInit, StoreInv, StoreShape, Indexed, RowsOnce, RequestOf

LEMMA FilesStay ==
    ASSUME StoreInv, UNCHANGED shards, bundle' \in [Call -> SUBSET Key]
    PROVE  StoreInv'
<1>1. StoreShape'
  BY DEF StoreInv, StoreShape, RequestOf, shards
<1>2. ASSUME NEW t \in Shard PROVE Indexed(t)' /\ RowsOnce(t)'
  BY DEF StoreInv, Indexed, RowsOnce, shards
<1> QED BY <1>1, <1>2 DEF StoreInv

LEMMA SendShareKeeps ==
    ASSUME StoreInv, NEW c \in Call, NEW s \in Shard, SendShare(c, s)
    PROVE  StoreInv'
<1> DEFINE e == [call |-> c, left |-> Share(c, bundle[c], s), added |-> 0]
<1>1. e \in RequestOf(s)
  BY DEF RequestOf, Share, StoreInv, StoreShape
<1>2. Append(pipe[s], e) \in Seq(RequestOf(s))
  BY <1>1, QueueEdits DEF StoreInv, StoreShape
<1>3. pipe' = [pipe EXCEPT ![s] = Append(pipe[s], e)]
  BY DEF SendShare
<1> QED BY <1>2, <1>3, PipeStep DEF SendShare

LEMMA DedupedKeeps ==
    ASSUME StoreInv, NEW s \in Shard, Deduped(s)
    PROVE  StoreInv'
<1>1. Busy(s) /\ Head(pipe[s]).left # {}
  BY DEF Deduped
<1>2. Done(s, NextKey(s), 0) \in Seq(RequestOf(s))
  BY <1>1, AtWork
<1> QED BY <1>2, PipeStep DEF Deduped, calls

LEMMA ReplyKeeps ==
    ASSUME StoreInv, NEW s \in Shard, Reply(s) \/ WriteFails(s) \/ Kill(s)
    PROVE  StoreInv'
<1>1. CASE Reply(s)
  BY <1>1, AtWork, PipeStep DEF Reply, Deliver
<1>2. CASE WriteFails(s)
  <2>1. Busy(s) /\ Deliver(s, "error") /\ UNCHANGED <<index, rows>>
        /\ half' = [half EXCEPT ![s] = {}]
    BY <1>2 DEF WriteFails
  <2>2. Tail(pipe[s]) \in Seq(RequestOf(s))
    BY <2>1, AtWork
  <2>3. UNCHANGED keys \/ \E k \in Key : keys' = [keys EXCEPT ![s] = @ \cup {k}]
    BY <1>2, <2>1, AtWork DEF WriteFails
  <2> QED BY <2>1, <2>2, <2>3, PipeStep DEF Deliver
<1>3. CASE Kill(s)
  <2>1. CASE pipe[s] # <<>>
    <3>1. Busy(s) /\ Deliver(s, "error")
      BY <1>3, <2>1 DEF Kill, Busy
    <3> QED BY <1>3, <3>1, AtWork, PipeStep DEF Kill, Deliver
  <2>2. CASE pipe[s] = <<>>
    <3>1. pipe[s] \in Seq(RequestOf(s)) /\ pipe = [pipe EXCEPT ![s] = pipe[s]]
      BY DEF StoreInv, StoreShape
    <3>2. UNCHANGED <<pipe, bundle, index, rows, keys>> /\ half' = [half EXCEPT ![s] = {}]
      BY <1>3, <2>2 DEF Kill, calls
    <3> QED BY <3>1, <3>2, PipeStep
  <2> QED BY <2>1, <2>2
<1> QED BY <1>1, <1>2, <1>3

LEMMA IndexKeyKeeps ==
    ASSUME StoreInv, NEW s \in Shard, IndexKey(s)
    PROVE  StoreInv'
<1> DEFINE k == NextKey(s)
<1>1. k \in Key /\ Hash[k] = s
  BY AtWork DEF IndexKey
<1>2. /\ half[s] = {} /\ k \notin keys[s]
      /\ keys' = [keys EXCEPT ![s] = @ \cup {k}]
      /\ index' = [index EXCEPT ![s] = @ \cup {k}]
      /\ half' = [half EXCEPT ![s] = {k}]
      /\ UNCHANGED <<rows, pipe, bundle>>
  BY DEF IndexKey, calls
<1> HIDE DEF k
<1>3. StoreShape'
  BY <1>1, <1>2 DEF StoreInv, StoreShape, RequestOf
<1>4. ASSUME NEW t \in Shard PROVE Indexed(t)' /\ RowsOnce(t)'
  BY <1>1, <1>2 DEF StoreInv, StoreShape, Indexed, RowsOnce
<1> QED BY <1>3, <1>4 DEF StoreInv

(* What WriteRow does: a row for a key in hand, which had none. *)
LEMMA WriteRowDoes ==
    ASSUME StoreInv, NEW s \in Shard, WriteRow(s)
    PROVE  \E k \in half[s], r \in [key : Key, call : Call] :
              /\ r.key = k
              /\ rows' = [rows EXCEPT ![s] = @ \cup {r}]
              /\ pipe' = [pipe EXCEPT ![s] = Done(s, k, 1)]
              /\ half' = [half EXCEPT ![s] = {}]
              /\ UNCHANGED <<index, keys, bundle>>
<1>1. Head(pipe[s]).call \in Call
  <2>1. Head(pipe[s]) \in RequestOf(s)
    BY AtWork DEF WriteRow
  <2> QED BY <2>1 DEF RequestOf
<1>2. half[s] \subseteq Key
  BY DEF StoreInv, StoreShape
<1>3. PICK k \in half[s] :
        /\ rows' = [rows EXCEPT ![s] = @ \cup {[key |-> k, call |-> Head(pipe[s]).call]}]
        /\ pipe' = [pipe EXCEPT ![s] = Done(s, k, 1)]
  BY DEF WriteRow
<1> DEFINE r == [key |-> k, call |-> Head(pipe[s]).call]
<1>4. r \in [key : Key, call : Call] /\ r.key = k
  BY <1>1, <1>2
<1>5. UNCHANGED <<index, keys, bundle>> /\ half' = [half EXCEPT ![s] = {}]
  BY DEF WriteRow, calls
<1> HIDE DEF r
<1>6. rows' = [rows EXCEPT ![s] = @ \cup {r}]
  BY <1>3 DEF r
<1> QED BY <1>3, <1>4, <1>5, <1>6

LEMMA WriteRowKeeps ==
    ASSUME StoreInv, NEW s \in Shard, WriteRow(s)
    PROVE  StoreInv'
<1>1. PICK k \in half[s], r \in [key : Key, call : Call] :
              /\ r.key = k
              /\ rows' = [rows EXCEPT ![s] = @ \cup {r}]
              /\ pipe' = [pipe EXCEPT ![s] = Done(s, k, 1)]
              /\ half' = [half EXCEPT ![s] = {}]
              /\ UNCHANGED <<index, keys, bundle>>
  BY WriteRowDoes
<1>2. k \in Key
  BY DEF StoreInv, StoreShape
<1>3. Done(s, k, 1) \in Seq(RequestOf(s))
  BY <1>2, AtWork DEF WriteRow
<1> DEFINE v == Done(s, k, 1)
<1>a. v \in Seq(RequestOf(s)) /\ pipe' = [pipe EXCEPT ![s] = v]
  BY <1>1, <1>3
<1> HIDE DEF v
<1>4. StoreShape'
  <2>1. /\ pipe' = [t \in Shard |-> pipe'[t]]
        /\ \A t \in Shard : pipe'[t] \in Seq(RequestOf(t))
    BY <1>a, PipeTyped DEF StoreInv
  <2>2. half' \in [Shard -> SUBSET Key] /\ rows' \in [Shard -> SUBSET [key : Key, call : Call]]
    BY <1>1 DEF StoreInv, StoreShape
  <2> QED BY <1>1, <2>1, <2>2 DEF StoreInv, StoreShape
<1>5. ASSUME NEW t \in Shard PROVE Indexed(t)' /\ RowsOnce(t)'
  BY <1>1 DEF StoreInv, StoreShape, Indexed, RowsOnce
<1> QED BY <1>4, <1>5 DEF StoreInv

LEMMA RestartKeeps ==
    ASSUME StoreInv, RestartStore
    PROVE  StoreInv'
<1>1. StoreShape'
  <2>1. \A s \in Shard : <<>> \in Seq(RequestOf(s))
    OBVIOUS
  <2> QED BY <2>1 DEF RestartStore, StoreInv, StoreShape
<1>2. ASSUME NEW t \in Shard PROVE Indexed(t)' /\ RowsOnce(t)'
  BY DEF RestartStore, StoreInv, StoreShape, Indexed, RowsOnce
<1> QED BY <1>1, <1>2 DEF StoreInv

(* Wherever the threads, the workers, the coordinator and its peers stand, *)
(* a key of a shard is indexed before it has a row, is routed to that      *)
(* shard alone, and has at most one row (_process_shard_worker's loop).    *)
THEOREM StoreInvariant == ContribSpec => []StoreInv
<1>1. ContribInit => StoreInv
  BY StoreInvInit DEF ContribInit
<1>2. StoreInv /\ [ContribNext]_contribVars => StoreInv'
  <2> SUFFICES ASSUME StoreInv, [ContribNext]_contribVars PROVE StoreInv'
    OBVIOUS
  <2>0. bundle \in [Call -> SUBSET Key]
    BY DEF StoreInv, StoreShape
  <2>1. ASSUME UNCHANGED mergeVars PROVE StoreInv'
    BY <2>0, <2>1, FilesStay DEF mergeVars, calls
  <2>2. ASSUME NEW p \in Peer, Serve(p) PROVE StoreInv'
    <3>1. CASE CallMerge(p)
      BY <2>0, <3>1, FilesStay DEF CallMerge, FanOut
    <3>2. CASE EndMerge(p)
      BY <2>0, <3>2, FilesStay DEF EndMerge, Return
    <3> QED BY <2>1, <2>2, <3>1, <3>2 DEF Serve, SkipMerge
  <2>3. ASSUME NEW c \in Call, NEW s \in Shard, SendShare(c, s) \/ SendShareFails(c, s)
        PROVE  StoreInv'
    BY <2>0, <2>3, SendShareKeeps, FilesStay DEF SendShareFails
  <2>4. ASSUME NEW s \in Shard,
               Deduped(s) \/ IndexKey(s) \/ WriteRow(s) \/ Reply(s) \/ WriteFails(s) \/ Kill(s)
        PROVE  StoreInv'
    BY <2>4, DedupedKeeps, IndexKeyKeeps, WriteRowKeeps, ReplyKeeps
  <2> QED BY <2>1, <2>2, <2>3, <2>4, RestartKeeps DEF ContribNext, MergeStep, contribVars
<1> QED BY <1>1, <1>2, PTL DEF ContribSpec
-----------------------------------------------------------------------------
LEMMA CopiesStay ==
    ASSUME UNCHANGED rows
    PROVE  [k \in Key |-> Cardinality(Copies(k))]' = [k \in Key |-> Cardinality(Copies(k))]
<1>1. \A k \in Key : Copies(k)' = Copies(k)
  BY DEF Copies, StoredRows
<1> QED BY <1>1

(* Only WriteRow writes a row, and only for a key that has none.           *)
LEMMA WriteRowAdds ==
    ASSUME StoreInv, NEW s \in Shard, WriteRow(s)
    PROVE  \E k \in Key : Promise!Add(k)
<1>1. PICK k \in half[s], r \in [key : Key, call : Call] :
              /\ r.key = k
              /\ rows' = [rows EXCEPT ![s] = @ \cup {r}]
  BY WriteRowDoes
<1>2. k \in Key
  BY DEF StoreInv, StoreShape
<1>3. \A t \in Shard : rows'[t] = IF t = s THEN rows[t] \cup {r} ELSE rows[t]
  BY <1>1 DEF StoreInv, StoreShape
<1>4. \A t \in Shard : \A q \in rows[t] : q.key # k
  <2> SUFFICES ASSUME NEW t \in Shard, NEW q \in rows[t], q.key = k PROVE FALSE
    OBVIOUS
  <2>1. Hash[k] = t /\ q.key \notin half[t]
    BY DEF StoreInv, Indexed, RowsOnce
  <2>2. Hash[k] = s
    BY DEF StoreInv, Indexed
  <2> QED BY <2>1, <2>2
<1>5. Copies(k) = {}
  BY <1>4 DEF Copies
<1>6. Copies(k)' = {<<s, r>>}
  BY <1>1, <1>3, <1>4 DEF Copies, StoredRows
<1>7. ASSUME NEW j \in Key, j # k PROVE Copies(j)' = Copies(j)
  BY <1>1, <1>3, <1>7 DEF Copies, StoredRows
<1>8. Cardinality(Copies(k)) = 0 /\ Cardinality(Copies(k)') = 1
  BY <1>5, <1>6, FS_EmptySet, FS_Singleton
<1>9. Promise!Add(k)
  BY <1>2, <1>7, <1>8 DEF Promise!Add
<1> QED BY <1>2, <1>9

(* De-dup is exact at any worker count (process_sharded_store.py:7): over  *)
(* all shards together a key gets one row, which stays, whatever is late,  *)
(* dies, is refused or restarts.                                           *)
THEOREM ShardsAreOneStore == ContribSpec => ImplementsStore
<1> DEFINE count == [k \in Key |-> Cardinality(Copies(k))]
<1>1. ContribInit => Promise!Init
  <2> SUFFICES ASSUME ContribInit PROVE count = [k \in Key |-> 0]
    BY DEF Promise!Init
  <2>1. \A k \in Key : Copies(k) = {}
    BY DEF ContribInit, MergeInit, Copies, StoredRows
  <2> QED BY <2>1, FS_EmptySet
<1>2. StoreInv /\ [ContribNext]_contribVars => [Promise!Next]_count
  <2> SUFFICES ASSUME StoreInv, [ContribNext]_contribVars
               PROVE  (\E s \in Shard : WriteRow(s)) \/ UNCHANGED rows
    BY CopiesStay, WriteRowAdds DEF Promise!Next
  <2>1. ASSUME NEW p \in Peer, Serve(p) PROVE UNCHANGED rows
    BY <2>1 DEF Serve, CallMerge, FanOut, EndMerge, Return, SkipMerge, mergeVars, shards
  <2>2. MergeStep => (\E s \in Shard : WriteRow(s)) \/ UNCHANGED rows
    BY DEF MergeStep, SendShare, SendShareFails, Deduped, IndexKey, Reply, WriteFails, Kill, shards
  <2>3. RestartStore \/ UNCHANGED mergeVars => UNCHANGED rows
    BY DEF RestartStore, mergeVars, shards
  <2> QED BY <2>1, <2>2, <2>3 DEF ContribNext, contribVars
<1>3. ContribSpec => []StoreInv
  BY StoreInvariant
<1> QED BY <1>1, <1>2, <1>3, PTL DEF ContribSpec, ImplementsStore, Promise!Spec
-----------------------------------------------------------------------------
(* The coordinator in front of the store takes the steps it takes alone,   *)
(* so what is proved of BrainLinkPool holds here.                          *)

LEMMA ServeHandles == ASSUME NEW p \in Peer, Serve(p) PROVE Handle(p) \/ UNCHANGED vars
BY DEF Serve, Handle, CallMerge, EndMerge, SkipMerge

LEMMA ContribSteps == [ContribNext]_contribVars => [Next]_vars
<1> SUFFICES ASSUME [ContribNext]_contribVars PROVE [Next]_vars
  OBVIOUS
<1>1. ASSUME NEW p \in Peer, Serve(p) PROVE [Next]_vars
  BY <1>1, ServeHandles DEF Next
<1>2. CASE UNCHANGED contribVars
  BY <1>2 DEF contribVars
<1> QED BY <1>1, <1>2 DEF ContribNext, Next

LEMMA PoolHolds == ContribSpec => [](TypeInv /\ PlaceInv)
<1>1. ContribInit => Init
  BY DEF ContribInit
<1>2. ContribSpec => Spec
  BY <1>1, ContribSteps, PTL DEF ContribSpec, Spec
<1> QED BY <1>2, PlacesHold, PTL

(* Handlers that passed the bound on batches leave its ids enough. *)
LEMMA FewerPoppers ==
    ASSUME TypeInv, RoomLeft, UNCHANGED claimant, Poppers' \subseteq Poppers
    PROVE  RoomLeft'
<1>1. Cardinality(Poppers') <= Cardinality(Poppers) /\ Cardinality(Poppers') \in Nat
  BY PoppersFinite, FS_Subset, FS_CardinalityType
<1>2. Cardinality(Poppers)' = Cardinality(Poppers') /\ Cardinality(Claimed)' = Cardinality(Claimed)
  BY DEF Claimed
<1> QED BY <1>1, <1>2, NextBatch, PoppersFinite, PoolBoundAssumption DEF RoomLeft

LEMMA NoNewPopper ==
    ASSUME TypeInv, [Next]_vars, \A p \in Peer : ~ClaimLimit(p) /\ ~ClaimPop(p)
    PROVE  UNCHANGED claimant /\ Poppers' \subseteq Poppers
<1>0. h \in [Peer -> Request]
  BY DEF TypeInv
<1>1. CASE \E p \in Peer : Handle(p)
  <2>1. PICK p \in Peer : Handle(p)
    BY <1>1
  <2>2. UNCHANGED claimant
    BY <2>1 DEF Handle, HandleAlone, RegisterCheck, RegisterCommit, SeedSkip, SeedRead, SeedFill,
                ClaimReclaim, ClaimNothing, BurnCheck, Burn, ClaimReply, SubmitUnknown,
                SubmitForeign, SubmitPop, Outcome, Mint, Assess, Merge, Count, past
  <2>3. CASE SubmitPop(p)
    <3>1. h'[p].pc = "outcome" /\ \A q \in Peer : q # p => h'[q] = h[q]
      BY <1>0, <2>3 DEF SubmitPop, Request
    <3> QED BY <2>2, <3>1 DEF Poppers, At
  <2>4. CASE ~SubmitPop(p)
    <3>1. \/ Answered(p)
          \/ \E x \in HandlerPC \ {"pop"} : Goto(p, x)
      BY <2>1, <2>4 DEF Handle, HandleAlone, RegisterCheck, RegisterCommit, SeedSkip, SeedRead,
                SeedFill, EndSeed, AfterSeed, ClaimReclaim, ClaimNothing, BurnCheck, Burn,
                ClaimReply, SubmitUnknown, SubmitForeign, SubmitAnswered, Outcome, Mint, Assess,
                Merge, Count, HandlerPC, SeedPC, ClaimPC, SubmitPC
    <3>2. h'[p].pc # "pop" /\ \A q \in Peer : q # p => h'[q] = h[q]
      BY <1>0, <3>1, GotoTypes, AnsweredTypes
    <3> QED BY <2>2, <3>2 DEF Poppers, At
  <2> QED BY <2>3, <2>4
<1>2. CASE Around
  <2>1. UNCHANGED claimant
    BY <1>2 DEF Around, Send, SendRegister, GiveUpJoining, SendClaim, SendSubmit, Start, Die,
                Release, Age, PoolStatus, past
  <2>2. \A q \in Peer : h'[q] = h[q] \/ h'[q].pc \in {"reg_check", "claim_seed", "sub_pop"}
    BY <1>0, <1>2 DEF Around, Send, SendRegister, GiveUpJoining, SendClaim, SendSubmit, Start, Die,
                Release, Age, PoolStatus, Goto, Request
  <2> QED BY <2>1, <2>2 DEF Poppers, At
<1>3. CASE Restart
  BY <1>3 DEF Restart, Poppers, At, NoRequest
<1>4. CASE UNCHANGED vars
  BY <1>4 DEF vars, past, Poppers, At
<1> QED BY <1>1, <1>2, <1>3, <1>4 DEF Next

LEMMA RoomStep == ASSUME TypeInv, RoomLeft, [Next]_vars PROVE RoomLeft'
<1>0. h \in [Peer -> Request]
  BY DEF TypeInv
<1>1. ASSUME NEW p \in Peer, ClaimLimit(p) PROVE RoomLeft'
  <2>1. UNCHANGED claimant
    BY <1>1 DEF ClaimLimit, past
  <2>2. CASE Answered(p)
    <3>1. h'[p].pc = "none" /\ \A q \in Peer : q # p => h'[q] = h[q]
      BY <1>0, <2>2, AnsweredTypes
    <3> QED BY <2>1, <3>1, FewerPoppers DEF Poppers, At
  <2>3. CASE Cardinality(Claimed) < MaxBatches
    <3>1. Cardinality(Poppers') <= Cardinality(Peer) /\ Cardinality(Poppers') \in Nat
      <4>1. Poppers' \subseteq Peer
        BY DEF Poppers
      <4> QED BY <4>1, PeerAssumption, FS_Subset, FS_CardinalityType
    <3>2. Cardinality(Poppers)' = Cardinality(Poppers') /\ Cardinality(Claimed)' = Cardinality(Claimed)
      BY <2>1 DEF Claimed
    <3> QED BY <2>3, <3>1, <3>2, NextBatch, PoppersFinite, PoolBoundAssumption DEF RoomLeft
  <2> QED BY <1>1, <2>2, <2>3 DEF ClaimLimit
<1>2. ASSUME NEW p \in Peer, ClaimPop(p) PROVE RoomLeft'
  <2> DEFINE b == Cardinality(Claimed) + 1
  <2>1. /\ h[p].pc = "pop" /\ h' = [h EXCEPT ![p].pc = "burn_check", ![p].batch = b]
        /\ claimant' = [c \in Claimed \cup {b} |-> IF c = b THEN p ELSE claimant[c]]
    BY <1>2 DEF ClaimPop, At
  <2>2. Claimed' = Claimed \cup {b}
    BY <2>1 DEF Claimed
  <2>3. Cardinality(Claimed') = b
    BY <2>2, NextBatch, FS_AddElement
  <2>4. p \in Poppers /\ Poppers' = Poppers \ {p}
    BY <1>0, <2>1 DEF Poppers, At, Request
  <2>5. Cardinality(Poppers') = Cardinality(Poppers) - 1
    BY <2>4, PoppersFinite, FS_RemoveElement
  <2>6. Cardinality(Poppers)' = Cardinality(Poppers') /\ Cardinality(Claimed)' = Cardinality(Claimed')
    OBVIOUS
  <2> QED BY <2>3, <2>5, <2>6, NextBatch, PoppersFinite, PoolBoundAssumption DEF RoomLeft
<1> QED BY <1>1, <1>2, NoNewPopper, FewerPoppers

LEMMA InitRoomLeft == Init => RoomLeft
<1> SUFFICES ASSUME Init PROVE RoomLeft
  OBVIOUS
<1>1. Poppers = {} /\ Claimed = {}
  BY DEF Init, Poppers, At, NoRequest, Claimed
<1> QED BY <1>1, PoppersFinite, FS_EmptySet, PoolBoundAssumption DEF RoomLeft

(* Every batch id is a call of the store. *)
LEMMA BatchesAreCalls == ASSUME TypeInv, RoomLeft PROVE Claimed \subseteq Call
<1>1. Cardinality(Claimed) <= MaxBatches + Cardinality(Peer)
  BY NextBatch, PoppersFinite, PoolBoundAssumption DEF RoomLeft
<1>2. \A n, m \in Nat : n <= m => 1..n \subseteq 1..m
  OBVIOUS
<1> QED BY <1>1, <1>2, NextBatch, PoppersFinite, PoolBoundAssumption, SentenceAssumption
-----------------------------------------------------------------------------
(* What the calls of accumulate have got from the shards.  A row is owed   *)
(* nothing by a key that a fault caught; every other key that the worker   *)
(* remembers, or has answered for, has its row, and the rows it says it    *)
(* added for a call are rows of that call.                                 *)

CallShape ==
    /\ up \in [Shard -> BOOLEAN] /\ holder \in [Shard -> Call \cup {0}]
    /\ part \in [Call -> [Shard -> {"none", "wait", "sent", "ok", "error"}]]
    /\ got \in [Call -> [Shard -> Nat]] /\ totals \in Nat /\ credit \in [Call -> Nat]
    /\ broken \subseteq Key /\ faults \in 0..MaxFaults

Kept(s, k) == k \in broken \/ \E r \in rows[s] : r.key = k
RowsOf(c, s) == {r \in rows[s] : r.call = c}

(* The pipe carries the request of the thread that has its lock. *)
InWork(s) ==
    \/ holder[s] = 0 /\ pipe[s] = <<>>
    \/ holder[s] \in Call /\ Len(pipe[s]) = 1 /\ Head(pipe[s]).call = holder[s]

Threads(s) ==
    \A c \in Call :
        /\ part[c][s] = "sent" <=> holder[s] = c
        /\ bundle[c] = {} => part[c][s] = "none"
        /\ part[c][s] = "none" => Share(c, bundle[c], s) = {}

Remembered(s) ==
    /\ \A k \in keys[s] : k \in half[s] \/ Kept(s, k)
    /\ \A j, k \in half[s] : j = k

Stored(s) ==
    /\ \A c \in Call : part[c][s] = "ok" => \A k \in Share(c, bundle[c], s) : Kept(s, k)
    /\ holder[s] # 0 =>
          \A k \in Share(holder[s], bundle[holder[s]], s) \ Head(pipe[s]).left : Kept(s, k)

Earned(s) ==
    /\ \A c \in Call : part[c][s] = "ok" => got[c][s] <= Cardinality(RowsOf(c, s))
    /\ holder[s] # 0 => Head(pipe[s]).added <= Cardinality(RowsOf(holder[s], s))

ShardInv(s) == InWork(s) /\ Threads(s) /\ Remembered(s) /\ Stored(s) /\ Earned(s)

LEMMA OneRequest ==
    ASSUME NEW S, NEW q \in Seq(S), NEW e \in S
    PROVE  /\ Len(q) = 1 => /\ q # <<>> /\ Head(q) \in S /\ Tail(q) = <<>>
                            /\ Len([q EXCEPT ![1] = e]) = 1 /\ Head([q EXCEPT ![1] = e]) = e
           /\ q = <<>> => Len(Append(q, e)) = 1 /\ Head(Append(q, e)) = e
<1>1. ASSUME Len(q) = 1 PROVE Tail(q) = <<>>
  <2>1. Tail(q) \in Seq(S) /\ Len(Tail(q)) = 0
    BY <1>1, HeadTailProperties
  <2> QED BY <2>1, EmptySeq
<1>2. ASSUME Len(q) = 1 PROVE Len([q EXCEPT ![1] = e]) = 1 /\ Head([q EXCEPT ![1] = e]) = e
  BY <1>2
<1>3. ASSUME q = <<>> PROVE Len(Append(q, e)) = 1 /\ Head(Append(q, e)) = e
  BY <1>3
<1> QED BY <1>1, <1>2, <1>3

LEMMA RowSpace == IsFiniteSet([key : Key, call : Call])
<1> DEFINE R == [key : Key, call : Call]
<1>1. IsFiniteSet(Call)
  <2>1. MaxBatches + Cardinality(Peer) \in Nat
    BY PoppersFinite, PoolBoundAssumption
  <2> QED BY <2>1, SentenceAssumption, FS_Interval
<1>2. IsFiniteSet(Key \X Call)
  BY <1>1, RouteAssumption, FS_Product
<1> DEFINE f == [x \in Key \X Call |-> [key |-> x[1], call |-> x[2]]]
<1>3. f \in [Key \X Call -> R]
  OBVIOUS
<1>4. ASSUME NEW r \in R PROVE \E x \in Key \X Call : f[x] = r
  <2>1. <<r.key, r.call>> \in Key \X Call /\ f[<<r.key, r.call>>] = r
    OBVIOUS
  <2> QED BY <2>1
<1>5. IsFiniteSet(R)
  <2>1. f \in Surjection(Key \X Call, R)
    BY <1>3, <1>4 DEF Surjection
  <2> QED BY <1>2, <2>1, FS_Surjection
<1> QED BY <1>5

LEMMA RowsFinite ==
    ASSUME StoreInv
    PROVE  /\ \A s \in Shard : IsFiniteSet(rows[s])
           /\ \A s \in Shard, c \in Call :
                 IsFiniteSet(RowsOf(c, s)) /\ Cardinality(RowsOf(c, s)) \in Nat
           /\ IsFiniteSet(StoredRows)
<1> DEFINE R == [key : Key, call : Call]
<1>5. IsFiniteSet(R)
  BY RowSpace
<1>6. \A s \in Shard : rows[s] \subseteq R
  BY DEF StoreInv, StoreShape
<1>7. StoredRows \subseteq R
  BY <1>6 DEF StoredRows
<1> QED BY <1>5, <1>6, <1>7, FS_Subset, FS_CardinalityType DEF RowsOf

(* A step elsewhere leaves a shard as it is. *)
LEMMA ElsewhereKeeps ==
    ASSUME NEW t \in Shard, ShardInv(t), broken \subseteq broken', UNCHANGED bundle,
           pipe'[t] = pipe[t], half'[t] = half[t], keys'[t] = keys[t], rows'[t] = rows[t],
           holder'[t] = holder[t], \A c \in Call : part'[c][t] = part[c][t] /\ got'[c][t] = got[c][t]
    PROVE  ShardInv(t)'
<1>1. \A k : Kept(t, k) => Kept(t, k)'
  BY DEF Kept
<1>2. \A c : RowsOf(c, t)' = RowsOf(c, t)
  BY DEF RowsOf
<1>3. InWork(t)' /\ Threads(t)' /\ Remembered(t)'
  BY <1>1 DEF ShardInv, InWork, Threads, Remembered, Share
<1>4. Stored(t)'
  BY <1>1 DEF ShardInv, Stored, Share
<1>5. Earned(t)'
  BY <1>2 DEF ShardInv, Earned
<1> QED BY <1>3, <1>4, <1>5 DEF ShardInv

(* The answer of a worker goes to the call it worked for. *)
LEMMA DeliverKeeps ==
    ASSUME StoreInv, CallShape, NEW s \in Shard, ShardInv(s), pipe[s] # <<>>,
           NEW result \in {"ok", "error"}, Deliver(s, result),
           result = "ok" => Head(pipe[s]).left = {},
           UNCHANGED rows, broken \subseteq broken', Remembered(s)'
    PROVE  /\ ShardInv(s)'
           /\ holder' \in [Shard -> Call \cup {0}]
           /\ part' \in [Call -> [Shard -> {"none", "wait", "sent", "ok", "error"}]]
           /\ got' \in [Call -> [Shard -> Nat]]
           /\ UNCHANGED <<bundle, totals, credit>>
           /\ \A t \in Shard \ {s} :
                 /\ pipe'[t] = pipe[t] /\ holder'[t] = holder[t]
                 /\ \A c \in Call : part'[c][t] = part[c][t] /\ got'[c][t] = got[c][t]
<1> DEFINE c == holder[s]
<1>1. c \in Call /\ Len(pipe[s]) = 1 /\ c # 0 /\ 0 \notin Call
  BY CallAssumption DEF ShardInv, InWork
<1>2. pipe[s] \in Seq(RequestOf(s)) /\ pipe = [t \in Shard |-> pipe[t]]
  BY DEF StoreInv, StoreShape
<1>3. Head(pipe[s]) \in RequestOf(s) /\ Tail(pipe[s]) = <<>>
  BY <1>1, <1>2, OneRequest
<1>4. Head(pipe[s]).added \in Nat
  BY <1>3 DEF RequestOf
<1>5. /\ pipe' = [pipe EXCEPT ![s] = Tail(pipe[s])]
      /\ part' = [part EXCEPT ![c][s] = result]
      /\ got' = [got EXCEPT ![c][s] = IF result = "ok" THEN Head(pipe[s]).added ELSE got[c][s]]
      /\ holder' = [holder EXCEPT ![s] = 0]
      /\ UNCHANGED <<bundle, totals, credit>>
  BY DEF Deliver
<1>6. /\ holder' \in [Shard -> Call \cup {0}]
      /\ part' \in [Call -> [Shard -> {"none", "wait", "sent", "ok", "error"}]]
      /\ got' \in [Call -> [Shard -> Nat]]
  BY <1>1, <1>4, <1>5 DEF CallShape
<1>7. \A t \in Shard \ {s} :
         /\ pipe'[t] = pipe[t] /\ holder'[t] = holder[t]
         /\ \A d \in Call : part'[d][t] = part[d][t] /\ got'[d][t] = got[d][t]
  BY <1>1, <1>2, <1>5 DEF CallShape
<1>8. /\ holder'[s] = 0 /\ pipe'[s] = <<>>
      /\ part'[c][s] = result /\ (result = "ok" => got'[c][s] = Head(pipe[s]).added)
      /\ \A d \in Call \ {c} : part'[d][s] = part[d][s] /\ got'[d][s] = got[d][s]
  BY <1>1, <1>2, <1>3, <1>5 DEF CallShape
<1>9. \A k : Kept(s, k) => Kept(s, k)'
  BY DEF Kept
<1>10. \A d : RowsOf(d, s)' = RowsOf(d, s)
  BY DEF RowsOf
<1>11. InWork(s)' /\ Threads(s)'
  BY <1>1, <1>5, <1>8 DEF ShardInv, InWork, Threads, Share
<1>12. Stored(s)'
  BY <1>1, <1>5, <1>8, <1>9 DEF ShardInv, Stored, Share
<1>13. Earned(s)'
  BY <1>1, <1>8, <1>10 DEF ShardInv, Earned
<1> QED BY <1>5, <1>6, <1>7, <1>11, <1>12, <1>13 DEF ShardInv

(* What a worker that has done with a key has before it. *)
LEMMA DoneDoes ==
    ASSUME StoreInv, NEW s \in Shard, InWork(s), Busy(s), NEW k \in Key, NEW more \in {0, 1},
           pipe' = [pipe EXCEPT ![s] = Done(s, k, more)]
    PROVE  /\ holder[s] \in Call /\ Head(pipe[s]).call = holder[s] /\ Head(pipe[s]).added \in Nat
           /\ Len(pipe'[s]) = 1 /\ Head(pipe'[s]).call = holder[s]
           /\ Head(pipe'[s]).left = Head(pipe[s]).left \ {k}
           /\ Head(pipe'[s]).added = Head(pipe[s]).added + more
           /\ \A t \in Shard \ {s} : pipe'[t] = pipe[t]
<1> DEFINE m == Head(pipe[s])
           e == [call |-> m.call, left |-> m.left \ {k}, added |-> m.added + more]
<1>1. /\ holder[s] \in Call /\ Len(pipe[s]) = 1 /\ m.call = holder[s]
      /\ pipe[s] \in Seq(RequestOf(s)) /\ pipe = [t \in Shard |-> pipe[t]]
  BY DEF Busy, InWork, StoreInv, StoreShape
<1>2. m \in RequestOf(s)
  BY AtWork
<1>3. e \in RequestOf(s) /\ m.added \in Nat
  BY <1>2 DEF RequestOf
<1>4. pipe'[s] = [pipe[s] EXCEPT ![1] = e] /\ \A t \in Shard \ {s} : pipe'[t] = pipe[t]
  BY <1>1 DEF Done
<1> HIDE DEF e
<1>5. Len(pipe'[s]) = 1 /\ Head(pipe'[s]) = e
  BY <1>1, <1>3, <1>4, OneRequest
<1> QED BY <1>1, <1>3, <1>4, <1>5 DEF e

LEMMA CallsStay == ASSUME CallShape, UNCHANGED <<up, calls, broken, faults>> PROVE CallShape'
BY DEF CallShape, calls

LEMMA DedupedHolds ==
    ASSUME StoreInv, CallShape, \A t \in Shard : ShardInv(t), NEW s \in Shard, Deduped(s)
    PROVE  CallShape' /\ \A t \in Shard : ShardInv(t)'
<1> DEFINE k == NextKey(s)
<1>0. ShardInv(s)
  OBVIOUS
<1>1. /\ k \in Key /\ k \in keys[s] /\ half[s] = {} /\ Busy(s)
      /\ pipe' = [pipe EXCEPT ![s] = Done(s, k, 0)]
      /\ UNCHANGED <<index, rows, up, keys, half, broken, faults>>
      /\ UNCHANGED <<holder, bundle, part, got, totals, credit>>
  BY AtWork DEF Deduped, calls
<1> HIDE DEF k
<1>2. /\ holder[s] \in Call /\ Head(pipe[s]).added \in Nat
      /\ Len(pipe'[s]) = 1 /\ Head(pipe'[s]).call = holder[s]
      /\ Head(pipe'[s]).left = Head(pipe[s]).left \ {k}
      /\ Head(pipe'[s]).added = Head(pipe[s]).added
      /\ \A t \in Shard \ {s} : pipe'[t] = pipe[t]
  <2>1. /\ holder[s] \in Call /\ Head(pipe[s]).added \in Nat
        /\ Len(pipe'[s]) = 1 /\ Head(pipe'[s]).call = holder[s]
        /\ Head(pipe'[s]).left = Head(pipe[s]).left \ {k}
        /\ Head(pipe'[s]).added = Head(pipe[s]).added + 0
        /\ \A t \in Shard \ {s} : pipe'[t] = pipe[t]
    BY <1>0, <1>1, DoneDoes DEF ShardInv
  <2>2. \A n \in Nat : n + 0 = n
    OBVIOUS
  <2> QED BY <2>1, <2>2
<1>3. Kept(s, k) /\ \A j : Kept(s, j)' = Kept(s, j)
  BY <1>0, <1>1 DEF ShardInv, Remembered, Kept
<1>4. \A d : RowsOf(d, s)' = RowsOf(d, s)
  BY <1>1 DEF RowsOf
<1>5. InWork(s)' /\ Threads(s)' /\ Remembered(s)'
  BY <1>0, <1>1, <1>2, <1>3 DEF ShardInv, InWork, Threads, Remembered, Share
<1>6. Stored(s)'
  BY <1>0, <1>1, <1>2, <1>3 DEF ShardInv, Stored, Share
<1>7. Earned(s)'
  BY <1>0, <1>1, <1>2, <1>4 DEF ShardInv, Earned
<1>8. ASSUME NEW t \in Shard \ {s} PROVE ShardInv(t)'
  BY <1>1, <1>2, ElsewhereKeeps
<1> QED BY <1>1, <1>5, <1>6, <1>7, <1>8, CallsStay DEF ShardInv, calls

LEMMA IndexKeyHolds ==
    ASSUME StoreInv, CallShape, \A t \in Shard : ShardInv(t), NEW s \in Shard, IndexKey(s)
    PROVE  CallShape' /\ \A t \in Shard : ShardInv(t)'
<1> DEFINE k == NextKey(s)
<1>0. ShardInv(s)
  OBVIOUS
<1>1. /\ half[s] = {}
      /\ keys' = [keys EXCEPT ![s] = @ \cup {k}] /\ half' = [half EXCEPT ![s] = {k}]
      /\ UNCHANGED <<rows, up, pipe, broken, faults>>
      /\ UNCHANGED <<holder, bundle, part, got, totals, credit>>
  BY DEF IndexKey, calls
<1> HIDE DEF k
<1>2. /\ keys'[s] = keys[s] \cup {k} /\ half'[s] = {k}
      /\ \A t \in Shard \ {s} : keys'[t] = keys[t] /\ half'[t] = half[t]
  BY <1>1 DEF StoreInv, StoreShape
<1>3. \A j : Kept(s, j)' = Kept(s, j)
  BY <1>1 DEF Kept
<1>4. \A d : RowsOf(d, s)' = RowsOf(d, s)
  BY <1>1 DEF RowsOf
<1>5. InWork(s)' /\ Threads(s)' /\ Remembered(s)'
  BY <1>0, <1>1, <1>2, <1>3 DEF ShardInv, InWork, Threads, Remembered, Share
<1>6. Stored(s)'
  BY <1>0, <1>1, <1>3 DEF ShardInv, Stored, Share
<1>7. Earned(s)'
  BY <1>0, <1>1, <1>4 DEF ShardInv, Earned
<1>8. ASSUME NEW t \in Shard \ {s} PROVE ShardInv(t)'
  BY <1>1, <1>2, ElsewhereKeeps
<1> QED BY <1>1, <1>5, <1>6, <1>7, <1>8, CallsStay DEF ShardInv, calls

LEMMA WriteRowHolds ==
    ASSUME StoreInv, CallShape, \A t \in Shard : ShardInv(t), NEW s \in Shard, WriteRow(s)
    PROVE  /\ CallShape' /\ \A t \in Shard : ShardInv(t)'
           /\ \A t \in Shard : rows[t] \subseteq rows'[t]
<1>0. ShardInv(s) /\ StoreInv'
  BY WriteRowKeeps
<1>1. /\ Busy(s) /\ half' = [half EXCEPT ![s] = {}]
      /\ UNCHANGED <<index, up, keys, broken, faults>>
      /\ UNCHANGED <<holder, bundle, part, got, totals, credit>>
  BY DEF WriteRow, calls
<1>2. PICK k \in half[s] :
        /\ rows' = [rows EXCEPT ![s] = @ \cup {[key |-> k, call |-> Head(pipe[s]).call]}]
        /\ pipe' = [pipe EXCEPT ![s] = Done(s, k, 1)]
  BY DEF WriteRow
<1>3. k \in Key
  BY DEF StoreInv, StoreShape
<1>4. /\ holder[s] \in Call /\ Head(pipe[s]).call = holder[s] /\ Head(pipe[s]).added \in Nat
      /\ Len(pipe'[s]) = 1 /\ Head(pipe'[s]).call = holder[s]
      /\ Head(pipe'[s]).left = Head(pipe[s]).left \ {k}
      /\ Head(pipe'[s]).added = Head(pipe[s]).added + 1
      /\ \A t \in Shard \ {s} : pipe'[t] = pipe[t]
  BY <1>0, <1>1, <1>2, <1>3, DoneDoes DEF ShardInv
<1> DEFINE r == [key |-> k, call |-> holder[s]]
<1>5. /\ rows'[s] = rows[s] \cup {r} /\ half'[s] = {}
      /\ \A t \in Shard \ {s} : rows'[t] = rows[t] /\ half'[t] = half[t]
  BY <1>1, <1>2, <1>4 DEF StoreInv, StoreShape
<1>6. r.key = k /\ r.call = holder[s] /\ r \notin rows[s]
  BY <1>2 DEF StoreInv, RowsOnce
<1> HIDE DEF r
<1>7. Kept(s, k)' /\ \A j : Kept(s, j) => Kept(s, j)'
  BY <1>1, <1>5, <1>6 DEF Kept
<1> DEFINE R(c) == {q \in rows'[s] : q.call = c}
<1>8. ASSUME NEW c \in Call
      PROVE  /\ RowsOf(c, s)' = R(c) /\ Cardinality(RowsOf(c, s)) \in Nat
             /\ c # holder[s] => R(c) = RowsOf(c, s)
             /\ c = holder[s] => Cardinality(R(c)) = Cardinality(RowsOf(c, s)) + 1
  <2>1. RowsOf(c, s)' = R(c) /\ (c # holder[s] => R(c) = RowsOf(c, s))
    BY <1>5, <1>6 DEF RowsOf
  <2>2. IsFiniteSet(RowsOf(c, s)) /\ Cardinality(RowsOf(c, s)) \in Nat
    BY RowsFinite
  <2>3. ASSUME c = holder[s] PROVE Cardinality(R(c)) = Cardinality(RowsOf(c, s)) + 1
    <3>1. R(c) = RowsOf(c, s) \cup {r} /\ r \notin RowsOf(c, s)
      BY <1>5, <1>6, <2>3 DEF RowsOf
    <3> QED BY <2>2, <3>1, FS_AddElement
  <2> QED BY <2>1, <2>2, <2>3
<1> HIDE DEF R
<1>10. InWork(s)' /\ Threads(s)'
  BY <1>0, <1>1, <1>4 DEF ShardInv, InWork, Threads, Share
<1>11. Remembered(s)'
  BY <1>0, <1>1, <1>2, <1>5, <1>7 DEF ShardInv, Remembered
<1>12. Stored(s)'
  BY <1>0, <1>1, <1>4, <1>7 DEF ShardInv, Stored, Share
<1>13. Earned(s)'
  <2>1. ASSUME NEW c \in Call, part[c][s] = "ok" PROVE got[c][s] <= Cardinality(R(c))
    <3>1. got[c][s] <= Cardinality(RowsOf(c, s)) /\ got[c][s] \in Nat
      BY <1>0, <2>1 DEF ShardInv, Earned, CallShape
    <3> QED BY <1>8, <3>1
  <2>2. PICK c \in Call : c = holder[s]
    BY <1>4
  <2>3. Head(pipe[s]).added <= Cardinality(RowsOf(c, s))
    BY <1>0, <2>2, CallAssumption DEF ShardInv, Earned
  <2>4. Head(pipe'[s]).added <= Cardinality(R(c))
    BY <1>4, <1>8, <2>2, <2>3
  <2>5. \A d \in Call : RowsOf(d, s)' = R(d)
    BY <1>8
  <2>6. RowsOf(holder[s], s)' = R(c)
    BY <1>1, <2>2 DEF RowsOf, R
  <2> QED BY <1>1, <2>1, <2>4, <2>5, <2>6 DEF Earned
<1>14. ASSUME NEW t \in Shard \ {s} PROVE ShardInv(t)'
  BY <1>1, <1>4, <1>5, ElsewhereKeeps
<1>15. \A t \in Shard : rows[t] \subseteq rows'[t]
  BY <1>5
<1> QED BY <1>1, <1>10, <1>11, <1>12, <1>13, <1>14, <1>15, CallsStay DEF ShardInv, calls

(* The steps that end a worker's request. *)
LEMMA EndsHold ==
    ASSUME StoreInv, CallShape, \A t \in Shard : ShardInv(t), NEW s \in Shard, pipe[s] # <<>>,
           NEW result \in {"ok", "error"}, Deliver(s, result),
           result = "ok" => Head(pipe[s]).left = {},
           UNCHANGED rows, broken \subseteq broken', broken' \subseteq Key,
           up' \in [Shard -> BOOLEAN], faults' \in 0..MaxFaults, Remembered(s)',
           \A t \in Shard \ {s} : keys'[t] = keys[t] /\ half'[t] = half[t]
    PROVE  CallShape' /\ \A t \in Shard : ShardInv(t)'
<1>1. /\ ShardInv(s)'
      /\ holder' \in [Shard -> Call \cup {0}]
      /\ part' \in [Call -> [Shard -> {"none", "wait", "sent", "ok", "error"}]]
      /\ got' \in [Call -> [Shard -> Nat]]
      /\ UNCHANGED <<bundle, totals, credit>>
      /\ \A t \in Shard \ {s} :
            /\ pipe'[t] = pipe[t] /\ holder'[t] = holder[t]
            /\ \A c \in Call : part'[c][t] = part[c][t] /\ got'[c][t] = got[c][t]
  BY DeliverKeeps
<1>2. ASSUME NEW t \in Shard \ {s} PROVE ShardInv(t)'
  BY <1>1, ElsewhereKeeps
<1>3. CallShape'
  BY <1>1 DEF CallShape
<1> QED BY <1>1, <1>2, <1>3

LEMMA ReplyHolds ==
    ASSUME StoreInv, CallShape, \A t \in Shard : ShardInv(t), NEW s \in Shard, Reply(s)
    PROVE  CallShape' /\ \A t \in Shard : ShardInv(t)'
<1>1. /\ pipe[s] # <<>> /\ Head(pipe[s]).left = {} /\ Deliver(s, "ok")
      /\ UNCHANGED <<index, rows, up, keys, half, broken, faults>>
  BY DEF Reply, Busy
<1>2. Remembered(s)'
  BY <1>1 DEF ShardInv, Remembered, Kept
<1>3. /\ broken \subseteq broken' /\ broken' \subseteq Key /\ up' \in [Shard -> BOOLEAN]
      /\ faults' \in 0..MaxFaults
  BY <1>1 DEF CallShape
<1> QED BY <1>1, <1>2, <1>3, EndsHold

(* A fault of the model: one more, and there was room for it. *)
LEMMA OneMoreFault ==
    ASSUME CallShape, faults < MaxFaults, faults' = faults + 1
    PROVE  faults' \in 0..MaxFaults
BY CallAssumption DEF CallShape

LEMMA WriteFailsHolds ==
    ASSUME StoreInv, CallShape, \A t \in Shard : ShardInv(t), NEW s \in Shard, WriteFails(s)
    PROVE  CallShape' /\ \A t \in Shard : ShardInv(t)'
<1> DEFINE k == NextKey(s)
<1>0. ShardInv(s) /\ half \in [Shard -> SUBSET Key] /\ keys \in [Shard -> SUBSET Key]
  BY DEF StoreInv, StoreShape
<1>1. /\ Busy(s) /\ Deliver(s, "error") /\ UNCHANGED <<index, rows, up>>
      /\ half' = [half EXCEPT ![s] = {}]
      /\ faults < MaxFaults /\ faults' = faults + 1
      /\ \/ /\ half[s] = {} /\ k \in Key
            /\ keys' = [keys EXCEPT ![s] = @ \cup {k}] /\ broken' = broken \cup {k}
         \/ broken' = broken \cup half[s] /\ UNCHANGED keys
  BY AtWork DEF WriteFails
<1> HIDE DEF k
<1>2. /\ broken \subseteq broken' /\ broken' \subseteq Key /\ half'[s] = {}
      /\ \A j \in keys'[s] : j \in broken' \/ (j \in keys[s] /\ j \notin half[s])
      /\ \A t \in Shard \ {s} : keys'[t] = keys[t] /\ half'[t] = half[t]
  BY <1>0, <1>1 DEF CallShape
<1>3. Remembered(s)'
  BY <1>0, <1>1, <1>2 DEF ShardInv, Remembered, Kept
<1>4. up' \in [Shard -> BOOLEAN] /\ faults' \in 0..MaxFaults /\ pipe[s] # <<>>
  BY <1>1, OneMoreFault DEF CallShape, Busy
<1> QED BY <1>1, <1>2, <1>3, <1>4, EndsHold

LEMMA KillHolds ==
    ASSUME StoreInv, CallShape, \A t \in Shard : ShardInv(t), NEW s \in Shard, Kill(s)
    PROVE  CallShape' /\ \A t \in Shard : ShardInv(t)'
<1>0. ShardInv(s) /\ half \in [Shard -> SUBSET Key]
  BY DEF StoreInv, StoreShape
<1>1. /\ UNCHANGED <<index, rows, keys>> /\ up' = [up EXCEPT ![s] = FALSE]
      /\ half' = [half EXCEPT ![s] = {}] /\ broken' = broken \cup half[s]
      /\ faults < MaxFaults /\ faults' = faults + 1
      /\ pipe[s] # <<>> => Deliver(s, "error")
      /\ pipe[s] = <<>> => UNCHANGED <<pipe, calls>>
  BY DEF Kill
<1>2. /\ broken \subseteq broken' /\ broken' \subseteq Key /\ half'[s] = {}
      /\ \A t \in Shard \ {s} : keys'[t] = keys[t] /\ half'[t] = half[t]
  BY <1>0, <1>1 DEF CallShape
<1>3. Remembered(s)'
  BY <1>0, <1>1, <1>2 DEF ShardInv, Remembered, Kept
<1>4. up' \in [Shard -> BOOLEAN] /\ faults' \in 0..MaxFaults
  BY <1>1, OneMoreFault DEF CallShape
<1>5. CASE pipe[s] # <<>>
  BY <1>1, <1>2, <1>3, <1>4, <1>5, EndsHold
<1>6. CASE pipe[s] = <<>>
  <2>1. UNCHANGED <<pipe, holder, bundle, part, got, totals, credit>>
    BY <1>1, <1>6 DEF calls
  <2>2. \A k : Kept(s, k) => Kept(s, k)'
    BY <1>1, <1>2 DEF Kept
  <2>3. \A d : RowsOf(d, s)' = RowsOf(d, s)
    BY <1>1 DEF RowsOf
  <2>4. InWork(s)' /\ Threads(s)'
    BY <1>0, <2>1 DEF ShardInv, InWork, Threads, Share
  <2>5. Stored(s)' /\ Earned(s)'
    BY <1>0, <2>1, <2>2, <2>3 DEF ShardInv, Stored, Earned, Share
  <2>6. ASSUME NEW t \in Shard \ {s} PROVE ShardInv(t)'
    BY <1>1, <1>2, <2>1, ElsewhereKeeps
  <2>7. CallShape'
    BY <1>2, <1>4, <2>1 DEF CallShape
  <2> QED BY <1>3, <2>4, <2>5, <2>6, <2>7 DEF ShardInv
<1> QED BY <1>5, <1>6

LEMMA SendShareHolds ==
    ASSUME StoreInv, CallShape, \A t \in Shard : ShardInv(t), NEW c \in Call, NEW s \in Shard,
           SendShare(c, s)
    PROVE  CallShape' /\ \A t \in Shard : ShardInv(t)'
<1> DEFINE e == [call |-> c, left |-> Share(c, bundle[c], s), added |-> 0]
<1>0. ShardInv(s)
  OBVIOUS
<1>1. /\ part[c][s] = "wait" /\ holder[s] = 0 /\ c # 0
      /\ holder' = [holder EXCEPT ![s] = c] /\ part' = [part EXCEPT ![c][s] = "sent"]
      /\ pipe' = [pipe EXCEPT ![s] = Append(pipe[s], e)]
      /\ UNCHANGED <<index, rows, up, keys, half, bundle, got, totals, credit, broken, faults>>
  BY CallAssumption DEF SendShare
<1>2. e \in RequestOf(s) /\ e.call = c /\ e.left = Share(c, bundle[c], s) /\ e.added = 0
  BY DEF RequestOf, Share, StoreInv, StoreShape
<1> HIDE DEF e
<1>3. pipe[s] = <<>> /\ pipe[s] \in Seq(RequestOf(s)) /\ pipe = [t \in Shard |-> pipe[t]]
  BY <1>0, <1>1, CallAssumption DEF ShardInv, InWork, StoreInv, StoreShape
<1>4. /\ Len(pipe'[s]) = 1 /\ Head(pipe'[s]) = e /\ holder'[s] = c /\ part'[c][s] = "sent"
      /\ \A d \in Call \ {c} : part'[d][s] = part[d][s]
      /\ \A t \in Shard \ {s} : /\ pipe'[t] = pipe[t] /\ holder'[t] = holder[t]
                                /\ \A d \in Call : part'[d][t] = part[d][t]
  <2>1. pipe'[s] = Append(pipe[s], e) /\ \A t \in Shard \ {s} : pipe'[t] = pipe[t]
    BY <1>1, <1>3
  <2>2. Len(pipe'[s]) = 1 /\ Head(pipe'[s]) = e
    BY <1>2, <1>3, <2>1, OneRequest
  <2> QED BY <1>1, <2>1, <2>2 DEF CallShape
<1>5. CallShape'
  BY <1>1 DEF CallShape
<1>6. InWork(s)' /\ Threads(s)' /\ Remembered(s)'
  BY <1>0, <1>1, <1>2, <1>4, CallAssumption DEF ShardInv, InWork, Threads, Remembered, Share, Kept
<1>7. Stored(s)'
  BY <1>0, <1>1, <1>2, <1>4 DEF ShardInv, Stored, Share, Kept
<1>8. Earned(s)'
  <2>1. /\ \A d : RowsOf(d, s)' = RowsOf(d, s)
        /\ \A d \in Call : Cardinality(RowsOf(d, s)) \in Nat
    BY <1>1, RowsFinite DEF RowsOf
  <2>2. \A d \in Call : RowsOf(d, s)' = {q \in rows'[s] : q.call = d}
    BY DEF RowsOf
  <2>3. RowsOf(holder[s], s)' = {q \in rows'[s] : q.call = c}
    BY <1>4 DEF RowsOf
  <2>4. 0 <= Cardinality(RowsOf(c, s))
    BY <2>1
  <2>5. RowsOf(holder[s], s)' = RowsOf(c, s)
    BY <1>1, <2>3 DEF RowsOf
  <2>6. Head(pipe'[s]).added <= Cardinality(RowsOf(holder[s], s)')
    BY <1>2, <1>4, <2>4, <2>5
  <2> QED BY <1>0, <1>1, <1>4, <2>1, <2>6 DEF ShardInv, Earned
<1>9. ASSUME NEW t \in Shard \ {s} PROVE ShardInv(t)'
  BY <1>1, <1>4, ElsewhereKeeps
<1> QED BY <1>5, <1>6, <1>7, <1>8, <1>9 DEF ShardInv

LEMMA SendShareFailsHolds ==
    ASSUME StoreInv, CallShape, \A t \in Shard : ShardInv(t), NEW c \in Call, NEW s \in Shard,
           SendShareFails(c, s)
    PROVE  CallShape' /\ \A t \in Shard : ShardInv(t)'
<1>1. /\ part[c][s] = "wait" /\ holder[s] = 0 /\ part' = [part EXCEPT ![c][s] = "error"]
      /\ UNCHANGED <<index, rows, up, keys, pipe, half>>
      /\ UNCHANGED <<holder, bundle, got, totals, credit, broken, faults>>
  BY DEF SendShareFails, shards
<1>2. /\ part'[c][s] = "error" /\ \A d \in Call \ {c} : part'[d][s] = part[d][s]
      /\ \A t \in Shard \ {s} : \A d \in Call : part'[d][t] = part[d][t]
      /\ CallShape'
  BY <1>1 DEF CallShape
<1>3. ShardInv(s)'
  <2>0. ShardInv(s) /\ 0 \notin Call
    BY CallAssumption
  <2>1. \A k : Kept(s, k)' = Kept(s, k)
    BY <1>1 DEF Kept
  <2>2. \A d : RowsOf(d, s)' = RowsOf(d, s)
    BY <1>1 DEF RowsOf
  <2>3. InWork(s)' /\ Remembered(s)'
    BY <1>1, <2>0, <2>1 DEF ShardInv, InWork, Remembered
  <2>4. Threads(s)'
    BY <1>1, <1>2, <2>0 DEF ShardInv, Threads, Share
  <2>5. Stored(s)'
    BY <1>1, <1>2, <2>0, <2>1 DEF ShardInv, Stored, Share
  <2>6. Earned(s)'
    BY <1>1, <1>2, <2>0, <2>2 DEF ShardInv, Earned
  <2> QED BY <2>3, <2>4, <2>5, <2>6 DEF ShardInv
<1>4. ASSUME NEW t \in Shard \ {s} PROVE ShardInv(t)'
  BY <1>1, <1>2, ElsewhereKeeps
<1> QED BY <1>2, <1>3, <1>4
-----------------------------------------------------------------------------
(* The steps of the calls: fan out, return, and the restart.               *)

CallRows(c) == {r \in StoredRows : r.call = c}

(* What the shards say they added for a call are rows of that call.        *)
LEMMA AddedBelow ==
    ASSUME StoreInv, CallShape, \A t \in Shard : ShardInv(t), NEW c \in Call
    PROVE  Added(c) \in Nat /\ Added(c) <= Cardinality(CallRows(c))
<1> DEFINE S == {s \in Shard : part[c][s] = "ok"}
           w == got[c]
           B == [s \in S |-> RowsOf(c, s)]
           f == CHOOSE i : i = [s \in SUBSET S |->
                   IF s = {} THEN 0
                   ELSE w[CHOOSE x \in s : TRUE] + i[s \ {CHOOSE x \in s : TRUE}]]
<1>1. Added(c) = f[S]
  BY DEF Added, Sets!MapThenSumSet, Sets!MapThenFoldSet
<1>2. IsFiniteSet(S)
  BY RouteAssumption, FS_Subset
<1>3. \A s \in S : IsFiniteSet(B[s]) /\ w[s] \in Nat /\ w[s] <= Cardinality(B[s])
  BY RowsFinite DEF CallShape, ShardInv, Earned
<1>4. \A s, t \in S : s # t => B[s] \cap B[t] = {}
  <2> SUFFICES ASSUME NEW s \in S, NEW t \in S, s # t, NEW r \in B[s], r \in B[t] PROVE FALSE
    OBVIOUS
  <2>1. r \in rows[s] /\ r \in rows[t]
    BY DEF RowsOf
  <2> QED BY <2>1 DEF StoreInv, Indexed, RowsOnce
<1>5. IsFiniteSet(CallRows(c)) /\ \A s \in S : B[s] \subseteq CallRows(c)
  <2>1. IsFiniteSet(CallRows(c))
    BY RowsFinite, FS_Subset DEF CallRows
  <2> QED BY <2>1 DEF RowsOf, CallRows, StoredRows
<1>6. \A s \in S : w[s] \in Nat /\ w[s] <= Cardinality(B[s])
  BY <1>3
<1> HIDE DEF S, B, w
<1>7. Sums(SUBSET S, w, f)
  <2>1. PICK g : Sums(SUBSET S, w, g)
    BY <1>2, SumExists
  <2> QED BY <2>1 DEF Sums, Pick
<1> HIDE DEF f
<1>8. f[S] \in Nat /\ f[S] <= Cardinality(CallRows(c))
  BY <1>2, <1>4, <1>5, <1>6, <1>7, SumBelow
<1> QED BY <1>1, <1>8

LEMMA FanOutHolds ==
    ASSUME StoreInv, CallShape, \A t \in Shard : ShardInv(t), NEW c \in Call,
           NEW ks \in SUBSET Key, FanOut(c, ks)
    PROVE  CallShape' /\ \A t \in Shard : ShardInv(t)'
<1>1. /\ bundle[c] = {} /\ ks # {} /\ bundle' = [bundle EXCEPT ![c] = ks]
      /\ part' = [part EXCEPT ![c] =
                     [s \in Shard |-> IF Share(c, ks, s) = {} THEN "none" ELSE "wait"]]
      /\ UNCHANGED <<index, rows, up, keys, pipe, half>>
      /\ UNCHANGED <<holder, got, totals, credit, broken, faults>>
  BY DEF FanOut, shards
<1>2. CallShape'
  BY <1>1 DEF CallShape
<1>3. ASSUME NEW t \in Shard PROVE ShardInv(t)'
  <2>1. part[c][t] = "none" /\ holder[t] # c
    BY <1>1 DEF ShardInv, Threads
  <2>2. /\ bundle'[c] = ks /\ \A d \in Call \ {c} : bundle'[d] = bundle[d] /\ part'[d][t] = part[d][t]
        /\ part'[c][t] = IF Share(c, ks, t) = {} THEN "none" ELSE "wait"
    BY <1>1 DEF StoreInv, StoreShape, CallShape
  <2>3. \A k : Kept(t, k)' = Kept(t, k)
    BY <1>1 DEF Kept
  <2>4. \A d : RowsOf(d, t)' = RowsOf(d, t)
    BY <1>1 DEF RowsOf
  <2>5. InWork(t)' /\ Remembered(t)'
    BY <1>1, <2>3 DEF ShardInv, InWork, Remembered
  <2>6. Threads(t)'
    BY <1>1, <2>1, <2>2 DEF ShardInv, Threads, Share
  <2>7. Stored(t)'
    <3>1. \A d \in Call : part'[d][t] = "ok" => \A k \in Share(d, bundle'[d], t) : Kept(t, k)'
      BY <2>2, <2>3 DEF ShardInv, Stored, Share
    <3>2. holder[t] # 0 => holder[t] \in Call \ {c}
      BY <2>1 DEF CallShape
    <3>3. holder'[t] # 0 => \A k \in Share(holder'[t], bundle'[holder'[t]], t) \ Head(pipe'[t]).left : Kept(t, k)'
      BY <1>1, <2>2, <2>3, <3>2 DEF ShardInv, Stored, Share
    <3> QED BY <3>1, <3>3 DEF Stored, Share
  <2>8. Earned(t)'
    BY <1>1, <2>2, <2>4 DEF ShardInv, Earned
  <2> QED BY <2>5, <2>6, <2>7, <2>8 DEF ShardInv
<1> QED BY <1>2, <1>3

LEMMA ReturnHolds ==
    ASSUME StoreInv, CallShape, \A t \in Shard : ShardInv(t), NEW c \in Call, Return(c)
    PROVE  CallShape' /\ \A t \in Shard : ShardInv(t)'
<1>1. /\ UNCHANGED <<index, rows, up, keys, pipe, half>>
      /\ UNCHANGED <<holder, bundle, part, got, broken, faults>>
      /\ \/ totals' = totals + Added(c) /\ credit' = [credit EXCEPT ![c] = Added(c)]
         \/ UNCHANGED <<totals, credit>>
  BY DEF Return, shards
<1>2. Added(c) \in Nat
  BY AddedBelow
<1>3. CallShape'
  BY <1>1, <1>2 DEF CallShape
<1>4. ASSUME NEW t \in Shard PROVE ShardInv(t)'
  BY <1>1, ElsewhereKeeps
<1> QED BY <1>3, <1>4

LEMMA RestartStoreHolds ==
    ASSUME StoreInv, CallShape, \A t \in Shard : ShardInv(t), RestartStore
    PROVE  CallShape' /\ \A t \in Shard : ShardInv(t)'
<1>1. /\ UNCHANGED <<index, rows, bundle, got, credit, faults>> /\ keys' = index
      /\ \A t \in Shard : up'[t] = TRUE /\ pipe'[t] = <<>> /\ half'[t] = {} /\ holder'[t] = 0
      /\ \A c \in Call, t \in Shard :
            part'[c][t] = IF part[c][t] \in {"wait", "sent"} THEN "error" ELSE part[c][t]
      /\ totals' = 0 /\ broken' = broken \cup UNION {half[t] : t \in Shard}
  BY DEF RestartStore, Outstanding
<1>2. CallShape'
  <2>1. broken' \subseteq Key
    BY <1>1 DEF CallShape, StoreInv, StoreShape
  <2>2. part' \in [Call -> [Shard -> {"none", "wait", "sent", "ok", "error"}]]
    BY DEF RestartStore, CallShape
  <2>3. up' \in [Shard -> BOOLEAN] /\ holder' \in [Shard -> Call \cup {0}]
    BY DEF RestartStore
  <2> QED BY <1>1, <2>1, <2>2, <2>3 DEF CallShape
<1>3. ASSUME NEW t \in Shard PROVE ShardInv(t)'
  <2>0. ShardInv(t) /\ 0 \notin Call
    BY CallAssumption
  <2>1. \A k : Kept(t, k) => Kept(t, k)'
    BY <1>1 DEF Kept
  <2>2. \A d : RowsOf(d, t)' = RowsOf(d, t)
    BY <1>1 DEF RowsOf
  <2>3. InWork(t)'
    BY <1>1 DEF InWork
  <2>4. Threads(t)'
    BY <1>1, <2>0 DEF ShardInv, Threads, Share, CallShape
  <2>5. Remembered(t)'
    <3>1. ASSUME NEW k \in index[t] PROVE Kept(t, k)'
      <4>1. k \in half[t] \/ Kept(t, k)
        BY <2>0 DEF StoreInv, Indexed, ShardInv, Remembered
      <4> QED BY <1>1, <2>1, <4>1 DEF Kept
    <3> QED BY <1>1, <3>1 DEF Remembered
  <2>6. Stored(t)'
    BY <1>1, <2>0, <2>1 DEF ShardInv, Stored, Share
  <2>7. Earned(t)'
    BY <1>1, <2>0, <2>2 DEF ShardInv, Earned
  <2> QED BY <2>3, <2>4, <2>5, <2>6, <2>7 DEF ShardInv
<1> QED BY <1>2, <1>3
-----------------------------------------------------------------------------
(* Batches and calls.  The call of a batch starts when its handler is at   *)
(* the merge and takes what the handler's work holds; by then the batch is *)
(* out of flight for good, so it starts once.                              *)

CallsStarted == \A c \in Call : bundle[c] # {} => c \in Claimed \ DOMAIN inflight

CallsOfWork ==
    \A p \in Peer :
        /\ h[p].pc \in {"outcome", "mint", "assess"} => bundle[h[p].batch] = {}
        /\ At(p, "merge") /\ bundle[h[p].batch] # {} =>
              h[p].answer = "good" /\ bundle[h[p].batch] = KeysOf(h[p].work)

(* Calls that have been left: each was counted once at most. *)
Returned == {c \in Call : bundle[c] # {} /\ \A p \in Peer : ~(At(p, "merge") /\ h[p].batch = c)}
ReturnedRows == {r \in StoredRows : r.call \in Returned}

Counted ==
    /\ \A c \in Call : credit[c] <= Cardinality(CallRows(c))
    /\ totals <= Cardinality(ReturnedRows)

ContribInv ==
    /\ TypeInv /\ PlaceInv /\ RoomLeft
    /\ StoreInv /\ CallShape /\ \A s \in Shard : ShardInv(s)
    /\ CallsStarted /\ CallsOfWork /\ Counted /\ MergedIsStored

(* Handlers but for the merge, and what goes on around them. *)
Moves(q) ==
    \/ h'[q] = h[q]
    \/ h'[q].pc \notin {"outcome", "mint", "assess", "merge"} /\ h[q].pc # "merge"
    \/ h'[q].pc = "outcome" /\ h'[q].batch \in DOMAIN inflight /\ h[q].pc # "merge"
    \/ /\ h'[q].batch = h[q].batch /\ h[q].pc \in {"outcome", "mint", "assess"}
       /\ h'[q].pc \in {"mint", "assess", "merge"}

TableLater == Claimed \subseteq Claimed' /\ DOMAIN inflight' \cap Claimed \subseteq DOMAIN inflight

LEMMA GotoMoves ==
    ASSUME h \in [Peer -> Request], NEW p \in Peer, NEW x \in HandlerPC, Goto(p, x),
           \/ x \notin {"outcome", "mint", "assess", "merge"} /\ h[p].pc # "merge"
           \/ h[p].pc \in {"outcome", "mint", "assess"} /\ x \in {"mint", "assess", "merge"}
    PROVE  \A q \in Peer : Moves(q)
<1>1. /\ h'[p].pc = x /\ h'[p].batch = h[p].batch
      /\ \A q \in Peer : q # p => h'[q] = h[q]
  BY GotoTypes
<1>2. Moves(p)
  BY <1>1 DEF Moves
<1>3. ASSUME NEW q \in Peer, q # p PROVE Moves(q)
  BY <1>1, <1>3 DEF Moves
<1> QED BY <1>2, <1>3

LEMMA AnsweredMoves ==
    ASSUME h \in [Peer -> Request], NEW p \in Peer, Answered(p), h[p].pc # "merge"
    PROVE  \A q \in Peer : Moves(q)
<1>1. h'[p].pc = "none" /\ \A q \in Peer : q # p => h'[q] = h[q]
  BY AnsweredTypes
<1> QED BY <1>1 DEF Moves

LEMMA HandlersMove ==
    ASSUME TypeInv, NEW p \in Peer, HandleAlone(p)
    PROVE  /\ \A q \in Peer : Moves(q)
           /\ TableLater /\ UNCHANGED merged
<1>0. h \in [Peer -> Request] /\ Cardinality(Claimed) + 1 \notin Claimed
  BY NextBatch DEF TypeInv
<1>1. UNCHANGED merged
  BY DEF HandleAlone, RegisterCheck, RegisterCommit, SeedSkip, SeedRead, SeedFill,
         ClaimReclaim, ClaimLimit, ClaimNothing, ClaimPop, BurnCheck, Burn, ClaimReply,
         SubmitUnknown, SubmitForeign, SubmitPop, Outcome, Mint, Assess, Count, files
<1>2. TableLater
  <2>1. CASE ClaimPop(p)
    <3> DEFINE b == Cardinality(Claimed) + 1
    <3>1. DOMAIN inflight' = DOMAIN inflight \cup {b} /\ Claimed' = Claimed \cup {b}
      BY <2>1 DEF ClaimPop, Claimed
    <3> HIDE DEF b
    <3>2. b \notin Claimed
      BY <1>0 DEF b
    <3> QED BY <3>1, <3>2 DEF TableLater
  <2>2. CASE ~ClaimPop(p)
    <3>1. UNCHANGED claimant
      BY <2>2 DEF HandleAlone, RegisterCheck, RegisterCommit, SeedSkip, SeedRead, SeedFill,
           ClaimReclaim, ClaimLimit, ClaimNothing, BurnCheck, Burn, ClaimReply,
           SubmitUnknown, SubmitForeign, SubmitPop, Outcome, Mint, Assess, Count, past
    <3>2. DOMAIN inflight' \subseteq DOMAIN inflight
      BY <2>2 DEF HandleAlone, RegisterCheck, RegisterCommit, SeedSkip, SeedRead, SeedFill,
           ClaimReclaim, Reclaim, ClaimLimit, ClaimNothing, BurnCheck, Burn, ClaimReply,
           SubmitUnknown, SubmitForeign, SubmitPop, Outcome, Mint, Assess, Count, pool
    <3> QED BY <3>1, <3>2 DEF TableLater, Claimed
  <2> QED BY <2>1, <2>2
<1>3. \A q \in Peer : Moves(q)
  <2>1. CASE ClaimPop(p)
    <3>1. h'[p].pc = "burn_check" /\ h[p].pc = "pop" /\ \A q \in Peer : q # p => h'[q] = h[q]
      BY <1>0, <2>1 DEF ClaimPop, Request, At
    <3> QED BY <3>1 DEF Moves
  <2>2. CASE SubmitPop(p)
    <3>1. /\ h'[p].pc = "outcome" /\ h'[p].batch \in DOMAIN inflight /\ h[p].pc = "sub_pop"
          /\ \A q \in Peer : q # p => h'[q] = h[q]
      BY <1>0, <2>2 DEF SubmitPop, Request, At
    <3> QED BY <3>1 DEF Moves
  <2>3. CASE Outcome(p) \/ Mint(p)
    <3>1. /\ h[p].pc \in {"outcome", "mint", "assess"}
          /\ \E x \in {"mint", "assess"} : Goto(p, x)
      BY <2>3 DEF Outcome, Mint, At
    <3>2. PICK x \in {"mint", "assess"} : Goto(p, x)
      BY <3>1
    <3> QED BY <1>0, <3>1, <3>2, GotoMoves DEF HandlerPC, SubmitPC
  <2>4. CASE Assess(p)
    <3>1. h[p].pc = "assess" /\ (Answered(p) \/ Goto(p, "merge"))
      BY <2>4 DEF Assess, SubmitAnswered, At
    <3> QED BY <1>0, <3>1, GotoMoves, AnsweredMoves DEF HandlerPC, SubmitPC
  <2>5. CASE ~ClaimPop(p) /\ ~SubmitPop(p) /\ ~Outcome(p) /\ ~Mint(p) /\ ~Assess(p)
    <3>1. /\ h[p].pc # "merge"
          /\ \/ Answered(p)
             \/ \E x \in HandlerPC \ {"outcome", "mint", "assess", "merge"} : Goto(p, x)
      BY <2>5 DEF HandleAlone, RegisterCheck, RegisterCommit, SeedSkip, SeedRead, SeedFill,
           EndSeed, AfterSeed, ClaimReclaim, ClaimLimit, ClaimNothing, BurnCheck, Burn,
           ClaimReply, SubmitUnknown, SubmitForeign, Count, SubmitAnswered, At,
           HandlerPC, SeedPC, ClaimPC, SubmitPC
    <3>2. CASE Answered(p)
      BY <1>0, <3>1, <3>2, AnsweredMoves
    <3>3. CASE \E x \in HandlerPC \ {"outcome", "mint", "assess", "merge"} : Goto(p, x)
      <4>1. PICK x \in HandlerPC \ {"outcome", "mint", "assess", "merge"} : Goto(p, x)
        BY <3>3
      <4> QED BY <1>0, <3>1, <4>1, GotoMoves
    <3> QED BY <3>1, <3>2, <3>3
  <2> QED BY <2>1, <2>2, <2>3, <2>4, <2>5
<1> QED BY <1>1, <1>2, <1>3

LEMMA AroundMoves ==
    ASSUME TypeInv, Around
    PROVE  /\ \A q \in Peer : Moves(q)
           /\ TableLater /\ UNCHANGED merged
<1>0. h \in [Peer -> Request]
  BY DEF TypeInv
<1>1. UNCHANGED <<merged, claimant>>
  BY DEF Around, Send, SendRegister, GiveUpJoining, SendClaim, SendSubmit, Start, Die,
         Release, Age, PoolStatus, past, files
<1>2. DOMAIN inflight' \subseteq DOMAIN inflight
  BY DEF Around, Send, SendRegister, GiveUpJoining, SendClaim, SendSubmit, Start, Die,
         Release, Age, PoolStatus, Reclaim, pool
<1>3. \A q \in Peer : h'[q] = h[q] \/ (/\ h[q].pc = "none"
                                        /\ h'[q].pc \in {"reg_check", "claim_seed", "sub_pop"})
  BY <1>0 DEF Around, Send, SendRegister, GiveUpJoining, SendClaim, SendSubmit, Start, Die,
              Release, Age, PoolStatus, Goto, Request, At
<1> QED BY <1>1, <1>2, <1>3 DEF Moves, TableLater, Claimed
-----------------------------------------------------------------------------
(* Rows and keys caught by faults only become more. *)

LEMMA MergedStays ==
    ASSUME MergedIsStored, UNCHANGED merged, broken \subseteq broken',
           \A s \in Shard : rows[s] \subseteq rows'[s]
    PROVE  MergedIsStored'
<1>1. StoredRows \subseteq StoredRows'
  BY DEF StoredRows
<1> QED BY <1>1 DEF MergedIsStored

LEMMA CountedStays ==
    ASSUME StoreInv, StoreInv', CallShape, Counted, UNCHANGED credit,
           \A s \in Shard : rows[s] \subseteq rows'[s],
           totals' = 0 \/ (UNCHANGED totals /\ Returned \subseteq Returned')
    PROVE  Counted'
<1>1. StoredRows \subseteq StoredRows' /\ IsFiniteSet(StoredRows')
  <2>1. StoredRows \subseteq StoredRows'
    BY DEF StoredRows
  <2>2. \A s \in Shard : rows'[s] \subseteq [key : Key, call : Call]
    BY DEF StoreInv, StoreShape
  <2>3. StoredRows' \subseteq [key : Key, call : Call]
    BY <2>2 DEF StoredRows
  <2> QED BY <2>1, <2>3, RowSpace, FS_Subset
<1>2. ASSUME NEW c \in Call PROVE credit'[c] <= Cardinality(CallRows(c)')
  <2>1. credit[c] \in Nat /\ credit'[c] = credit[c] /\ credit[c] <= Cardinality(CallRows(c))
    BY DEF CallShape, Counted
  <2>2. /\ CallRows(c) \subseteq CallRows(c)' /\ CallRows(c)' \subseteq StoredRows'
    BY <1>1 DEF CallRows
  <2>3. IsFiniteSet(CallRows(c)')
    BY <1>1, <2>2, FS_Subset
  <2>4. /\ Cardinality(CallRows(c)) <= Cardinality(CallRows(c)')
        /\ Cardinality(CallRows(c)) \in Nat /\ Cardinality(CallRows(c)') \in Nat
    BY <2>2, <2>3, FS_Subset, FS_CardinalityType
  <2> QED BY <2>1, <2>4
<1>3. IsFiniteSet(ReturnedRows') /\ Cardinality(ReturnedRows') \in Nat
  <2>1. ReturnedRows' \subseteq StoredRows'
    BY DEF ReturnedRows
  <2> QED BY <1>1, <2>1, FS_Subset, FS_CardinalityType
<1>4. totals' <= Cardinality(ReturnedRows')
  <2>1. CASE totals' = 0
    BY <1>3, <2>1
  <2>2. CASE UNCHANGED totals /\ Returned \subseteq Returned'
    <3>1. ReturnedRows \subseteq ReturnedRows'
      BY <1>1, <2>2 DEF ReturnedRows
    <3>2. Cardinality(ReturnedRows) <= Cardinality(ReturnedRows') /\ Cardinality(ReturnedRows) \in Nat
      BY <1>3, <3>1, FS_Subset, FS_CardinalityType
    <3> QED BY <1>3, <2>2, <3>2 DEF Counted, CallShape
  <2> QED BY <2>1, <2>2
<1>5. Cardinality(ReturnedRows)' = Cardinality(ReturnedRows')
  OBVIOUS
<1>6. \A c : Cardinality(CallRows(c))' = Cardinality(CallRows(c)')
  OBVIOUS
<1> QED BY <1>2, <1>4, <1>5, <1>6 DEF Counted

(* The coordinator moves, the store does not. *)
LEMMA LinksStay ==
    ASSUME TypeInv, RoomLeft, CallsStarted, CallsOfWork, UNCHANGED bundle,
           \A q \in Peer : Moves(q), TableLater
    PROVE  CallsStarted' /\ CallsOfWork' /\ Returned \subseteq Returned'
<1>1. Claimed \subseteq Call
  BY BatchesAreCalls
<1>2. CallsStarted'
  BY DEF CallsStarted, TableLater
<1>3. ASSUME NEW q \in Peer, h'[q].pc \in {"outcome", "mint", "assess"}
      PROVE  bundle[h'[q].batch] = {}
  <2>1. CASE h'[q] = h[q]
    BY <1>3, <2>1 DEF CallsOfWork
  <2>2. CASE h'[q].batch \in DOMAIN inflight
    BY <1>1, <2>2 DEF CallsStarted, TypeInv, Holding
  <2>3. CASE h'[q].batch = h[q].batch /\ h[q].pc \in {"outcome", "mint", "assess"}
    BY <2>3 DEF CallsOfWork
  <2>4. Moves(q)
    OBVIOUS
  <2> QED BY <1>3, <2>1, <2>2, <2>3, <2>4 DEF Moves
<1>4. ASSUME NEW q \in Peer, h'[q].pc = "merge", bundle[h'[q].batch] # {}
      PROVE  h'[q] = h[q]
  <2>1. Moves(q)
    OBVIOUS
  <2> QED BY <1>4, <2>1 DEF Moves, CallsOfWork
<1>5. CallsOfWork'
  BY <1>3, <1>4 DEF CallsOfWork, At, KeysOf
<1>6. Returned \subseteq Returned'
  BY <1>4 DEF Returned, At
<1> QED BY <1>2, <1>5, <1>6

(* The store moves, the coordinator does not. *)
LEMMA StoreMoves ==
    ASSUME StoreInv, CallShape, \A t \in Shard : ShardInv(t), MergeStep
    PROVE  /\ StoreInv' /\ CallShape' /\ \A t \in Shard : ShardInv(t)'
           /\ broken \subseteq broken' /\ \A t \in Shard : rows[t] \subseteq rows'[t]
           /\ UNCHANGED <<bundle, totals, credit>>
<1>1. ASSUME NEW c \in Call, NEW s \in Shard, SendShare(c, s) \/ SendShareFails(c, s)
      PROVE  /\ StoreInv' /\ CallShape' /\ \A t \in Shard : ShardInv(t)'
             /\ UNCHANGED <<broken, rows, bundle, totals, credit>>
  <2>1. UNCHANGED <<broken, rows, bundle, totals, credit>>
    BY <1>1 DEF SendShare, SendShareFails, shards
  <2>2. StoreInv'
    <3>1. CASE SendShare(c, s)
      BY <3>1, SendShareKeeps
    <3>2. CASE SendShareFails(c, s)
      <4>1. UNCHANGED shards /\ bundle' \in [Call -> SUBSET Key]
        BY <3>2 DEF SendShareFails, StoreInv, StoreShape
      <4> QED BY <4>1, FilesStay
    <3> QED BY <1>1, <3>1, <3>2
  <2> QED BY <1>1, <2>1, <2>2, SendShareHolds, SendShareFailsHolds
<1>2. ASSUME NEW s \in Shard,
             Deduped(s) \/ IndexKey(s) \/ WriteRow(s) \/ Reply(s) \/ WriteFails(s) \/ Kill(s)
      PROVE  /\ StoreInv' /\ CallShape' /\ \A t \in Shard : ShardInv(t)'
             /\ broken \subseteq broken' /\ \A t \in Shard : rows[t] \subseteq rows'[t]
             /\ UNCHANGED <<bundle, totals, credit>>
  <2>1. StoreInv'
    BY <1>2, DedupedKeeps, IndexKeyKeeps, WriteRowKeeps, ReplyKeeps
  <2>2. CallShape' /\ \A t \in Shard : ShardInv(t)'
    BY <1>2, DedupedHolds, IndexKeyHolds, WriteRowHolds, ReplyHolds, WriteFailsHolds, KillHolds
  <2>3. broken \subseteq broken' /\ UNCHANGED <<bundle, totals, credit>>
    BY <1>2 DEF Deduped, IndexKey, WriteRow, Reply, WriteFails, Kill, Deliver, calls
  <2>4. WriteRow(s) \/ UNCHANGED rows
    BY <1>2 DEF Deduped, IndexKey, Reply, WriteFails, Kill
  <2>5. \A t \in Shard : rows[t] \subseteq rows'[t]
    BY <2>4, WriteRowHolds
  <2> QED BY <2>1, <2>2, <2>3, <2>5
<1>3. \/ \E c \in Call, s \in Shard : SendShare(c, s) \/ SendShareFails(c, s)
      \/ \E s \in Shard : Deduped(s) \/ IndexKey(s) \/ WriteRow(s) \/ Reply(s) \/ WriteFails(s) \/ Kill(s)
  BY DEF MergeStep
<1>4. CASE \E c \in Call, s \in Shard : SendShare(c, s) \/ SendShareFails(c, s)
  BY <1>1, <1>4
<1>5. CASE \E s \in Shard : Deduped(s) \/ IndexKey(s) \/ WriteRow(s) \/ Reply(s) \/ WriteFails(s) \/ Kill(s)
  BY <1>2, <1>5
<1> QED BY <1>3, <1>4, <1>5
-----------------------------------------------------------------------------
(* The handler at the merge. *)

LEMMA AtMerge ==
    ASSUME ContribInv, NEW p \in Peer, At(p, "merge")
    PROVE  /\ h[p].batch \in Call /\ h[p].batch \in Claimed \ DOMAIN inflight
           /\ h[p].work \in Seq(Work)
           /\ \A q \in Peer : h[q].pc \in Popped /\ h[q].batch = h[p].batch => q = p
<1>1. Claimed \subseteq Call
  BY BatchesAreCalls DEF ContribInv
<1>2. h[p] \in Request
  BY DEF ContribInv, TypeInv
<1> QED BY <1>1, <1>2 DEF ContribInv, TypeInv, Holding, Popped, At, Request

(* The handler that leaves the merge goes on to count. *)
LEMMA MergeMoves ==
    ASSUME TypeInv, NEW p \in Peer, Merge(p)
    PROVE  /\ h'[p].pc = "count" /\ h[p].pc = "merge" /\ h'[p].batch = h[p].batch
           /\ \A q \in Peer : q # p => h'[q] = h[q]
           /\ UNCHANGED <<claimant, inflight>>
<1>1. h \in [Peer -> Request] /\ Goto(p, "count") /\ "count" \in HandlerPC
  BY DEF TypeInv, Merge, HandlerPC, SubmitPC
<1> QED BY <1>1, GotoTypes DEF Merge, At, pool, past

LEMMA LeaveMerge ==
    ASSUME ContribInv, NEW p \in Peer, Merge(p), UNCHANGED bundle
    PROVE  CallsStarted' /\ CallsOfWork' /\ Returned \subseteq Returned'
<1>1. /\ h'[p].pc = "count" /\ \A q \in Peer : q # p => h'[q] = h[q]
      /\ UNCHANGED <<claimant, inflight>>
  BY MergeMoves DEF ContribInv
<1>2. CallsStarted'
  BY <1>1 DEF ContribInv, CallsStarted, Claimed
<1>3. CallsOfWork'
  BY <1>1 DEF ContribInv, CallsOfWork, At, KeysOf
<1>4. Returned \subseteq Returned'
  BY <1>1 DEF Returned, At
<1> QED BY <1>2, <1>3, <1>4

LEMMA CallMergeHolds ==
    ASSUME ContribInv, NEW p \in Peer, CallMerge(p), TypeInv', PlaceInv', RoomLeft', StoreInv'
    PROVE  ContribInv'
<1> DEFINE b == h[p].batch
           ks == KeysOf(h[p].work)
<1>1. At(p, "merge") /\ h[p].answer = "good" /\ FanOut(b, ks) /\ UNCHANGED vars
  BY DEF CallMerge, Merging
<1>2. /\ b \in Call /\ b \in Claimed \ DOMAIN inflight
      /\ \A q \in Peer : h[q].pc \in Popped /\ h[q].batch = b => q = p
  BY <1>1, AtMerge
<1>3. /\ bundle[b] = {} /\ ks \in SUBSET Key /\ bundle' = [bundle EXCEPT ![b] = ks]
      /\ UNCHANGED <<rows, broken, totals, credit>>
      /\ UNCHANGED <<h, inflight, claimant, merged>>
  BY <1>1 DEF FanOut, shards, vars, pool, files, past
<1>4. CallShape' /\ \A t \in Shard : ShardInv(t)'
  BY <1>1, <1>2, <1>3, FanOutHolds DEF ContribInv
<1> HIDE DEF b, ks
<1>5. bundle'[b] = ks /\ \A c \in Call \ {b} : bundle'[c] = bundle[c]
  BY <1>2, <1>3 DEF ContribInv, StoreInv, StoreShape
<1>6. CallsStarted'
  BY <1>2, <1>3, <1>5 DEF ContribInv, CallsStarted, Claimed
<1>7. CallsOfWork'
  <2>1. \A q \in Peer : h[q].pc \in {"outcome", "mint", "assess"} => h[q].batch \in Call \ {b}
    <3>1. Claimed \subseteq Call
      BY BatchesAreCalls DEF ContribInv
    <3> QED BY <1>1, <1>2, <3>1 DEF ContribInv, TypeInv, Holding, Popped, At
  <2>2. \A q \in Peer : h[q].pc = "merge" /\ q # p => h[q].batch \in Call \ {b}
    <3>1. Claimed \subseteq Call
      BY BatchesAreCalls DEF ContribInv
    <3> QED BY <1>2, <3>1 DEF ContribInv, TypeInv, Holding, Popped
  <2>3. CallsOfWork
    BY DEF ContribInv
  <2>4. ASSUME NEW q \in Peer, h[q].pc \in {"outcome", "mint", "assess"}
        PROVE  bundle'[h[q].batch] = {}
    BY <1>5, <2>1, <2>3, <2>4 DEF CallsOfWork
  <2>5. ASSUME NEW q \in Peer, h[q].pc = "merge", bundle'[h[q].batch] # {}
        PROVE  h[q].answer = "good" /\ bundle'[h[q].batch] = KeysOf(h[q].work)
    <3>1. CASE q = p
      BY <1>1, <1>5, <3>1 DEF b, ks
    <3>2. CASE q # p
      BY <1>5, <2>2, <2>3, <2>5, <3>2 DEF CallsOfWork, At
    <3> QED BY <3>1, <3>2
  <2> QED BY <1>3, <2>4, <2>5 DEF CallsOfWork, At, KeysOf
<1>8. Returned \subseteq Returned'
  BY <1>3, <1>5 DEF Returned, At
<1>9. Counted' /\ MergedIsStored'
  BY <1>3, <1>8, CountedStays, MergedStays DEF ContribInv
<1> QED BY <1>4, <1>6, <1>7, <1>9 DEF ContribInv

LEMMA EndMergeHolds ==
    ASSUME ContribInv, NEW p \in Peer, EndMerge(p), TypeInv', PlaceInv', RoomLeft', StoreInv'
    PROVE  ContribInv'
<1> DEFINE b == h[p].batch
<1>1. /\ At(p, "merge") /\ h[p].answer = "good" /\ Return(b) /\ Merge(p)
      /\ merged' = IF Landed(b) THEN merged \cup Elems(h[p].work) ELSE merged
  BY DEF EndMerge, Merging
<1>2. b \in Call /\ h[p].work \in Seq(Work)
  BY <1>1, AtMerge
<1>3. /\ bundle[b] # {} /\ UNCHANGED <<rows, broken, bundle, part>>
      /\ \/ totals' = totals + Added(b) /\ credit' = [credit EXCEPT ![b] = Added(b)]
         \/ UNCHANGED <<totals, credit>>
  BY <1>1 DEF Return, shards
<1>4. CallShape' /\ \A t \in Shard : ShardInv(t)'
  BY <1>1, <1>2, ReturnHolds DEF ContribInv
<1>5. CallsStarted' /\ CallsOfWork' /\ Returned \subseteq Returned'
  BY <1>1, <1>3, LeaveMerge
<1>6. b \in Returned' /\ b \notin Returned
  <2>1. /\ h'[p].pc = "count" /\ \A q \in Peer : q # p => h'[q] = h[q]
    BY <1>1, MergeMoves DEF ContribInv
  <2>2. \A q \in Peer : h[q].pc = "merge" /\ h[q].batch = b => q = p
    BY <1>1, AtMerge DEF Popped
  <2> QED BY <1>1, <1>2, <1>3, <2>1, <2>2 DEF Returned, At
<1>7. bundle[b] = KeysOf(h[p].work)
  BY <1>1, <1>3 DEF ContribInv, CallsOfWork
<1> HIDE DEF b
<1>8. Counted'
  <2>1. StoredRows' = StoredRows /\ IsFiniteSet(StoredRows)
    BY <1>3, RowsFinite DEF StoredRows, ContribInv
  <2>2. CASE UNCHANGED <<totals, credit>>
    BY <1>3, <1>5, <2>2, CountedStays DEF ContribInv
  <2>3. CASE totals' = totals + Added(b) /\ credit' = [credit EXCEPT ![b] = Added(b)]
    <3>1. Added(b) \in Nat /\ Added(b) <= Cardinality(CallRows(b))
      BY <1>2, AddedBelow DEF ContribInv
    <3>2. \A c : CallRows(c)' = CallRows(c)
      BY <2>1 DEF CallRows
    <3>3. \A c \in Call : credit'[c] <= Cardinality(CallRows(c)')
      BY <1>2, <2>3, <3>1, <3>2 DEF ContribInv, Counted, CallShape
    <3> DEFINE A == ReturnedRows
               B == CallRows(b)
               C == ReturnedRows'
    <3>4. A \cap B = {} /\ A \cup B \subseteq C /\ C \subseteq StoredRows
      BY <1>5, <1>6, <2>1 DEF ReturnedRows, CallRows
    <3>5. IsFiniteSet(C) /\ Cardinality(C) \in Nat
      BY <2>1, <3>4, FS_Subset, FS_CardinalityType
    <3>6. totals <= Cardinality(A) /\ totals \in Nat
      BY DEF ContribInv, Counted, CallShape
    <3>7. Added(b) <= Cardinality(B)
      BY <3>1
    <3> HIDE DEF A, B, C
    <3>8. IsFiniteSet(A) /\ IsFiniteSet(B) /\ IsFiniteSet(A \cup B)
      BY <3>4, <3>5, FS_Subset
    <3>9. /\ Cardinality(A \cup B) = Cardinality(A) + Cardinality(B) - Cardinality(A \cap B)
          /\ Cardinality(A \cap B) = 0
      BY <3>4, <3>8, FS_Union, FS_EmptySet
    <3>10. Cardinality(A) \in Nat /\ Cardinality(B) \in Nat /\ Cardinality(A \cup B) <= Cardinality(C)
      BY <3>4, <3>5, <3>8, FS_Subset, FS_CardinalityType
    <3>11. totals' <= Cardinality(C)
      BY <2>3, <3>1, <3>5, <3>6, <3>7, <3>9, <3>10
    <3> QED BY <3>3, <3>11 DEF Counted, C
  <2> QED BY <1>3, <2>2, <2>3
<1>9. MergedIsStored'
  <2>1. StoredRows' = StoredRows /\ broken' = broken
    BY <1>3 DEF StoredRows
  <2>2. ASSUME Landed(b), NEW w \in Elems(h[p].work), NEW k \in Key, k \in SentenceKeys[w[2]]
        PROVE  k \in broken \/ \E row \in StoredRows : row.key = k
    <3> DEFINE s == Hash[k]
    <3>1. k \in KeysOf(h[p].work) /\ s \in Shard
      BY <2>2, RouteAssumption DEF KeysOf
    <3>2. k \in Share(b, bundle[b], s)
      BY <1>7, <3>1 DEF Share
    <3>3. part[b][s] \in {"none", "ok"} /\ ShardInv(s)
      BY <2>2, <3>1 DEF Landed, ContribInv
    <3> HIDE DEF s
    <3>4. part[b][s] = "ok"
      BY <1>2, <3>2, <3>3 DEF ShardInv, Threads
    <3>5. Kept(s, k)
      BY <1>2, <3>2, <3>3, <3>4 DEF ShardInv, Stored
    <3> QED BY <3>1, <3>5 DEF Kept, StoredRows
  <2>3. MergedIsStored
    BY DEF ContribInv
  <2> QED BY <1>1, <2>1, <2>2, <2>3 DEF MergedIsStored, b
<1> QED BY <1>4, <1>5, <1>8, <1>9 DEF ContribInv

LEMMA SkipMergeHolds ==
    ASSUME ContribInv, NEW p \in Peer, SkipMerge(p), TypeInv', PlaceInv', RoomLeft', StoreInv'
    PROVE  ContribInv'
<1>1. At(p, "merge") /\ h[p].answer # "good" /\ Merge(p) /\ UNCHANGED mergeVars
  BY DEF SkipMerge, Merging
<1>2. UNCHANGED <<index, rows, up, keys, pipe, half, holder, bundle, part, got, totals, credit, broken, faults>>
  BY <1>1 DEF mergeVars, shards, calls
<1>3. UNCHANGED merged
  BY <1>1 DEF Merge
<1>4. CallsStarted' /\ CallsOfWork' /\ Returned \subseteq Returned'
  BY <1>1, <1>2, LeaveMerge
<1>5. CallShape' /\ \A t \in Shard : ShardInv(t)'
  BY <1>2, CallsStay, ElsewhereKeeps DEF ContribInv, calls
<1>6. Counted' /\ MergedIsStored'
  BY <1>2, <1>3, <1>4, CountedStays, MergedStays DEF ContribInv
<1> QED BY <1>4, <1>5, <1>6 DEF ContribInv
-----------------------------------------------------------------------------
LEMMA InitContributes == ContribInit /\ TypeInv /\ PlaceInv => ContribInv
<1> SUFFICES ASSUME ContribInit, TypeInv, PlaceInv PROVE ContribInv
  OBVIOUS
<1>1. RoomLeft /\ StoreInv
  BY InitRoomLeft, StoreInvInit DEF ContribInit
<1>2. CallShape
  BY CallAssumption DEF ContribInit, MergeInit, CallShape
<1>3. ASSUME NEW s \in Shard PROVE ShardInv(s)
  BY CallAssumption DEF ContribInit, MergeInit, ShardInv, InWork, Threads, Remembered, Stored,
                        Earned, Share
<1>4. CallsStarted /\ CallsOfWork
  BY DEF ContribInit, MergeInit, Init, CallsStarted, CallsOfWork, NoRequest, At
<1>5. Counted /\ MergedIsStored
  <2>1. \A c : CallRows(c) = {}
    BY DEF ContribInit, MergeInit, CallRows, StoredRows
  <2>2. ReturnedRows = {}
    BY DEF ContribInit, MergeInit, ReturnedRows, StoredRows
  <2>3. totals = 0 /\ \A c \in Call : credit[c] = 0
    BY DEF ContribInit, MergeInit
  <2>4. merged = {}
    BY DEF ContribInit, Init
  <2> QED BY <2>1, <2>2, <2>3, <2>4, FS_EmptySet DEF Counted, MergedIsStored
<1> QED BY <1>1, <1>2, <1>3, <1>4, <1>5 DEF ContribInv

LEMMA ContribStep ==
    ASSUME ContribInv, [ContribNext]_contribVars, TypeInv', PlaceInv', StoreInv'
    PROVE  ContribInv'
<1>0. RoomLeft'
  BY ContribSteps, RoomStep DEF ContribInv
<1>1. ASSUME \A q \in Peer : Moves(q), TableLater, UNCHANGED merged, UNCHANGED mergeVars
      PROVE  ContribInv'
  <2>1. UNCHANGED <<index, rows, up, keys, pipe, half, holder, bundle, part, got, totals, credit, broken, faults>>
    BY <1>1 DEF mergeVars, shards, calls
  <2>2. CallsStarted' /\ CallsOfWork' /\ Returned \subseteq Returned'
    BY <1>1, <2>1, LinksStay DEF ContribInv
  <2>3. CallShape' /\ \A t \in Shard : ShardInv(t)'
    BY <2>1, CallsStay, ElsewhereKeeps DEF ContribInv, calls
  <2>4. Counted' /\ MergedIsStored'
    BY <1>1, <2>1, <2>2, CountedStays, MergedStays DEF ContribInv
  <2> QED BY <1>0, <2>2, <2>3, <2>4 DEF ContribInv
<1>2. ASSUME NEW p \in Peer, Serve(p) PROVE ContribInv'
  <2>1. CASE HandleAlone(p) /\ UNCHANGED mergeVars
    BY <1>1, <2>1, HandlersMove DEF ContribInv
  <2> QED BY <1>0, <1>2, <2>1, CallMergeHolds, EndMergeHolds, SkipMergeHolds DEF Serve
<1>3. CASE Around /\ UNCHANGED mergeVars
  BY <1>1, <1>3, AroundMoves DEF ContribInv
<1>4. ASSUME UNCHANGED vars
      PROVE  /\ \A q \in Peer : Moves(q)
             /\ TableLater /\ UNCHANGED merged
  BY <1>4 DEF vars, pool, files, past, Moves, TableLater, Claimed
<1>5. CASE MergeStep /\ UNCHANGED vars
  <2>1. /\ CallShape' /\ \A t \in Shard : ShardInv(t)'
        /\ broken \subseteq broken' /\ \A t \in Shard : rows[t] \subseteq rows'[t]
        /\ UNCHANGED <<bundle, totals, credit>>
    BY <1>5, StoreMoves DEF ContribInv
  <2>2. CallsStarted' /\ CallsOfWork' /\ Returned \subseteq Returned'
    BY <1>4, <1>5, <2>1, LinksStay DEF ContribInv
  <2>3. Counted' /\ MergedIsStored'
    BY <1>4, <1>5, <2>1, <2>2, CountedStays, MergedStays DEF ContribInv
  <2> QED BY <1>0, <2>1, <2>2, <2>3 DEF ContribInv
<1>6. CASE Restart /\ RestartStore
  <2>1. CallShape' /\ \A t \in Shard : ShardInv(t)'
    BY <1>6, RestartStoreHolds DEF ContribInv
  <2>2. /\ UNCHANGED <<rows, bundle, credit, merged, claimant>> /\ totals' = 0
        /\ broken \subseteq broken' /\ DOMAIN inflight' = {}
        /\ \A q \in Peer : h'[q] = NoRequest
    BY <1>6 DEF Restart, RestartStore, files
  <2>3. CallsStarted'
    BY <2>2 DEF ContribInv, CallsStarted, Claimed
  <2>4. CallsOfWork'
    BY <2>2 DEF CallsOfWork, NoRequest, At
  <2>5. Counted' /\ MergedIsStored'
    BY <2>2, CountedStays, MergedStays DEF ContribInv
  <2> QED BY <1>0, <2>1, <2>3, <2>4, <2>5 DEF ContribInv
<1>7. CASE UNCHANGED contribVars
  BY <1>1, <1>4, <1>7 DEF contribVars
<1> QED BY <1>2, <1>3, <1>5, <1>6, <1>7 DEF ContribNext

LEMMA ContribHolds == ContribSpec => []ContribInv
<1>1. ContribInit /\ TypeInv /\ PlaceInv => ContribInv
  BY InitContributes
<1>2. ContribInv /\ [ContribNext]_contribVars /\ (TypeInv /\ PlaceInv)' /\ StoreInv' => ContribInv'
  BY ContribStep
<1> QED BY <1>1, <1>2, PoolHolds, StoreInvariant, PTL DEF ContribSpec

(* Shards, pipes, threads and counters of the store hold values of their   *)
(* types, and a worker has work exactly while a thread has its pipe's lock,*)
(* and then that thread's (_call's lock, process_sharded_store.py).        *)
THEOREM StoreTypes == ContribSpec => []MergeTypeOK
<1>1. ContribInv => MergeTypeOK
  <2> SUFFICES ASSUME ContribInv PROVE MergeTypeOK
    OBVIOUS
  <2>1. ASSUME NEW s \in Shard
        PROVE  /\ pipe[s] \in Seq([call : Call, left : SUBSET Key, added : Nat])
               /\ [i \in DOMAIN pipe[s] |-> pipe[s][i].call] =
                     IF holder[s] = 0 THEN <<>> ELSE <<holder[s]>>
    <3>1. pipe[s] \in Seq(RequestOf(s)) /\ InWork(s) /\ 0 \notin Call
      BY CallAssumption DEF ContribInv, StoreInv, StoreShape, ShardInv
    <3>2. RequestOf(s) \subseteq [call : Call, left : SUBSET Key, added : Nat]
      BY DEF RequestOf
    <3>3. pipe[s] \in Seq([call : Call, left : SUBSET Key, added : Nat])
      <4> DEFINE q == pipe[s]
                 T == [call : Call, left : SUBSET Key, added : Nat]
      <4>1. Len(q) \in Nat /\ q \in [1..Len(q) -> RequestOf(s)]
        BY <3>1, LenProperties
      <4> HIDE DEF q, T
      <4>2. q \in [1..Len(q) -> T]
        BY <3>2, <4>1 DEF T
      <4>3. q \in Seq(T)
        BY <4>1, <4>2
      <4> QED BY <4>3 DEF q, T
    <3>4. CASE holder[s] = 0 /\ pipe[s] = <<>>
      BY <3>3, <3>4
    <3>5. CASE holder[s] \in Call /\ Len(pipe[s]) = 1 /\ Head(pipe[s]).call = holder[s]
      <4>1. DOMAIN pipe[s] = 1..1 /\ pipe[s][1].call = holder[s]
        BY <3>3, <3>5
      <4>2. [i \in DOMAIN pipe[s] |-> pipe[s][i].call] = <<holder[s]>>
        BY <4>1
      <4> QED BY <3>1, <3>3, <3>5, <4>2
    <3> QED BY <3>1, <3>4, <3>5 DEF InWork
  <2> QED BY <2>1 DEF ContribInv, StoreInv, StoreShape, CallShape, MergeTypeOK
<1> QED BY <1>1, ContribHolds, PTL

(* Work whose submission was answered as merged has its rows in the shards,*)
(* but for keys a fault caught between memory, index and row, however many *)
(* batches, processes and restarts share the keys (brain_link.py's merge). *)
THEOREM MergedWorkIsStored == ContribSpec => []MergedIsStored
<1>1. ContribInv => MergedIsStored
  BY DEF ContribInv
<1> QED BY <1>1, ContribHolds, PTL

(* A batch is credited with rows it brought, and the totals with rows that *)
(* are in the store, whatever is late, replayed, refused or restarted      *)
(* (accumulate's sums, process_sharded_store.py).                          *)
THEOREM CreditIsForRows == ContribSpec => []CreditIsEarned
<1>1. ContribInv => CreditIsEarned
  <2> SUFFICES ASSUME ContribInv PROVE CreditIsEarned
    OBVIOUS
  <2>1. IsFiniteSet(StoredRows) /\ ReturnedRows \subseteq StoredRows
    BY RowsFinite DEF ContribInv, ReturnedRows
  <2>2. /\ Cardinality(ReturnedRows) <= Cardinality(StoredRows)
        /\ Cardinality(ReturnedRows) \in Nat /\ Cardinality(StoredRows) \in Nat
    BY <2>1, FS_Subset, FS_CardinalityType
  <2>3. totals <= Cardinality(StoredRows)
    BY <2>2 DEF ContribInv, Counted, CallShape
  <2> QED BY <2>3 DEF ContribInv, Counted, CallRows, CreditIsEarned
<1> QED BY <1>1, ContribHolds, PTL
=============================================================================
