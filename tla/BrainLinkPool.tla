---------------------------- MODULE BrainLinkPool ----------------------------
(***************************************************************************)
(* The Brain Link coordinator (apps/api/app/routers/brain_link.py) with    *)
(* its credit ledger, peer registry and quarantine, and the workers of     *)
(* deploy/brain_link_peer that register, claim batches of sentences and    *)
(* submit what they extracted.  Handlers run in a thread pool: each is a   *)
(* sequence of steps, and only the steps under _LOCK are atomic.           *)
(***************************************************************************)
EXTENDS Integers, Sequences, FiniteSets

CONSTANTS
    Peer,         \* peer ids
    CorpusSize,   \* sentences one filling of the queue appends
    ClaimSize,    \* BATCH: sentences a worker asks for
    Genesis,      \* the coordinator's first grant, in batches (BATCH_PRICE is 1)
    MinSamples,   \* _MIN_SAMPLES
    ForeignOn,    \* whether a submission may name a batch of another peer
    MaxSeeds, MaxBatches, MaxRestarts   \* bounds of the model

ASSUME PeerAssumption == IsFiniteSet(Peer)
ASSUME CorpusAssumption == CorpusSize \in Nat \ {0} /\ ClaimSize \in Nat \ {0}
ASSUME LedgerAssumption == Genesis \in Nat /\ MinSamples \in Nat \ {0}
ASSUME PoolBoundAssumption ==
    /\ ForeignOn \in BOOLEAN
    /\ MaxSeeds \in Nat /\ MaxBatches \in Nat /\ MaxRestarts \in Nat

(* A piece of work is one appended copy of a sentence: the number of the   *)
(* filling that appended it, and its place there.                          *)
Work == Nat \X (1..CorpusSize)
Batch == Nat \ {0}
Answer == {"good", "empty", "bad"}   \* evidence matches, nothing extracted, mismatch

VARIABLES
    (* ---- memory of the coordinator process ---- *)
    queue,       \* _POOL["queue"]
    inflight,    \* _POOL["inflight"]: batch -> peer, sentences, older than _RECLAIM_AFTER
    peers,       \* _POOL["peers"]: registered peer -> claimed, completed
    seeded,      \* _POOL["seeded"]
    h,           \* for each peer, the request of his that is being handled
    (* ---- files of the coordinator ---- *)
    burned,      \* batches with a burn in the credit ledger
    mints,       \* batch -> the peers the ledger minted for, in order
    registry,    \* peers.json: jobs and failed of every peer
    jailed,      \* quarantine.jsonl: peers whose last record is live
    merged,      \* work whose decompositions the contributed store took
    (* ---- the workers ---- *)
    worker,      \* off, joining, working; the batch it holds (0: none)
    (* ---- history and bounds ---- *)
    refused,     \* work that was popped and will not come back
    forgotten,   \* work a coordinator restart dropped
    claimant,    \* batch -> the peer it was handed to
    seeds, restarts

pool  == <<queue, inflight, peers, seeded>>
files == <<burned, mints, registry, jailed, merged>>
past  == <<refused, forgotten, claimant, seeds, restarts>>
vars  == <<pool, h, files, worker, past>>

NoRequest == [pc |-> "none", batch |-> 0, work |-> <<>>, answer |-> "empty"]

SeedPC == {"reg_seed", "reg_fill", "claim_seed", "claim_fill"}
ClaimPC == {"reclaim", "limit", "pop", "burn_check", "burn", "reply"}
SubmitPC == {"sub_pop", "outcome", "mint", "assess", "merge", "count"}
HandlerPC == {"none", "reg_check", "reg_commit"} \cup SeedPC \cup ClaimPC \cup SubmitPC

Elems(q) == {q[i] : i \in DOMAIN q}

Claimed == DOMAIN claimant   \* the batch ids used so far

InflightWork == UNION {Elems(inflight[b].work) : b \in DOMAIN inflight}
HandledWork == UNION {Elems(h[p].work) : p \in {q \in Peer : h[q].pc \in SubmitPC}}

Init ==
    /\ queue = <<>> /\ inflight = <<>> /\ peers = <<>> /\ seeded = FALSE
    /\ h = [p \in Peer |-> NoRequest]
    /\ burned = {} /\ mints = [b \in {} |-> <<>>]
    /\ registry = [p \in Peer |-> [jobs |-> 0, failed |-> 0]]
    /\ jailed = {} /\ merged = {}
    /\ worker = [p \in Peer |-> [state |-> "off", held |-> 0]]
    /\ refused = {} /\ forgotten = {} /\ claimant = <<>> /\ seeds = 0 /\ restarts = 0

(* The next step of p's handler. *)
At(p, pc) == h[p].pc = pc
Goto(p, pc) == h' = [h EXCEPT ![p].pc = pc]
Answered(p) == h' = [h EXCEPT ![p] = NoRequest]
-----------------------------------------------------------------------------
(* The worker program *)

Start(p) ==
    /\ worker[p].state = "off" /\ At(p, "none")
    /\ worker' = [worker EXCEPT ![p] = [state |-> "joining", held |-> 0]]
    /\ UNCHANGED <<pool, h, files, past>>

(* main registers once; any reply, a refusal too, ends its loop, and so do *)
(* 30 failures.                                                            *)
SendRegister(p) ==
    /\ worker[p].state = "joining" /\ At(p, "none")
    /\ Goto(p, "reg_check")
    /\ UNCHANGED <<pool, files, worker, past>>

GiveUpJoining(p) ==
    /\ worker[p].state = "joining" /\ At(p, "none")
    /\ worker' = [worker EXCEPT ![p].state = "working"]
    /\ UNCHANGED <<pool, h, files, past>>

SendClaim(p) ==
    /\ worker[p] = [state |-> "working", held |-> 0] /\ At(p, "none")
    /\ Goto(p, "claim_seed")
    /\ UNCHANGED <<pool, files, worker, past>>

(* The submission arrives, or the post raises and ends the worker.  With   *)
(* ForeignOn it may carry the batch id of another peer.                    *)
SendSubmit(p, answer) ==
    /\ worker[p].state = "working" /\ worker[p].held # 0 /\ At(p, "none")
    /\ \E b \in {worker[p].held} \cup (IF ForeignOn THEN Claimed ELSE {}) :
           h' = [h EXCEPT ![p] =
                    [pc |-> "sub_pop", batch |-> b, work |-> <<>>, answer |-> answer]]
    /\ UNCHANGED <<pool, files, worker, past>>

Die(p) ==
    /\ worker[p].state = "working" /\ At(p, "none")
    /\ worker' = [worker EXCEPT ![p] = [state |-> "off", held |-> 0]]
    /\ UNCHANGED <<pool, h, files, past>>
-----------------------------------------------------------------------------
(* POST /peer/register *)

(* Rate ceiling and quarantine: refused, or on to the commit. *)
RegisterCheck(p) ==
    /\ At(p, "reg_check")
    /\ \/ /\ Answered(p)
          /\ worker' = [worker EXCEPT ![p].state = "working"]
       \/ p \notin jailed /\ Goto(p, "reg_commit") /\ UNCHANGED worker
    /\ UNCHANGED <<pool, files, past>>

(* A fault: a new peer has no completed counter yet. *)
RegisterWithoutCompleted(p) ==
    /\ At(p, "reg_commit") /\ Goto(p, "reg_seed")
    /\ peers' = [q \in DOMAIN peers \cup {p} |->
                    IF q \in DOMAIN peers THEN peers[q] ELSE [claimed |-> 0]]
    /\ UNCHANGED <<queue, inflight, seeded, files, worker, past>>

(* Counters of a known peer are kept. *)
RegisterCommit(p) ==
    /\ At(p, "reg_commit") /\ Goto(p, "reg_seed")
    /\ peers' = [q \in DOMAIN peers \cup {p} |->
                    IF q \in DOMAIN peers THEN peers[q]
                    ELSE [claimed |-> 0, completed |-> 0]]
    /\ UNCHANGED <<queue, inflight, seeded, files, worker, past>>

(* _seed_queue looks at the queue outside the lock, and fills it later.    *)
(* Past MaxSeeds the model stops refilling.                                *)
AfterSeed(pc) == IF pc \in {"reg_seed", "reg_fill"} THEN "none" ELSE "reclaim"

EndSeed(p) ==
    LET next == AfterSeed(h[p].pc) IN
    /\ Goto(p, next)
    /\ worker' = IF next = "none" THEN [worker EXCEPT ![p].state = "working"] ELSE worker

SeedSkip(p) ==
    /\ h[p].pc \in {"reg_seed", "claim_seed"}
    /\ (seeded /\ queue # <<>>) \/ seeds >= MaxSeeds
    /\ EndSeed(p)
    /\ UNCHANGED <<pool, files, past>>

SeedRead(p) ==
    /\ h[p].pc \in {"reg_seed", "claim_seed"}
    /\ ~(seeded /\ queue # <<>>) /\ seeds < MaxSeeds
    /\ Goto(p, IF h[p].pc = "reg_seed" THEN "reg_fill" ELSE "claim_fill")
    /\ UNCHANGED <<pool, files, worker, past>>

SeedFill(p) ==
    /\ h[p].pc \in {"reg_fill", "claim_fill"}
    /\ seeds' = seeds + 1
    /\ queue' = queue \o [i \in 1..CorpusSize |-> <<seeds', i>>]
    /\ seeded' = TRUE
    /\ EndSeed(p)
    /\ UNCHANGED <<inflight, peers, files, refused, forgotten, claimant, restarts>>
-----------------------------------------------------------------------------
(* _reclaim_stale, under the lock: every stale batch goes back to the      *)
(* front of the queue, batch after batch in the order they were claimed,   *)
(* each sentence pushed before the last.                                   *)

Reversed(q) == [i \in DOMAIN q |-> q[Len(q) + 1 - i]]

StaleBatches == {b \in DOMAIN inflight : inflight[b].stale}

StaleFront ==
    LET upTo[n \in Nat] ==
            IF n = 0 THEN <<>>
            ELSE (IF n \in StaleBatches THEN Reversed(inflight[n].work) ELSE <<>>)
                 \o upTo[n - 1]
    IN  upTo[Cardinality(Claimed)]

(* A fault: a stale batch is copied to the queue and stays in flight. *)
ReclaimKeepsBatch ==
    /\ queue' = StaleFront \o queue
    /\ inflight' = [b \in DOMAIN inflight |-> [inflight[b] EXCEPT !.stale = FALSE]]

(* A fault: a stale batch is dropped. *)
ReclaimDrops ==
    /\ queue' = queue
    /\ inflight' = [b \in DOMAIN inflight \ StaleBatches |-> inflight[b]]

(* A fault: stale batches are looked for only when the queue ran dry. *)
ReclaimWhenDry ==
    IF queue = <<>>
    THEN /\ queue' = StaleFront
         /\ inflight' = [b \in DOMAIN inflight \ StaleBatches |-> inflight[b]]
    ELSE UNCHANGED <<queue, inflight>>

Reclaim ==
    /\ queue' = StaleFront \o queue
    /\ inflight' = [b \in DOMAIN inflight \ StaleBatches |-> inflight[b]]

(* 120 seconds pass. *)
Age(b) ==
    /\ b \in DOMAIN inflight /\ ~inflight[b].stale
    /\ inflight' = [inflight EXCEPT ![b].stale = TRUE]
    /\ UNCHANGED <<queue, peers, seeded, h, files, worker, past>>

(* GET /pool/status, polled by the dashboard. *)
PoolStatus ==
    /\ Reclaim
    /\ UNCHANGED <<peers, seeded, h, files, worker, past>>
-----------------------------------------------------------------------------
(* GET /work/claim *)

ClaimReclaim(p) ==
    /\ At(p, "reclaim") /\ Goto(p, "limit")
    /\ Reclaim
    /\ UNCHANGED <<peers, seeded, files, worker, past>>

(* The token bucket lets the claim pass or not. *)
ClaimLimit(p) ==
    /\ At(p, "limit")
    /\ Answered(p) \/ (Cardinality(Claimed) < MaxBatches /\ Goto(p, "pop"))
    /\ UNCHANGED <<pool, files, worker, past>>

(* Under the lock; register_first and no_work answer an empty batch. *)
ClaimNothing(p) ==
    /\ At(p, "pop") /\ (p \notin DOMAIN peers \/ queue = <<>>)
    /\ Answered(p)
    /\ UNCHANGED <<pool, files, worker, past>>

Shorter(m, n) == IF m < n THEN m ELSE n

ClaimPop(p) ==
    /\ At(p, "pop") /\ p \in DOMAIN peers /\ queue # <<>>
    /\ LET n == Shorter(ClaimSize, Len(queue))
           b == Cardinality(Claimed) + 1
           work == SubSeq(queue, 1, n)
       IN  /\ queue' = SubSeq(queue, n + 1, Len(queue))
           /\ inflight' = [c \in DOMAIN inflight \cup {b} |->
                              IF c = b THEN [peer |-> p, work |-> work, stale |-> FALSE]
                              ELSE inflight[c]]
           /\ claimant' = [c \in Claimed \cup {b} |-> IF c = b THEN p ELSE claimant[c]]
           /\ h' = [h EXCEPT ![p].pc = "burn_check", ![p].batch = b]
    /\ peers' = [peers EXCEPT ![p].claimed = @ + 1]
    /\ UNCHANGED <<seeded, files, worker, refused, forgotten, seeds, restarts>>

(* burn reads the balance, then appends; too little is no error. *)
BurnCheck(p) ==
    /\ At(p, "burn_check")
    /\ Goto(p, IF Genesis - Cardinality(burned) < 1 THEN "reply" ELSE "burn")
    /\ UNCHANGED <<pool, files, worker, past>>

(* A fault: the burn is booked only after the reply is out. *)
BurnSkipped(p) ==
    /\ At(p, "burn") /\ Goto(p, "reply")
    /\ UNCHANGED <<pool, files, worker, past>>

Burn(p) ==
    /\ At(p, "burn") /\ Goto(p, "reply")
    /\ burned' = burned \cup {h[p].batch}
    /\ UNCHANGED <<pool, mints, registry, jailed, merged, worker, past>>

(* The worker gets the batch, or the reply is lost and it claims again. *)
ClaimReply(p) ==
    /\ At(p, "reply") /\ Answered(p)
    /\ \/ worker' = [worker EXCEPT ![p].held = h[p].batch]
       \/ UNCHANGED worker
    /\ UNCHANGED <<pool, files, past>>
-----------------------------------------------------------------------------
(* POST /work/submit *)

(* The worker reads the reply of its submission, or dies of its loss. *)
SubmitAnswered(p) ==
    /\ Answered(p)
    /\ \/ worker' = [worker EXCEPT ![p].held = 0]
       \/ worker' = [worker EXCEPT ![p] = [state |-> "off", held |-> 0]]

SubmitUnknown(p) ==
    /\ At(p, "sub_pop") /\ h[p].batch \notin DOMAIN inflight
    /\ SubmitAnswered(p)
    /\ UNCHANGED <<pool, files, past>>

(* A foreign batch is refused, but it has been popped. *)
SubmitForeign(p) ==
    LET b == h[p].batch IN
    /\ At(p, "sub_pop") /\ b \in DOMAIN inflight /\ inflight[b].peer # p
    /\ inflight' = [c \in DOMAIN inflight \ {b} |-> inflight[c]]
    /\ refused' = refused \cup Elems(inflight[b].work)
    /\ SubmitAnswered(p)
    /\ UNCHANGED <<queue, peers, seeded, files, forgotten, claimant, seeds, restarts>>

(* A fault: the batch is read, not popped. *)
SubmitPeek(p) ==
    LET b == h[p].batch IN
    /\ At(p, "sub_pop") /\ b \in DOMAIN inflight /\ inflight[b].peer = p
    /\ h' = [h EXCEPT ![p].pc = "outcome", ![p].work = inflight[b].work]
    /\ UNCHANGED <<pool, files, worker, past>>

SubmitPop(p) ==
    LET b == h[p].batch IN
    /\ At(p, "sub_pop") /\ b \in DOMAIN inflight /\ inflight[b].peer = p
    /\ inflight' = [c \in DOMAIN inflight \ {b} |-> inflight[c]]
    /\ h' = [h EXCEPT ![p].pc = "outcome", ![p].work = inflight[b].work]
    /\ UNCHANGED <<queue, peers, seeded, files, worker, past>>

(* record_outcome: an empty answer counts as verified. *)
Outcome(p) ==
    /\ At(p, "outcome")
    /\ Goto(p, IF h[p].answer = "good" THEN "mint" ELSE "assess")
    /\ registry' = [registry EXCEPT ![p] =
                       [jobs |-> @.jobs + 1,
                        failed |-> IF h[p].answer = "bad" THEN @.failed + 1 ELSE @.failed]]
    /\ UNCHANGED <<pool, burned, mints, jailed, merged, worker, past>>

Mint(p) ==
    LET b == h[p].batch IN
    /\ At(p, "mint") /\ Goto(p, "assess")
    /\ mints' = [c \in DOMAIN mints \cup {b} |->
                    IF c # b THEN mints[c]
                    ELSE Append(IF b \in DOMAIN mints THEN mints[b] ELSE <<>>, p)]
    /\ UNCHANGED <<pool, burned, registry, jailed, merged, worker, past>>

(* The guard looks at the record; a failed batch is not queued again. *)
Assess(p) ==
    /\ At(p, "assess")
    /\ LET r == registry[p] IN
       jailed' = IF r.jobs >= MinSamples /\ 2 * r.failed > r.jobs
                 THEN jailed \cup {p} ELSE jailed
    /\ IF h[p].answer = "bad"
       THEN /\ refused' = refused \cup Elems(h[p].work)
            /\ SubmitAnswered(p)
       ELSE /\ Goto(p, "merge")
            /\ UNCHANGED <<refused, worker>>
    /\ UNCHANGED <<pool, burned, mints, registry, merged, forgotten, claimant, seeds, restarts>>

(* The store takes the decompositions, or raises, which the coordinator    *)
(* counts as nothing new; an empty answer has nothing to take.             *)
Merge(p) ==
    /\ At(p, "merge") /\ Goto(p, "count")
    /\ \/ merged' = IF h[p].answer = "good" THEN merged \cup Elems(h[p].work) ELSE merged
       \/ UNCHANGED merged
    /\ UNCHANGED <<pool, burned, mints, registry, jailed, worker, past>>

Count(p) ==
    /\ At(p, "count")
    /\ peers' = [q \in DOMAIN peers \cup {p} |->
                    IF q # p THEN peers[q]
                    ELSE IF p \in DOMAIN peers
                    THEN [peers[p] EXCEPT !.completed = @ + 1]
                    ELSE [claimed |-> 0, completed |-> 1]]
    /\ refused' = refused \cup (Elems(h[p].work) \ merged)
    /\ SubmitAnswered(p)
    /\ UNCHANGED <<queue, inflight, seeded, files, forgotten, claimant, seeds, restarts>>
-----------------------------------------------------------------------------
(* A quarantine expires, or an appeal lifts it. *)
Release(p) ==
    /\ p \in jailed /\ jailed' = jailed \ {p}
    /\ UNCHANGED <<pool, h, burned, mints, registry, merged, worker, past>>

(* The coordinator restarts: its memory is gone, the files stay.  A worker *)
(* whose submission was being handled dies, the others try again.          *)
Restart ==
    /\ restarts < MaxRestarts /\ restarts' = restarts + 1
    /\ queue' = <<>> /\ inflight' = <<>> /\ peers' = <<>> /\ seeded' = FALSE
    /\ h' = [p \in Peer |-> NoRequest]
    /\ worker' = [p \in Peer |->
                     IF h[p].pc \in SubmitPC
                     THEN [state |-> "off", held |-> 0] ELSE worker[p]]
    /\ forgotten' = forgotten \cup Elems(queue) \cup InflightWork
                      \cup (HandledWork \ (refused \cup merged))
    /\ UNCHANGED <<files, refused, claimant, seeds>>
-----------------------------------------------------------------------------
(* The steps of a handler but the merge, which is another component's. *)
HandleAlone(p) ==
    \/ RegisterCheck(p) \/ RegisterCommit(p)
    \/ SeedSkip(p) \/ SeedRead(p) \/ SeedFill(p)
    \/ ClaimReclaim(p) \/ ClaimLimit(p) \/ ClaimNothing(p) \/ ClaimPop(p)
    \/ BurnCheck(p) \/ Burn(p) \/ ClaimReply(p)
    \/ SubmitUnknown(p) \/ SubmitForeign(p) \/ SubmitPop(p)
    \/ Outcome(p) \/ Mint(p) \/ Assess(p) \/ Count(p)

Handle(p) == HandleAlone(p) \/ Merge(p)

Send(p) ==
    \/ SendRegister(p) \/ GiveUpJoining(p) \/ SendClaim(p)
    \/ \E answer \in Answer : SendSubmit(p, answer)

(* What happens outside the handlers. *)
Around ==
    \/ \E p \in Peer : Send(p) \/ Start(p) \/ Die(p) \/ Release(p)
    \/ (\E b \in Claimed : Age(b)) \/ PoolStatus

Next == (\E p \in Peer : Handle(p)) \/ Around \/ Restart

Spec == Init /\ [][Next]_vars

(* Handlers run to their end, time passes, and the dashboard polls.        *)
Fairness ==
    /\ \A p \in Peer : WF_vars(Handle(p))
    /\ \A b \in 1..(MaxBatches + Cardinality(Peer)) : WF_vars(Age(b))
    /\ WF_vars(PoolStatus)

(* A started worker keeps running its loop. *)
FairSpec == Spec /\ Fairness /\ \A p \in Peer : WF_vars(Send(p))
-----------------------------------------------------------------------------
(* Properties *)

Request == [pc : HandlerPC, batch : Nat, work : Seq(Work), answer : Answer]

(* Queue, batches, counters, ledger, registry and workers hold values of   *)
(* their types, and every batch id in use was handed out.                  *)
TypeOK ==
    /\ queue \in Seq(Work) /\ seeded \in BOOLEAN
    /\ Claimed \subseteq Batch /\ \A b \in Claimed : claimant[b] \in Peer
    /\ DOMAIN inflight \subseteq Claimed
    /\ \A b \in DOMAIN inflight :
          inflight[b] \in [peer : Peer, work : Seq(Work), stale : BOOLEAN]
    /\ DOMAIN peers \subseteq Peer
    /\ \A p \in DOMAIN peers : peers[p] \in [claimed : Nat, completed : Nat]
    /\ h \in [Peer -> Request]
    /\ burned \subseteq Claimed
    /\ DOMAIN mints \subseteq Claimed /\ \A b \in DOMAIN mints : mints[b] \in Seq(Peer)
    /\ registry \in [Peer -> [jobs : Nat, failed : Nat]]
    /\ jailed \subseteq Peer /\ merged \subseteq Work /\ refused \subseteq Work
    /\ worker \in [Peer -> [state : {"off", "joining", "working"}, held : Nat]]
    /\ seeds \in Nat /\ restarts \in Nat

(* A batch is paid at most once, to the peer it was handed to, and never   *)
(* without the coordinator's burn for it, through reclaims, late answers,  *)
(* lost replies and restarts (enough credits given).                       *)
MintsAreBacked ==
    \A b \in DOMAIN mints :
        /\ mints[b] = <<claimant[b]>>
        /\ b \in burned

(* A late or repeated submission is never settled next to the peer the     *)
(* work was reclaimed for: every piece of work is in one place only, the   *)
(* queue, a batch in flight, one handler, or the settled past.             *)
OnePlace ==
    /\ \A i, j \in DOMAIN queue : i # j => queue[i] # queue[j]
    /\ Elems(queue) \cap (InflightWork \cup HandledWork) = {}
    /\ \A b, c \in DOMAIN inflight :
          b # c => Elems(inflight[b].work) \cap Elems(inflight[c].work) = {}
    /\ \A p, q \in Peer : p # q /\ h[p].pc \in SubmitPC /\ h[q].pc \in SubmitPC
          => Elems(h[p].work) \cap Elems(h[q].work) = {}
    /\ InflightWork \cap HandledWork = {}
    /\ (Elems(queue) \cup InflightWork) \cap (merged \cup refused \cup forgotten) = {}

(* A batch whose peer never submits is queued again: while the coordinator *)
(* runs, work it read from the corpus waits, is in flight, or was settled  *)
(* by a submission; none of it slips away.                                 *)
NothingSlipsAway ==
    ((1..seeds) \X (1..CorpusSize))
      \subseteq Elems(queue) \cup InflightWork \cup HandledWork
                \cup merged \cup refused \cup forgotten

(* A batch leaves the in-flight table, whatever becomes of its peer        *)
(* (re-queue a batch if a peer never submits).                             *)
BatchesComeBack ==
    \A b \in 1..MaxBatches : b \in DOMAIN inflight ~> b \notin DOMAIN inflight

(* A worker that runs is, or soon will be, a peer the coordinator knows.   *)
WorkersAreKnown ==
    \A p \in Peer : worker[p].state = "working" ~>
        (p \in DOMAIN peers \/ worker[p].state # "working")

(* The promise the coordinator makes about work. *)
Abstract == INSTANCE WorkPool WITH
              Work <- (1..(MaxSeeds + Cardinality(Peer))) \X (1..CorpusSize),
              todo <- Elems(queue),
              out <- InflightWork \cup (HandledWork \ (merged \cup refused)),
              settled <- merged \cup refused

ImplementsPool == Abstract!Spec
=============================================================================
