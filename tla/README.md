# Formal models of ATANOR's stores, its work pool and merge, its consensus gate and its learning daemon

TLA+ modules, TLC runs and TLAPS proofs about the parts of this repository that
keep state across processes, threads and crashes. Paths are relative to the
repository root.

## 1. Inventory

| Component | State | Operations | Why it is hard | What makes it correct |
|---|---|---|---|---|
| Triple store (`packages/graph_scale/triple_store.py`) | `terms.txt`, four `.col` files, `meta.json`, index generations, `retractions.jsonl`; in memory the dictionary, `_buf_*`, `_seen`, `_count`, `_index_ts` | add, bulk_ingest, flush, retract, rebuild_index, queries, reopen | a flush is seven file writes; nothing is locked; two processes share the directory | rows spell facts that were added, queries are exact, each row cites its own source, the de-dup set refuses only what is stored |
| Turbo lane (`turbo_ingest.py`) | the same files; `turbo_audit_pending` in `meta.json` | turbo_ingest(_tsv), audit_sweep | bypasses `_seen` and `_backfill_src`; the sweep rewrites columns in place | duplicates are flagged until a sweep, which restores exactness and moves no source |
| Answer bridge (`answer_bridge.py`) | a second store object over the same root | open, query | its first query writes `meta.json` from its own old fields | answers what was stored when it opened |
| Brain Link coordinator (`apps/api/app/routers/brain_link.py`) | `_POOL` (queue, inflight, peers, seeded) in memory | register, claim, submit, appeal, status | handlers run in a thread pool, only parts are under `_LOCK`; replies get lost; it restarts | work is in one place, none slips away, batches come back |
| Economy and guards (`packages/brain_link_pool`: `render_economy.py`, `peer_trust_guard.py`, `rate_limiter.py`) | credit ledger, peer registry, quarantine log, buckets | burn, mint, record_outcome, assess | check and append are separate; called outside the coordinator's lock | a batch is paid once, to its peer, and only after a burn |
| Peer worker (`deploy/brain_link_peer/peer_worker.py`) | the batch it holds | register, claim, submit, die | lost replies | a running worker is a registered one (it need not be, see 5) |
| Consensus ledger (`packages/cloud_brain`: `consensus_ledger.py`, `alias_resolution.py`, `trust_audit.py`) | evidence, alias and promoted logs, freeze flag, drift state | record_decomposition, promotable, promote_into, update_drift, clear_freeze | a tick may die between any two appends; aliases learned later change old keys | only what enough voices confirm is promoted; what is confirmed is promoted in the end; marked means stored |
| Verified store (`packages/cgsr/cgsr/ingestion/accumulator.py`) | dedupe index, `relations.jsonl` and others | `accumulate`, `_append_unique` | memory, index and row are three writes | a key in the index has its row |
| Sharded merge store (`packages/brain_link_pool`: `process_sharded_store.py`, `sharded_store.py`) | shard directories, worker processes with their key sets, a pipe and a lock each, `_totals` | accumulate: route, one thread per shard, join for 120 s, add up | threads of two batches share a pipe, late threads go on, a worker may die and stays dead, a write may be refused | one row per key in all shards, no credit without a row, every submission is answered |
| Learning daemon (`packages/knowledge_bakery/knowledge_bakery/learning_daemon.py`, `apps/api/app/routers/learning.py`) | `daemon_state.json`, the stop event, the worker thread and its handle, `_lock`; `homage.db` and `ingested_files` | start, stop, status, checkpoint, tick, the worker's loop, self-healing, resume at import, ingest of raw files, decay of synapses | routes, pages and the worker thread share one handle; `stop_daemon` joins outside the lock; the file is written by replace, which may be refused; a crash comes anywhere | one worker, stops that hold, a wanted daemon that runs, documents booked whole and strengthened as often as they were read |
| Memory projection and ontology files (`memory.py`, `packages/ontology_forge`) | `projection.sqlite`, the ontology directory, `last_input_fingerprint` | build_memory, run_ontology | inputs change while they are read; a second build runs without the lock | a fitting fingerprint means a projection that is up to date; rebuilding ends |
| Cleaned directory watcher and build routes (`apps/api/app/services/ingestion_stream.py`, `alpha_services.py`) | pending paths | build_memory without `_lock` | writes what it read before | loses nothing the daemon put in |
| Not modelled | tensor shard routing, semantic store and compaction, learning loop, cloud broker worker, local memory approval, promotion gates, extraction, reasoning, autonomy packages, web application | | see PROJECT.json for the reason of each | |

Interactions. The writer and the reader of the triple store meet only in the
files. The turbo lane works on a store object it is given. The coordinator calls
economy, guard and merge outside `_LOCK`; workers call it over HTTP; a merge waits for the shards' processes, which end with the coordinator. One tick of
`continuous_learning.run_once` builds a ledger and a store, records, promotes
and drops both. The learning daemon's routes and its worker thread share
`_lock`, the stop event and `daemon_state.json`; a tick holds the lock and works
on files that users, the watcher and `POST /api/memory/build` touch without it.

The hazards (each with its line and the properties that would catch it) are in
`PROJECT.json`.

## 2. Modules

| Module | Role |
|---|---|
| `FactLog` | abstract: durable facts grow by whole batches of accepted facts; a crash loses pending ones |
| `TripleStore` | the store, its turbo lane, its sweep, and one reader |
| `TripleStore_proofs` | theorems about `TripleStore` |
| `WorkPool` | abstract: work waits, is handed out, comes back, is settled once |
| `BrainLinkPool` | coordinator, economy, guard and workers |
| `DedupStore` | abstract: a key gets one row, and a row stays |
| `ShardedMerge` | the contributed store: routing, threads, pipes, worker processes, the files of each shard |
| `Contribution` | `BrainLinkPool` and `ShardedMerge` composed: from a submission to rows |
| `ConsensusLedger` | ledger, aliases, freeze and the verified store's relations |
| `LearningDaemon` | state file, stop event, handle, threads, routes, resource guard, restart |
| `RawIngest` | what one tick does: moves, copies, synapses, rows, decay, ontology, projection, fingerprint; and the decays and builds outside it |
| `Hippocampus` | the two composed |
| `LearningDaemon_proofs`, `Hippocampus_proofs` | theorems about them |
| `ConsensusLedger_proofs` | theorems about `ConsensusLedger` |
| `BrainLinkPool_proofs`, `BrainLinkWork_proofs` | theorems about `BrainLinkPool`: what is paid, and where work is |
| `Contribution_proofs` | theorems about the composition; extends `BrainLinkWork_proofs` |
| `NumberLemmas` | least and greatest members of sets of numbers, induction for finite ones, sequences joined in the order of a set, and sums over a set |
| `MC...` | values for the runs |

`TripleStore!ImplementsLog`, `BrainLinkPool!ImplementsPool` and `ShardedMerge!ImplementsStore` are
the refinements, stated with `INSTANCE ... WITH`.

Definitions commented "A fault:" are not part of any next-state relation. Each
is a plausible bug in the definition that follows it, and replacing that
definition by it makes one of the properties fail.

### TripleStore and the code

- Ids are 0-based as in the code, sequences 1-based. `i2s` is `TermDict._i2s`,
  `col[c]` one column file, `meta` the three fields of `meta.json`. `gens` and `sorts` are the
  two files of an index generation, the permutation and the sorted column; each is given by the `s`
  column it was built from, and they are of one column unless a rebuild died between them.
- `flush` is `FlushStart` (terms), `Backfill`, `AppendCol` for s, p, o, src, and
  `FinishWrite` (meta): `pc` stands before the next write, so that `Crash` and the reader
  can come between. `FlushEmpty` is the flush of a query. `add` is `AddNew` or
  `AddDuplicate`; a full buffer (`Chunk`) goes straight to the flush.
- `turbo_ingest` is `Turbo`, then the same column appends without `Backfill`, and a
  `FinishWrite` that counts its rows and sets the flag. New terms get their ids in
  any order (`Orderings`), as `np.unique`'s order is not the order of the facts.
- `rebuild_index` is `RebuildStart` (the permutation), `RebuildSorted` (the sorted column),
  `RebuildMeta`, `RebuildUnlink`, with crashes and the reader in between; an old generation
  may survive while a reader maps it. Generations are numbered by the second: with `SameSecond` two
  rebuilds may fall in one and write over the same two files. The reader's mapped copy of files written over in that second is
  not modelled, and neither is the unversioned `s.perm.npy` of older stores.
- `audit_sweep` is `AuditStart`, `AuditColumns`, `AuditFinish`.
- `ReaderOpen` and `ReaderQuery` are the second object; its query writes
  `meta.json` once.
- `origin` and `rd.known` are history: no guard reads them.
- A write of one file is one step. A partial append and the read-modify-write of
  `meta.json` are not split.
- Row numbers above the 32-bit column range are not modelled. `KeyBase`
  stands for 1,000,003, and the de-dup key is exact arithmetic, as in Python. Two triples may share a key once
  ids reach the base; the comment "exact within int range" (`triple_store.py:164`) is true of the integers and not of the key.

### BrainLinkPool and the code

- `h[p]` is the one request of peer p that is being handled; its `pc` is the next
  step of the handler. Steps under `_LOCK` are one action; `_seed_queue` looks at the
  queue in one step and fills it in another; `burn` reads the balance in one step and appends in
  another.
- `Age` is the passing of `_RECLAIM_AFTER`; `Reclaim` runs in a claim and in the
  status poll. The rate limiter may or may not let a request pass.
- What a worker extracts is good, empty or bad. A lost reply leaves a claiming
  worker without its batch and ends a submitting worker.
- `Restart` empties the memory and keeps the files.
- `refused`, `forgotten` and `claimant` are history.

### ShardedMerge, Contribution and the code

- The model is of `ProcessShardedStore` (`ATANOR_CONTRIB_PROC_SHARDS` >= 2). The threaded store
  routes and appends in the same way, with nothing that dies or times out. A call of `accumulate` is numbered by its batch.
- `FanOut` routes the rows and starts a thread per touched shard. `SendShare` takes the pipe's lock and
  sends; the lock is `holder` till the answer, which goes to the thread that has it (`Deliver`). `Return` is the
  end of the joins: at any time, since a thread may take longer than 120 s. A thread that is late then
  may make the loop over `results` raise, and the call counts nothing.
- A worker takes the keys of its share one by one: `Deduped`, or `IndexKey` (memory and index) and
  `WriteRow`. `WriteFails` is a refused write of either file, which ends the share: memory has the key, and
  copies are refused from then on. `Kill` ends the process: nobody starts it again, and a share sent
  later is dropped (`SendShareFails`).
- `RestartStore` is a new coordinator with new workers, whose keys are those of the index.
- In `Contribution` the merge step of a submission is `CallMerge` and `EndMerge`; in between,
  time, polls, the peer's death, the shards and a restart go on. `merged` gets the batch's work if every shard answered for its share.
- `broken` is history: keys that a fault caught between memory, index and row. `credit` is what a
  batch's line in `contributions.jsonl` says, `got` and `part` are `results`.

### ConsensusLedger and the code

- A sentence states one relation; its key is the cluster of its subject and that of its
  target under the aliases known. `agg` keeps each event under the key it got
  when it was applied; `LoadAgg` applies all of them again at the start of a tick.
- `AppendIndex`, `AppendRow` and `Mark` are the three appends of one promotion.
  Truth discovery and the curated judge may hold claims back (`held`).
- `run_once` calls `promote_into` only in a tick that accepted a payload (`fed`,
  `continuous_learning.py:314`, `376`): `Record` comes before `Promote`, and a tick that accepts none ends without it.
- The CUSUM statistic is a free choice after the baseline of `MinTicks`.

### LearningDaemon, RawIngest, Hippocampus and the code

- `disk` is `state` and `desired_running` of `daemon_state.json`; `cur` is
  `_worker_thread`, `stop` is `_stop_event`, `pc` the next step of every thread and of a tick in
  a request's own thread (`Route`: `POST /tick`, and `cloud_brain.py:2649`). What a route does under `_lock` is one
  step. `stop_daemon` is four: the save under the lock (`StopBegin`), the look
  at the thread after the join (`StopJoin`), dropping the handle (`StopClear`), both without the
  lock, and the checkpoint (`StopCheckpoint`).
- Every operation saves a state and ends in `daemon_status`: `Serve` is the two
  together, with the self-healing that may start a thread and the `resume_needed` it
  reports when it may not. `lost` stands for a `replace()` refused five times: the new
  state goes to a pending file, and the rest goes by the old one. Either of the two saves may be lost, or both.
- A new thread takes any free name (`NewThread` picks one): the names are interchangeable.
- A tick is `TickBegin`, then the steps of `RawIngest`, then `TickEnd`; or `TickRaise`, which ends a worker's
  thread. `GuardedTick` is the tick that finds a resource blocker.
- `Restart` is a new process: memory is gone; the module's import may resume the daemon, and
  the API's lifespan may start it.
- `Take` looks a file up and moves it; `ReadBatch` copies it into the batch directory of its
  fingerprint, which nobody clears, and reads what is there: how labels become concepts is any of `Readings`, and two labels may
  become one. `Potentiate` writes one node or edge, after any of which `_AutoFlush` may
  commit (`db` is what is committed, `tx` what the connection sees); `Row` books the
  file; `CloseDb` commits. `Abandon` is an exception or a crash in the middle: `tx` rolls back,
  files stay where they were moved.
- Of the tables, `has` is what is in them and `rows` the booked documents; `pot` records what a
  document has added for each entry of its list, and `gone` what decayed. A node adds its `count`: how often the label
  stands in all the copies, and it stands once in each. An edge adds 1. Where several entries come out as one row, the row gets their sum.
- `Decay` removes edges that have become weak and all nodes without an edge, of booked documents too. Weights are
  left open: any set of edges may be weak. `TickDecay` is a tick's, in any tick although it is due once an hour; `OtherDecay` is
  that of `POST /daemon/decay` and `/prune`, without the lock, waiting for an open transaction.
- `Forge` is a run of the ontology: over the same files its output changes
  `Settling` times more (the moving average of the resolver's vectors), then no more. `BuildMemory`
  merges what is there into the projection.
- `OtherBuild` is a build without the lock, which may write an ontology it read before (`late`).
- `raced`, `halted` and `cut` are history.
- In `Hippocampus` every step of the daemon that needs no lock, every user and every build
  interleaves with the steps of a tick.

## 3. Runs

| Run | Expect | Shows |
|---|---|---|
| `ts_core` | pass | adds, duplicates, key collisions, flushes, retractions, index rebuilds, reopens over a fresh or legacy store, with crashes and a reader between any two writes, whose own meta write rolls back count and index of a writer that then reopens: types, exact queries of both, honest de-dup, provenance, and the refinement of `FactLog` |
| `ts_turbo` | pass | turbo batches and sweeps among adds and reopens: provenance, the flag, exactness after a sweep, no fact lost |
| `ts_torn` | violation | finding 1 |
| `ts_turbo_legacy` | violation | finding 2 |
| `ts_same_second` | violation | finding 3 |
| `pool` | pass | two workers and a coordinator that may restart: payments are backed, work is in one place, none slips away, refinement of `WorkPool` |
| `contribution` | pass | submissions merged into two shards, with late threads, a killed process or a refused write, a worker's death and a restart: batches come back, every submission is answered, credit is backed by rows, merged work is stored, and the shards together are one store without doubles (refinement of `DedupStore`) |
| `pool_orphan` | violation | finding 4 |
| `consensus` | pass | voices, aliases, rivals, a mangled sentence, freezes, holds, a crash: what is promoted was confirmed, what is marked is stored, and while payloads are accepted the store catches up with what is confirmed |
| `consensus_crash` | violation | finding 5 |
| `hippocampus` | pass | starts, stops, polls, ticks by hand, exceptions, crashes, memory pressure and lost state writes and decays around ticks over two files of one content: one worker, stops that hold, a wanted daemon that comes back, documents booked whole, synapses strengthened as often as the document was read, a projection that keeps up and comes to rest |
| `daemon_guard` | violation | finding 6 |

Bounds, and why they are enough.

- `ts_core`: two facts over three terms, two rows, one of them legacy or not, `Chunk` 2 (a flush of
  one and of two rows), two opens (one reopen after a crash), two index
  generations (one to be replaced, and unlinked under the reader): an index covers none, a part or all of the rows.
  `KeyBase` 2 is less than the number of terms: added in one order the two facts share a key, and the second is refused; in the
  other their keys differ. `CrashPoint` excludes the points inside the column appends:
  there rows are torn, which `ts_torn` shows. `SameSecond` is off, which `ts_same_second` shows.
- `ts_turbo`: a batch with an inner duplicate whose copies are not adjacent, and a batch of one fact; four rows, so that
  a sweep has rows to move. The writer closes only between operations; a crash inside a
  batch leaves unflagged duplicates, and one inside a sweep leaves mixed rows, which the code
  does not claim to survive. There is no index here: the sweep leaves the old index in
  place, and a query over it would be wrong until the next rebuild.
- `pool`: two symmetric workers, two sentences claimed one at a time, two batches:
  a batch can be reclaimed, handed out again and answered late by the first worker. One restart, after which
  workers answer for batches nobody knows; the queue is filled again only in `contribution`.
  `Genesis` 9 covers every burn; a coordinator without credits hands out batches it does not
  pay for, which the code permits. `MinSamples` 2 lets quarantine happen.
- `contribution`: one peer, and so no symmetry, which would be unsound for liveness; a second
  batch and a second filling of the queue, as after the one restart. Two shards, one key on each, two sentences that share
  a key: a batch touches both shards, the second batch meets a late thread of the first and a key that is stored or half stored.
  One fault, a kill or a refused write. Two handlers of one peer at once (its 30 s post timeout passes, it dies, is started and
  submits again while the first merge waits) are not in the model.
- `consensus`: five sentences: two of different sources whose subjects an alias equates, a rival that
  two sources say, and a mangled one that teaches an alias of two targets, after which two sentences of one
  source state the same; four events, so that any four of
  them meet. Two voices are needed, three if contested: a claim, its rival, and the aliases that
  change both keys fit into four events. One crash, at any point but between index and row (`consensus_crash`), and one
  hold. The run states fairness, so it checks `ConfirmedIsPromoted` on the same instance.
- `hippocampus`: two threads (the old one and its successor), two files of one name and content (a file
  put down twice: the second is known, or it is not when the first was cut off, and is then read beside the first one's
  copy), two labels and one edge (flushes between them; one label has no edge, so that every decay takes it), one reading of
  the labels, an ontology that settles after one more run, and two
  events, so that any two of start, stop, tick by hand, exception, crash, pressure and lost write meet, each at
  any step of a tick. All three kinds of restart. Self-healing is on: the state `resume_needed` is not reached in
  this run. Merged labels, other readings and more threads, files, links and events are covered by the theorems of section 6.
- `daemon_guard`: three events (start, pressure, restart), no files.

`MaxRows`, `MaxOpens`, `MaxGen`, `MaxSeeds`, `MaxBatches`, `MaxRestarts`, `MaxEvents`, `MaxCrashes`, `MaxHolds` and
`MaxFaults` are bounds of the model only (`Settling`, `Labels`, `Links`, `Readings` and `File` stand for data). Deadlock checking is off where the
system stops at such a bound or with all workers dead; in the consensus and daemon runs it is on.

## 4. Fairness

- `BrainLinkPool`: every handler that started runs to its end (the thread pool
  runs it, no step waits for another). Time passes, so a batch becomes stale.
  `PoolStatus` is polled every few seconds by the dashboard
  (`apps/web/app/page.tsx`), which is what brings batches back when no worker
  claims; without an open dashboard a claim of any peer does it. A started worker
  keeps looping until it dies. Nothing forces a worker to start, live, or be
  answered. `Contribution` keeps this: a merge under way ends as its joins time out, and nothing is
  assumed of the store's workers (`SubmissionsEnd` holds with dead or silent ones).
- `ConsensusLedger`: a tick that accepted a payload records its finite batch (`Record`) and
  promotes (`Promote`, strong fairness, as it may accept further payloads in between and crashes interrupt it);
  the operator clears a freeze in the end. Crashes and holds are bounded. Nothing makes ticks come or
  payloads be accepted: since `promote_into` is reached only by a tick that accepted one, `ConfirmedIsPromoted` is
  conditional on such ticks coming again and again, and claims nothing otherwise.
- `LearningDaemon`: some page asks for the status again and again (`apps/web/app/page.tsx:2506` and
  `2708` poll it, many routes call it); the worker's threads keep looping; pressure does not last
  (assumed only in `FairSpec`, for `daemon_guard`). In `Hippocampus` a tick under way goes on to
  its end; that an exception does not always come first is due to the bound on events. Nothing forces a start, a tick by hand or the relief of pressure.

## 5. Findings

1. `ts_torn`: a crash between the appends of s, p and o leaves columns of different lengths. Nothing
   compares them on reopen and only `src.col` is padded, so all later rows pair
   a subject with another row's object, although the module promises never to
   invent a fact.
2. `ts_turbo_legacy`: `turbo_ingest` looks for `_ensure_src_backfilled`, which
   no store has (the method is `_backfill_src`); over rows older than
   provenance its source ids land on those rows.
3. `ts_same_second`: generations of the index are numbered by `int(time.time())`. A second
   rebuild in the same second saves permutation and sorted column over the files `meta.json` points at; a
   crash between the two saves leaves two columns' index, and queries miss rows or answer with another subject's.
4. `pool_orphan`: a worker registers once; refused, or after a restart of the
   coordinator, it claims for ever and is answered `register_first`.
5. `consensus_crash`: the dedupe key is written before the row, and a claim is
   marked promoted even when the store refused the row as a duplicate; a
   crash in between loses the confirmed relation for good.
6. `daemon_guard`: the guard's pause promises to retry automatically. Only a living
   worker does: after a restart in `guarded_pause` self-healing leaves that state alone, and
   polls report it for ever.

Facts met while modelling, which the properties state as they are: a crash between a file's move
and its row leaves a cleaned file whose synapses are never written (only the projection gets it, `Indexed`; `Learned`
excepts it), although `LONG_RUN_STABILITY_PLAN.md:17` says a reboot loses minutes;
a decay deletes every node without an edge, those of a document booked a moment ago too, so that a booked
document need not be in the tables (`RowBacked` says it was written, and is there or decayed), and a decay by hand between two
auto-flushes may leave edges without their nodes; the batch directory of a document keeps the copies of ticks that were cut off, so
that the next reading counts its labels over all of them (`PotentiatedOnce`); `verify_sentence`'s look for a duplicate never
finds a repeated sentence, which is therefore accepted, records nothing and lets the tick promote;
a projection with nothing in it is rebuilt on every tick (`Quiesces` is about one that has something);
a write the disk refuses leaves the key in a shard worker's memory, so that copies of the row are refused until a
restart, or for good when the index has it (`broken`); and a late thread may make a merge raise, which counts nothing for rows that
are stored (`CreditIsEarned` claims no more than that nothing is counted twice or for nothing).

## 6. Proofs

`TripleStore_proofs` proves, for all values of the constants that satisfy the
named assumptions of `TripleStore` (terms, facts over them, positive source ids,
natural bounds, crash points among the values of `pc`):

- `TypeCorrect`: `Spec => []TypeOK`, turbo lane, sweeps, reader and crashes
  included. `TypeOK` is not inductive: `audit_s` filters `origin` by positions of
  rows, so `TypeInv` adds that there is one history entry per row and that a
  sweep at `audit_s` holds one row per first copy. The work is in the operators: `Keep` (`KeepType`, from
  `NthOfType`: a finite set of positions has a k-th member for each k up to its size,
  by the least number whose count reaches k), the dictionary (`InternFactType`,
  `OrderingsType`, `RowSpellsFact`), and the finiteness of a batch's terms.
- `CountCorrect`: if no sweep runs, `Spec => []CountWithinRows`. `CountInv` says by how much the
  object's count may be ahead of `s.col` at each `pc`: by the buffer until
  the s append, not at all after it, and for a turbo batch, counted last,
  there is room for the buffer. It also bounds the count a reader holds, for the
  reader writes it into `meta.json`. With sweeps the claim is false: a reader
  opened before one writes the longer count back.
- `SourceCorrect`: without turbo batches and sweeps, `Spec => []NoForeignSource`, over any legacy
  store and with crashes anywhere. `SourceInv` says that `src.col` is
  never longer than `s.col`, equal to it after the padding, and that between the s and
  the src append it lacks exactly the buffered rows' sources. `ts_core` leaves out crashes inside the
  column appends; the theorem does not. The hypothesis on turbo is needed: `ts_turbo_legacy`.

The other theorems about the store rest on one view of it. `Store` is its complete rows (rows with an
object on disk), each with its history; `ShapeInv` says at each `pc` which columns already hold the
buffer's rows and, in a sweep, which files are rewritten and that what the sweep
has in memory are the first copies. Then `ShapeStep` says that a step changes `Store` in two
ways only: the o append joins the buffer to it (`Joined`), and the first write of a
sweep leaves one row per triple (`Deduped`). The hypotheses, each named where it is used:
`WholeRows` (no crash before the p or o append, nor inside a sweep: those leave columns of different
lengths, finding 1); `NoBlanks` (no term of a fact is the empty string, which loading skips: see the
hazards); `~AuditOn` where a claim is about index or count, which a sweep leaves stale; `WholePairs` (no crash between the two saves of
a rebuild that writes over an index of the same second, finding 3). The number of terms is not bounded.

- `DistinctCorrect` (`DistinctInRun`): `RunInv` says that the rows of the object that is open and its
  buffer are different triples, all with their keys in `_seen`, which only a reopen empties.
- `SweepCorrect` (`SweepRestoresExactness`): `ShapeInv` at the last step of the sweep, with `SweptOnce`.
- `DebtCorrect` (`DebtFlagged`): `DebtInv` says that a row of a batch that repeats an older one stands only
  while `turbo_audit_pending` is on disk, which every late writer of `meta.json` keeps, or the
  batch's last write is still to come. Hypotheses: no crash before that write (a listed hazard), and legacy rows without copies.
- `StoreInventsNothing` (`NothingInvented`): `DictInv` says that the dictionary in memory extends the one on
  disk, both have one id per term, and complete rows are spelled by the one on disk, buffered rows by
  the one in memory. So terms written before rows is what matters. `ts_torn` is the same property
  with a crash that `WholeRows` excludes.
- `RefusedCorrect` (`RefusedIsHeld`): `SeenInv` says that each key in `_seen` is the key of a complete or held row: that row's fact is
  the refused one as long as ids are below the base, of which they are the digits of the key, and beyond that a fact the store holds whose key
  collides. So nothing is refused on the strength of a row that is lost, and collisions are the only other reason.
- `QueryCorrect` (`QueryExact`): `IndexInv` says that the permutation and the sorted column of a generation were
  built from prefixes of `s.col`, whatever the counts say, and from one, except while a rebuild that writes over
  them stands between its saves: bisection finds what is in the prefix, and the tail after it is scanned.
- `ReaderCorrect` (`ReaderAgrees`): `ReaderInv` says that the reader's dictionary is a prefix of the one on disk and
  that what it knew when it opened are facts of complete rows. With two rebuilds in one second it would be false: the reader
  may look between the two saves, so `~SameSecond` is a hypothesis.
- `StoreImplementsLog`: `Spec => ImplementsLog`. `LogInv` ties the refinement mapping to `Store`: what is durable is what the
  complete rows spell, even while a sweep has them in memory only. Each step is a step of `FactLog` or a
  stutter: `Joined` makes all that is pending durable at once, `Deduped` changes no fact.

`LearningDaemon_proofs`, for any threads, restarts and bound, crashes included:

- `DaemonTypes`, `DaemonOneWorker`, `DaemonStopHolds`: `Spec => []TypeOK`, `[]OneWorker`,
  `[]StopHolds`. `OneWorker` is not inductive: `StopClear` drops the handle on the
  strength of what `StopJoin` saw one step earlier, without the lock. `DaemonInv` adds `Dropping`:
  while a stop stands before that step no thread is alive, unless one was started meanwhile (`raced`).
  `ServeKeepsInv` and `LaunchKeepsInv` carry it through everything that ends in `daemon_status` or spawns.

`Hippocampus_proofs`, for any files, names, fragments and settling time besides:

- `HippoImplementsDaemon`: `HippoSpec => Spec`. Each composed step is a step of the daemon or
  leaves it alone, so the three theorems hold of the composed system (`HippoStopsAndWorkers`).
- `HippoIngestTypes`: `[]IngestTypeOK`. `IngestTypes` adds what is in hand: a writing tick has one
  file, a raw file is still to do, a moved one is cleaned, and outside the loop nothing is
  uncommitted; `LockLink` ties the tick to the lock.
- `HippoRowBacked`: `[]RowBacked`. `RowInv` says the same of the open transaction, since any
  flush may commit it, that the file in hand has its nodes and edges up to where it is, and that a
  row once written is in the tables or was taken by a decay (`DecayStep`).
- `HippoPotentiatedOnce`: `[]PotentiatedOnce`. `OnceInv` charges every addition of the
  open transaction to a booked document, to the file in hand, or to a cut file (`Spent`, `AtMostOnce`, `Ahead`); what is not
  committed concerns files this tick moved, so that a tick cut off pays with a new cut file. `Batched`: the copies in a batch directory
  are of cut files, and that of the file in hand, so the n-th reading adds n at most, and `Bound` adds these up (`BoundGrows`).
- `HippoCurrentWhenSeen`: `[]CurrentWhenSeen`. Fingerprints are partially ordered (`Older`, `OlderOrder`): files are
  added and move on, and the ontology does not go back. No step makes inputs older (`InputsGrow`), so a saved fingerprint that
  fits fitted all the time since, and the projection it vouched for has only grown. `Done` is a tick that decided
  not to build, or has built: if its fingerprint fits, the projection is up to date, decay or not.

`ConsensusLedger_proofs`, for any sentences, voices, alias pairs, thresholds and bounds:

- The clusters of aliases are the classes of an equivalence (`ClusterSame`) that only grows
  (`ClusterGrows`), so a key written under fewer aliases still fits its sentence (`Fits`, `FitsGrows`)
  and equal keys stay equal (`KeyKept`).
- `LedgerTypes`, `LedgerEnoughVoices`: `Spec => []TypeOK`, `[]EnoughVoices`, with crashes at any point.
  `LedgerInv` adds that a tick's objects say what the files say (`Synced`), that every entry of the
  aggregate is a recorded event under a key that fits (`AggFits`), and that what is left to write has
  its voices (`TodoEnough`); then the voices of a key are among those on record (`VoicesRecorded`), a finite set that only grows (`MoreVoices`).
- `LedgerPromotedIsStored`: if `"row"` is not a crash point, `Spec => []PromotedIsStored`. `StoredInv`
  adds that an entry of the dedupe index has its row or is the row at hand (`IndexBacked`), that a key
  is marked after its row (`MarkBacked`), and the claim itself in terms of `Fits`. The hypothesis is needed: `consensus_crash`.

`BrainLinkPool_proofs`, for any finite set of peers and any restarts:

- `PoolPaysOnce`: if the requester's grant covers every batch (`EnoughCredits`), `Spec => []MintsAreBacked`.
  `PayInv` follows a batch through the handlers: numbers are given out in order and never
  again (`Numbered`, `RoomLeft`); a batch in flight is unpaid, and burned or in the hands of the claim that is about to
  burn it (`Owed`); a submission that has popped its batch has it for good, burned, and unpaid up to
  the mint (`Settling`). So a reclaim may race a submission, for the pop decides, and a restart drops what is in
  flight without losing what is booked. The steps that hand out and pay nothing are one lemma (`QuietStep`).
  Without the hypothesis the claim is false: `burn` returns `False` when the balance is short, which nobody looks at, and the work is paid all the same.

`BrainLinkWork_proofs`, for any finite set of peers, corpus and restarts, credits short or not:

- `PoolTypes`: `Spec => []TypeOK`. `TypeInv` adds `Holding`: a handler that pays for a batch or settles it has it
  from its own peer, and a settled batch is out of flight for good.
- `WorkIsInOnePlace`, `NoWorkSlipsAway`: `[]OnePlace`, `[]NothingSlipsAway`. Both follow from `PlaceInv`: queue,
  batches in flight, handlers' submissions and what is gone are disjoint, no
  sequence holds a piece twice, and together they are exactly what was read from the corpus. `StaleFrontHas` is
  the hard lemma: the work of reclaimed batches, which a recursive function joins, is that of the batches, each piece once.
- `CoordinatorImplementsPool`: `Spec => ImplementsPool`, one lemma per action. The abstract pool is bounded by
  the room for fillings; as `_seed_queue` looks in one step and fills in another, `SeedRoom` counts the handlers that
  saw room and have not filled yet.

`Contribution_proofs`, for any peers, keys, routing, shards and calls:

- `StoreInvariant`, `ShardsAreOneStore`: `ContribSpec => ImplementsStore`. `StoreInv` says that memory contains the
  index and the index the keys that have rows, that the key in hand is indexed and has no row yet, and that requests and index hold
  only keys routed to the shard (`Hash` is a function of the key, so no other shard has them). `WriteRow` is then the abstract `Add`
  (`WriteRowDoes`), and every other step, the coordinator's too, leaves the files alone (`FilesStay`).
- `StoreTypes`, `MergedWorkIsStored`, `CreditIsForRows`: `[]MergeTypeOK`, `[]MergedIsStored`, `[]CreditIsEarned`.
  `ContribInv` adds to the coordinator's invariants and `StoreInv`: in each shard (`ShardInv`) the pipe carries the request of the
  thread with its lock; a key the worker remembers, or has taken of a request, has its row unless a fault caught it; and
  what it says it added for a call are rows of that call. Of calls: a batch's call starts once, after the batch left flight for good
  (`CallsStarted`), and its bundle is its handler's work (`CallsOfWork`). Of the books (`Counted`): a batch's credit
  and the totals are at most the rows of its call and of the calls returned. The sum over shards of what came back is compared with the
  rows shard by shard (`SumBelow`).

Each is proved as initial states, steps (one case per action) and a last step
by PTL. There are no assumptions beyond the named `ASSUME`s of the modules, which TLC
evaluates in the runs, and the hypotheses named.

`NumberLemmas` carries the two places where the model computes over data. The library's induction theorems
cannot be used, but a set of numbers has a least member, which gives an induction on sets
(`NatSetInduction`); with it the existence of the function that joins sequences (`JoinsExist`) or adds up
values (`SumExists`) is proved, and the `CHOOSE` behind a recursive function or `MapThenSumSet` picks it.

So every safety property and refinement of a passing run is a theorem, `NothingInvented` of
`ts_torn` and `PromotedIsStored` of `consensus_crash` hold under hypotheses that exclude those crashes, and what
stays model-checked is:

- liveness: `BatchesComeBack`, `SubmissionsEnd`, `ConfirmedIsPromoted`, `DesiredRuns`, `StopTakesEffect`,
  `Learned`, `Indexed`, `Quiesces`. They rest on fairness, whose ENABLED is out of the prover's reach.
- The cases the hypotheses leave out: `NoForeignSource` with turbo batches and sweeps over a store without legacy
  rows is checked by `ts_turbo` only, and credits that run short have no claim about payment.

No module declares a RECURSIVE operator.

## 7. Plan

Order of the work, the most important behaviour first.

1. Done: triple store with turbo and reader, coordinator with economy and worker, consensus
   gate with the relations of the verified store; learning daemon with its ingest and decay, composed; the
   sharded merge store composed with the coordinator; the theorems above.
2. To model: a restart with another number of shards; `JobEscrow` and
   reputation in `render_economy.py`; collections and manifest of the verified store; the semantic
   store and compaction over the triple store; the sqlite term dictionary; the cloud broker's
   rate limits. In `TripleStore`: an index over a swept store, and the
   read-modify-write of `meta.json` as two steps. To compose: two ledgers' clients (the learning
   loop and the coordinator's merge) over one verified store. Around the daemon: the weights of synapses, the
   web seed feeder, and the watcher's loop with its pending paths (composed with the ticks it makes
   millions of states; `OtherBuild` stands for its effect).
3. To prove: `NoForeignSource` for turbo batches over stores without legacy rows; `WholeRows` narrowed
   to the crashes of a sweep that matter (one before its first write, or before its last, does no harm);
   `QueryExact` and `ReaderAgrees` for stores that were swept, once the model has an index over them.

## 8. Not modelled, and why

`PROJECT.json` lists every component with its reason. Within the modelled ones: the strings of
terms and sources, the predicate filter and limit of a query, partial appends of
one file, HTTP signatures, proof of work and challenges, reputation tiers, the
arithmetic of the drift statistic and of truth discovery, and the wording of answers. In the merge: rows `_validate_common`
refuses, which are dropped silently, `flush_manifests` and `close` (no caller in the program), the
manifests, a worker of a killed coordinator that is still merging beside its successor. In the daemon: the weights of
synapses, Neo4j, the web seed feeder, checkpoint files, timing, how concepts are extracted and resolved, and the error path of `_read_state`
(`learning_daemon.py:170-171`): a file that cannot be read counts as the default state; temporary file and `replace` leave none that is torn.
