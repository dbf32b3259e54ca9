----------------------------- MODULE TripleStore -----------------------------
(***************************************************************************)
(* The integer-columnar triple store of packages/graph_scale: a term       *)
(* dictionary (terms.txt), four parallel column files (s, p, o and the     *)
(* provenance column src), meta.json, the versioned subject index and the  *)
(* retraction log, written by one process and read by another over the     *)
(* same directory.  A flush is several file writes, so the writer may die, *)
(* and the reader may look, between any two of them.                       *)
(***************************************************************************)
EXTENDS Integers, Sequences, FiniteSets

CONSTANTS
    Term,          \* the strings facts are made of
    Blank,         \* the empty string: what term(i) returns for an unknown id
    Fact,          \* the (subject, predicate, object) triples callers may add
    Source,        \* ids of registered sources; 0 is the legacy tier
    Legacy,        \* rows a store written before provenance starts with
    TurboBatch,    \* the batches turbo_ingest may be given
    KeyBase,       \* multiplier of the de-dup key: 1_000_003 in the code
    Chunk,         \* _CHUNK: buffered rows that force a flush
    CrashPoint,    \* values of pc at which the writer may die
    AuditOn,       \* whether audit_sweep is run
    ReaderOn,      \* whether a second process reads the store
    Retractable,   \* the facts callers may retract
    SameSecond,    \* whether two rebuilds may fall in one second
    MaxRows, MaxOpens, MaxGen   \* bounds of the model

Column == {"s", "p", "o", "src"}
FlushPC == {"terms", "backfill", "s", "p", "o", "src", "meta"}
AuditPC == {"audit_s", "audit_p", "audit_o", "audit_src", "audit_meta"}
ReindexPC == {"reindex_sorted", "reindex_meta", "reindex_unlink"}
PC == {"down", "idle"} \cup ReindexPC \cup FlushPC \cup AuditPC

ASSUME TermAssumption == Blank \in Term
ASSUME FactAssumption == Fact \subseteq Term \X Term \X Term
ASSUME SourceAssumption == Source \subseteq Nat \ {0}
ASSUME LegacyAssumption == Legacy \subseteq Seq(Fact)
ASSUME BatchAssumption == TurboBatch \subseteq Seq(Fact)
ASSUME BoundAssumption ==
    /\ KeyBase \in Nat \ {0} /\ Chunk \in Nat \ {0}
    /\ MaxRows \in Nat /\ MaxOpens \in Nat /\ MaxGen \in Nat
    /\ AuditOn \in BOOLEAN /\ ReaderOn \in BOOLEAN /\ SameSecond \in BOOLEAN
    /\ Retractable \subseteq Fact
    /\ CrashPoint \subseteq PC \ {"down"}

VARIABLES
    (* ---- files under the store's root ---- *)
    termsFile,     \* terms.txt: the term of id i on line i + 1
    col,           \* s.col, p.col, o.col and src.col: sequences of ids
    meta,          \* meta.json: row count, index_ts (0: absent), turbo_audit_pending
    gens,          \* s.perm.<ts>: the s column each is the argsort of
    sorts,         \* s.sorted.<ts>: the s column each is the sorted copy of
    tomb,          \* retractions.jsonl
    (* ---- the writer's TripleStore object ---- *)
    i2s,           \* TermDict._i2s
    buf,           \* _buf_s.._buf_src, or the rows a turbo batch or a sweep holds
    seen,          \* _seen: keys of the triples added by this object
    count,         \* _count
    written,       \* _meta_count_written (-1: not set yet)
    indexTs,       \* _index_ts
    pc, mode,      \* where in flush, turbo_ingest, rebuild_index or audit_sweep it is
    opens,         \* how often the store was opened for writing
    (* ---- the reader's TripleStore object ---- *)
    rd,            \* its dictionary, count, index_ts, whether it wrote meta yet,
                   \* and (history) the facts stored when it was opened
    (* ---- history ---- *)
    origin         \* for each row of s.col: its source, and the object that added it

disk == <<termsFile, col, meta, gens, sorts, tomb>>
ram  == <<i2s, buf, seen, count, written, indexTs>>
vars == <<disk, ram, pc, mode, opens, rd, origin>>
-----------------------------------------------------------------------------
(* The term dictionary.  Ids are 0-based, sequences 1-based. *)

Ran(q) == {q[i] : i \in DOMAIN q}

TermOf(dict, id) == IF id + 1 \in DOMAIN dict THEN dict[id + 1] ELSE Blank

IdOf(dict, t) == (CHOOSE i \in DOMAIN dict : dict[i] = t) - 1

Intern(dict, t) == IF t \in Ran(dict) THEN dict ELSE Append(dict, t)

InternFact(dict, f) == Intern(Intern(Intern(dict, f[1]), f[2]), f[3])

(* The elements of q at the positions in S, in order. *)
NthOf(S, k) == CHOOSE i \in S : Cardinality({j \in S : j <= i}) = k

Keep(q, S) ==
    IF S = DOMAIN q THEN q ELSE [k \in 1..Cardinality(S) |-> q[NthOf(S, k)]]

(* Loading skips empty lines, except on the first line. *)
LoadTerms(lines) == Keep(lines, {i \in DOMAIN lines : i = 1 \/ lines[i] # Blank})

(* The exact-arithmetic key of the de-dup set. *)
TriKey(s, p, o) == (s * KeyBase + p) * KeyBase + o

Row(dict, f, src) ==
    [s |-> IdOf(dict, f[1]), p |-> IdOf(dict, f[2]), o |-> IdOf(dict, f[3]), src |-> src]

FactOf(dict, s, p, o) == <<TermOf(dict, s), TermOf(dict, p), TermOf(dict, o)>>

Zeros(n) == [i \in 1..n |-> 0]

(* np.unique(..., return_index) then sort: the first copy of every row, in order. *)
FirstsAdjacent(q) == {i \in DOMAIN q : i > 1 => q[i - 1] # q[i]}

Firsts(q) == {i \in DOMAIN q : \A j \in 1..(i - 1) : q[j] # q[i]}

Distinct(q) == Keep(q, Firsts(q))

(* History: rows not added through add belong to no run. *)
LegacyOrigin == [src |-> 0, run |-> 0]
-----------------------------------------------------------------------------
(* Queries: open_columns, _index, _subject_rows, _facts_about_raw, facts_about. *)

Max2(a, b) == IF a > b THEN a ELSE b

Rows == Len(col["s"])

(* Both files of the generation meta.json points at exist. *)
Indexed == meta.index \in DOMAIN gens \cap DOMAIN sorts

(* Where the stable argsort of q puts row i. *)
Rank(q, i) == Cardinality({j \in DOMAIN q : q[j] < q[i] \/ (q[j] = q[i] /\ j <= i)})

(* searchsorted over the sorted copy of q, from the left and the right. *)
SearchLeft(q, id) == Cardinality({j \in DOMAIN q : q[j] < id})
SearchRight(q, id) == Cardinality({j \in DOMAIN q : q[j] <= id})

(* A fault: the bisection from the left starts behind the first match. *)
BisectLate(perm, sorted, id) ==
    {i \in DOMAIN perm : Rank(perm, i) \in (SearchLeft(sorted, id) + 2)..SearchRight(sorted, id)}

(* perm[lo:hi]: the bisection runs over one file, the rows come from the   *)
(* other, so they are the subject's rows only if both belong together.     *)
Bisect(perm, sorted, id) ==
    {i \in DOMAIN perm : Rank(perm, i) \in (SearchLeft(sorted, id) + 1)..SearchRight(sorted, id)}

Scan(from, id) == {i \in from..Rows : col["s"][i] = id}

(* A fault: the tail scan starts one row late. *)
SubjectRowsLateTail(id) ==
    IF Indexed
    THEN Bisect(gens[meta.index], sorts[meta.index], id)
           \cup Scan(Len(gens[meta.index]) + 2, id)
    ELSE Scan(1, id)

(* Rows of a subject: the indexed head, then a scan of the tail. *)
SubjectRows(id) ==
    IF Indexed
    THEN Bisect(gens[meta.index], sorts[meta.index], id)
           \cup Scan(Len(gens[meta.index]) + 1, id)
    ELSE Scan(1, id)

(* What a query through the dictionary dict returns for a subject; a row   *)
(* whose p or o is not on disk yet raises IndexError in numpy.             *)
QueryFails(dict, t) ==
    t \in Ran(dict) /\ \E i \in SubjectRows(IdOf(dict, t)) :
        i > Len(col["p"]) \/ i > Len(col["o"])

FactsAbout(dict, t) ==
    IF t \notin Ran(dict) THEN {}
    ELSE {<<t, TermOf(dict, col["p"][i]), TermOf(dict, col["o"][i])>> :
             i \in SubjectRows(IdOf(dict, t))} \ tomb

(* The facts the complete rows of the files spell. *)
StoredFacts ==
    LET dict == LoadTerms(termsFile)
    IN  {FactOf(dict, col["s"][i], col["p"][i], col["o"][i]) : i \in 1..Len(col["o"])}
-----------------------------------------------------------------------------
(* The rows in memory that a flush, a turbo batch or a sweep writes. *)
BufCol(c) == [i \in 1..Len(buf) |-> buf[i][c]]

BufOrigin ==
    [i \in 1..Len(buf) |->
        [src |-> buf[i].src, run |-> IF mode = "turbo" THEN 0 ELSE opens]]

(* _write_meta: the object's own count and index_ts, the audit flag kept. *)
MetaOf(n, ts, audit) == [count |-> n, index |-> ts, audit |-> audit]

Reader == [up : BOOLEAN, dict : Seq(Term), count : Nat, index : Nat, wrote : BOOLEAN,
           known : SUBSET (Term \X Term \X Term)]

NoReader == [up |-> FALSE, dict |-> <<>>, count |-> 0, index |-> 0, wrote |-> FALSE,
             known |-> {}]

(* Every order in which a batch's new terms may be given their ids. *)
Orderings(S) ==
    {q \in [1..Cardinality(S) -> S] :
        /\ \A i, j \in DOMAIN q : q[i] = q[j] => i = j
        /\ \A t \in S : \E i \in DOMAIN q : q[i] = t}

TermsOf(batch) == {batch[i][j] : i \in DOMAIN batch, j \in 1..3}

(* A fresh directory, or a store written before provenance existed. *)
Init ==
    /\ \E old \in Legacy \cup {<<>>} : \E dict \in Orderings(TermsOf(old)) :
        /\ termsFile = dict
        /\ col = [c \in Column |->
                    IF c = "src" THEN <<>>
                    ELSE [i \in 1..Len(old) |-> Row(dict, old[i], 0)[c]]]
        /\ meta = MetaOf(Len(old), 0, FALSE)
        /\ origin = [i \in 1..Len(old) |-> LegacyOrigin]
    /\ gens = <<>> /\ sorts = <<>> /\ tomb = {}
    /\ i2s = <<>> /\ buf = <<>> /\ seen = {}
    /\ count = 0 /\ written = -1 /\ indexTs = 0
    /\ pc = "down" /\ mode = "flush" /\ opens = 0
    /\ rd = NoReader

-----------------------------------------------------------------------------
(* The writer's operations *)

(* __init__: dictionary, count and index_ts come from the files, the       *)
(* de-dup set starts empty.                                                *)
Open ==
    /\ pc = "down" /\ opens < MaxOpens
    /\ i2s' = LoadTerms(termsFile)
    /\ buf' = <<>> /\ seen' = {}
    /\ count' = meta.count /\ written' = -1 /\ indexTs' = meta.index
    /\ pc' = "idle" /\ mode' = "flush" /\ opens' = opens + 1
    /\ UNCHANGED <<disk, rd, origin>>

(* The writer dies between two file writes. *)
Crash ==
    /\ pc \in CrashPoint
    /\ i2s' = <<>> /\ buf' = <<>> /\ seen' = {}
    /\ count' = 0 /\ written' = -1 /\ indexTs' = 0
    /\ pc' = "down" /\ mode' = "flush"
    /\ UNCHANGED <<disk, opens, rd, origin>>

(* A fault: the key of an added triple is not remembered. *)
AddForgetsKey(f, src) ==
    /\ pc = "idle" /\ Rows + Len(buf) < MaxRows
    /\ LET dict == InternFact(i2s, f)
           row  == Row(dict, f, src)
       IN  /\ TriKey(row.s, row.p, row.o) \notin seen
           /\ i2s' = dict /\ buf' = Append(buf, row) /\ count' = count + 1
           /\ pc' = IF Len(buf) + 1 >= Chunk THEN "terms" ELSE pc
    /\ UNCHANGED <<disk, seen, written, indexTs, mode, opens, rd, origin>>

(* add, for a triple whose key is new; a full buffer is flushed at once.   *)
AddNew(f, src) ==
    /\ pc = "idle" /\ Rows + Len(buf) < MaxRows
    /\ LET dict == InternFact(i2s, f)
           row  == Row(dict, f, src)
           k    == TriKey(row.s, row.p, row.o)
       IN  /\ k \notin seen
           /\ i2s' = dict
           /\ seen' = seen \cup {k}
           /\ buf' = Append(buf, row)
           /\ count' = count + 1
           /\ pc' = IF Len(buf) + 1 >= Chunk THEN "terms" ELSE pc
           /\ mode' = "flush"
    /\ UNCHANGED <<disk, written, indexTs, opens, rd, origin>>

(* add, for a triple refused as a duplicate: only its terms are interned. *)
AddDuplicate(f) ==
    /\ pc = "idle"
    /\ LET dict == InternFact(i2s, f)
           row  == Row(dict, f, 0)
       IN  /\ TriKey(row.s, row.p, row.o) \in seen
           /\ i2s' = dict
    /\ UNCHANGED <<disk, buf, seen, count, written, indexTs, pc, mode, opens, rd, origin>>

(* A fault: meta.json is written before the columns it counts. *)
FlushStartMetaFirst ==
    /\ pc = "terms" \/ (pc = "idle" /\ buf # <<>>)
    /\ termsFile' = i2s /\ written' = count
    /\ meta' = MetaOf(count, indexTs, meta.audit)
    /\ pc' = "backfill" /\ mode' = "flush"
    /\ UNCHANGED <<col, gens, sorts, tomb, i2s, buf, seen, count, indexTs, opens, rd, origin>>

(* A fault: the dictionary is not flushed with the rows that use it. *)
FlushStartNoTerms ==
    /\ pc = "terms" \/ (pc = "idle" /\ buf # <<>>)
    /\ written' = count
    /\ pc' = "backfill" /\ mode' = "flush"
    /\ UNCHANGED <<disk, i2s, buf, seen, count, indexTs, opens, rd, origin>>

(* A fault: the buffers are emptied before they are written. *)
FlushStartClears ==
    /\ pc = "terms" \/ (pc = "idle" /\ buf # <<>>)
    /\ termsFile' = i2s /\ written' = count /\ buf' = <<>>
    /\ pc' = "backfill" /\ mode' = "flush"
    /\ UNCHANGED <<col, meta, gens, sorts, tomb, i2s, seen, count, indexTs, opens, rd, origin>>

(* flush with buffered rows: the new terms first. *)
FlushStart ==
    /\ pc = "terms" \/ (pc = "idle" /\ buf # <<>>)
    /\ termsFile' = i2s
    /\ written' = count
    /\ pc' = "backfill" /\ mode' = "flush"
    /\ UNCHANGED <<col, meta, gens, sorts, tomb, i2s, buf, seen, count, indexTs, opens, rd, origin>>

(* A fault: a flush for a query forgets that a sweep is pending. *)
FlushEmptyErasesDebt ==
    /\ pc = "idle" /\ buf = <<>> /\ written # count
    /\ termsFile' = i2s
    /\ meta' = MetaOf(count, indexTs, FALSE)
    /\ written' = count
    /\ UNCHANGED <<col, gens, sorts, tomb, i2s, buf, seen, count, indexTs, pc, mode, opens, rd, origin>>

(* flush with nothing buffered, as queries and rebuild_index call it. *)
FlushEmpty ==
    /\ pc = "idle" /\ buf = <<>> /\ written # count
    /\ termsFile' = i2s
    /\ meta' = MetaOf(count, indexTs, meta.audit)
    /\ written' = count
    /\ UNCHANGED <<col, gens, sorts, tomb, i2s, buf, seen, count, indexTs, pc, mode, opens, rd, origin>>

(* A fault: src.col is left as short as it is. *)
BackfillNothing ==
    /\ pc = "backfill" /\ pc' = "s"
    /\ UNCHANGED <<disk, ram, mode, opens, rd, origin>>

(* A fault: unknown sources are marked -1. *)
BackfillMinusOne ==
    /\ pc = "backfill" /\ pc' = "s"
    /\ col' = [col EXCEPT !["src"] = @ \o [i \in 1..Max2(Rows - Len(@), 0) |-> -1]]
    /\ UNCHANGED <<termsFile, meta, gens, sorts, tomb, ram, mode, opens, rd, origin>>

(* _backfill_src: src.col gets a legacy id for every row of s.col it lacks. *)
Backfill ==
    /\ pc = "backfill" /\ pc' = "s"
    /\ col' = [col EXCEPT !["src"] = @ \o Zeros(Max2(Rows - Len(@), 0))]
    /\ UNCHANGED <<termsFile, meta, gens, sorts, tomb, ram, mode, opens, rd, origin>>

(* One column file is appended to; the order is s, p, o, src. *)
AppendCol(c, next) ==
    /\ pc = c /\ pc' = next
    /\ col' = [col EXCEPT ![c] = @ \o BufCol(c)]
    /\ origin' = IF c = "s" THEN origin \o BufOrigin ELSE origin
    /\ UNCHANGED <<termsFile, meta, gens, sorts, tomb, ram, mode, opens, rd>>

AppendColumns ==
    \/ AppendCol("s", "p")
    \/ AppendCol("p", "o")
    \/ AppendCol("o", "src")
    \/ AppendCol("src", "meta")

(* The end of flush, and of turbo_ingest, which counts its rows only now   *)
(* and leaves the audit flag behind.                                       *)
FinishWrite ==
    /\ pc = "meta" /\ pc' = "idle"
    /\ count' = IF mode = "turbo" THEN count + Len(buf) ELSE count
    /\ meta' = MetaOf(count', indexTs, meta.audit \/ mode = "turbo")
    /\ buf' = <<>>
    /\ UNCHANGED <<termsFile, col, gens, sorts, tomb, i2s, seen, written, indexTs, mode, opens, rd, origin>>

(* A fault: the batch's new terms stay in memory. *)
TurboKeepsTerms(batch, src) ==
    /\ pc = "idle" /\ buf = <<>> /\ written = count
    /\ Rows + Len(Distinct(batch)) <= MaxRows
    /\ \E new \in Orderings(TermsOf(batch) \ Ran(i2s)) :
        LET dict == i2s \o new
            kept == Distinct(batch)
        IN  /\ i2s' = dict
            /\ buf' = [i \in DOMAIN kept |-> Row(dict, kept[i], src)]
    /\ pc' = "s" /\ mode' = "turbo"
    /\ UNCHANGED <<disk, seen, count, written, indexTs, opens, rd, origin>>

(* turbo_ingest: the batch's terms are interned and flushed, then its rows *)
(* are appended without the de-dup set and without _backfill_src.          *)
Turbo(batch, src) ==
    /\ pc = "idle" /\ buf = <<>> /\ written = count
    /\ Rows + Len(Distinct(batch)) <= MaxRows
    /\ \E new \in Orderings(TermsOf(batch) \ Ran(i2s)) :
        LET dict == i2s \o new
            kept == Distinct(batch)
        IN  /\ i2s' = dict
            /\ termsFile' = dict
            /\ buf' = [i \in DOMAIN kept |-> Row(dict, kept[i], src)]
    /\ pc' = "s" /\ mode' = "turbo"
    /\ UNCHANGED <<col, meta, gens, sorts, tomb, seen, count, written, indexTs, opens, rd, origin>>

(* retract: the tombstone is durable at once. *)
Retract(f) ==
    /\ pc = "idle" /\ tomb' = tomb \cup {f}
    /\ UNCHANGED <<termsFile, col, meta, gens, sorts, ram, pc, mode, opens, rd, origin>>

(* rebuild_index: the two files of a new generation are saved, then       *)
(* meta.json points at it, then old generations go unless a live reader    *)
(* still maps them.  The clock's second numbers the generation, so two     *)
(* rebuilds within one second write over the same two files.               *)
RebuildStart(ts) ==
    /\ pc = "idle" /\ buf = <<>> /\ written = count
    /\ \A old \in DOMAIN gens : old < ts \/ (SameSecond /\ old = ts)
    /\ gens' = [t \in DOMAIN gens \cup {ts} |-> IF t = ts THEN col["s"] ELSE gens[t]]
    /\ indexTs' = ts
    /\ pc' = "reindex_sorted"
    /\ UNCHANGED <<termsFile, col, meta, sorts, tomb, i2s, buf, seen, count, written,
                   mode, opens, rd, origin>>

RebuildSorted ==
    /\ pc = "reindex_sorted" /\ pc' = "reindex_meta"
    /\ sorts' = [t \in DOMAIN sorts \cup {indexTs} |->
                    IF t = indexTs THEN col["s"] ELSE sorts[t]]
    /\ UNCHANGED <<termsFile, col, meta, gens, tomb, ram, mode, opens, rd, origin>>

RebuildMeta ==
    /\ pc = "reindex_meta" /\ pc' = "reindex_unlink"
    /\ meta' = MetaOf(count, indexTs, meta.audit)
    /\ UNCHANGED <<termsFile, col, gens, sorts, tomb, ram, mode, opens, rd, origin>>

RebuildUnlink ==
    /\ pc = "reindex_unlink" /\ pc' = "idle"
    /\ \E kept \in SUBSET DOMAIN gens :
        /\ indexTs \in kept
        /\ rd.up \/ kept = {indexTs}
        /\ gens' = [t \in kept |-> gens[t]]
        /\ sorts' = [t \in kept \cap DOMAIN sorts |-> sorts[t]]
    /\ UNCHANGED <<termsFile, col, meta, tomb, ram, mode, opens, rd, origin>>

-----------------------------------------------------------------------------
(* audit_sweep: the first copy of every triple is kept, in file order, and *)
(* the four columns are rewritten in place, one file after the other.      *)

Triple(i) == <<col["s"][i], col["p"][i], col["o"][i]>>

FirstCopies == Firsts([i \in 1..Rows |-> Triple(i)])

SrcAt(i) == IF i <= Len(col["src"]) THEN col["src"][i] ELSE 0

RowAt(i) == [s |-> col["s"][i], p |-> col["p"][i], o |-> col["o"][i], src |-> SrcAt(i)]

(* A fault: the sources are compacted without regard to the rows kept. *)
SweptRowsUnaligned ==
    [k \in 1..Cardinality(FirstCopies) |->
        [RowAt(NthOf(FirstCopies, k)) EXCEPT !.src = SrcAt(k)]]

SweptRows == Keep([i \in 1..Rows |-> RowAt(i)], FirstCopies)

AuditStart ==
    /\ AuditOn
    /\ pc = "idle" /\ buf = <<>> /\ written = count
    /\ \A c \in Column : col[c] # <<>>
    /\ Len(col["p"]) >= Rows /\ Len(col["o"]) >= Rows
    /\ buf' = SweptRows
    /\ mode' = IF Len(SweptRows) < Rows THEN "sweep" ELSE "clean"
    /\ pc' = IF Len(SweptRows) < Rows THEN "audit_s" ELSE "audit_meta"
    /\ UNCHANGED <<disk, i2s, seen, count, written, indexTs, opens, rd, origin>>

(* origin follows the rows the sweep keeps. *)
RewriteCol(at, c, next) ==
    /\ pc = at /\ pc' = next
    /\ col' = [col EXCEPT ![c] = BufCol(c)]
    /\ origin' = IF c = "s" THEN Keep(origin, FirstCopies) ELSE origin
    /\ UNCHANGED <<termsFile, meta, gens, sorts, tomb, ram, mode, opens, rd>>

AuditColumns ==
    \/ RewriteCol("audit_s", "s", "audit_p")
    \/ RewriteCol("audit_p", "p", "audit_o")
    \/ RewriteCol("audit_o", "o", "audit_src")
    \/ RewriteCol("audit_src", "src", "audit_meta")

AuditFinish ==
    /\ pc = "audit_meta" /\ pc' = "idle"
    /\ count' = IF mode = "sweep" THEN Len(buf) ELSE count
    /\ meta' = MetaOf(count', indexTs, FALSE)
    /\ buf' = <<>>
    /\ UNCHANGED <<termsFile, col, gens, sorts, tomb, i2s, seen, written, indexTs, mode, opens, rd, origin>>
-----------------------------------------------------------------------------
(* The reader: a second TripleStore over the same root (answer_bridge) *)

ReaderOpen ==
    /\ ReaderOn
    /\ rd' = [up |-> TRUE, dict |-> LoadTerms(termsFile), count |-> meta.count,
              index |-> meta.index, wrote |-> FALSE, known |-> StoredFacts]
    /\ UNCHANGED <<disk, ram, pc, mode, opens, origin>>

(* Its first query flushes, and so writes meta.json from its own fields. *)
ReaderQuery ==
    /\ rd.up /\ ~rd.wrote
    /\ meta' = MetaOf(rd.count, rd.index, meta.audit)
    /\ rd' = [rd EXCEPT !.wrote = TRUE]
    /\ UNCHANGED <<termsFile, col, gens, sorts, tomb, ram, pc, mode, opens, origin>>
-----------------------------------------------------------------------------
Next ==
    \/ Open \/ Crash
    \/ \E f \in Fact, src \in Source \cup {0} : AddNew(f, src)
    \/ \E f \in Fact : AddDuplicate(f)
    \/ FlushStart \/ FlushEmpty \/ Backfill \/ AppendColumns \/ FinishWrite
    \/ \E batch \in TurboBatch, src \in Source \cup {0} : Turbo(batch, src)
    \/ \E f \in Retractable : Retract(f)
    \/ (\E ts \in 1..MaxGen : RebuildStart(ts)) \/ RebuildSorted \/ RebuildMeta \/ RebuildUnlink
    \/ AuditStart \/ AuditColumns \/ AuditFinish
    \/ ReaderOpen \/ ReaderQuery

Spec == Init /\ [][Next]_vars
-----------------------------------------------------------------------------
(* Properties *)

RowType == [s : Nat, p : Nat, o : Nat, src : Nat]

(* Every file and field holds values of its type (the dictionary, columns, *)
(* meta.json, index generations and both objects).                         *)
TypeOK ==
    /\ termsFile \in Seq(Term) /\ i2s \in Seq(Term)
    /\ col \in [Column -> Seq(Nat)]
    /\ meta \in [count : Nat, index : Nat, audit : BOOLEAN]
    /\ DOMAIN gens \subseteq 1..MaxGen /\ \A ts \in DOMAIN gens : gens[ts] \in Seq(Nat)
    /\ \A ts \in DOMAIN sorts : sorts[ts] \in Seq(Nat)
    /\ tomb \subseteq Fact
    /\ buf \in Seq(RowType) /\ seen \subseteq Nat
    /\ count \in Nat /\ written \in Nat \cup {-1} /\ indexTs \in Nat
    /\ pc \in PC /\ mode \in {"flush", "turbo", "sweep", "clean"} /\ opens \in 0..MaxOpens
    /\ rd \in Reader
    /\ origin \in Seq([src : Nat, run : Nat])

(* The facts the store holds, on disk or in the buffer. *)
BufFacts == {FactOf(i2s, buf[i].s, buf[i].p, buf[i].o) : i \in DOMAIN buf}

HeldFacts == StoredFacts \cup BufFacts

KeyOfFact(f) == LET row == Row(i2s, f, 0) IN TriKey(row.s, row.p, row.o)

Refused(f) == {f[1], f[2], f[3]} \subseteq Ran(i2s) /\ KeyOfFact(f) \in seen

(* The de-dup set never refuses a fact for nothing: a fact add refuses is  *)
(* in the files or in the buffer, whatever crashed, was reopened or swept  *)
(* before, unless the store holds another fact of the same key, which it   *)
(* can do only once the dictionary has more terms than the key's           *)
(* multiplier (add returns False for a duplicate or a collision).          *)
RefusedIsHeld ==
    pc = "idle" =>
        \A f \in Fact : Refused(f) =>
            \/ f \in HeldFacts
            \/ Len(i2s) > KeyBase /\ \E g \in HeldFacts : KeyOfFact(g) = KeyOfFact(f)

(* The index stays right through appends, rebuilds, crashes and a reader   *)
(* that writes an old index_ts back: a query by subject returns exactly    *)
(* the stored, unretracted facts a full scan would.                        *)
QueryExact ==
    pc = "idle" /\ buf = <<>> =>
        \A t \in Term :
            /\ ~QueryFails(i2s, t)
            /\ FactsAbout(i2s, t) = {f \in StoredFacts : f[1] = t} \ tomb

(* Every row cites the source it was added with, or the legacy tier when   *)
(* its source id was never written; it never cites another row's source    *)
(* (source_of over src.col, kept in lockstep by _backfill_src).            *)
NoForeignSource ==
    pc \notin AuditPC =>
        \A i \in 1..Len(col["src"]) :
            col["src"][i] \in {0, origin[i].src}

(* meta.json never counts a row the columns do not hold, so len(store)     *)
(* after a reopen is never more than what queries can find.                *)
CountWithinRows == pc \notin AuditPC => meta.count <= Rows

(* One store object never writes a triple twice through add, however its   *)
(* adds, flushes and duplicate batches interleave (exact de-dup within a   *)
(* run; a reopened object starts with an empty set, so across runs the     *)
(* same triple may be written again).                                      *)
DistinctInRun ==
    pc \in {"idle", "terms"} =>
        LET Mine == {i \in 1..Rows : origin[i].run = opens}
        IN  /\ \A i, j \in Mine : i # j => Triple(i) # Triple(j)
            /\ \A i, j \in DOMAIN buf :
                  i # j => <<buf[i].s, buf[i].p, buf[i].o>> # <<buf[j].s, buf[j].p, buf[j].o>>
            /\ \A i \in Mine, j \in DOMAIN buf : Triple(i) # <<buf[j].s, buf[j].p, buf[j].o>>

(* When a sweep finishes, no triple is on disk twice, whichever lane wrote *)
(* it (audit_sweep restores global exactness).                             *)
SweepRestoresExactness ==
    [][AuditFinish => \A i, j \in 1..Rows : i # j => Triple(i) # Triple(j)]_vars

(* Turbo's debt is always on record: a row a turbo batch wrote over an     *)
(* equal older row is never on disk without turbo_audit_pending in         *)
(* meta.json, whatever flushes, queries and reopens rewrite or read it     *)
(* between the batch and its sweep.                                        *)
DebtFlagged ==
    pc = "idle" /\ ~meta.audit =>
        \A j \in 1..Rows : origin[j].run = 0 =>
            \A i \in 1..(j - 1) : Triple(i) # Triple(j)

(* A reader keeps answering what was stored when it opened, through every  *)
(* later append, index rebuild and unlink; what it answers beyond that is  *)
(* stored too, or has a blank where its dictionary is too old.             *)
ReaderAgrees ==
    rd.up =>
        \A t \in Term \ {Blank} :
            LET answer == FactsAbout(rd.dict, t) IN
            QueryFails(rd.dict, t) \/
            /\ {f \in rd.known : f[1] = t} \ tomb \subseteq answer
            /\ \A f \in answer : f \in StoredFacts \/ Blank \in {f[2], f[3]}

(* The facts on disk are facts somebody added: the store never invents one *)
(* of its own, whatever crashed (every row is written by one flush).       *)
NothingInvented == pc \in {"idle", "down"} => StoredFacts \subseteq Fact

(* The abstract log: facts whose o column is written are durable, facts in *)
(* the buffer are pending until then; a sweep holds its rows in memory     *)
(* while it rewrites the files.                                            *)
Log == INSTANCE FactLog WITH
         durable <- IF pc \in AuditPC THEN BufFacts ELSE StoredFacts,
         pending <- IF pc \in AuditPC \cup {"src", "meta"} THEN {} ELSE BufFacts

(* The store implements the log: whatever is flushed, crashed and          *)
(* reopened, the facts the files spell are facts that were added, none     *)
(* disappears, and a flush commits all of its rows or none.                *)
ImplementsLog == Log!Spec
=============================================================================
