------------------------------ MODULE RawIngest ------------------------------
(***************************************************************************)
(* What one tick of the learning daemon does with the files: it moves raw  *)
(* files to the cleaned directory, writes what they say to the synaptic    *)
(* tables of homage.db (ingest_raw_documents), and rebuilds the            *)
(* ontology and the projection when the inputs changed (tick_daemon), and  *)
(* in between weak synapses decay (run_synaptic_decay).  The caller holds  *)
(* _lock from StartJob to EndJob; users add files at any time, the watcher *)
(* of the cleaned directory builds without the lock, and routes let        *)
(* synapses decay without it.                                              *)
(*                                                                         *)
(* Every document has the same number of labels and of links between them; *)
(* how labels become concepts is up to the resolver, and may change from   *)
(* one reading to the next.  Neo4j and the web seed feeder are left out.   *)
(***************************************************************************)
EXTENDS Integers, FiniteSets, Sequences

CONSTANTS
    File,        \* files users add; each is put down once
    Of,          \* _file_fingerprint of a file: its name and its content
    Concept,     \* node_ids of the synaptic tables
    Relation,    \* relations between them
    Labels,      \* labels a document has: one node each in run_ontology's list
    Links,       \* its edges: label, relation, label
    Readings,    \* what the resolver may make of the labels
    Settling     \* runs over the same files that still change the ontology's files

ASSUME FileAssumption == IsFiniteSet(File) /\ DOMAIN Of = File
ASSUME IngestBoundAssumption == Labels \in Nat \ {0} /\ Settling \in Nat
ASSUME DocumentAssumption ==
    /\ Links \in Seq((1..Labels) \X Relation \X (1..Labels))
    /\ Readings \subseteq [1..Labels -> Concept]

VARIABLES
    place,     \* where a file is: none, raw, cleaned
    db, tx,    \* synaptic tables: what is committed, what the connection sees
    batch,     \* ingest_batches: the copies made of a document's files
    job,       \* the tick that is running
    onto,      \* the ontology directory: files it was made from, and its version
    proj,      \* the projection: files and ontology it has taken in; events > 0;
               \* a build that ran without the lock wrote an older ontology last
    last,      \* last_input_fingerprint of the state file
    (* ---- history ---- *)
    cut        \* files that were moved by a tick that did not get to their row

ingestVars == <<place, db, tx, batch, job, onto, proj, last, cut>>

Doc == {Of[f] : f \in File}
InRaw == {f \in File : place[f] = "raw"}
Cleaned == {f \in File : place[f] = "cleaned"}

Edge == Concept \X Relation \X Concept

(* A document's list: its labels first, then its links.  Two labels may    *)
(* come out as one concept, and two links as one edge.                     *)
Frags == Labels + Len(Links)
RowOf(reading, i) ==
    IF i <= Labels THEN reading[i]
    ELSE LET link == Links[i - Labels]
         IN  <<reading[link[1]], link[2], reading[link[3]]>>

(* The tables: has, the concepts and edges in them; rows, the booked       *)
(* documents (ingested_files) and how they were read; and for the record   *)
(* pot, what a document has added to each of its rows so far, and gone,    *)
(* what decayed and nobody has written again.                              *)
NoTables == [has |-> {}, rows |-> {}, gone |-> {},
             pot |-> [d \in Doc |-> [i \in 1..Frags |-> 0]]]

Known(t, d) == \E reading \in Readings : <<d, reading>> \in t.rows

(* _input_fingerprint: path, size and content of every file in the three   *)
(* directories.                                                            *)
Inputs == [raw |-> InRaw, cleaned |-> Cleaned, onto |-> onto]
NoPrint == [raw |-> {}, cleaned |-> {}, onto |-> [of |-> File, ver |-> -1]]

Idle == [at |-> "off", todo |-> {}, file |-> {}, reading |-> <<>>, copies |-> 0,
         frag |-> 0, force |-> FALSE, moved |-> {}, got |-> FALSE,
         build |-> FALSE, seen |-> NoPrint]

IngestInit ==
    /\ place = [f \in File |-> "none"]
    /\ db = NoTables /\ tx = db /\ job = Idle
    /\ batch = [d \in Doc |-> {}]
    /\ onto = [of |-> {}, ver |-> 0]
    /\ proj = [files |-> {}, onto |-> onto, built |-> FALSE, late |-> FALSE]
    /\ last = NoPrint /\ cut = {}

At(pc) == job.at = pc
-----------------------------------------------------------------------------
(* Users put files down to be ingested, or among the cleaned ones. *)

Drop(f) ==
    /\ place[f] = "none"
    /\ \E where \in {"raw", "cleaned"} : place' = [place EXCEPT ![f] = where]
    /\ UNCHANGED <<db, tx, batch, job, onto, proj, last, cut>>
-----------------------------------------------------------------------------
(* ingest_raw_documents *)

(* The candidates are listed once.  A file that comes later waits, and so  *)
(* does one that is under half a second old: it comes after the list.      *)
StartJob(force) ==
    /\ At("off")
    /\ job' = [Idle EXCEPT !.todo = InRaw, !.force = force,
                           !.at = IF InRaw = {} THEN "print" ELSE "next"]
    /\ UNCHANGED <<place, db, tx, batch, onto, proj, last, cut>>

(* A fault: nobody asks whether the file is known. *)
TakeUnasked(f) ==
    /\ At("next") /\ f \in job.todo
    /\ place' = [place EXCEPT ![f] = "cleaned"]
    /\ job' = [job EXCEPT !.todo = @ \ {f}, !.moved = @ \cup {f}, !.file = {f},
                          !.at = "copy"]
    /\ UNCHANGED <<db, tx, batch, onto, proj, last, cut>>

(* The fingerprint is looked up, then the file is moved, before anything   *)
(* is written for it.  A file known by its name and content only moves.    *)
Take(f) ==
    /\ At("next") /\ f \in job.todo
    /\ place' = [place EXCEPT ![f] = "cleaned"]
    /\ job' = [job EXCEPT !.todo = @ \ {f}, !.moved = @ \cup {f},
                          !.file = IF Known(tx, Of[f]) THEN {} ELSE {f},
                          !.at = IF Known(tx, Of[f]) THEN "next" ELSE "copy"]
    /\ db' \in IF Known(tx, Of[f]) THEN {db, tx} ELSE {db}
    /\ UNCHANGED <<tx, batch, onto, proj, last, cut>>

(* A copy goes to the document's batch directory, which nobody ever        *)
(* clears, and run_ontology reads what is there.                           *)
Copy(f, reading) ==
    /\ At("copy") /\ f \in job.file
    /\ batch' = [batch EXCEPT ![Of[f]] = @ \cup {f}]
    /\ job' = [job EXCEPT !.reading = reading, !.copies = Cardinality(batch'[Of[f]]),
                          !.frag = 1, !.at = "write"]

(* A fault: the document is booked before its synapses are written. *)
ReadBooked(f) ==
    \E reading \in Readings :
        /\ Copy(f, reading)
        /\ tx' = [tx EXCEPT !.rows = @ \cup {<<Of[f], reading>>}]
        /\ UNCHANGED <<place, db, onto, proj, last, cut>>

ReadBatch(f) ==
    /\ \E reading \in Readings : Copy(f, reading)
    /\ UNCHANGED <<place, db, tx, onto, proj, last, cut>>

(* _upsert_sqlite_synapses: one node or edge of the list.  A node's count  *)
(* tells how often the label stands in all the copies, an edge is listed   *)
(* once.  _AutoFlush may commit after any of them, and does after the last.*)
Potentiate(f) ==
    /\ At("write") /\ f \in job.file
    /\ LET row == RowOf(job.reading, job.frag) IN
          tx' = [tx EXCEPT !.has = @ \cup {row}, !.gone = @ \ {row},
                           !.pot[Of[f]][job.frag] =
                               @ + (IF job.frag <= Labels THEN job.copies ELSE 1)]
    /\ IF job.frag = Frags
       THEN db' = tx' /\ job' = [job EXCEPT !.at = "row"]
       ELSE db' \in {db, tx'} /\ job' = [job EXCEPT !.frag = @ + 1]
    /\ UNCHANGED <<place, batch, onto, proj, last, cut>>

(* The file's row in ingested_files; its commit may come later. *)
Row(f) ==
    /\ At("row") /\ f \in job.file
    /\ tx' = [tx EXCEPT !.rows = @ \cup {<<Of[f], job.reading>>}]
    /\ db' \in {db, tx'}
    /\ job' = [job EXCEPT !.at = "next", !.file = {}, !.reading = <<>>,
                          !.copies = 0, !.frag = 0, !.got = TRUE]
    /\ UNCHANGED <<place, batch, onto, proj, last, cut>>

(* A fault: the connection is closed without a commit. *)
CloseDbBare ==
    /\ At("next") /\ job.todo = {}
    /\ tx' = db
    /\ job' = [job EXCEPT !.at = IF job.got THEN "refresh" ELSE "print"]
    /\ UNCHANGED <<place, db, batch, onto, proj, last, cut>>

CloseDb ==
    /\ At("next") /\ job.todo = {}
    /\ db' = tx
    /\ job' = [job EXCEPT !.at = IF job.got THEN "refresh" ELSE "print"]
    /\ UNCHANGED <<place, tx, batch, onto, proj, last, cut>>
-----------------------------------------------------------------------------
(* The ontology and the projection *)

(* A fault: something in the files is new in every run. *)
ForgeRestless(next) ==
    /\ onto' = [of |-> Cleaned, ver |-> 1 - onto.ver]
    /\ job' = [job EXCEPT !.at = next]
    /\ UNCHANGED <<place, db, tx, batch, proj, last, cut>>

(* Every run moves the context vectors a little, until they have settled   *)
(* (the EMA of the resolver over one set of files).                        *)
Forge(next) ==
    /\ onto' = IF onto.of # Cleaned THEN [of |-> Cleaned, ver |-> 0]
               ELSE [onto EXCEPT !.ver = IF @ < Settling THEN @ + 1 ELSE @]
    /\ job' = [job EXCEPT !.at = next]
    /\ UNCHANGED <<place, db, tx, batch, proj, last, cut>>

(* build_memory reads the ontology's files and every cleaned document, and *)
(* merges them into what is there.                                         *)
BuildMemory(next) ==
    /\ proj' = [files |-> proj.files \cup Cleaned, onto |-> onto,
                late |-> FALSE,
                built |-> proj.built \/ Cleaned # {} \/ onto.of # {}]
    /\ job' = [job EXCEPT !.at = next]
    /\ UNCHANGED <<place, db, tx, batch, onto, last, cut>>

Refresh == At("refresh") /\ Forge("rebuild")
Rebuild == At("rebuild") /\ BuildMemory("print")

(* A fault: only what came in through the raw directory counts as new. *)
NeedsBuildIfFed == job.force \/ job.got \/ ~proj.built

NeedsBuild ==
    \/ job.force \/ job.got
    \/ last # Inputs
    \/ ~proj.built

(* The fingerprint is taken before the second run of the ontology, so that *)
(* a file that comes after it makes the next tick build again.  What the   *)
(* decision goes by is not asked for again.                                *)
TakePrint ==
    /\ At("print")
    /\ job' = [job EXCEPT !.seen = Inputs, !.build = NeedsBuild, !.at = "decay",
                          !.force = FALSE, !.got = FALSE, !.moved = {}]
    /\ UNCHANGED <<place, db, tx, batch, onto, proj, last, cut>>

(* run_synaptic_decay, one transaction on a connection of its own: edges   *)
(* that have become weak go, and then every node without an edge, those    *)
(* of booked documents too.  Which edges are weak is left open.            *)
Ends(edges) == {e[1] : e \in edges} \cup {e[3] : e \in edges}
Decayed(t, kept) ==
    LET left == kept \cup (t.has \cap Ends(kept))
    IN  [t EXCEPT !.has = left, !.gone = @ \cup (t.has \ left)]

(* It waits for a transaction that is open, and the tick's connection then *)
(* sees what it left.                                                      *)
Decay ==
    /\ tx = db
    /\ \E kept \in SUBSET (db.has \cap Edge) : db' = Decayed(db, kept)
    /\ tx' = db'

(* In a tick it comes after the fingerprint, when an hour has passed since *)
(* the last (in the first tick it is due) and the caller allows it: any    *)
(* tick may come with it or without.                                       *)
TickDecay ==
    /\ At("decay")
    /\ Decay \/ UNCHANGED <<db, tx>>
    /\ job' = [job EXCEPT !.at = IF job.build THEN "ontology" ELSE "end",
                          !.build = FALSE]
    /\ UNCHANGED <<place, batch, onto, proj, last, cut>>

(* POST /daemon/decay and POST /prune do not take the lock. *)
OtherDecay == Decay /\ UNCHANGED <<place, batch, job, onto, proj, last, cut>>

Ontology == At("ontology") /\ Forge("build")
Build == At("build") /\ BuildMemory("end")

(* A fault: the state gets the fingerprint of what is there at the end. *)
EndJobLate(lost) ==
    /\ At("end")
    /\ last' = IF lost THEN last ELSE Inputs
    /\ job' = Idle
    /\ UNCHANGED <<place, db, tx, batch, onto, proj, cut>>

(* The fingerprint is saved with the rest of the state, by the first of    *)
(* the tick's two saves.                                                   *)
EndJob(lost) ==
    /\ At("end")
    /\ last' \in IF lost THEN {last, job.seen} ELSE {job.seen}
    /\ job' = Idle
    /\ UNCHANGED <<place, db, tx, batch, onto, proj, cut>>

(* A fault: the open transaction outlives the tick. *)
AbandonOpen ==
    /\ job' = Idle
    /\ cut' = cut \cup {f \in job.moved : ~Known(db, Of[f])}
    /\ UNCHANGED <<place, db, tx, batch, proj, onto, last>>

(* An exception, or the end of the process: the connection rolls back, a   *)
(* build may have committed some documents, and nothing else is undone.    *)
Abandon ==
    /\ tx' = db /\ job' = Idle
    /\ cut' = cut \cup {f \in job.moved : ~Known(db, Of[f])}
    /\ \/ UNCHANGED proj
       \/ /\ job.at \in {"rebuild", "build"} /\ Cleaned # {}
          /\ \E some \in SUBSET Cleaned :
                proj' = [proj EXCEPT !.files = @ \cup some, !.built = TRUE]
    /\ UNCHANGED <<place, db, batch, onto, last>>

(* The watcher of the cleaned directory and the build routes build without *)
(* the lock, from what they read when they began, commit by commit.        *)
OtherBuild ==
    /\ Cleaned # {}
    /\ \E old \in {onto, proj.onto} :
          proj' = [files |-> proj.files \cup Cleaned, onto |-> old,
                   built |-> TRUE, late |-> old # onto]
    /\ UNCHANGED <<place, db, tx, batch, job, onto, last, cut>>

Forget == last' = NoPrint /\ UNCHANGED <<place, db, tx, batch, job, onto, proj, cut>>

Work ==
    \/ CloseDb
    \/ \E f \in File : Take(f) \/ ReadBatch(f) \/ Potentiate(f) \/ Row(f)
    \/ Refresh \/ Rebuild \/ TakePrint \/ TickDecay \/ Ontology \/ Build
===============================================================================
