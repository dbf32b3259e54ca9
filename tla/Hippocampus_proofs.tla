-------------------------- MODULE Hippocampus_proofs --------------------------
(***************************************************************************)
(* Theorems about the daemon and its ticks together, for any set of files, *)
(* names, threads and bounds: the composed specification implements the    *)
(* daemon's, and the invariants of the tick.                               *)
(***************************************************************************)
EXTENDS Hippocampus, LearningDaemon_proofs, FiniteSetTheorems

(* What the composed steps do to the files. *)
IngestMove ==
    \/ \E f \in File : Drop(f)
    \/ \E force \in BOOLEAN : StartJob(force)
    \/ Work
    \/ \E lost \in BOOLEAN : EndJob(lost)
    \/ Abandon \/ OtherBuild \/ OtherDecay \/ Forget
-----------------------------------------------------------------------------
(* The composition *)

(* Every composed step is a step of the daemon, or leaves it alone. *)
LEMMA HippoStepIsDaemonStep ==
    ASSUME HippoNext
    PROVE  Next \/ UNCHANGED vars
<1>1. CASE Supervise
  BY <1>1 DEF Supervise, Next, Request, Caller
<1>2. CASE Others \/ TickStep
  BY <1>2 DEF Others, TickStep
<1>3. CASE Crash
  BY <1>3 DEF Crash, Next
<1>4. CASE \E lost \in BOOLEAN : Begin(lost)
  BY <1>4 DEF Begin, Next, Request
<1>5. CASE \E w \in Worker : Idling(w)
  BY <1>5 DEF Idling, Next, Loop, Caller
<1>6. CASE \E c \in Caller : BeginTick(c) \/ EndTick(c) \/ FailTick(c)
  BY <1>6 DEF BeginTick, EndTick, FailTick, Next, Loop, Caller
<1>7. CASE DecayByHand
  BY <1>7 DEF DecayByHand, Next, Request
<1> QED
  BY <1>1, <1>2, <1>3, <1>4, <1>5, <1>6, <1>7 DEF HippoNext

(* Every composed step is a step of the tick or of those who work beside   *)
(* it, or leaves the files alone.                                          *)
LEMMA HippoStepIsIngestStep ==
    ASSUME HippoNext
    PROVE  IngestMove \/ UNCHANGED ingestVars
<1>1. CASE Supervise \/ (\E w \in Worker : Idling(w))
  BY <1>1 DEF Supervise, Idling
<1>2. CASE Others \/ TickStep \/ Crash \/ DecayByHand
  BY <1>2 DEF Others, TickStep, Crash, DecayByHand, IngestMove
<1>3. CASE \E lost \in BOOLEAN : Begin(lost)
  BY <1>3 DEF Begin, IngestMove
<1>4. CASE \E c \in Caller : BeginTick(c) \/ EndTick(c) \/ FailTick(c)
  <2>1. PICK c \in Caller : BeginTick(c) \/ EndTick(c) \/ FailTick(c)
    BY <1>4
  <2>2. (c = Route) \in BOOLEAN
    OBVIOUS
  <2> QED
    BY <2>1, <2>2 DEF BeginTick, EndTick, FailTick, IngestMove
<1> QED
  BY <1>1, <1>2, <1>3, <1>4 DEF HippoNext

(* What holds of the daemon whatever its ticks do holds of the composed    *)
(* system: no step of a tick, a user or a watcher is one the daemon's own  *)
(* specification forbids.                                                  *)
THEOREM HippoImplementsDaemon == HippoSpec => Spec
<1>1. HippoInit => Init
  BY DEF HippoInit
<1>2. [HippoNext]_hippoVars => [Next]_vars
  BY HippoStepIsDaemonStep DEF hippoVars
<1> QED
  BY <1>1, <1>2, PTL DEF HippoSpec, Spec

(* One worker and stops that hold, with ticks that take their time, raise, *)
(* or are cut off in the middle.                                           *)
THEOREM HippoStopsAndWorkers == HippoSpec => [](TypeOK /\ OneWorker /\ StopHolds)
  BY HippoImplementsDaemon, DaemonTypes, DaemonOneWorker, DaemonStopHolds, PTL
-----------------------------------------------------------------------------
(* Types of the tick's variables *)

Steps == {"off", "next", "copy", "write", "row", "refresh", "rebuild", "print",
          "decay", "ontology", "build", "end"}
Syn == Concept \cup Edge
Tables == [has : SUBSET Syn, rows : SUBSET (Doc \X Readings), gone : SUBSET Syn,
           pot : [Doc -> [1..Frags -> Nat]]]
Version == [of : SUBSET File, ver : 0..Settling]
Fingerprint == [raw : SUBSET File, cleaned : SUBSET File,
                onto : [of : SUBSET File, ver : {-1} \cup (0..Settling)]]
Job == [at : Steps, todo : SUBSET File, file : SUBSET File,
        reading : Readings \cup {<<>>}, copies : Nat, frag : 0..Frags,
        force : BOOLEAN, moved : SUBSET File, got : BOOLEAN, build : BOOLEAN,
        seen : Fingerprint]
Projection == [files : SUBSET File, onto : Version, built : BOOLEAN, late : BOOLEAN]

FieldTypes ==
    /\ place \in [File -> {"none", "raw", "cleaned"}]
    /\ db \in Tables /\ tx \in Tables
    /\ batch \in [Doc -> SUBSET File]
    /\ job \in Job
    /\ onto \in Version /\ proj \in Projection
    /\ last \in Fingerprint /\ cut \in SUBSET File

(* Where the files of a tick, an ontology, a projection are. *)
FilePlaces ==
    /\ job.todo \subseteq InRaw /\ job.moved \subseteq Cleaned
    /\ job.file \subseteq job.moved
    /\ \A d \in Doc : batch[d] \subseteq {f \in Cleaned : Of[f] = d}
    /\ onto.of \subseteq Cleaned /\ proj.files \subseteq Cleaned
    /\ cut \subseteq Cleaned

(* A tick that writes has one file, knows how it reads it and how far it   *)
(* is; another has none.                                                   *)
InHand ==
    /\ IF job.at \in {"copy", "write", "row"}
       THEN \E f \in File : job.file = {f}
       ELSE job.file = {}
    /\ job.at \in {"write", "row"} => job.reading \in Readings
    /\ job.at = "write" => job.frag \in 1..Frags /\ job.copies > 0

(* Outside the loop over the files nothing is left uncommitted. *)
Committed == job.at \notin {"next", "copy", "write", "row"} => tx = db

IngestTypes == FieldTypes /\ FilePlaces /\ InHand /\ Committed

(* The length of a document's list, and what is on it.                     *)
LEMMA RowType ==
    /\ Frags \in Nat /\ Labels \in 1..Frags /\ 0 \in 0..Frags /\ 1 \in 0..Frags
    /\ \A reading \in Readings, i \in 1..Frags : RowOf(reading, i) \in Syn
<1>1. Labels \in Nat \ {0} /\ Len(Links) \in Nat
  BY IngestBoundAssumption, DocumentAssumption
<1>2. Frags \in Nat /\ Labels \in 1..Frags /\ 0 \in 0..Frags /\ 1 \in 0..Frags
  BY <1>1 DEF Frags
<1>3. ASSUME NEW reading \in Readings, NEW i \in 1..Frags PROVE RowOf(reading, i) \in Syn
  <2>1. reading \in [1..Labels -> Concept]
    BY DocumentAssumption
  <2>2. CASE i <= Labels
    <3>1. i \in 1..Labels
      BY <1>1, <1>2, <2>2
    <3> QED
      BY <2>1, <2>2, <3>1 DEF RowOf, Syn
  <2>3. CASE ~(i <= Labels)
    <3>1. i - Labels \in 1..Len(Links)
      BY <1>1, <2>3 DEF Frags
    <3>2. PICK k \in 1..Len(Links) : k = i - Labels
      BY <3>1
    <3>3. Links[k] \in (1..Labels) \X Relation \X (1..Labels)
      BY DocumentAssumption
    <3>4. <<reading[Links[k][1]], Links[k][2], reading[Links[k][3]]>> \in Edge
      BY <2>1, <3>3 DEF Edge
    <3> QED
      BY <2>3, <3>2, <3>4 DEF RowOf, Syn
  <2> QED
    BY <2>2, <2>3
<1> QED
  BY <1>2, <1>3

(* One row written for one fragment of one document.                       *)
Grown(t, d, i, row, more) ==
    [t EXCEPT !.has = @ \cup {row}, !.gone = @ \ {row}, !.pot[d][i] = @ + more]

LEMMA GrownType ==
    ASSUME NEW t \in Tables, NEW d \in Doc, NEW i \in 1..Frags, NEW row \in Syn, NEW more \in Nat
    PROVE  LET u == Grown(t, d, i, row, more) IN
           /\ u \in Tables /\ u.rows = t.rows
           /\ u.has \cup u.gone = t.has \cup t.gone \cup {row}
           /\ \A e \in Doc, k \in 1..Frags :
                 u.pot[e][k] = IF e = d /\ k = i THEN t.pot[e][k] + more ELSE t.pot[e][k]
<1>1. /\ t.pot \in [Doc -> [1..Frags -> Nat]] /\ t.rows \in SUBSET (Doc \X Readings)
      /\ t.has \in SUBSET Syn /\ t.gone \in SUBSET Syn
  BY DEF Tables
<1>2. t.pot[d] \in [1..Frags -> Nat] /\ t.pot[d][i] \in Nat
  BY <1>1
<1> DEFINE line == [t.pot[d] EXCEPT ![i] = @ + more]
           pot == [t.pot EXCEPT ![d] = line]
           has == t.has \cup {row}
           gone == t.gone \ {row}
           u == Grown(t, d, i, row, more)
<1>3. line \in [1..Frags -> Nat]
  BY <1>2
<1>4. \A k \in 1..Frags : line[k] = IF k = i THEN t.pot[d][k] + more ELSE t.pot[d][k]
  BY <1>2
<1> HIDE DEF line
<1>5. pot \in [Doc -> [1..Frags -> Nat]]
  BY <1>1, <1>3
<1>6. \A e \in Doc : pot[e] = IF e = d THEN line ELSE t.pot[e]
  BY <1>1
<1>7. has \in SUBSET Syn /\ gone \in SUBSET Syn /\ has \cup gone = t.has \cup t.gone \cup {row}
  BY <1>1
<1>8. u = [[[t EXCEPT !.has = has] EXCEPT !.gone = gone] EXCEPT !.pot = pot]
  BY DEF line, Grown
<1> HIDE DEF pot, has, gone, u
<1>9. u \in Tables /\ u.pot = pot /\ u.rows = t.rows /\ u.has = has /\ u.gone = gone
  BY <1>1, <1>5, <1>7, <1>8 DEF Tables
<1>10. ASSUME NEW e \in Doc, NEW k \in 1..Frags
       PROVE  pot[e][k] = IF e = d /\ k = i THEN t.pot[e][k] + more ELSE t.pot[e][k]
  <2>1. CASE e = d
    BY <1>4, <1>6, <2>1
  <2>2. CASE e # d
    BY <1>6, <2>2
  <2> QED
    BY <2>1, <2>2
<1> QED
  BY <1>7, <1>9, <1>10 DEF u

(* A decay books nothing, and puts on record what it takes.                *)
LEMMA DecayedType ==
    ASSUME NEW t \in Tables, NEW kept \in SUBSET (t.has \cap Edge)
    PROVE  LET u == Decayed(t, kept) IN
           /\ u \in Tables /\ u.rows = t.rows /\ u.pot = t.pot
           /\ u.has \cup u.gone = t.has \cup t.gone
<1>1. /\ t.pot \in [Doc -> [1..Frags -> Nat]] /\ t.rows \in SUBSET (Doc \X Readings)
      /\ t.has \in SUBSET Syn /\ t.gone \in SUBSET Syn
  BY DEF Tables
<1> DEFINE left == kept \cup (t.has \cap Ends(kept))
           gone == t.gone \cup (t.has \ left)
           u == Decayed(t, kept)
<1>2. left \subseteq t.has
  OBVIOUS
<1>3. u = [t EXCEPT !.has = left, !.gone = gone]
  BY DEF Decayed
<1> HIDE DEF left
<1>4. left \in SUBSET Syn /\ gone \in SUBSET Syn /\ left \cup gone = t.has \cup t.gone
  BY <1>1, <1>2
<1> HIDE DEF gone, u
<1>5. u \in Tables /\ u.has = left /\ u.gone = gone /\ u.rows = t.rows /\ u.pot = t.pot
  BY <1>1, <1>3, <1>4 DEF Tables
<1> QED
  BY <1>4, <1>5 DEF u

(* Moving a file, and what it does to the raw and the cleaned files.       *)
LEMMA MoveFile ==
    ASSUME FieldTypes, NEW f \in File, NEW to \in {"raw", "cleaned"},
           place' = [place EXCEPT ![f] = to]
    PROVE  /\ place' \in [File -> {"none", "raw", "cleaned"}]
           /\ to = "cleaned" => Cleaned' = Cleaned \cup {f} /\ InRaw' = InRaw \ {f}
           /\ to = "raw" => Cleaned' = Cleaned \ {f} /\ InRaw' = InRaw \cup {f}
  BY DEF FieldTypes, Cleaned, InRaw

(* The fingerprint of what is there has a fingerprint's type.              *)
LEMMA InputsType ==
    ASSUME FieldTypes
    PROVE  Inputs \in Fingerprint /\ NoPrint \in Fingerprint /\ Idle \in Job
           /\ Cleaned \in SUBSET File /\ InRaw \in SUBSET File
<1>1. Cleaned \in SUBSET File /\ InRaw \in SUBSET File
  BY DEF Cleaned, InRaw
<1>2. Inputs \in Fingerprint /\ NoPrint \in Fingerprint
  BY <1>1 DEF Inputs, NoPrint, Fingerprint, Version, FieldTypes
<1>3. Idle \in Job
  BY <1>2, RowType DEF Idle, Job, Steps
<1> QED
  BY <1>1, <1>2, <1>3

(* Every step over the files keeps the types. *)
LEMMA TakeTypes ==
    ASSUME IngestTypes, NEW f \in File, Take(f)
    PROVE  IngestTypes'
<1>1. FieldTypes /\ FilePlaces
  BY DEF IngestTypes
<1>2. /\ place' \in [File -> {"none", "raw", "cleaned"}]
      /\ Cleaned' = Cleaned \cup {f} /\ InRaw' = InRaw \ {f}
  BY <1>1, MoveFile DEF Take
<1>3. Of[f] \in Doc /\ job \in Job /\ job.todo \subseteq InRaw
  BY <1>1 DEF Doc, FieldTypes, FilePlaces
<1>4. /\ job' \in Job /\ job'.at \in {"next", "copy"}
      /\ job'.todo = job.todo \ {f} /\ job'.moved = job.moved \cup {f}
      /\ job'.file = IF job'.at = "copy" THEN {f} ELSE {}
  BY <1>3 DEF Take, Job, Steps
<1>5. FieldTypes'
  BY <1>1, <1>2, <1>4 DEF Take, FieldTypes
<1>6. FilePlaces'
  BY <1>1, <1>2, <1>3, <1>4 DEF Take, FilePlaces
<1> QED
  BY <1>3, <1>4, <1>5, <1>6 DEF IngestTypes, InHand, Committed

(* What the copy of the file in hand makes of its batch.                   *)
LEMMA CopyStep ==
    ASSUME IngestTypes, NEW f \in File, ReadBatch(f)
    PROVE  /\ Of[f] \in Doc /\ job \in Job /\ job.at = "copy" /\ job.file = {f}
           /\ f \in Cleaned /\ f \in job.moved
           /\ batch' = [batch EXCEPT ![Of[f]] = @ \cup {f}]
           /\ batch'[Of[f]] = batch[Of[f]] \cup {f}
           /\ \A d \in Doc : d # Of[f] => batch'[d] = batch[d]
           /\ job' \in Job /\ job'.at = "write" /\ job'.file = {f} /\ job'.frag = 1
           /\ job'.todo = job.todo /\ job'.moved = job.moved
           /\ job'.reading \in Readings
           /\ job'.copies = Cardinality(batch[Of[f]] \cup {f}) /\ job'.copies \in Nat \ {0}
<1>1. FieldTypes /\ FilePlaces /\ InHand
  BY DEF IngestTypes
<1>2. PICK reading \in Readings : Copy(f, reading)
  BY DEF ReadBatch
<1>3. /\ Of[f] \in Doc /\ job \in Job /\ job.at = "copy" /\ job.file = {f}
      /\ batch \in [Doc -> SUBSET File]
  BY <1>1, <1>2 DEF FieldTypes, InHand, Doc, Copy, At
<1>4. /\ batch' = [batch EXCEPT ![Of[f]] = @ \cup {f}]
      /\ batch'[Of[f]] = batch[Of[f]] \cup {f}
      /\ \A d \in Doc : d # Of[f] => batch'[d] = batch[d]
  BY <1>2, <1>3 DEF Copy
<1>5. Cardinality(batch[Of[f]] \cup {f}) \in Nat \ {0}
  <2>1. IsFiniteSet(batch[Of[f]] \cup {f})
    BY <1>3, FileAssumption, FS_Subset
  <2> QED
    BY <2>1, FS_CardinalityType, FS_EmptySet
<1>6. job' = [job EXCEPT !.reading = reading, !.copies = Cardinality(batch[Of[f]] \cup {f}),
                         !.frag = 1, !.at = "write"]
  BY <1>2, <1>4 DEF Copy
<1>7. /\ job' \in Job /\ job'.at = "write" /\ job'.file = {f} /\ job'.frag = 1
      /\ job'.todo = job.todo /\ job'.moved = job.moved
      /\ job'.reading \in Readings
      /\ job'.copies = Cardinality(batch[Of[f]] \cup {f})
  <2>1. PICK n \in Nat \ {0} : n = Cardinality(batch[Of[f]] \cup {f})
    BY <1>5
  <2>2. PICK one \in 0..Frags : one = 1
    BY RowType
  <2>3. PICK at \in Steps : at = "write"
    BY DEF Steps
  <2>4. PICK how \in Readings \cup {<<>>} : how = reading
    OBVIOUS
  <2>5. job' = [[[[job EXCEPT !.reading = how] EXCEPT !.copies = n] EXCEPT !.frag = one]
                  EXCEPT !.at = at]
    BY <1>6, <2>1, <2>2, <2>3, <2>4
  <2>6. job' \in Job
    BY <1>3, <2>5 DEF Job
  <2>7. /\ job'.at = at /\ job'.file = job.file /\ job'.frag = one /\ job'.todo = job.todo
        /\ job'.moved = job.moved /\ job'.reading = how /\ job'.copies = n
    BY <1>3, <2>5 DEF Job
  <2> QED
    BY <1>3, <2>1, <2>2, <2>3, <2>4, <2>6, <2>7
<1>8. f \in Cleaned /\ f \in job.moved
  BY <1>1, <1>3 DEF FilePlaces
<1> QED
  BY <1>3, <1>4, <1>5, <1>7, <1>8

LEMMA CopyTypes ==
    ASSUME IngestTypes, NEW f \in File, ReadBatch(f)
    PROVE  IngestTypes'
<1>1. FieldTypes /\ FilePlaces
  BY DEF IngestTypes
<1>2. UNCHANGED <<place, db, tx, onto, proj, last, cut>> /\ Cleaned' = Cleaned /\ InRaw' = InRaw
  BY DEF ReadBatch, Cleaned, InRaw
<1>3. /\ Of[f] \in Doc /\ job.file = {f} /\ f \in Cleaned
      /\ batch' = [batch EXCEPT ![Of[f]] = @ \cup {f}]
      /\ batch'[Of[f]] = batch[Of[f]] \cup {f}
      /\ \A d \in Doc : d # Of[f] => batch'[d] = batch[d]
  BY CopyStep
<1>4. /\ job' \in Job /\ job'.at = "write" /\ job'.file = {f} /\ job'.frag = 1
      /\ job'.todo = job.todo /\ job'.moved = job.moved
      /\ job'.reading \in Readings /\ job'.copies \in Nat \ {0}
  BY CopyStep
<1>5. FieldTypes'
  BY <1>1, <1>2, <1>3, <1>4 DEF FieldTypes
<1>6. \A d \in Doc : batch'[d] \subseteq {g \in Cleaned : Of[g] = d}
  BY <1>1, <1>3 DEF FilePlaces
<1>7. FilePlaces'
  BY <1>1, <1>2, <1>3, <1>4, <1>6 DEF FilePlaces
<1>8. 1 \in 1..Frags
  BY RowType
<1>9. InHand'
  BY <1>4, <1>8 DEF InHand
<1> QED
  BY <1>4, <1>5, <1>7, <1>9 DEF IngestTypes, Committed

(* How much a reading adds to what a document has added to a row.          *)
Added == IF job.frag <= Labels THEN job.copies ELSE 1

(* One node or edge of the file in hand, written once more. *)
LEMMA PotentiateTables ==
    ASSUME IngestTypes, NEW f \in File, Potentiate(f)
    PROVE  /\ Of[f] \in Doc /\ job.frag \in 1..Frags /\ tx \in Tables /\ job \in Job
           /\ job.at = "write" /\ job.file = {f} /\ job.reading \in Readings
           /\ Added \in Nat \ {0}
           /\ tx' \in Tables /\ tx'.rows = tx.rows
           /\ tx'.has \cup tx'.gone = tx.has \cup tx.gone \cup {RowOf(job.reading, job.frag)}
           /\ \A e \in Doc, k \in 1..Frags :
                 tx'.pot[e][k] =
                     IF e = Of[f] /\ k = job.frag THEN tx.pot[e][k] + Added ELSE tx.pot[e][k]
<1>1. /\ Of[f] \in Doc /\ job.frag \in 1..Frags /\ tx \in Tables /\ job \in Job
      /\ job.at = "write" /\ job.file = {f} /\ job.reading \in Readings
      /\ job.copies > 0
  BY DEF IngestTypes, FieldTypes, InHand, Doc, Potentiate, At
<1>2. Added \in Nat \ {0} /\ RowOf(job.reading, job.frag) \in Syn
  BY <1>1, RowType DEF Added, Job
<1> DEFINE row == RowOf(job.reading, job.frag)
           t == Grown(tx, Of[f], job.frag, row, Added)
<1>3. tx' = t
  BY DEF Potentiate, Grown, Added
<1>4. PICK u \in Tables, d \in Doc, i \in 1..Frags, x \in Syn, m \in Nat :
         u = tx /\ d = Of[f] /\ i = job.frag /\ x = row /\ m = Added
  BY <1>1, <1>2
<1>5. /\ Grown(u, d, i, x, m) \in Tables /\ Grown(u, d, i, x, m).rows = u.rows
      /\ Grown(u, d, i, x, m).has \cup Grown(u, d, i, x, m).gone = u.has \cup u.gone \cup {x}
      /\ \A e \in Doc, k \in 1..Frags :
            Grown(u, d, i, x, m).pot[e][k] =
                IF e = d /\ k = i THEN u.pot[e][k] + m ELSE u.pot[e][k]
  BY GrownType
<1>6. tx' = Grown(u, d, i, x, m)
  BY <1>3, <1>4
<1> HIDE DEF row, t
<1>7. /\ tx' \in Tables /\ tx'.rows = u.rows
      /\ tx'.has \cup tx'.gone = u.has \cup u.gone \cup {x}
      /\ \A e \in Doc, k \in 1..Frags :
            tx'.pot[e][k] = IF e = d /\ k = i THEN u.pot[e][k] + m ELSE u.pot[e][k]
  BY <1>5, <1>6
<1> QED
  BY <1>1, <1>2, <1>4, <1>7 DEF row

LEMMA PotentiateTypes ==
    ASSUME IngestTypes, NEW f \in File, Potentiate(f)
    PROVE  IngestTypes'
<1>1. FieldTypes /\ FilePlaces /\ InHand
  BY DEF IngestTypes
<1>2. Of[f] \in Doc /\ job.frag \in 1..Frags /\ tx \in Tables /\ job \in Job /\ job.file = {f}
  BY PotentiateTables
<1>3. tx' \in Tables
  BY PotentiateTables
<1>4. db' \in Tables
  BY <1>1, <1>3 DEF Potentiate, FieldTypes
<1>5. /\ job' \in Job /\ job'.todo = job.todo /\ job'.moved = job.moved /\ job'.file = job.file
      /\ job'.reading = job.reading /\ job'.copies = job.copies
      /\ job'.at \in {"write", "row"} /\ job.at = "write"
      /\ job'.at = "write" => job'.frag \in 1..Frags
  BY <1>2, RowType DEF Potentiate, At, Job, Steps
<1>6. Cleaned' = Cleaned /\ InRaw' = InRaw /\ UNCHANGED <<place, batch, onto, proj, last, cut>>
  BY DEF Potentiate, Cleaned, InRaw
<1>7. FieldTypes' /\ FilePlaces'
  BY <1>1, <1>3, <1>4, <1>5, <1>6 DEF FieldTypes, FilePlaces
<1>8. InHand'
  BY <1>1, <1>2, <1>5 DEF InHand
<1> QED
  BY <1>5, <1>7, <1>8 DEF IngestTypes, Committed

(* The booking of the file in hand. *)
LEMMA RowStep ==
    ASSUME IngestTypes, NEW f \in File, Row(f)
    PROVE  /\ Of[f] \in Doc /\ tx \in Tables /\ job \in Job /\ job.at = "row"
           /\ job.file = {f} /\ job.reading \in Readings /\ f \in job.moved
           /\ tx' \in Tables /\ tx'.rows = tx.rows \cup {<<Of[f], job.reading>>}
           /\ tx'.has = tx.has /\ tx'.gone = tx.gone /\ tx'.pot = tx.pot
           /\ job' \in Job /\ job'.at = "next" /\ job'.file = {}
           /\ job'.todo = job.todo /\ job'.moved = job.moved
<1>1. /\ Of[f] \in Doc /\ tx \in Tables /\ job \in Job /\ job.at = "row"
      /\ job.file = {f} /\ job.reading \in Readings /\ f \in job.moved
  BY DEF IngestTypes, FieldTypes, FilePlaces, InHand, Doc, Row, At
<1>2. /\ tx' \in Tables /\ tx'.rows = tx.rows \cup {<<Of[f], job.reading>>}
      /\ tx'.has = tx.has /\ tx'.gone = tx.gone /\ tx'.pot = tx.pot
  BY <1>1 DEF Row, Tables
<1>3. /\ job' \in Job /\ job'.at = "next" /\ job'.file = {}
      /\ job'.todo = job.todo /\ job'.moved = job.moved
  <2>1. PICK zero \in 0..Frags, at \in Steps, how \in Readings \cup {<<>>} :
           zero = 0 /\ at = "next" /\ how = <<>>
    BY RowType DEF Steps
  <2>2. job' = [job EXCEPT !.at = at, !.file = {}, !.reading = how,
                           !.copies = 0, !.frag = zero, !.got = TRUE]
    BY <2>1 DEF Row
  <2> QED
    BY <1>1, <2>1, <2>2 DEF Job
<1> QED
  BY <1>1, <1>2, <1>3

LEMMA RowTypes ==
    ASSUME IngestTypes, NEW f \in File, Row(f)
    PROVE  IngestTypes'
<1>1. FieldTypes /\ FilePlaces
  BY DEF IngestTypes
<1>2. db' \in Tables
  BY <1>1, RowStep DEF Row, FieldTypes
<1>3. Cleaned' = Cleaned /\ InRaw' = InRaw /\ UNCHANGED <<place, batch, onto, proj, last, cut>>
  BY DEF Row, Cleaned, InRaw
<1>4. FieldTypes' /\ FilePlaces'
  BY <1>1, <1>2, <1>3, RowStep DEF FieldTypes, FilePlaces
<1> QED
  BY <1>4, RowStep DEF IngestTypes, InHand, Committed

(* The steps that leave files and tables where they are. *)
LEMMA PlanTypes ==
    ASSUME IngestTypes, UNCHANGED <<place, tx, batch, cut>>,
           db' = db \/ db' = tx,
           job' \in Job, job'.file = {},
           job'.todo \subseteq InRaw, job'.moved \subseteq Cleaned,
           job'.at \notin {"next", "copy", "write", "row"} => tx = db',
           job'.at \notin {"copy", "write", "row"},
           onto' \in Version, onto'.of \subseteq Cleaned,
           proj' \in Projection, proj'.files \subseteq Cleaned,
           last' \in Fingerprint
    PROVE  IngestTypes'
<1>1. FieldTypes /\ FilePlaces
  BY DEF IngestTypes
<1>2. Cleaned' = Cleaned /\ InRaw' = InRaw
  BY DEF Cleaned, InRaw
<1>3. FieldTypes'
  BY <1>1 DEF FieldTypes
<1>4. FilePlaces'
  BY <1>1, <1>2 DEF FilePlaces
<1> QED
  BY <1>3, <1>4 DEF IngestTypes, InHand, Committed

(* A decay is a transaction of its own.                                    *)
LEMMA DecayStep ==
    ASSUME FieldTypes, Decay
    PROVE  /\ tx = db /\ tx' = db' /\ db' \in Tables
           /\ db'.rows = db.rows /\ db'.pot = db.pot
           /\ db'.has \cup db'.gone = db.has \cup db.gone
<1>1. db \in Tables
  BY DEF FieldTypes
<1>2. PICK kept \in SUBSET (db.has \cap Edge) : db' = Decayed(db, kept)
  BY DEF Decay
<1>3. PICK t \in Tables : t = db
  BY <1>1
<1>4. /\ Decayed(t, kept) \in Tables /\ Decayed(t, kept).rows = t.rows
      /\ Decayed(t, kept).pot = t.pot
      /\ Decayed(t, kept).has \cup Decayed(t, kept).gone = t.has \cup t.gone
  BY <1>3, <1>2, DecayedType
<1>5. db' = Decayed(t, kept)
  BY <1>2, <1>3
<1>6. /\ db' \in Tables /\ db'.rows = t.rows /\ db'.pot = t.pot
      /\ db'.has \cup db'.gone = t.has \cup t.gone
  BY <1>4, <1>5
<1> QED
  BY <1>3, <1>6 DEF Decay

LEMMA DecayTypes ==
    ASSUME IngestTypes, TickDecay \/ OtherDecay
    PROVE  IngestTypes'
<1>1. FieldTypes /\ FilePlaces /\ InHand /\ Committed
  BY DEF IngestTypes
<1>2. /\ db' \in Tables /\ tx' \in Tables /\ (tx = db => tx' = db')
      /\ Decay => tx = db
  BY <1>1, DecayStep DEF TickDecay, OtherDecay, FieldTypes
<1>3. /\ Cleaned' = Cleaned /\ InRaw' = InRaw
      /\ UNCHANGED <<place, batch, onto, proj, last, cut>>
  BY DEF TickDecay, OtherDecay, Cleaned, InRaw
<1>4. CASE TickDecay
  <2>1. /\ job \in Job /\ job.at = "decay" /\ job.file = {}
    BY <1>1, <1>4 DEF FieldTypes, InHand, TickDecay, At
  <2>2. /\ job' \in Job /\ job'.at \in {"ontology", "end"}
        /\ job'.todo = job.todo /\ job'.moved = job.moved /\ job'.file = job.file
    BY <2>1, <1>4 DEF TickDecay, Job, Steps
  <2>3. FieldTypes' /\ FilePlaces'
    BY <1>1, <1>2, <1>3, <2>2 DEF FieldTypes, FilePlaces
  <2>4. tx' = db'
    BY <1>1, <1>2, <2>1 DEF Committed
  <2> QED
    BY <2>1, <2>2, <2>3, <2>4 DEF IngestTypes, InHand, Committed
<1>5. CASE OtherDecay
  <2>1. UNCHANGED job /\ tx' = db'
    BY <1>2, <1>5 DEF OtherDecay
  <2>2. FieldTypes' /\ FilePlaces'
    BY <1>1, <1>2, <1>3, <2>1 DEF FieldTypes, FilePlaces
  <2> QED
    BY <1>1, <2>1, <2>2 DEF IngestTypes, InHand, Committed
<1> QED
  BY <1>4, <1>5

LEMMA TickTypes ==
    ASSUME IngestTypes, CloseDb \/ Refresh \/ Rebuild \/ TakePrint \/ Ontology \/ Build
    PROVE  IngestTypes'
<1>1. FieldTypes /\ FilePlaces /\ InHand /\ Committed
  BY DEF IngestTypes
<1>2. job \in Job /\ onto \in Version /\ proj \in Projection /\ last \in Fingerprint
  BY <1>1 DEF FieldTypes
<1>3. /\ job.todo \subseteq InRaw /\ job.moved \subseteq Cleaned
      /\ onto.of \subseteq Cleaned /\ proj.files \subseteq Cleaned
  BY <1>1 DEF FilePlaces
<1>4. Inputs \in Fingerprint /\ Cleaned \in SUBSET File
  BY <1>1, InputsType
<1>5. CASE CloseDb
  <2>1. job.file = {}
    BY <1>1, <1>5 DEF CloseDb, At, InHand
  <2>2. /\ job' \in Job /\ job'.at \in {"refresh", "print"}
        /\ job'.todo = job.todo /\ job'.moved = job.moved /\ job'.file = job.file
    BY <1>2, <1>5 DEF CloseDb, Job, Steps
  <2> QED
    BY <1>2, <1>3, <1>5, <2>1, <2>2, PlanTypes DEF CloseDb
<1>6. CASE Refresh \/ Ontology
  <2>1. PICK next \in {"rebuild", "build"} : Forge(next) /\ job.at \in {"refresh", "ontology"}
    BY <1>6 DEF Refresh, Ontology, At
  <2>2. /\ job' \in Job /\ job'.at = next /\ job'.file = {}
        /\ job'.todo = job.todo /\ job'.moved = job.moved
    BY <1>1, <1>2, <2>1 DEF Forge, Job, Steps, InHand
  <2>3. onto' \in Version /\ onto'.of \subseteq Cleaned
    BY <1>2, <1>3, <1>4, <2>1, IngestBoundAssumption DEF Forge, Version
  <2> QED
    BY <1>1, <1>2, <1>3, <2>1, <2>2, <2>3, PlanTypes DEF Forge, Committed
<1>7. CASE Rebuild \/ Build
  <2>1. PICK next \in {"print", "end"} : BuildMemory(next) /\ job.at \in {"rebuild", "build"}
    BY <1>7 DEF Rebuild, Build, At
  <2>2. /\ job' \in Job /\ job'.at = next /\ job'.file = {}
        /\ job'.todo = job.todo /\ job'.moved = job.moved
    BY <1>1, <1>2, <2>1 DEF BuildMemory, Job, Steps, InHand
  <2>3. proj' \in Projection /\ proj'.files \subseteq Cleaned
    BY <1>2, <1>3, <1>4, <2>1 DEF BuildMemory, Projection
  <2> QED
    BY <1>1, <1>2, <1>3, <2>1, <2>2, <2>3, PlanTypes DEF BuildMemory, Committed
<1>8. CASE TakePrint
  <2>1. NeedsBuild \in BOOLEAN
    <3>1. /\ job.force \in BOOLEAN /\ job.got \in BOOLEAN
      BY <1>2 DEF Job
    <3> QED
      BY <3>1, Zenon DEF NeedsBuild
  <2>2. job.file = {} /\ tx = db
    BY <1>1, <1>8 DEF TakePrint, At, InHand, Committed
  <2>3. /\ job' \in Job /\ job'.at = "decay"
        /\ job'.todo = job.todo /\ job'.moved = {} /\ job'.file = job.file
    BY <1>2, <1>4, <1>8, <2>1 DEF TakePrint, Job, Steps
  <2> QED
    BY <1>1, <1>2, <1>3, <1>8, <2>2, <2>3, PlanTypes DEF TakePrint
<1> QED
  BY <1>5, <1>6, <1>7, <1>8

(* The first step of a tick, and what the end of one in the middle leaves. *)
LEMMA StartStep ==
    ASSUME FieldTypes, NEW force \in BOOLEAN, StartJob(force)
    PROVE  /\ job' \in Job /\ job'.at \in {"next", "print"} /\ job'.seen = NoPrint
           /\ job'.todo = InRaw /\ job'.moved = {} /\ job'.file = {} /\ job'.build = FALSE
<1>1. /\ Idle \in Job /\ InRaw \in SUBSET File
      /\ Idle.seen = NoPrint /\ Idle.moved = {} /\ Idle.file = {} /\ Idle.build = FALSE
  BY InputsType DEF Idle
<1>2. PICK at \in Steps : at \in {"next", "print"}
                          /\ at = IF InRaw = {} THEN "print" ELSE "next"
  BY DEF Steps
<1>3. job' = [Idle EXCEPT !.todo = InRaw, !.force = force, !.at = at]
  BY <1>2 DEF StartJob
<1> QED
  BY <1>1, <1>2, <1>3 DEF Job

LEMMA AbandonStep ==
    ASSUME Abandon
    PROVE  /\ tx' = db /\ job' = Idle /\ UNCHANGED <<place, db, batch, onto, last>>
           /\ cut \subseteq cut' /\ cut' \subseteq cut \cup job.moved
           /\ \A f \in job.moved : ~Known(db, Of[f]) => f \in cut'
           /\ \/ UNCHANGED proj
              \/ \E some \in SUBSET Cleaned :
                    proj' = [proj EXCEPT !.files = @ \cup some, !.built = TRUE]
<1>1. cut' = cut \cup {f \in job.moved : ~Known(db, Of[f])}
  BY Zenon DEF Abandon
<1>2. tx' = db /\ job' = Idle /\ UNCHANGED <<place, db, batch, onto, last>>
  BY Zenon DEF Abandon
<1>3. \/ UNCHANGED proj
      \/ \E some \in SUBSET Cleaned :
            proj' = [proj EXCEPT !.files = @ \cup some, !.built = TRUE]
  BY Zenon DEF Abandon
<1>4. /\ cut \subseteq cut' /\ cut' \subseteq cut \cup job.moved
      /\ \A f \in job.moved : ~Known(db, Of[f]) => f \in cut'
  BY <1>1, Zenon
<1> QED
  BY <1>2, <1>3, <1>4, Zenon

LEMMA IngestTypesStep ==
    ASSUME IngestTypes, IngestMove \/ UNCHANGED ingestVars
    PROVE  IngestTypes'
<1>1. FieldTypes /\ FilePlaces /\ InHand /\ Committed
  BY DEF IngestTypes
<1>2. job \in Job /\ onto \in Version /\ proj \in Projection /\ last \in Fingerprint
  BY <1>1 DEF FieldTypes
<1>3. /\ job.todo \subseteq InRaw /\ job.moved \subseteq Cleaned /\ job.file \subseteq job.moved
      /\ onto.of \subseteq Cleaned /\ proj.files \subseteq Cleaned
  BY <1>1 DEF FilePlaces
<1>4. /\ Inputs \in Fingerprint /\ NoPrint \in Fingerprint /\ Idle \in Job
      /\ Cleaned \in SUBSET File /\ InRaw \in SUBSET File
  BY <1>1, InputsType
<1>5. ASSUME NEW f \in File, Drop(f) PROVE IngestTypes'
  <2>1. PICK where \in {"raw", "cleaned"} : place' = [place EXCEPT ![f] = where]
    BY <1>5 DEF Drop
  <2>2. f \notin Cleaned /\ f \notin InRaw
    BY <1>5 DEF Drop, Cleaned, InRaw
  <2>3. /\ place' \in [File -> {"none", "raw", "cleaned"}]
        /\ Cleaned \subseteq Cleaned' /\ InRaw \subseteq InRaw'
    BY <1>1, <2>1, <2>2, MoveFile
  <2>4. FieldTypes' /\ FilePlaces'
    BY <1>1, <1>5, <2>3 DEF Drop, FieldTypes, FilePlaces
  <2> QED
    BY <1>1, <1>5, <2>4 DEF Drop, IngestTypes, InHand, Committed
<1>6. ASSUME NEW force \in BOOLEAN, StartJob(force) PROVE IngestTypes'
  <2>1. /\ job' \in Job /\ job'.at \in {"next", "print"}
        /\ job'.todo = InRaw /\ job'.moved = {} /\ job'.file = {}
    BY <1>1, <1>6, StartStep
  <2> QED
    BY <1>1, <1>2, <1>3, <1>6, <2>1, PlanTypes DEF StartJob, Committed, At
<1>7. CASE Work
  BY <1>7, TakeTypes, CopyTypes, PotentiateTypes, RowTypes, TickTypes, DecayTypes DEF Work
<1>8. ASSUME NEW lost \in BOOLEAN, EndJob(lost) PROVE IngestTypes'
  <2>1. last' \in Fingerprint
    BY <1>2, <1>8 DEF EndJob, Job
  <2>2. Idle.at = "off" /\ Idle.todo = {} /\ Idle.moved = {} /\ Idle.file = {}
    BY DEF Idle
  <2> QED
    BY <1>1, <1>2, <1>3, <1>4, <1>8, <2>1, <2>2, PlanTypes DEF EndJob, Committed, At
<1>9. CASE Abandon
  <2>1. Idle.at = "off" /\ Idle.todo = {} /\ Idle.moved = {} /\ Idle.file = {}
    BY DEF Idle
  <2>2. /\ tx' = db /\ job' = Idle /\ UNCHANGED <<place, db, batch, onto, last>>
        /\ cut' \subseteq cut \cup job.moved
    BY <1>9, AbandonStep
  <2>3. Cleaned' = Cleaned /\ InRaw' = InRaw
    BY <2>2 DEF Cleaned, InRaw
  <2>4. proj' \in Projection /\ proj'.files \subseteq Cleaned
    <3>1. \/ UNCHANGED proj
          \/ \E some \in SUBSET Cleaned :
                proj' = [proj EXCEPT !.files = @ \cup some, !.built = TRUE]
      BY <1>9, AbandonStep
    <3> QED
      BY <1>2, <1>3, <1>4, <3>1 DEF Projection
  <2>5. cut' \in SUBSET File /\ cut' \subseteq Cleaned
    BY <1>1, <1>3, <1>4, <2>2 DEF FilePlaces, FieldTypes
  <2>6. FieldTypes' /\ FilePlaces'
    BY <1>1, <1>3, <1>4, <2>1, <2>2, <2>3, <2>4, <2>5 DEF FieldTypes, FilePlaces
  <2> QED
    BY <2>1, <2>2, <2>6 DEF IngestTypes, InHand, Committed
<1>10. CASE OtherBuild
  <2>1. Cleaned' = Cleaned /\ InRaw' = InRaw
    BY <1>10 DEF OtherBuild, Cleaned, InRaw
  <2>2. proj' \in Projection /\ proj'.files \subseteq Cleaned
    BY <1>2, <1>3, <1>4, <1>10 DEF OtherBuild, Projection
  <2>3. FieldTypes' /\ FilePlaces'
    BY <1>1, <1>10, <2>1, <2>2 DEF OtherBuild, FieldTypes, FilePlaces
  <2> QED
    BY <1>1, <1>10, <2>3 DEF OtherBuild, IngestTypes, InHand, Committed
<1>11. CASE Forget
  <2>1. Cleaned' = Cleaned /\ InRaw' = InRaw
    BY <1>11 DEF Forget, Cleaned, InRaw
  <2>2. FieldTypes' /\ FilePlaces'
    BY <1>1, <1>4, <1>11, <2>1 DEF Forget, FieldTypes, FilePlaces
  <2> QED
    BY <1>1, <1>11, <2>2 DEF Forget, IngestTypes, InHand, Committed
<1>12. CASE UNCHANGED ingestVars
  <2>1. Cleaned' = Cleaned /\ InRaw' = InRaw
    BY <1>12 DEF ingestVars, Cleaned, InRaw
  <2> QED
    BY <1>1, <1>12, <2>1 DEF ingestVars, IngestTypes, FieldTypes, FilePlaces, InHand, Committed
<1>13. CASE OtherDecay
  BY <1>13, DecayTypes
<1> QED
  BY <1>5, <1>6, <1>7, <1>8, <1>9, <1>10, <1>11, <1>12, <1>13 DEF IngestMove
-----------------------------------------------------------------------------
(* A row has all its fragments *)

Complete(t, d, reading, i) == t.pot[d][i] > 0 /\ RowOf(reading, i) \in t.has \cup t.gone

Backed(t) == \A booked \in t.rows, i \in 1..Frags : Complete(t, booked[1], booked[2], i)

(* How far the file in hand is written. *)
Written ==
    \A f \in job.file, i \in 1..Frags :
        (job.at = "write" /\ i < job.frag) \/ job.at = "row"
            => Complete(tx, Of[f], job.reading, i)

RowInv == Backed(db) /\ Backed(tx) /\ Written

LEMMA PotType ==
    ASSUME NEW t \in Tables, NEW d \in Doc, NEW i \in 1..Frags
    PROVE  t.pot[d][i] \in Nat
<1>1. t.pot \in [Doc -> [1..Frags -> Nat]]
  BY DEF Tables
<1>2. t.pot[d] \in [1..Frags -> Nat]
  BY <1>1
<1> QED
  BY <1>2

(* Tables in which nothing is booked that was not, and no row is missing   *)
(* that was there before, back what they book.                             *)
LEMMA CompleteKept ==
    ASSUME NEW t \in Tables, NEW u \in Tables, u.rows \subseteq t.rows,
           t.has \cup t.gone \subseteq u.has \cup u.gone,
           \A d \in Doc, i \in 1..Frags : t.pot[d][i] <= u.pot[d][i]
    PROVE  /\ \A d \in Doc, reading \in Readings, i \in 1..Frags :
                 Complete(t, d, reading, i) => Complete(u, d, reading, i)
           /\ Backed(t) => Backed(u)
<1>1. \A d \in Doc, i \in 1..Frags : t.pot[d][i] \in Nat /\ u.pot[d][i] \in Nat
  BY PotType
<1>2. ASSUME NEW d \in Doc, NEW reading \in Readings, NEW i \in 1..Frags,
             Complete(t, d, reading, i)
      PROVE  Complete(u, d, reading, i)
  <2>1. t.pot[d][i] > 0 /\ RowOf(reading, i) \in t.has \cup t.gone
    BY <1>2 DEF Complete
  <2>2. u.pot[d][i] > 0
    BY <1>1, <2>1
  <2>3. RowOf(reading, i) \in u.has \cup u.gone
    BY <2>1
  <2> QED
    BY <2>2, <2>3 DEF Complete
<1>3. ASSUME Backed(t), NEW booked \in u.rows, NEW i \in 1..Frags
      PROVE  Complete(u, booked[1], booked[2], i)
  <2>1. booked \in Doc \X Readings /\ booked \in t.rows
    BY DEF Tables
  <2>2. booked[1] \in Doc /\ booked[2] \in Readings /\ Complete(t, booked[1], booked[2], i)
    BY <1>3, <2>1 DEF Backed
  <2> QED
    BY <1>2, <2>2
<1>4. Backed(t) => Backed(u)
  BY <1>3 DEF Backed
<1> QED
  BY <1>2, <1>4

LEMMA PotentiateBacked ==
    ASSUME IngestTypes, RowInv, NEW f \in File, Potentiate(f)
    PROVE  RowInv'
<1>1. Backed(db) /\ Backed(tx) /\ Written
  BY DEF RowInv
<1>2. /\ Of[f] \in Doc /\ job.frag \in 1..Frags /\ tx \in Tables /\ job \in Job
      /\ job.at = "write" /\ job.file = {f} /\ job.reading \in Readings
      /\ Added \in Nat \ {0} /\ tx' \in Tables /\ tx'.rows = tx.rows
      /\ tx'.has \cup tx'.gone = tx.has \cup tx.gone \cup {RowOf(job.reading, job.frag)}
      /\ \A e \in Doc, k \in 1..Frags :
            tx'.pot[e][k] = IF e = Of[f] /\ k = job.frag THEN tx.pot[e][k] + Added
                            ELSE tx.pot[e][k]
  BY PotentiateTables
<1>3. \A e \in Doc, k \in 1..Frags : tx.pot[e][k] \in Nat
  BY <1>2, PotType
<1>4. \A e \in Doc, k \in 1..Frags : tx.pot[e][k] <= tx'.pot[e][k]
  BY <1>2, <1>3
<1>5. tx.has \cup tx.gone \subseteq tx'.has \cup tx'.gone /\ tx'.rows \subseteq tx.rows
  BY <1>2
<1>6. /\ \A d \in Doc, reading \in Readings, i \in 1..Frags :
            Complete(tx, d, reading, i) => Complete(tx', d, reading, i)
      /\ Backed(tx) => Backed(tx')
  <2>1. PICK t \in Tables, u \in Tables : t = tx /\ u = tx'
    BY <1>2
  <2>2. /\ u.rows \subseteq t.rows /\ t.has \cup t.gone \subseteq u.has \cup u.gone
        /\ \A d \in Doc, i \in 1..Frags : t.pot[d][i] <= u.pot[d][i]
    BY <1>4, <1>5, <2>1
  <2>3. /\ \A d \in Doc, reading \in Readings, i \in 1..Frags :
              Complete(t, d, reading, i) => Complete(u, d, reading, i)
        /\ Backed(t) => Backed(u)
    BY <2>2, CompleteKept
  <2> QED
    BY <2>1, <2>3
<1>7. db' = db \/ db' = tx'
  BY DEF Potentiate
<1>8. /\ job'.file = {f} /\ job'.reading = job.reading
      /\ \/ job.frag = Frags /\ job'.at = "row"
         \/ job'.frag = job.frag + 1 /\ job'.at = "write"
  BY <1>2 DEF Potentiate, Job
<1>9. tx'.pot[Of[f]][job.frag] > 0
  BY <1>2, <1>3
<1>10. Complete(tx', Of[f], job.reading, job.frag)
  BY <1>2, <1>9 DEF Complete
<1>11. Written'
  <2> SUFFICES ASSUME NEW i \in 1..Frags, (job'.at = "write" /\ i < job'.frag) \/ job'.at = "row"
               PROVE  Complete(tx', Of[f], job.reading, i)
    BY <1>8 DEF Written, Complete
  <2>1. i < job.frag \/ i = job.frag
    BY <1>2, <1>8, RowType
  <2>2. CASE i < job.frag
    <3>1. Complete(tx, Of[f], job.reading, i)
      BY <1>1, <1>2, <2>2 DEF Written
    <3> QED
      BY <1>2, <1>6, <3>1
  <2> QED
    BY <1>10, <2>1, <2>2
<1>12. Backed(db')
  BY <1>1, <1>6, <1>7
<1> QED
  BY <1>1, <1>6, <1>11, <1>12 DEF RowInv, Backed, Complete

LEMMA DecayBacked ==
    ASSUME IngestTypes, RowInv, TickDecay \/ OtherDecay
    PROVE  RowInv'
<1>1. FieldTypes /\ Backed(db) /\ Backed(tx) /\ Written
  BY DEF IngestTypes, RowInv
<1>2. /\ db \in Tables /\ job \in Job
      /\ \A d \in Doc, i \in 1..Frags : db.pot[d][i] \in Nat
  BY <1>1, PotType DEF FieldTypes
<1>3. CASE Decay
  <2>1. /\ tx = db /\ tx' = db' /\ db' \in Tables
        /\ db'.rows = db.rows /\ db'.pot = db.pot
        /\ db'.has \cup db'.gone = db.has \cup db.gone
    BY <1>1, <1>3, DecayStep
  <2>2. PICK t \in Tables, u \in Tables : t = db /\ u = db'
    BY <1>2, <2>1
  <2>3. /\ u.rows \subseteq t.rows /\ t.has \cup t.gone \subseteq u.has \cup u.gone
        /\ \A d \in Doc, i \in 1..Frags : t.pot[d][i] <= u.pot[d][i]
    BY <1>2, <2>1, <2>2
  <2>4. Backed(t) => Backed(u)
    BY <2>3, CompleteKept
  <2>5. \A d, reading, i : Complete(db', d, reading, i) <=> Complete(db, d, reading, i)
    BY <2>1 DEF Complete
  <2>6. \/ UNCHANGED job
        \/ job'.at \notin {"write", "row"}
    BY <1>2 DEF TickDecay, OtherDecay, Job
  <2>7. Written'
    BY <1>1, <2>1, <2>5, <2>6 DEF Written, Complete
  <2>8. Backed(db') /\ Backed(tx')
    BY <1>1, <2>1, <2>2, <2>4
  <2> QED
    BY <2>7, <2>8 DEF RowInv, Backed, Complete
<1>4. CASE UNCHANGED <<db, tx>>
  <2>1. \/ UNCHANGED job
        \/ job'.at \notin {"write", "row"}
    BY <1>2 DEF TickDecay, OtherDecay, Job
  <2> QED
    BY <1>1, <1>4, <2>1 DEF RowInv, Backed, Written, Complete
<1> QED
  BY <1>3, <1>4 DEF TickDecay, OtherDecay

LEMMA RowInvStep ==
    ASSUME IngestTypes, RowInv, IngestMove \/ UNCHANGED ingestVars
    PROVE  RowInv'
<1>1. /\ FieldTypes /\ FilePlaces /\ InHand /\ Committed
      /\ Backed(db) /\ Backed(tx) /\ Written
  BY DEF IngestTypes, RowInv
<1>2. ASSUME UNCHANGED tx, db' = db \/ db' = tx,
             job'.at \notin {"write", "row"} \/ UNCHANGED job
      PROVE  RowInv'
  BY <1>1, <1>2 DEF RowInv, Backed, Written, Complete
<1>3. job \in Job
  BY <1>1 DEF FieldTypes
<1>4. ASSUME NEW f \in File, Take(f) PROVE RowInv'
  <2>1. UNCHANGED tx /\ (db' = db \/ db' = tx) /\ job'.at \notin {"write", "row"}
    BY <1>3, <1>4 DEF Take, Job
  <2> QED
    BY <1>2, <2>1
<1>5. ASSUME NEW f \in File, ReadBatch(f) PROVE RowInv'
  <2>1. UNCHANGED tx /\ db' = db
    BY <1>5 DEF ReadBatch
  <2>2. job'.at = "write" /\ job'.frag = 1
    BY <1>5, CopyStep
  <2>3. \A i \in 1..Frags : ~(i < job'.frag)
    BY <2>2, RowType
  <2>4. Written'
    BY <2>2, <2>3 DEF Written
  <2> QED
    BY <1>1, <2>1, <2>4 DEF RowInv, Backed, Complete
<1>6. ASSUME NEW f \in File, Row(f) PROVE RowInv'
  <2>1. /\ Of[f] \in Doc /\ tx \in Tables /\ job.at = "row" /\ job.file = {f}
        /\ job.reading \in Readings
        /\ tx'.rows = tx.rows \cup {<<Of[f], job.reading>>}
        /\ tx'.has = tx.has /\ tx'.gone = tx.gone /\ tx'.pot = tx.pot
        /\ job'.at = "next" /\ job'.file = {}
    BY <1>6, RowStep
  <2>2. \A i \in 1..Frags : Complete(tx, Of[f], job.reading, i)
    BY <1>1, <2>1 DEF Written
  <2>3. \A d, reading, i : Complete(tx', d, reading, i) <=> Complete(tx, d, reading, i)
    BY <2>1 DEF Complete
  <2>4. ASSUME NEW booked \in tx'.rows, NEW i \in 1..Frags
        PROVE  Complete(tx', booked[1], booked[2], i)
    <3>1. CASE booked \in tx.rows
      BY <1>1, <2>3, <3>1 DEF Backed
    <3>2. CASE booked = <<Of[f], job.reading>>
      BY <2>2, <2>3, <3>2
    <3> QED
      BY <2>1, <3>1, <3>2
  <2>5. Backed(tx')
    BY <2>4 DEF Backed
  <2>6. db' = db \/ db' = tx'
    BY <1>6 DEF Row
  <2>7. Backed(db')
    BY <1>1, <2>5, <2>6
  <2>8. Written'
    BY <2>1 DEF Written
  <2> QED
    BY <2>5, <2>7, <2>8 DEF RowInv, Backed, Complete
<1>7. CASE Abandon
  <2>1. tx' = db /\ db' = db /\ job' = Idle
    BY <1>7, AbandonStep
  <2>2. Idle.at = "off" /\ Idle.file = {}
    BY DEF Idle
  <2> QED
    BY <1>1, <2>1, <2>2 DEF RowInv, Backed, Written, Complete
<1>8. CASE CloseDb \/ Refresh \/ Rebuild \/ TakePrint \/ Ontology \/ Build
  <2>1. UNCHANGED tx /\ (db' = db \/ db' = tx) /\ job'.at \notin {"write", "row"}
    BY <1>3, <1>8 DEF CloseDb, Refresh, Rebuild, TakePrint, Ontology, Build, Forge, BuildMemory, Job
  <2> QED
    BY <1>2, <2>1
<1>9. CASE \/ \E force \in BOOLEAN : StartJob(force)
           \/ \E lost \in BOOLEAN : EndJob(lost)
  <2>1. UNCHANGED tx /\ db' = db
    BY <1>9 DEF StartJob, EndJob
  <2>2. job'.at \notin {"write", "row"}
    <3>1. (\E force \in BOOLEAN : StartJob(force)) => job'.at \notin {"write", "row"}
      BY <1>1, StartStep
    <3>2. (\E lost \in BOOLEAN : EndJob(lost)) => job'.at \notin {"write", "row"}
      BY DEF EndJob, Idle
    <3> QED
      BY <1>9, <3>1, <3>2
  <2> QED
    BY <1>2, <2>1, <2>2
<1>10. CASE (\E f \in File : Drop(f)) \/ OtherBuild \/ Forget \/ UNCHANGED ingestVars
  <2>1. UNCHANGED tx /\ db' = db /\ UNCHANGED job
    BY <1>10 DEF Drop, OtherBuild, Forget, ingestVars
  <2> QED
    BY <1>2, <2>1
<1>11. CASE \/ \E f \in File : Potentiate(f)
            \/ TickDecay \/ OtherDecay
  BY <1>11, PotentiateBacked, DecayBacked
<1> QED
  BY <1>4, <1>5, <1>6, <1>7, <1>8, <1>9, <1>10, <1>11 DEF IngestMove, Work

LEMMA IngestStart ==
    ASSUME IngestInit
    PROVE  IngestTypes /\ RowInv
<1>1. \A d \in Doc : [i \in 1..Frags |-> 0] \in [1..Frags -> Nat]
  OBVIOUS
<1>2. [d \in Doc |-> [i \in 1..Frags |-> 0]] \in [Doc -> [1..Frags -> Nat]]
  BY <1>1
<1>3. db \in Tables /\ tx = db /\ db.rows = {}
  BY <1>2 DEF IngestInit, NoTables, Tables
<1>4. Cleaned = {} /\ onto \in Version /\ onto.of = {} /\ proj \in Projection /\ proj.files = {}
  BY IngestBoundAssumption DEF IngestInit, Cleaned, Version, Projection
<1>5. NoPrint \in Fingerprint
  BY DEF NoPrint, Fingerprint
<1>6. Idle \in Job /\ Idle.at = "off" /\ Idle.todo = {} /\ Idle.moved = {} /\ Idle.file = {}
  BY <1>5, RowType DEF Idle, Job, Steps
<1>7. batch \in [Doc -> SUBSET File] /\ \A d \in Doc : batch[d] = {}
  BY DEF IngestInit
<1>8. FieldTypes
  BY <1>3, <1>4, <1>5, <1>6, <1>7 DEF IngestInit, FieldTypes
<1>9. FilePlaces /\ InHand /\ Committed
  BY <1>3, <1>4, <1>6, <1>7 DEF IngestInit, FilePlaces, InHand, Committed
<1>10. RowInv
  BY <1>3, <1>6 DEF IngestInit, RowInv, Backed, Written
<1> QED
  BY <1>8, <1>9, <1>10 DEF IngestTypes

(* A document that is booked as ingested has all its nodes and edges,      *)
(* through every flush, exception and crash, but for what decayed later.   *)
THEOREM HippoRowBacked == HippoSpec => []RowBacked
<1>1. HippoInit => IngestTypes /\ RowInv
  BY IngestStart DEF HippoInit
<1>2. IngestTypes /\ RowInv /\ [HippoNext]_hippoVars => (IngestTypes /\ RowInv)'
  <2> SUFFICES ASSUME IngestTypes, RowInv, [HippoNext]_hippoVars
               PROVE  (IngestTypes /\ RowInv)'
    OBVIOUS
  <2>1. IngestMove \/ UNCHANGED ingestVars
    BY HippoStepIsIngestStep DEF hippoVars
  <2> QED
    BY <2>1, IngestTypesStep, RowInvStep
<1>3. IngestTypes /\ RowInv => RowBacked
  BY DEF RowInv, Backed, Complete, RowBacked
<1> QED
  BY <1>1, <1>2, <1>3, PTL DEF HippoSpec
-----------------------------------------------------------------------------
(* A tick is under way exactly when somebody holds the lock *)

LockLink == (job.at = "off") = (lock = NoOne)

LEMMA LockLinkStep ==
    ASSUME IngestTypes, LockLink, [HippoNext]_hippoVars
    PROVE  LockLink'
<1>1. job \in Job
  BY DEF IngestTypes, FieldTypes
<1>2. Idle.at = "off"
  BY DEF Idle
<1>3. CASE UNCHANGED <<lock, job>>
  BY <1>3 DEF LockLink
<1>4. CASE Supervise \/ \E w \in Worker : Idling(w)
  <2>1. UNCHANGED <<lock, job>>
    BY <1>4 DEF Supervise, Idling, ingestVars, Poll, StopBegin, StopCheckpoint, StopJoin,
                StopClear, GuardedTick, Press, Relieve, LoopCheck, WorkerStatus
  <2> QED
    BY <1>3, <2>1
<1>5. CASE Others
  <2>1. UNCHANGED <<lock, job>>
    BY <1>5 DEF Others, Drop, OtherBuild, vars
  <2> QED
    BY <1>3, <2>1
<1>6. CASE TickStep
  <2>1. UNCHANGED lock
    BY <1>6 DEF TickStep, vars
  <2>2. CASE \E f \in File : Take(f) \/ ReadBatch(f) \/ Potentiate(f) \/ Row(f)
    <3>1. (\E f \in File : Take(f)) => job.at # "off" /\ job'.at # "off"
      BY <1>1 DEF Take, At, Job
    <3>2. (\E f \in File : ReadBatch(f)) => job.at # "off" /\ job'.at # "off"
      BY CopyStep
    <3>3. (\E f \in File : Potentiate(f)) => job.at # "off" /\ job'.at # "off"
      BY <1>1 DEF Potentiate, At, Job
    <3>4. (\E f \in File : Row(f)) => job.at # "off" /\ job'.at # "off"
      BY RowStep
    <3>5. job.at # "off" /\ job'.at # "off"
      BY <2>2, <3>1, <3>2, <3>3, <3>4
    <3> QED
      BY <2>1, <3>5 DEF LockLink
  <2>3. CASE TickDecay
    <3>1. job.at # "off" /\ job'.at # "off"
      BY <1>1, <2>3 DEF TickDecay, At, Job
    <3> QED
      BY <2>1, <3>1 DEF LockLink
  <2>4. CASE CloseDb \/ Refresh \/ Rebuild \/ TakePrint \/ Ontology \/ Build
    <3>1. job.at # "off" /\ job'.at # "off"
      BY <1>1, <2>4 DEF CloseDb, Refresh, Rebuild, TakePrint, Ontology, Build, Forge,
                        BuildMemory, At, Job
    <3> QED
      BY <2>1, <3>1 DEF LockLink
  <2> QED
    BY <1>6, <2>2, <2>3, <2>4 DEF TickStep, Work
<1>7. CASE Crash
  <2>1. lock' = NoOne /\ job' = Idle
    BY <1>7, AbandonStep DEF Crash, Restart
  <2> QED
    BY <1>2, <2>1 DEF LockLink
<1>8. CASE \E lost \in BOOLEAN : Begin(lost)
  <2>1. UNCHANGED <<lock, job>>
    BY <1>8 DEF Begin, Start, ingestVars, Forget
  <2> QED
    BY <1>3, <2>1
<1>9. ASSUME NEW c \in Caller, BeginTick(c) PROVE LockLink'
  <2>1. lock' = c /\ c # NoOne
    BY <1>9, ThreadAssumption DEF BeginTick, TickBegin, Caller
  <2>2. PICK force \in BOOLEAN : StartJob(force)
    <3>1. (c = Route) \in BOOLEAN
      OBVIOUS
    <3> QED
      BY <1>9, <3>1 DEF BeginTick
  <2>3. job'.at # "off"
    BY <2>2 DEF StartJob, Idle
  <2> QED
    BY <2>1, <2>3 DEF LockLink
<1>10. ASSUME NEW c \in Caller, EndTick(c) \/ FailTick(c) PROVE LockLink'
  <2>1. lock' = NoOne /\ job' = Idle
    BY <1>10, AbandonStep DEF EndTick, FailTick, TickEnd, TickRaise, EndJob
  <2> QED
    BY <1>2, <2>1 DEF LockLink
<1>11. CASE UNCHANGED hippoVars
  BY <1>3, <1>11 DEF hippoVars, vars, ingestVars
<1>12. CASE DecayByHand
  <2>1. UNCHANGED <<lock, job>>
    BY <1>12 DEF DecayByHand, PostDecay, OtherDecay
  <2> QED
    BY <1>3, <2>1
<1> QED
  BY <1>4, <1>5, <1>6, <1>7, <1>8, <1>9, <1>10, <1>11, <1>12 DEF HippoNext

(* The types of the tick's variables, the link between tick and lock, and  *)
(* nothing uncommitted while the lock is free.                             *)
THEOREM HippoIngestTypes == HippoSpec => []IngestTypeOK
<1>1. HippoInit => IngestTypes /\ LockLink
  <2> SUFFICES ASSUME HippoInit PROVE IngestTypes /\ LockLink
    OBVIOUS
  <2>1. Idle.at = "off"
    BY DEF Idle
  <2> QED
    BY <2>1, IngestStart DEF HippoInit, Init, IngestInit, LockLink
<1>2. IngestTypes /\ LockLink /\ [HippoNext]_hippoVars => (IngestTypes /\ LockLink)'
  <2> SUFFICES ASSUME IngestTypes, LockLink, [HippoNext]_hippoVars
               PROVE  (IngestTypes /\ LockLink)'
    OBVIOUS
  <2>1. IngestMove \/ UNCHANGED ingestVars
    BY HippoStepIsIngestStep DEF hippoVars
  <2> QED
    BY <2>1, IngestTypesStep, LockLinkStep
<1>3. IngestTypes /\ LockLink => IngestTypeOK
  <2> SUFFICES ASSUME IngestTypes, LockLink PROVE IngestTypeOK
    OBVIOUS
  <2>1. FieldTypes /\ FilePlaces /\ Committed
    BY DEF IngestTypes
  <2>2. \A t \in {db, tx} :
           /\ t.has \subseteq Concept \cup Edge /\ t.gone \subseteq Concept \cup Edge
           /\ t.rows \subseteq Doc \X Readings
           /\ t.pot \in [Doc -> [1..Frags -> Nat]]
    BY <2>1 DEF FieldTypes, Tables, Syn
  <2>3. job.at \in Steps /\ onto.ver \in 0..Settling /\ proj.built \in BOOLEAN
    BY <2>1 DEF FieldTypes, Job, Version, Projection
  <2> QED
    BY <2>1, <2>2, <2>3 DEF FieldTypes, FilePlaces, Committed, LockLink, IngestTypeOK, Steps
<1> QED
  BY <1>1, <1>2, <1>3, PTL DEF HippoSpec
-----------------------------------------------------------------------------
(* A synapse is strengthened once *)

(* How many files of a document are in a set. *)
Copies(S, d) == Cardinality({f \in S : Of[f] = d})

(* Twice what k readings of a document can add to a row: the n-th counts a *)
(* label n times at most, and an edge once.                                *)
Bound(i, k) == IF i <= Labels THEN k * (k + 1) ELSE 2 * k

(* The document is booked, or the file in hand has written the fragment. *)
Spent(d, i) ==
    \/ Known(tx, d)
    \/ \E f \in job.file :
          Of[f] = d /\ (job.at = "row" \/ (job.at = "write" /\ i < job.frag))

AtMostOnce ==
    \A d \in Doc, i \in 1..Frags :
        2 * tx.pot[d][i] <= Bound(i, Copies(cut, d) + (IF Spent(d, i) THEN 1 ELSE 0))

(* The connection sees what is committed, and more. *)
Ahead ==
    /\ \A d \in Doc, i \in 1..Frags : db.pot[d][i] <= tx.pot[d][i]
    /\ \A d \in Doc : Known(db, d) => Known(tx, d)

(* What a tick has not committed is about files it moved itself. *)
OfThisTick ==
    /\ \A d \in Doc : Known(tx, d) /\ ~Known(db, d) => \E f \in job.moved : Of[f] = d
    /\ job.at \in {"copy", "write", "row"} => \A f \in job.file : ~Known(tx, Of[f])
    /\ job.moved \cap cut = {}

(* The copies of a document that is not booked are of files of ticks that  *)
(* were cut off, and of the file in hand.                                  *)
Batched ==
    /\ \A d \in Doc : ~Known(tx, d) => batch[d] \subseteq cut \cup job.file
    /\ \A d \in Doc : ~Known(db, d) => batch[d] \subseteq cut \cup job.moved
    /\ job.at = "write" => \A f \in job.file : job.copies <= Copies(cut, Of[f]) + 1

OnceInv == AtMostOnce /\ Ahead /\ OfThisTick /\ Batched

LEMMA BoundGrows ==
    ASSUME NEW i \in 1..Frags, NEW k \in Nat, NEW m \in Nat, k <= m
    PROVE  Bound(i, k) \in Nat /\ Bound(i, m) \in Nat /\ Bound(i, k) <= Bound(i, m)
<1>1. k * (k + 1) \in Nat /\ m * (m + 1) \in Nat
  OBVIOUS
<1>2. k * (k + 1) <= m * (m + 1)
  <2>1. PICK n \in Nat : n = m - k
    OBVIOUS
  <2>2. m = k + n
    BY <2>1
  <2>3. m * (m + 1) = k * (k + 1) + n * (m + k + 1)
    BY <2>2
  <2>4. n * (m + k + 1) \in Nat
    OBVIOUS
  <2> QED
    BY <1>1, <2>3, <2>4
<1> QED
  BY <1>1, <1>2 DEF Bound

(* One reading more. *)
LEMMA BoundStep ==
    ASSUME NEW i \in 1..Frags, NEW k \in Nat, NEW n \in Nat,
           IF i <= Labels THEN n <= k + 1 ELSE n = 1
    PROVE  Bound(i, k) + 2 * n <= Bound(i, k + 1)
<1>1. k * (k + 1) \in Nat
  OBVIOUS
<1>2. (k + 1) * ((k + 1) + 1) = k * (k + 1) + 2 * (k + 1)
  OBVIOUS
<1>3. 2 * (k + 1) = 2 * k + 2
  OBVIOUS
<1> QED
  BY <1>1, <1>2, <1>3 DEF Bound

LEMMA CopiesGrow ==
    ASSUME NEW S \in SUBSET File, NEW T \in SUBSET File, S \subseteq T, NEW d
    PROVE  /\ Copies(S, d) \in Nat /\ Copies(T, d) \in Nat /\ Copies(S, d) <= Copies(T, d)
           /\ \A g \in T \ S : Of[g] = d => Copies(S, d) + 1 <= Copies(T, d)
<1> DEFINE A == {f \in S : Of[f] = d}
           B == {f \in T : Of[f] = d}
<1>1. IsFiniteSet(A) /\ IsFiniteSet(B)
  BY FileAssumption, FS_Subset
<1>2. Cardinality(A) \in Nat /\ Cardinality(B) \in Nat
  BY <1>1, FS_CardinalityType
<1>3. Cardinality(A) <= Cardinality(B)
  BY <1>1, FS_Subset
<1>4. ASSUME NEW g \in T \ S, Of[g] = d PROVE Cardinality(A) + 1 <= Cardinality(B)
  <2>1. g \notin A /\ A \cup {g} \subseteq B
    BY <1>4
  <2>2. IsFiniteSet(A \cup {g}) /\ Cardinality(A \cup {g}) = Cardinality(A) + 1
    BY <1>1, <2>1, FS_AddElement
  <2>3. Cardinality(A \cup {g}) <= Cardinality(B)
    BY <1>1, <2>1, FS_Subset
  <2> QED
    BY <2>2, <2>3
<1> QED
  BY <1>2, <1>3, <1>4 DEF Copies

(* One file more makes one copy more at most. *)
LEMMA CopiesOneMore ==
    ASSUME NEW S \in SUBSET File, NEW f \in File, NEW B \in SUBSET (S \cup {f}),
           \A g \in B : Of[g] = Of[f]
    PROVE  Cardinality(B) \in Nat /\ Cardinality(B) <= Copies(S, Of[f]) + 1
<1> DEFINE A == {g \in S : Of[g] = Of[f]}
<1>1. IsFiniteSet(A) /\ IsFiniteSet(A \cup {f}) /\ IsFiniteSet(B)
  BY FileAssumption, FS_Subset
<1>2. Cardinality(A) \in Nat /\ Cardinality(A \cup {f}) \in Nat /\ Cardinality(B) \in Nat
  BY <1>1, FS_CardinalityType
<1>3. Cardinality(A \cup {f}) <= Cardinality(A) + 1
  <2>1. Cardinality(A \cup {f}) = IF f \in A THEN Cardinality(A) ELSE Cardinality(A) + 1
    BY <1>1, FS_AddElement
  <2> QED
    BY <1>2, <2>1
<1>4. B \subseteq A \cup {f}
  OBVIOUS
<1>5. Cardinality(B) <= Cardinality(A \cup {f})
  BY <1>1, <1>4, FS_Subset
<1> HIDE DEF A
<1>6. Cardinality(B) <= Cardinality(A) + 1
  BY <1>2, <1>3, <1>5
<1> QED
  BY <1>2, <1>6 DEF A, Copies

LEMMA CellTypes ==
    ASSUME FieldTypes, NEW d \in Doc, NEW i \in 1..Frags
    PROVE  tx.pot[d][i] \in Nat /\ db.pot[d][i] \in Nat /\ Copies(cut, d) \in Nat
<1>1. tx.pot[d][i] \in Nat /\ db.pot[d][i] \in Nat
  BY PotType DEF FieldTypes
<1>2. Copies(cut, d) \in Nat
  BY CopiesGrow DEF FieldTypes
<1> QED
  BY <1>1, <1>2

(* The booked documents after a change of the tables' rows.                *)
LEMMA KnownRows ==
    ASSUME NEW t, NEW u, u.rows = t.rows
    PROVE  \A d : Known(u, d) <=> Known(t, d)
  BY DEF Known

LEMMA KnownMore ==
    ASSUME NEW t \in Tables, NEW u \in Tables, NEW d \in Doc, NEW reading \in Readings,
           u.rows = t.rows \cup {<<d, reading>>}
    PROVE  \A e \in Doc : Known(u, e) <=> Known(t, e) \/ e = d
<1>1. ASSUME NEW e \in Doc, Known(u, e) PROVE Known(t, e) \/ e = d
  <2>1. PICK how \in Readings : <<e, how>> \in u.rows
    BY <1>1 DEF Known
  <2>2. CASE <<e, how>> \in t.rows
    BY <2>2 DEF Known
  <2>3. CASE <<e, how>> = <<d, reading>>
    BY <2>3
  <2> QED
    BY <2>1, <2>2, <2>3
<1>2. ASSUME NEW e \in Doc, Known(t, e) PROVE Known(u, e)
  BY <1>2 DEF Known
<1>3. Known(u, d)
  <2>1. <<d, reading>> \in u.rows
    OBVIOUS
  <2> QED
    BY <2>1 DEF Known
<1> QED
  BY <1>1, <1>2, <1>3

(* Steps in which no file is in hand. *)
LEMMA OncePlan ==
    ASSUME IngestTypes, OnceInv, UNCHANGED <<tx, batch, cut>>, db' = db \/ db' = tx,
           job.at \notin {"copy", "write", "row"}, job'.at \notin {"copy", "write", "row"},
           job'.file = {},
           job'.moved = job.moved \/ (job'.moved = {} /\ db' = tx)
    PROVE  OnceInv'
<1>1. FieldTypes /\ InHand /\ AtMostOnce /\ Ahead /\ OfThisTick /\ Batched
  BY DEF IngestTypes, OnceInv
<1>2. job.file = {}
  BY <1>1 DEF InHand
<1>3. AtMostOnce'
  <2>1. \A d \in Doc, i \in 1..Frags : Spent(d, i)' <=> Spent(d, i)
    BY <1>2 DEF Spent
  <2> QED
    BY <1>1, <2>1 DEF AtMostOnce, Copies, Bound
<1>4. \A d \in Doc, i \in 1..Frags : tx.pot[d][i] \in Nat
  BY <1>1, CellTypes
<1>5. Ahead'
  BY <1>1, <1>4 DEF Ahead
<1>6. OfThisTick'
  BY <1>1 DEF OfThisTick
<1>7. Batched'
  BY <1>1, <1>2 DEF Batched
<1> QED
  BY <1>3, <1>5, <1>6, <1>7 DEF OnceInv

LEMMA TakeOnce ==
    ASSUME IngestTypes, OnceInv, NEW f \in File, Take(f)
    PROVE  OnceInv'
<1>1. FieldTypes /\ FilePlaces /\ InHand /\ AtMostOnce /\ Ahead /\ OfThisTick /\ Batched
  BY DEF IngestTypes, OnceInv
<1>2. job \in Job /\ job.at = "next" /\ job.file = {} /\ f \notin cut /\ Of[f] \in Doc
  BY <1>1 DEF FieldTypes, FilePlaces, InHand, Take, At, InRaw, Cleaned, Doc
<1>3. /\ job'.moved = job.moved \cup {f}
      /\ \/ job'.at = "next" /\ job'.file = {}
         \/ job'.at = "copy" /\ job'.file = {f} /\ ~Known(tx, Of[f])
  BY <1>2 DEF Take, Job
<1>4. UNCHANGED <<tx, batch, cut>> /\ (db' = db \/ db' = tx)
  BY DEF Take
<1>5. AtMostOnce'
  <2>1. \A d \in Doc, i \in 1..Frags : Spent(d, i)' <=> Spent(d, i)
    BY <1>2, <1>3, <1>4 DEF Spent
  <2> QED
    BY <1>1, <1>4, <2>1 DEF AtMostOnce, Copies, Bound
<1>6. \A d \in Doc, i \in 1..Frags : tx.pot[d][i] \in Nat
  BY <1>1, CellTypes
<1>7. Ahead'
  BY <1>1, <1>4, <1>6 DEF Ahead
<1>8. OfThisTick'
  BY <1>1, <1>2, <1>3, <1>4 DEF OfThisTick
<1>9. Batched'
  BY <1>1, <1>2, <1>3, <1>4 DEF Batched
<1> QED
  BY <1>5, <1>7, <1>8, <1>9 DEF OnceInv

LEMMA CopyOnce ==
    ASSUME IngestTypes, OnceInv, NEW f \in File, ReadBatch(f)
    PROVE  OnceInv'
<1>1. FieldTypes /\ FilePlaces /\ AtMostOnce /\ Ahead /\ OfThisTick /\ Batched
  BY DEF IngestTypes, OnceInv
<1>2. /\ Of[f] \in Doc /\ job \in Job /\ job.at = "copy" /\ job.file = {f} /\ f \in job.moved
      /\ batch'[Of[f]] = batch[Of[f]] \cup {f}
      /\ \A d \in Doc : d # Of[f] => batch'[d] = batch[d]
      /\ job'.at = "write" /\ job'.file = {f} /\ job'.frag = 1
      /\ job'.moved = job.moved
      /\ job'.copies = Cardinality(batch[Of[f]] \cup {f})
  BY CopyStep
<1>3. UNCHANGED <<db, tx, cut>>
  BY DEF ReadBatch
<1>4. cut \in SUBSET File
  BY <1>1 DEF FieldTypes
<1>5. AtMostOnce'
  <2>1. \A i \in 1..Frags : ~(i < 1)
    BY RowType
  <2>2. \A d \in Doc, i \in 1..Frags : Spent(d, i)' <=> Spent(d, i)
    BY <1>2, <1>3, <2>1 DEF Spent
  <2> QED
    BY <1>1, <1>3, <2>2 DEF AtMostOnce, Copies, Bound
<1>6. Ahead' /\ OfThisTick'
  BY <1>1, <1>2, <1>3 DEF Ahead, OfThisTick
<1>7. ~Known(tx, Of[f])
  BY <1>1, <1>2 DEF OfThisTick
<1>8. job'.copies <= Copies(cut, Of[f]) + 1
  <2>1. batch[Of[f]] \cup {f} \in SUBSET (cut \cup {f})
    BY <1>1, <1>2, <1>7 DEF Batched
  <2>2. \A g \in batch[Of[f]] \cup {f} : Of[g] = Of[f]
    BY <1>1, <1>2 DEF FilePlaces
  <2> QED
    BY <1>2, <1>4, <2>1, <2>2, CopiesOneMore
<1>9. Batched'
  BY <1>1, <1>2, <1>3, <1>8 DEF Batched, Copies
<1> QED
  BY <1>5, <1>6, <1>9 DEF OnceInv

LEMMA PotentiateOnce ==
    ASSUME IngestTypes, OnceInv, NEW f \in File, Potentiate(f)
    PROVE  OnceInv'
<1>1. FieldTypes /\ AtMostOnce /\ Ahead /\ OfThisTick /\ Batched
  BY DEF IngestTypes, OnceInv
<1>2. /\ Of[f] \in Doc /\ job.frag \in 1..Frags /\ tx \in Tables /\ job \in Job
      /\ job.at = "write" /\ job.file = {f} /\ Added \in Nat \ {0} /\ tx'.rows = tx.rows
      /\ \A e \in Doc, k \in 1..Frags :
            tx'.pot[e][k] = IF e = Of[f] /\ k = job.frag THEN tx.pot[e][k] + Added
                            ELSE tx.pot[e][k]
  BY PotentiateTables
<1>3. /\ job'.file = {f} /\ job'.moved = job.moved /\ job'.copies = job.copies
      /\ \/ job'.at = "row" /\ job.frag = Frags
         \/ job'.at = "write" /\ job'.frag = job.frag + 1
  BY <1>2 DEF Potentiate, Job
<1>4. UNCHANGED <<batch, cut>> /\ (db' = db \/ db' = tx')
  BY DEF Potentiate
<1>5. \A d \in Doc, i \in 1..Frags :
         tx.pot[d][i] \in Nat /\ db.pot[d][i] \in Nat /\ Copies(cut, d) \in Nat
  BY <1>1, CellTypes
<1>6. \A d : Known(tx', d) <=> Known(tx, d)
  BY <1>2, KnownRows
<1>7. (\A d : Known(db', d) <=> Known(db, d)) \/ (\A d : Known(db', d) <=> Known(tx, d))
  BY <1>4, <1>6
<1>8. AtMostOnce'
  <2> SUFFICES ASSUME NEW d \in Doc, NEW i \in 1..Frags
               PROVE  2 * tx'.pot[d][i]
                          <= Bound(i, Copies(cut, d) + (IF Spent(d, i)' THEN 1 ELSE 0))
    BY <1>4 DEF AtMostOnce, Copies, Bound
  <2>1. 2 * tx.pot[d][i] <= Bound(i, Copies(cut, d) + (IF Spent(d, i) THEN 1 ELSE 0))
    BY <1>1 DEF AtMostOnce
  <2>2. Spent(d, i) => Spent(d, i)'
    <3>1. job.frag < job'.frag \/ job'.at = "row"
      BY <1>2, <1>3, RowType
    <3> QED
      BY <1>2, <1>3, <1>6, <3>1, RowType DEF Spent
  <2>3. CASE d = Of[f] /\ i = job.frag
    <3>1. ~Spent(d, i)
      BY <1>1, <1>2, <2>3 DEF Spent, OfThisTick
    <3>2. Spent(d, i)'
      BY <1>2, <1>3, <2>3, RowType DEF Spent
    <3>3. tx'.pot[d][i] = tx.pot[d][i] + Added
      BY <1>2, <2>3
    <3>4. IF i <= Labels THEN Added <= Copies(cut, d) + 1 ELSE Added = 1
      BY <1>1, <1>2, <2>3 DEF Batched, Added
    <3>5. PICK k \in Nat : k = Copies(cut, d)
      BY <1>5
    <3>6. Bound(i, k) + 2 * Added <= Bound(i, k + 1)
      BY <1>2, <3>4, <3>5, BoundStep
    <3>7. Bound(i, k) \in Nat /\ Bound(i, k + 1) \in Nat
      BY <3>5, BoundGrows
    <3>8. 2 * tx.pot[d][i] <= Bound(i, k)
      BY <2>1, <3>1, <3>5
    <3>9. 2 * tx'.pot[d][i] = 2 * tx.pot[d][i] + 2 * Added
      BY <1>2, <1>5, <3>3
    <3>10. 2 * tx'.pot[d][i] <= Bound(i, k + 1)
      BY <1>2, <1>5, <3>6, <3>7, <3>8, <3>9
    <3> QED
      BY <3>2, <3>5, <3>10
  <2>4. CASE ~(d = Of[f] /\ i = job.frag)
    <3>1. tx'.pot[d][i] = tx.pot[d][i]
      BY <1>2, <2>4
    <3>2. CASE Spent(d, i) \/ ~Spent(d, i)'
      BY <2>1, <2>2, <3>1, <3>2
    <3>3. CASE ~Spent(d, i) /\ Spent(d, i)'
      <4>1. PICK k \in Nat : k = Copies(cut, d)
        BY <1>5
      <4>2. Bound(i, k) <= Bound(i, k + 1) /\ Bound(i, k) \in Nat /\ Bound(i, k + 1) \in Nat
        BY BoundGrows
      <4>3. 2 * tx'.pot[d][i] <= Bound(i, k)
        BY <2>1, <3>1, <3>3, <4>1
      <4>4. 2 * tx'.pot[d][i] <= Bound(i, k + 1)
        BY <1>5, <3>1, <4>2, <4>3
      <4> QED
        BY <3>3, <4>1, <4>4
    <3> QED
      BY <3>2, <3>3
  <2> QED
    BY <2>3, <2>4
<1>9. Ahead'
  <2>1. \A d \in Doc, i \in 1..Frags : db.pot[d][i] <= tx'.pot[d][i] /\ tx'.pot[d][i] \in Nat
    BY <1>1, <1>2, <1>5 DEF Ahead
  <2>2. \A d \in Doc, i \in 1..Frags : db'.pot[d][i] <= tx'.pot[d][i]
    BY <1>4, <2>1
  <2>3. \A d \in Doc : Known(db', d) => Known(tx', d)
    BY <1>1, <1>6, <1>7 DEF Ahead
  <2> QED
    BY <2>2, <2>3 DEF Ahead
<1>10. OfThisTick'
  BY <1>1, <1>2, <1>3, <1>4, <1>6, <1>7 DEF OfThisTick
<1>11. Batched'
  <2>1. \A d \in Doc : ~Known(tx', d) => batch[d] \subseteq cut \cup {f}
    BY <1>1, <1>2, <1>6 DEF Batched
  <2>2. {f} \subseteq job.moved
    BY <1>2 DEF IngestTypes, FilePlaces
  <2>3. \A d \in Doc : ~Known(db', d) => batch[d] \subseteq cut \cup job.moved
    BY <1>1, <1>6, <1>7, <2>1, <2>2 DEF Batched
  <2>4. job.copies <= Copies(cut, Of[f]) + 1
    BY <1>1, <1>2 DEF Batched
  <2> QED
    BY <1>3, <1>4, <2>1, <2>3, <2>4 DEF Batched, Copies
<1> QED
  BY <1>8, <1>9, <1>10, <1>11 DEF OnceInv

LEMMA RowOnce ==
    ASSUME IngestTypes, OnceInv, NEW f \in File, Row(f)
    PROVE  OnceInv'
<1>1. FieldTypes /\ FilePlaces /\ AtMostOnce /\ Ahead /\ OfThisTick /\ Batched
  BY DEF IngestTypes, OnceInv
<1>2. /\ Of[f] \in Doc /\ tx \in Tables /\ tx' \in Tables /\ job \in Job
      /\ job.file = {f} /\ job.at = "row" /\ f \in job.moved /\ job.reading \in Readings
      /\ tx'.rows = tx.rows \cup {<<Of[f], job.reading>>} /\ tx'.pot = tx.pot
      /\ job'.at = "next" /\ job'.file = {} /\ job'.moved = job.moved
  BY RowStep
<1>3. UNCHANGED <<batch, cut>> /\ (db' = db \/ db' = tx')
  BY DEF Row
<1>4. \A d \in Doc : Known(tx', d) <=> Known(tx, d) \/ d = Of[f]
  BY <1>2, KnownMore
<1>5. (\A d : Known(db', d) <=> Known(db, d)) \/ (\A d : Known(db', d) <=> Known(tx', d))
  BY <1>3
<1>6. AtMostOnce'
  <2>1. \A d \in Doc, i \in 1..Frags : Spent(d, i)' <=> Spent(d, i)
    BY <1>2, <1>4 DEF Spent
  <2> QED
    BY <1>1, <1>2, <1>3, <2>1 DEF AtMostOnce, Copies, Bound
<1>7. \A d \in Doc, i \in 1..Frags : tx.pot[d][i] \in Nat
  BY <1>1, CellTypes
<1>8. Ahead'
  <2>1. \A d \in Doc, i \in 1..Frags : db'.pot[d][i] <= tx'.pot[d][i]
    BY <1>1, <1>2, <1>3, <1>7 DEF Ahead
  <2>2. \A d \in Doc : Known(db', d) => Known(tx', d)
    BY <1>1, <1>4, <1>5 DEF Ahead
  <2> QED
    BY <2>1, <2>2 DEF Ahead
<1>9. OfThisTick'
  BY <1>1, <1>2, <1>3, <1>4, <1>5 DEF OfThisTick
<1>10. Batched'
  <2>1. ASSUME NEW d \in Doc, ~Known(tx', d) PROVE batch[d] \subseteq cut
    <3>1. d # Of[f] /\ batch[d] \subseteq cut \cup {f}
      BY <1>1, <1>2, <1>4, <2>1 DEF Batched
    <3> QED
      BY <1>1, <3>1 DEF FilePlaces
  <2>2. \A d \in Doc : ~Known(db', d) => batch[d] \subseteq cut \cup job.moved
    BY <1>1, <1>5, <2>1 DEF Batched
  <2> QED
    BY <1>2, <1>3, <2>1, <2>2 DEF Batched
<1> QED
  BY <1>6, <1>8, <1>9, <1>10 DEF OnceInv

LEMMA DecayOnce ==
    ASSUME IngestTypes, OnceInv, TickDecay \/ OtherDecay
    PROVE  OnceInv'
<1>1. FieldTypes /\ FilePlaces /\ InHand /\ AtMostOnce /\ Ahead /\ OfThisTick /\ Batched
  BY DEF IngestTypes, OnceInv
<1>2. job \in Job /\ UNCHANGED <<batch, cut>>
  BY <1>1 DEF FieldTypes, TickDecay, OtherDecay
<1>3. \/ UNCHANGED job
      \/ /\ job.at = "decay" /\ job.file = {} /\ job'.at \in {"ontology", "end"}
         /\ job'.file = job.file /\ job'.moved = job.moved
  BY <1>1, <1>2 DEF TickDecay, OtherDecay, Job, At, InHand
<1>4. \A d \in Doc, i \in 1..Frags : tx.pot[d][i] \in Nat
  BY <1>1, CellTypes
<1>5. /\ tx'.rows = tx.rows /\ tx'.pot = tx.pot
      /\ db'.rows = db.rows /\ db'.pot = db.pot
  BY <1>1, DecayStep DEF TickDecay, OtherDecay
<1>6. \A d : (Known(tx', d) <=> Known(tx, d)) /\ (Known(db', d) <=> Known(db, d))
  BY <1>5, KnownRows
<1>7. AtMostOnce'
  <2>1. \A d \in Doc, i \in 1..Frags : Spent(d, i)' <=> Spent(d, i)
    BY <1>3, <1>6 DEF Spent
  <2> QED
    BY <1>1, <1>2, <1>5, <2>1 DEF AtMostOnce, Copies, Bound
<1>8. Ahead'
  BY <1>1, <1>5, <1>6 DEF Ahead
<1>9. OfThisTick'
  BY <1>1, <1>2, <1>3, <1>6 DEF OfThisTick
<1>10. Batched'
  BY <1>1, <1>2, <1>3, <1>6 DEF Batched, Copies
<1> QED
  BY <1>7, <1>8, <1>9, <1>10 DEF OnceInv

(* A tick that is cut off gives each document it spent a cut file.         *)
LEMMA AbandonOnce ==
    ASSUME IngestTypes, OnceInv, Abandon
    PROVE  OnceInv'
<1>1. FieldTypes /\ FilePlaces /\ InHand /\ AtMostOnce /\ Ahead /\ OfThisTick /\ Batched
  BY DEF IngestTypes, OnceInv
<1>2. /\ tx' = db /\ db' = db /\ batch' = batch /\ job' = Idle
      /\ cut \subseteq cut' /\ cut' \subseteq cut \cup job.moved
      /\ \A f \in job.moved : ~Known(db, Of[f]) => f \in cut'
  BY AbandonStep
<1>3. Idle.at = "off" /\ Idle.moved = {} /\ Idle.file = {}
  BY DEF Idle
<1>4. cut \in SUBSET File /\ job.moved \in SUBSET File /\ cut' \in SUBSET File
  BY <1>1, <1>2 DEF FieldTypes, Job
<1>5. \A d \in Doc, i \in 1..Frags : tx.pot[d][i] \in Nat /\ db.pot[d][i] \in Nat
  BY <1>1, CellTypes
<1>6. AtMostOnce'
  <2> SUFFICES ASSUME NEW d \in Doc, NEW i \in 1..Frags
               PROVE  2 * db.pot[d][i]
                          <= Bound(i, Copies(cut', d) + (IF Known(db, d) THEN 1 ELSE 0))
    BY <1>2, <1>3 DEF AtMostOnce, Copies, Bound, Spent
  <2>1. /\ Copies(cut, d) \in Nat /\ Copies(cut', d) \in Nat /\ Copies(cut, d) <= Copies(cut', d)
        /\ \A g \in cut' \ cut : Of[g] = d => Copies(cut, d) + 1 <= Copies(cut', d)
    BY <1>2, <1>4, CopiesGrow
  <2>2. /\ db.pot[d][i] <= tx.pot[d][i]
        /\ 2 * tx.pot[d][i] <= Bound(i, Copies(cut, d) + (IF Spent(d, i) THEN 1 ELSE 0))
    BY <1>1 DEF AtMostOnce, Ahead
  <2>3. PICK k \in Nat : k = Copies(cut, d) + (IF Spent(d, i) THEN 1 ELSE 0)
    BY <2>1
  <2>4. PICK m \in Nat : m = Copies(cut', d) + (IF Known(db, d) THEN 1 ELSE 0)
    BY <2>1
  <2>5. k <= m
    <3>1. CASE ~Spent(d, i) \/ Known(db, d)
      BY <2>1, <2>3, <2>4, <3>1
    <3>2. CASE Spent(d, i) /\ ~Known(db, d)
      <4>1. \E g \in job.moved : Of[g] = d
        BY <1>1, <3>2 DEF Spent, OfThisTick, FilePlaces
      <4>2. \E g \in cut' \ cut : Of[g] = d
        BY <1>1, <1>2, <3>2, <4>1 DEF OfThisTick
      <4>3. Copies(cut, d) + 1 <= Copies(cut', d)
        BY <2>1, <4>2
      <4> QED
        BY <2>1, <2>3, <2>4, <3>2, <4>3
    <3> QED
      BY <3>1, <3>2
  <2>6. Bound(i, k) <= Bound(i, m) /\ Bound(i, k) \in Nat /\ Bound(i, m) \in Nat
    BY <2>5, BoundGrows
  <2>7. 2 * db.pot[d][i] <= 2 * tx.pot[d][i] /\ 2 * tx.pot[d][i] <= Bound(i, k)
    BY <1>5, <2>2, <2>3
  <2>8. 2 * db.pot[d][i] <= Bound(i, m)
    BY <1>5, <2>6, <2>7
  <2> QED
    BY <2>4, <2>8
<1>7. Ahead'
  BY <1>2, <1>5 DEF Ahead
<1>8. OfThisTick'
  BY <1>2, <1>3 DEF OfThisTick
<1>9. Batched'
  <2>1. ASSUME NEW d \in Doc, ~Known(db, d) PROVE batch[d] \subseteq cut'
    <3>1. batch[d] \subseteq cut \cup job.moved
      BY <1>1, <2>1 DEF Batched
    <3>2. \A g \in batch[d] : Of[g] = d
      BY <1>1 DEF FilePlaces
    <3> QED
      BY <1>2, <2>1, <3>1, <3>2
  <2> QED
    BY <1>2, <1>3, <2>1 DEF Batched
<1> QED
  BY <1>6, <1>7, <1>8, <1>9 DEF OnceInv

LEMMA OnceInvStep ==
    ASSUME IngestTypes, OnceInv, IngestMove \/ UNCHANGED ingestVars
    PROVE  OnceInv'
<1>1. job \in Job /\ Committed /\ InHand /\ FieldTypes
  BY DEF IngestTypes, FieldTypes
<1>2. Idle.at = "off" /\ Idle.moved = {} /\ Idle.file = {}
  BY DEF Idle
<1>3. CASE CloseDb \/ Refresh \/ Rebuild \/ Ontology \/ Build
  <2>1. /\ UNCHANGED <<tx, batch, cut>> /\ (db' = db \/ db' = tx)
        /\ job.at \notin {"copy", "write", "row"} /\ job'.at \notin {"copy", "write", "row"}
        /\ job'.moved = job.moved /\ job'.file = job.file
    BY <1>1, <1>3 DEF CloseDb, Refresh, Rebuild, Ontology, Build, Forge, BuildMemory, Job, At
  <2>2. job.file = {}
    BY <1>1, <2>1 DEF InHand
  <2> QED
    BY <2>1, <2>2, OncePlan
<1>4. CASE TakePrint
  <2>1. /\ UNCHANGED <<tx, db, batch, cut>>
        /\ job.at = "print" /\ job'.at = "decay"
        /\ job'.moved = {} /\ job'.file = job.file
    BY <1>1, <1>4 DEF TakePrint, Job, At
  <2>2. job.file = {} /\ tx = db
    BY <1>1, <2>1 DEF InHand, Committed
  <2> QED
    BY <2>1, <2>2, OncePlan
<1>5. CASE \/ \E force \in BOOLEAN : StartJob(force)
           \/ \E lost \in BOOLEAN : EndJob(lost)
  <2>1. /\ UNCHANGED <<tx, batch, cut, db>> /\ job.at \in {"off", "end"}
    BY <1>5 DEF StartJob, EndJob, At
  <2>2. job'.at \notin {"copy", "write", "row"} /\ job'.moved = {} /\ job'.file = {}
    <3>1. (\E force \in BOOLEAN : StartJob(force))
             => job'.at \in {"next", "print"} /\ job'.moved = {} /\ job'.file = {}
      BY <1>1, StartStep
    <3>2. (\E lost \in BOOLEAN : EndJob(lost)) => job' = Idle
      BY DEF EndJob
    <3> QED
      BY <1>2, <1>5, <3>1, <3>2
  <2>3. tx = db
    BY <1>1, <2>1 DEF Committed
  <2> QED
    BY <2>1, <2>2, <2>3, OncePlan
<1>6. CASE (\E f \in File : Drop(f)) \/ OtherBuild \/ Forget \/ UNCHANGED ingestVars
  <2>1. UNCHANGED <<tx, batch, cut, db, job>>
    BY <1>6 DEF Drop, OtherBuild, Forget, ingestVars
  <2>2. AtMostOnce' /\ Ahead'
    BY <2>1 DEF OnceInv, AtMostOnce, Copies, Bound, Spent, Ahead
  <2>3. OfThisTick' /\ Batched'
    BY <2>1 DEF OnceInv, OfThisTick, Batched, Copies
  <2> QED
    BY <2>2, <2>3 DEF OnceInv
<1> QED
  BY <1>3, <1>4, <1>5, <1>6, TakeOnce, CopyOnce, PotentiateOnce, RowOnce, DecayOnce, AbandonOnce
  DEF IngestMove, Work

(* However often ticks are cut off, a document strengthens an edge of its  *)
(* list once for each of its files that was never booked and once more,    *)
(* and the n-th of those readings counts a label n times at most.          *)
THEOREM HippoPotentiatedOnce == HippoSpec => []PotentiatedOnce
<1>1. HippoInit => IngestTypes /\ OnceInv
  <2> SUFFICES ASSUME IngestInit PROVE IngestTypes /\ OnceInv
    BY DEF HippoInit
  <2>1. /\ cut = {} /\ tx = db /\ db = NoTables /\ job.moved = {} /\ job.at = "off"
        /\ \A d \in Doc : batch[d] = {}
    BY DEF IngestInit, Idle
  <2>2. \A d \in Doc, i \in 1..Frags : db.pot[d][i] = 0 /\ ~Known(db, d)
    BY <2>1 DEF NoTables, Known
  <2>3. AtMostOnce
    <3> SUFFICES ASSUME NEW d \in Doc, NEW i \in 1..Frags
                 PROVE  0 <= Bound(i, Copies(cut, d) + (IF Spent(d, i) THEN 1 ELSE 0))
      BY <2>1, <2>2 DEF AtMostOnce
    <3>1. Copies(cut, d) + (IF Spent(d, i) THEN 1 ELSE 0) \in Nat
      BY <2>1, CopiesGrow
    <3> QED
      BY <3>1, BoundGrows
  <2>4. \A d \in Doc : ~Known(db, d)
    BY <2>1 DEF NoTables, Known
  <2> QED
    BY <2>1, <2>2, <2>3, <2>4, IngestStart DEF OnceInv, Ahead, OfThisTick, Batched
<1>2. IngestTypes /\ OnceInv /\ [HippoNext]_hippoVars => (IngestTypes /\ OnceInv)'
  <2> SUFFICES ASSUME IngestTypes, OnceInv, [HippoNext]_hippoVars
               PROVE  (IngestTypes /\ OnceInv)'
    OBVIOUS
  <2>1. IngestMove \/ UNCHANGED ingestVars
    BY HippoStepIsIngestStep DEF hippoVars
  <2> QED
    BY <2>1, IngestTypesStep, OnceInvStep
<1>3. IngestTypes /\ OnceInv => PotentiatedOnce
  <2> SUFFICES ASSUME IngestTypes, OnceInv, NEW d \in Doc, NEW i \in 1..Frags
               PROVE  LET n == 1 + Copies(cut, d)
                      IN  IF i <= Labels THEN 2 * db.pot[d][i] <= n * (n + 1)
                          ELSE db.pot[d][i] <= n
    BY DEF PotentiatedOnce, Copies, CutOf
  <2>1. FieldTypes /\ AtMostOnce /\ Ahead
    BY DEF IngestTypes, OnceInv
  <2>2. tx.pot[d][i] \in Nat /\ db.pot[d][i] \in Nat /\ Copies(cut, d) \in Nat
    BY <2>1, CellTypes
  <2>3. PICK n \in Nat, k \in Nat :
           /\ n = 1 + Copies(cut, d)
           /\ k = Copies(cut, d) + (IF Spent(d, i) THEN 1 ELSE 0) /\ k <= n
    BY <2>2
  <2>4. Bound(i, k) <= Bound(i, n) /\ Bound(i, k) \in Nat /\ Bound(i, n) \in Nat
    BY <2>3, BoundGrows
  <2>5. db.pot[d][i] <= tx.pot[d][i] /\ 2 * tx.pot[d][i] <= Bound(i, k)
    BY <2>1, <2>3 DEF AtMostOnce, Ahead
  <2>6. 2 * db.pot[d][i] <= Bound(i, n)
    BY <2>2, <2>4, <2>5
  <2> QED
    BY <2>2, <2>3, <2>6 DEF Bound
<1> QED
  BY <1>1, <1>2, <1>3, PTL DEF HippoSpec
-----------------------------------------------------------------------------
(* A saved fingerprint that fits tells of a projection that is up to date *)

Before(a, b) == a.of \subseteq b.of /\ (a.of = b.of => a.ver <= b.ver)

(* Fingerprints are partially ordered by what can come after what: files   *)
(* are added and move on, and the ontology's files change until they have  *)
(* settled, never back.                                                    *)
Older(p, i) ==
    \/ p = NoPrint
    \/ /\ p.cleaned \subseteq i.cleaned /\ p.raw \subseteq i.raw \cup i.cleaned
       /\ Before(p.onto, i.onto)

Taken == {i \in Fingerprint : i.raw \cap i.cleaned = {} /\ i.onto \in Version}

Current == proj.files = Cleaned /\ (proj.onto = onto \/ proj.late)

(* The tick has built, or does not have to. *)
Done == job.at = "end" \/ (job.at = "decay" /\ job.build = FALSE)

SeenInv ==
    /\ Older(last, Inputs) /\ Older(job.seen, Inputs)
    /\ last = Inputs => Current
    /\ Done /\ job.seen = Inputs => Current

LEMMA NoPrintTaken == NoPrint \notin Taken
  BY IngestBoundAssumption DEF Taken, NoPrint, Version

LEMMA InputsTaken ==
    ASSUME FieldTypes
    PROVE  Inputs \in Taken
<1>1. Inputs \in Fingerprint /\ InRaw \cap Cleaned = {} /\ onto \in Version
  BY InputsType DEF InRaw, Cleaned, FieldTypes
<1> QED
  BY <1>1 DEF Inputs, Taken

LEMMA OlderOrder ==
    ASSUME NEW i \in Taken, NEW j \in Taken, Older(i, j), NEW p \in Fingerprint, Older(p, i)
    PROVE  Older(p, j) /\ (p = j => i = j)
<1>1. i # NoPrint /\ j # NoPrint
  BY NoPrintTaken
<1>2. /\ i.cleaned \subseteq j.cleaned /\ i.raw \subseteq j.raw \cup j.cleaned
      /\ Before(i.onto, j.onto)
  BY <1>1 DEF Older
<1>3. CASE p = NoPrint
  BY <1>1, <1>3 DEF Older
<1>4. CASE p # NoPrint
  <2>1. /\ p.cleaned \subseteq i.cleaned /\ p.raw \subseteq i.raw \cup i.cleaned
        /\ Before(p.onto, i.onto)
    BY <1>4 DEF Older
  <2>2. /\ i.onto.ver \in Int /\ j.onto.ver \in Int /\ p.onto.ver \in Int
    BY IngestBoundAssumption DEF Taken, Version, Fingerprint
  <2>3. Before(p.onto, j.onto)
    <3>1. p.onto.of \subseteq i.onto.of /\ i.onto.of \subseteq j.onto.of
      BY <1>2, <2>1 DEF Before
    <3>2. ASSUME p.onto.of = j.onto.of PROVE p.onto.ver <= j.onto.ver
      <4>1. p.onto.of = i.onto.of /\ i.onto.of = j.onto.of
        BY <3>1, <3>2
      <4>2. p.onto.ver <= i.onto.ver /\ i.onto.ver <= j.onto.ver
        BY <1>2, <2>1, <4>1 DEF Before
      <4> QED
        BY <2>2, <4>2
    <3> QED
      BY <3>1, <3>2 DEF Before
  <2>4. Older(p, j)
    BY <1>2, <2>1, <2>3 DEF Older
  <2>5. ASSUME p = j PROVE i = j
    <3>1. i.cleaned = j.cleaned
      BY <1>2, <2>1, <2>5
    <3>2. i.raw = j.raw
      BY <1>2, <2>1, <2>5, <3>1 DEF Taken
    <3>3. i.onto = j.onto
      <4>1. i.onto.of = j.onto.of
        BY <1>2, <2>1, <2>5 DEF Before
      <4>2. i.onto.ver <= j.onto.ver /\ j.onto.ver <= i.onto.ver
        BY <1>2, <2>1, <2>5, <4>1 DEF Before
      <4>3. i.onto.ver = j.onto.ver
        BY <2>2, <4>2
      <4> QED
        BY <4>1, <4>3 DEF Taken, Version
    <3> QED
      BY <3>1, <3>2, <3>3 DEF Taken, Fingerprint
  <2> QED
    BY <2>4, <2>5
<1> QED
  BY <1>3, <1>4

LEMMA OlderSame ==
    ASSUME NEW i \in Taken
    PROVE  Older(i, i)
<1>1. i.onto.ver \in Int
  BY IngestBoundAssumption DEF Taken, Version
<1> QED
  BY <1>1 DEF Older, Before

(* No step goes back to older inputs. *)
LEMMA InputsGrow ==
    ASSUME IngestTypes, IngestMove \/ UNCHANGED ingestVars
    PROVE  Older(Inputs, Inputs')
<1>1. FieldTypes /\ FilePlaces /\ onto \in Version /\ onto.of \subseteq Cleaned
  BY DEF IngestTypes, FieldTypes, FilePlaces
<1>2. /\ Inputs.raw = InRaw /\ Inputs.cleaned = Cleaned /\ Inputs.onto = onto
      /\ Inputs'.raw = InRaw' /\ Inputs'.cleaned = Cleaned' /\ Inputs'.onto = onto'
  BY DEF Inputs
<1>3. onto.ver \in Int
  BY <1>1, IngestBoundAssumption DEF Version
<1>4. CASE \E next \in {"rebuild", "build"} : Forge(next)
  <2>1. Cleaned' = Cleaned /\ InRaw' = InRaw
    BY <1>4 DEF Forge, Cleaned, InRaw
  <2>2. Before(onto, onto')
    <3>1. onto' = IF onto.of # Cleaned THEN [of |-> Cleaned, ver |-> 0]
                  ELSE [onto EXCEPT !.ver = IF @ < Settling THEN @ + 1 ELSE @]
      BY <1>4 DEF Forge
    <3>2. CASE onto.of # Cleaned
      BY <1>1, <3>1, <3>2 DEF Before
    <3>3. CASE onto.of = Cleaned
      BY <1>1, <1>3, <3>1, <3>3, IngestBoundAssumption DEF Before, Version
    <3> QED
      BY <3>2, <3>3
  <2> QED
    BY <1>2, <2>1, <2>2 DEF Older
<1>5. CASE \E f \in File : Drop(f) \/ Take(f)
  <2>1. PICK f \in File : Drop(f) \/ Take(f)
    BY <1>5
  <2>2. onto' = onto /\ \E to \in {"raw", "cleaned"} :
           /\ place' = [place EXCEPT ![f] = to] /\ f \notin Cleaned
           /\ to = "raw" => f \notin InRaw
    BY <1>1, <2>1 DEF Drop, Take, FilePlaces, InRaw, Cleaned
  <2>3. Cleaned \subseteq Cleaned' /\ InRaw \cup Cleaned \subseteq InRaw' \cup Cleaned'
    BY <1>1, <2>2, MoveFile
  <2> QED
    BY <1>2, <1>3, <2>2, <2>3 DEF Older, Before
<1>6. CASE UNCHANGED <<place, onto>>
  <2>1. Inputs' = Inputs /\ Inputs \in Taken
    BY <1>1, <1>6, InputsTaken DEF Inputs, InRaw, Cleaned
  <2> QED
    BY <2>1, OlderSame
<1>7. Refresh \/ Ontology => \E next \in {"rebuild", "build"} : Forge(next)
  BY DEF Refresh, Ontology
<1>8. (\E f \in File : ReadBatch(f) \/ Potentiate(f) \/ Row(f)) => UNCHANGED <<place, onto>>
  BY DEF ReadBatch, Potentiate, Row
<1>9. CloseDb \/ Rebuild \/ TakePrint \/ Build => UNCHANGED <<place, onto>>
  BY DEF CloseDb, Rebuild, TakePrint, Build, BuildMemory
<1>10. \/ \E force \in BOOLEAN : StartJob(force)
       \/ \E lost \in BOOLEAN : EndJob(lost)
       \/ OtherBuild \/ Forget \/ TickDecay \/ OtherDecay \/ UNCHANGED ingestVars
       => UNCHANGED <<place, onto>>
  BY DEF StartJob, EndJob, OtherBuild, Forget, TickDecay, OtherDecay, ingestVars
<1>11. Abandon => UNCHANGED <<place, onto>>
  BY AbandonStep
<1> QED
  BY <1>4, <1>5, <1>6, <1>7, <1>8, <1>9, <1>10, <1>11 DEF IngestMove, Work

(* A projection that is up to date stays so while the inputs do. *)
LEMMA CurrentKept ==
    ASSUME IngestTypes, IngestMove \/ UNCHANGED ingestVars, Inputs' = Inputs, Current
    PROVE  Current'
<1>1. proj \in Projection /\ proj.files \subseteq Cleaned
  BY DEF IngestTypes, FieldTypes, FilePlaces
<1>2. Cleaned' = Cleaned /\ onto' = onto
  BY DEF Inputs
<1>3. CASE UNCHANGED proj
  BY <1>2, <1>3 DEF Current
<1>4. CASE \E next \in {"print", "end"} : BuildMemory(next)
  BY <1>1, <1>2, <1>4 DEF BuildMemory, Current
<1>5. CASE Abandon
  <2>1. \/ UNCHANGED proj
        \/ \E some \in SUBSET Cleaned :
              proj' = [proj EXCEPT !.files = @ \cup some, !.built = TRUE]
    BY <1>5, AbandonStep
  <2> QED
    BY <1>1, <1>2, <1>3, <2>1 DEF Current, Projection
<1>6. CASE OtherBuild
  <2>1. PICK old \in {onto, proj.onto} :
           proj' = [files |-> proj.files \cup Cleaned, onto |-> old,
                    built |-> TRUE, late |-> old # onto]
    BY <1>6 DEF OtherBuild
  <2>2. proj'.files = proj.files \cup Cleaned /\ proj'.onto = old /\ proj'.late = (old # onto)
    BY <2>1
  <2>3. proj'.files = Cleaned'
    BY <1>1, <1>2, <2>2
  <2>4. proj'.onto = onto' \/ proj'.late
    BY <1>2, <2>2
  <2> QED
    BY <2>3, <2>4 DEF Current
<1>7. Rebuild \/ Build => \E next \in {"print", "end"} : BuildMemory(next)
  BY DEF Rebuild, Build
<1>8. (\E f \in File : Drop(f) \/ Take(f) \/ ReadBatch(f) \/ Potentiate(f) \/ Row(f))
          => UNCHANGED proj
  BY DEF Drop, Take, ReadBatch, Potentiate, Row
<1>9. CloseDb \/ Refresh \/ TakePrint \/ Ontology => UNCHANGED proj
  BY DEF CloseDb, Refresh, TakePrint, Ontology, Forge
<1>10. \/ \E force \in BOOLEAN : StartJob(force)
       \/ \E lost \in BOOLEAN : EndJob(lost)
       \/ Forget \/ TickDecay \/ OtherDecay \/ UNCHANGED ingestVars
       => UNCHANGED proj
  BY DEF StartJob, EndJob, Forget, TickDecay, OtherDecay, ingestVars
<1> QED
  BY <1>3, <1>4, <1>5, <1>6, <1>7, <1>8, <1>9, <1>10 DEF IngestMove, Work

LEMMA SeenInvStep ==
    ASSUME IngestTypes, SeenInv, IngestMove \/ UNCHANGED ingestVars
    PROVE  SeenInv'
<1>1. IngestTypes' /\ FieldTypes /\ FieldTypes' /\ FilePlaces
  BY IngestTypesStep DEF IngestTypes
<1>2. /\ Older(last, Inputs) /\ Older(job.seen, Inputs)
      /\ last = Inputs => Current
      /\ Done /\ job.seen = Inputs => Current
  BY DEF SeenInv
<1>3. /\ Inputs \in Taken /\ Inputs' \in Taken /\ Older(Inputs, Inputs')
      /\ last \in Fingerprint /\ job.seen \in Fingerprint /\ job \in Job
  <2>1. InRaw' \in SUBSET File /\ Cleaned' \in SUBSET File /\ InRaw' \cap Cleaned' = {}
    BY DEF InRaw, Cleaned
  <2>2. Inputs' = [raw |-> InRaw', cleaned |-> Cleaned', onto |-> onto']
    BY DEF Inputs
  <2>3. onto' \in Version
    BY <1>1 DEF FieldTypes
  <2>4. Inputs' \in Taken
    BY <2>1, <2>2, <2>3 DEF Taken, Fingerprint, Version
  <2>5. Inputs \in Taken
    BY <1>1, InputsTaken
  <2>6. last \in Fingerprint /\ job.seen \in Fingerprint /\ job \in Job
    BY <1>1 DEF FieldTypes, Job
  <2> QED
    BY <2>4, <2>5, <2>6, InputsGrow
<1>4. /\ Older(last, Inputs') /\ (last = Inputs' => Inputs' = Inputs)
      /\ Older(job.seen, Inputs') /\ (job.seen = Inputs' => Inputs' = Inputs)
  BY <1>2, <1>3, OlderOrder
<1>5. /\ last = Inputs' => Current'
      /\ Done /\ job.seen = Inputs' => Current'
  BY <1>2, <1>4, CurrentKept
<1>6. NoPrint # Inputs' /\ Older(NoPrint, Inputs')
  BY <1>3, NoPrintTaken DEF Older
<1>7. Idle.seen = NoPrint /\ Idle.at = "off"
  BY DEF Idle
<1>8. CASE TakePrint
  <2>1. /\ last' = last /\ Inputs' = Inputs
        /\ job'.seen = Inputs /\ job'.at = "decay" /\ job'.build = NeedsBuild
    BY <1>3, <1>8 DEF TakePrint, Job, Inputs, InRaw, Cleaned
  <2>2. Done' => Current'
    BY <1>5, <2>1 DEF NeedsBuild, Done
  <2>3. Older(job'.seen, Inputs')
    BY <1>3, <2>1, OlderSame
  <2> QED
    BY <1>4, <1>5, <2>1, <2>2, <2>3 DEF SeenInv
<1>9. CASE Rebuild \/ Build
  <2>1. last' = last /\ job'.seen = job.seen
    BY <1>3, <1>9 DEF Rebuild, Build, BuildMemory, Job
  <2>2. Current'
    <3>1. PICK next \in {"print", "end"} : BuildMemory(next)
      BY <1>9 DEF Rebuild, Build
    <3>2. Cleaned' = Cleaned /\ onto' = onto
      BY <3>1 DEF BuildMemory, Cleaned
    <3> QED
      BY <1>1, <3>1, <3>2 DEF BuildMemory, Current, FilePlaces
  <2> QED
    BY <1>4, <2>1, <2>2 DEF SeenInv
<1>10. CASE \/ \E f \in File : Take(f) \/ ReadBatch(f) \/ Potentiate(f) \/ Row(f)
            \/ CloseDb \/ Refresh \/ Ontology
  <2>1. (\E f \in File : Take(f) \/ Row(f)) \/ CloseDb
           => last' = last /\ job'.seen = job.seen /\ job'.at \notin {"decay", "end"}
    BY <1>3 DEF Take, Row, CloseDb, Job
  <2>2. (\E f \in File : Potentiate(f))
           => last' = last /\ job'.seen = job.seen /\ job'.at \notin {"decay", "end"}
    BY <1>3 DEF Potentiate, At, Job
  <2>3. Refresh \/ Ontology
           => last' = last /\ job'.seen = job.seen /\ job'.at \notin {"decay", "end"}
    BY <1>3 DEF Refresh, Ontology, Forge, Job
  <2>4. (\E f \in File : ReadBatch(f))
           => last' = last /\ job'.seen = job.seen /\ job'.at \notin {"decay", "end"}
    BY <1>3 DEF ReadBatch, Copy, Job
  <2> QED
    BY <1>4, <1>5, <1>10, <2>1, <2>2, <2>3, <2>4 DEF SeenInv, Done
<1>11. CASE (\E f \in File : Drop(f)) \/ OtherBuild \/ OtherDecay \/ UNCHANGED ingestVars
  <2>1. last' = last /\ job' = job
    BY <1>11 DEF Drop, OtherBuild, OtherDecay, ingestVars
  <2> QED
    BY <1>4, <1>5, <2>1 DEF SeenInv, Done
<1>12. CASE \/ \E force \in BOOLEAN : StartJob(force)
            \/ Abandon
  <2>1. last' = last /\ job'.seen = NoPrint
    BY <1>1, <1>7, <1>12, StartStep, AbandonStep DEF StartJob
  <2> QED
    BY <1>4, <1>5, <1>6, <2>1 DEF SeenInv
<1>13. CASE \E lost \in BOOLEAN : EndJob(lost)
  <2>1. /\ job.at = "end" /\ (last' = last \/ last' = job.seen)
        /\ job'.seen = NoPrint
    BY <1>7, <1>13 DEF EndJob, At
  <2> QED
    BY <1>4, <1>5, <1>6, <2>1 DEF SeenInv, Done
<1>14. CASE Forget
  <2>1. last' = NoPrint /\ job' = job
    BY <1>14 DEF Forget
  <2> QED
    BY <1>4, <1>5, <1>6, <2>1 DEF SeenInv, Done
<1>15. CASE TickDecay
  <2>1. last' = last /\ job'.seen = job.seen /\ (Done' => Done)
    BY <1>3, <1>15 DEF TickDecay, At, Job, Done
  <2> QED
    BY <1>4, <1>5, <2>1 DEF SeenInv
<1> QED
  BY <1>8, <1>9, <1>10, <1>11, <1>12, <1>13, <1>14, <1>15 DEF IngestMove, Work

(* The saved fingerprint never vouches for a projection that misses a      *)
(* cleaned file or the ontology, whenever files came and a tick was cut    *)
(* off.                                                                    *)
THEOREM HippoCurrentWhenSeen == HippoSpec => []CurrentWhenSeen
<1>1. HippoInit => IngestTypes /\ SeenInv
  <2> SUFFICES ASSUME IngestInit PROVE IngestTypes /\ SeenInv
    BY DEF HippoInit
  <2>1. IngestTypes /\ FieldTypes
    BY IngestStart DEF IngestTypes
  <2>2. last = NoPrint /\ job.seen = NoPrint /\ job.at = "off"
    BY DEF IngestInit, Idle
  <2>3. Inputs # NoPrint
    BY <2>1, InputsTaken, NoPrintTaken
  <2> QED
    BY <2>1, <2>2, <2>3 DEF SeenInv, Older, Done
<1>2. IngestTypes /\ SeenInv /\ [HippoNext]_hippoVars => (IngestTypes /\ SeenInv)'
  <2> SUFFICES ASSUME IngestTypes, SeenInv, [HippoNext]_hippoVars
               PROVE  (IngestTypes /\ SeenInv)'
    OBVIOUS
  <2>1. IngestMove \/ UNCHANGED ingestVars
    BY HippoStepIsIngestStep DEF hippoVars
  <2> QED
    BY <2>1, IngestTypesStep, SeenInvStep
<1>3. SeenInv => CurrentWhenSeen
  BY DEF SeenInv, Current, CurrentWhenSeen
<1> QED
  BY <1>1, <1>2, <1>3, PTL DEF HippoSpec
=============================================================================
