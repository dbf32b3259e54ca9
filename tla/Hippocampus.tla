----------------------------- MODULE Hippocampus -----------------------------
(***************************************************************************)
(* The learning daemon at work: LearningDaemon decides when a tick runs,   *)
(* RawIngest is the tick.  A tick holds the lock, so that of the daemon's  *)
(* steps only those that need no lock interleave with it; users, crashes   *)
(* and exceptions hit it anywhere.                                         *)
(***************************************************************************)
EXTENDS LearningDaemon, RawIngest

hippoVars == <<vars, ingestVars>>

HippoInit == Init /\ IngestInit

(* A tick by hand may be forced; the worker's ticks are not. *)
BeginTick(c) ==
    /\ TickBegin(c)
    /\ \E force \in {FALSE, c = Route} : StartJob(force)

EndTick(c) == \E lost \in BOOLEAN : TickEnd(c, lost) /\ EndJob(lost)

(* Any step of a tick may raise: a locked database, a file that cannot be  *)
(* read or moved.                                                          *)
FailTick(c) == TickRaise(c) /\ Abandon

Crash == (\E boot \in Boots : Restart(boot)) /\ Abandon

(* POST /start with resume = FALSE begins with the default state. *)
Begin(lost) ==
    /\ Start(lost)
    /\ \/ UNCHANGED ingestVars
       \/ ~Alive(pc) /\ ~lost /\ Forget

DecayByHand == PostDecay /\ OtherDecay

(* Steps that leave the files alone. *)
Supervise ==
    /\ \/ \E lost \in BOOLEAN : Poll(lost) \/ StopBegin(lost) \/ StopCheckpoint(lost)
       \/ StopJoin \/ StopClear
       \/ \E lost \in BOOLEAN : GuardedTick(Route, lost)
       \/ Press \/ Relieve
    /\ UNCHANGED ingestVars

(* The worker's steps outside a tick. *)
Idling(w) ==
    /\ \/ LoopCheck(w)
       \/ \E lost \in BOOLEAN : GuardedTick(w, lost) \/ WorkerStatus(w, lost)
    /\ UNCHANGED ingestVars

(* Users, the watcher of the cleaned directory, POST /api/memory/build.    *)
Others == ((\E f \in File : Drop(f)) \/ OtherBuild) /\ UNCHANGED vars
TickStep == Work /\ UNCHANGED vars

HippoNext ==
    \/ Supervise \/ Others \/ TickStep \/ Crash \/ DecayByHand
    \/ \E lost \in BOOLEAN : Begin(lost)
    \/ \E w \in Worker : Idling(w)
    \/ \E c \in Caller : BeginTick(c) \/ EndTick(c) \/ FailTick(c)

HippoSpec == HippoInit /\ [][HippoNext]_hippoVars

(* The daemon's fairness, and a tick goes on to its end. *)
HippoFairness ==
    /\ WF_hippoVars(Poll(FALSE) /\ UNCHANGED ingestVars)
    /\ \A w \in Worker : WF_hippoVars(Idling(w) \/ BeginTick(w))
    /\ WF_hippoVars(TickStep \/ \E c \in Caller : EndTick(c))

HippoFairSpec == HippoSpec /\ HippoFairness
-----------------------------------------------------------------------------
(* Properties *)

(* The tick's variables have their types; a tick is under way exactly when *)
(* somebody holds the lock, and what a connection wrote is committed or    *)
(* rolled back when the lock is free.                                      *)
IngestTypeOK ==
    /\ place \in [File -> {"none", "raw", "cleaned"}]
    /\ \A t \in {db, tx} :
          /\ t.has \subseteq Concept \cup Edge /\ t.gone \subseteq Concept \cup Edge
          /\ t.rows \subseteq Doc \X Readings
          /\ t.pot \in [Doc -> [1..Frags -> Nat]]
    /\ job.at \in {"off", "next", "copy", "write", "row", "refresh", "rebuild",
                   "print", "decay", "ontology", "build", "end"}
    /\ job.todo \subseteq InRaw /\ job.moved \subseteq Cleaned
    /\ (job.at = "off") = (lock = NoOne)
    /\ lock = NoOne => tx = db
    /\ \A d \in Doc : batch[d] \subseteq {f \in Cleaned : Of[f] = d}
    /\ onto.of \subseteq Cleaned /\ onto.ver \in 0..Settling
    /\ proj.files \subseteq Cleaned /\ proj.built \in BOOLEAN
    /\ cut \subseteq Cleaned

(* All nodes and edges of a document that is booked as ingested were       *)
(* committed for it, as it was read for the last time, and are in the      *)
(* synaptic tables or were taken by a decay: no auto-flush, exception or   *)
(* crash commits its row without them (learning_daemon.py:916-931,         *)
(* 977-986).                                                               *)
RowBacked ==
    \A booked \in db.rows, i \in 1..Frags :
        /\ db.pot[booked[1]][i] > 0
        /\ RowOf(booked[2], i) \in db.has \cup db.gone

(* A document's files that a tick moved and did not get to book.           *)
CutOf(d) == {f \in cut : Of[f] = d}

(* A document strengthens an edge of its list once, and once more at most  *)
(* for each of its files that a tick moved and did not get to book (the    *)
(* look-up by name and content, learning_daemon.py:893).  The n-th such    *)
(* reading finds n copies at most, so that it counts a label n times       *)
(* (learning_daemon.py:648, 907-913).                                      *)
PotentiatedOnce ==
    \A d \in Doc, i \in 1..Frags :
        LET n == 1 + Cardinality(CutOf(d))
        IN  IF i <= Labels THEN 2 * db.pot[d][i] <= n * (n + 1)
            ELSE db.pot[d][i] <= n

(* When the saved fingerprint is that of the inputs, the projection is up  *)
(* to date with every cleaned file and with the ontology, whatever users   *)
(* put down while the tick ran (learning_daemon.py:1132, 1152), unless a   *)
(* build without the lock wrote back an older ontology.                    *)
CurrentWhenSeen ==
    proj.built /\ last = Inputs => proj.files = Cleaned /\ (proj.onto = onto \/ proj.late)

Wanted == disk.want /\ disk.st # "guarded_pause"

(* A raw file is booked, unless the tick that moved it was cut off, or the *)
(* daemon is no longer wanted.                                             *)
Learned == \A f \in File :
    place[f] = "raw" /\ Wanted ~> Known(db, Of[f]) \/ f \in cut \/ ~Wanted

(* A cleaned file, also one whose tick was cut off, gets into the          *)
(* projection, or the daemon is no longer wanted.                          *)
Indexed == \A f \in File :
    place[f] = "cleaned" /\ Wanted ~> f \in proj.files \/ ~Wanted

(* When nobody adds files, ticks stop rebuilding a projection that has     *)
(* something in it: a rebuild is not what makes the next one due.          *)
Quiesces == <>[](proj.built => ~At("build"))
===============================================================================
