------------------------ MODULE LearningDaemon_proofs ------------------------
(***************************************************************************)
(* Theorems about LearningDaemon, for any set of threads and any bound:    *)
(* types, one worker, and stops that hold.                                 *)
(***************************************************************************)
EXTENDS LearningDaemon, TLAPS

Saved == [st : DaemonState, want : BOOLEAN]
Places == [Caller -> {"off", "check", "tick", "ticking", "status"}]

(* What daemon_status and everything that ends in it do to the fields of   *)
(* the worker, for callers that keep the set of running threads.           *)
ServeKeepsOne(p) ==
    \/ cur' = cur /\ stop' = stop /\ pc' = p /\ raced' = raced
    \/ \E w \in Worker \ Running(p) :
          /\ ~Alive(p)
          /\ cur' = w /\ pc' = [p EXCEPT ![w] = "check"]
          /\ stop' = FALSE /\ raced' = (raced \/ stopper = "clear")

(* Between stop_daemon's look at the thread and its dropping the handle    *)
(* nothing runs, unless somebody starts a thread in between.               *)
Dropping == stopper = "clear" /\ ~raced => Live = {}

DaemonInv == TypeOK /\ OneWorker /\ Dropping /\ StopHolds
-----------------------------------------------------------------------------
(* Lemmas *)

(* The saved state daemon_status writes is one of its states.              *)
LEMMA ReportedType ==
    ASSUME NEW d \in Saved, NEW p
    PROVE  /\ Reported(d, p) \in Saved
           /\ Reported(d, p).want = d.want
BY DEF Reported, Heals, Saved, DaemonState

(* A new thread is one that does not run. *)
LEMMA NewThreadIsFree ==
    ASSUME NEW p, Worker \ Running(p) # {}
    PROVE  NewThread(p) \in Worker \ Running(p)
BY DEF NewThread

LEMMA SpawnStep ==
    ASSUME NEW p, Spawn(p)
    PROVE  \E w \in Worker \ Running(p) :
              /\ cur' = w /\ pc' = [p EXCEPT ![w] = "check"]
              /\ stop' = FALSE /\ raced' = (raced \/ stopper = "clear")
BY NewThreadIsFree DEF Spawn

(* Whatever is saved and lost, the fields keep their types and the worker  *)
(* is kept, or replaced where there was none.                              *)
LEMMA ServeStep ==
    ASSUME TypeOK, NEW d \in Saved, NEW p \in Places, NEW lost \in BOOLEAN,
           Serve(d, p, lost)
    PROVE  \E seen \in {disk, d} :
           /\ lost \/ seen = d
           /\ disk' \in Saved /\ disk'.want = seen.want
           /\ stop' \in BOOLEAN /\ cur' \in Worker \cup {NoOne}
           /\ pc' \in Places /\ raced' \in BOOLEAN
           /\ ServeKeepsOne(p)
           /\ ~seen.want => pc' = p /\ stop' = stop
<1>1. disk \in Saved
  BY DEF TypeOK, Saved
<1>2. PICK seen \in {disk, d} :
         /\ lost \/ seen = d
         /\ IF Heals(seen, p) THEN Spawn(p) ELSE NoSpawn(p)
         /\ disk' = seen \/ disk' = Reported(seen, p)
  BY DEF Serve
<1>3. disk' \in Saved /\ disk'.want = seen.want
  BY <1>1, <1>2, ReportedType
<1>4. CASE Heals(seen, p)
  <2>1. PICK w \in Worker \ Running(p) :
            /\ cur' = w /\ pc' = [p EXCEPT ![w] = "check"]
            /\ stop' = FALSE /\ raced' = (raced \/ stopper = "clear")
    BY <1>2, <1>4, SpawnStep
  <2>2. ~Alive(p) /\ seen.want
    BY <1>4 DEF Heals
  <2>3. pc' \in Places
    BY <2>1 DEF Places
  <2> QED
    BY <1>2, <1>3, <2>1, <2>2, <2>3 DEF ServeKeepsOne, TypeOK
<1>5. CASE ~Heals(seen, p)
  BY <1>2, <1>3, <1>5 DEF NoSpawn, ServeKeepsOne, TypeOK
<1> QED
  BY <1>4, <1>5

(* A caller that runs no other threads than before keeps one worker.       *)
LEMMA ServeOne ==
    ASSUME DaemonInv, NEW p \in Places, Running(p) = Live,
           ServeKeepsOne(p), stopper' = stopper \/ stopper' = "none"
    PROVE  OneWorker' /\ Dropping'
<1>1. CASE cur' = cur /\ stop' = stop /\ pc' = p /\ raced' = raced
  BY <1>1 DEF DaemonInv, OneWorker, Dropping, Live, Running
<1>2. CASE \E w \in Worker \ Running(p) :
              /\ ~Alive(p)
              /\ cur' = w /\ pc' = [p EXCEPT ![w] = "check"]
              /\ stop' = FALSE /\ raced' = (raced \/ stopper = "clear")
  <2>1. PICK w \in Worker \ Running(p) :
            /\ ~Alive(p)
            /\ cur' = w /\ pc' = [p EXCEPT ![w] = "check"]
            /\ stop' = FALSE /\ raced' = (raced \/ stopper = "clear")
    BY <1>2
  <2>2. ~raced => Live = {}
    BY <2>1 DEF DaemonInv, OneWorker, Alive
  <2>3. ~raced => Live' = {w}
    BY <2>1, <2>2, ThreadAssumption DEF Live, Running, Places, Caller
  <2> QED
    BY <2>1, <2>3 DEF OneWorker, Dropping
<1> QED
  BY <1>1, <1>2 DEF ServeKeepsOne
-----------------------------------------------------------------------------
(* Every step keeps the invariant: one lemma for the steps that end in     *)
(* daemon_status, one for each of the others' kinds.                       *)

(* Polls, ticks' ends and guarded ticks, the worker's own look at the      *)
(* status and a stop's checkpoint differ in what they save and in pc.      *)
LEMMA ServeKeepsInv ==
    ASSUME DaemonInv, NEW d \in Saved, NEW p \in Places, NEW lost \in BOOLEAN,
           Running(p) = Live, Serve(d, p, lost),
           stopper' = stopper \/ stopper' = "none",
           lock' \in Caller \cup {NoOne}, pressure' \in BOOLEAN,
           events' \in 0..MaxEvents, halted' \in BOOLEAN,
           halted' => halted,
           halted' => ~d.want \/ disk' = disk
    PROVE  DaemonInv'
<1>1. TypeOK /\ OneWorker /\ StopHolds
  BY DEF DaemonInv
<1>2. PICK seen \in {disk, d} :
         /\ disk' \in Saved /\ disk'.want = seen.want
         /\ stop' \in BOOLEAN /\ cur' \in Worker \cup {NoOne}
         /\ pc' \in Places /\ raced' \in BOOLEAN
         /\ ServeKeepsOne(p)
         /\ ~seen.want => pc' = p /\ stop' = stop
  BY <1>1, ServeStep
<1>3. TypeOK'
  BY <1>1, <1>2 DEF TypeOK, Saved, Places
<1>4. OneWorker' /\ Dropping'
  BY <1>2, ServeOne
<1>5. StopHolds'
  <2> SUFFICES ASSUME halted'
               PROVE  ~disk'.want /\ (Live' # {} => stop')
    BY DEF StopHolds
  <2>1. ~disk.want /\ (Live # {} => stop)
    BY <1>1 DEF StopHolds
  <2>2. ~seen.want
    BY <1>2, <2>1
  <2>3. pc' = p /\ stop' = stop
    BY <1>2, <2>2
  <2>4. Live' = Live
    BY <2>3 DEF Live, Running
  <2> QED
    BY <1>2, <2>1, <2>2, <2>3, <2>4
<1> QED
  BY <1>3, <1>4, <1>5 DEF DaemonInv

(* A start where nothing runs: one thread, and no stop to be kept.         *)
LEMMA LaunchKeepsInv ==
    ASSUME DaemonInv, NEW lost \in BOOLEAN, ~Alive(pc), Launch(pc, lost),
           UNCHANGED <<lock, stopper, pressure>>, events' \in 0..MaxEvents
    PROVE  DaemonInv'
<1>1. PICK w \in Worker \ Running(pc) :
          /\ cur' = w /\ pc' = [pc EXCEPT ![w] = "check"]
          /\ stop' = FALSE /\ raced' = (raced \/ stopper = "clear")
  BY SpawnStep DEF Launch
<1>2. TypeOK /\ pc \in Places
  BY DEF DaemonInv, TypeOK, Places
<1>3. /\ disk' \in Saved /\ ~halted'
  BY <1>2 DEF Launch, Saved, TypeOK, DaemonState
<1>4. pc' \in Places
  BY <1>1, <1>2 DEF Places
<1>5. TypeOK'
  BY <1>1, <1>2, <1>3, <1>4 DEF TypeOK, Saved, Places, Launch
<1>6. OneWorker' /\ Dropping'
  BY <1>1, <1>2, ServeOne DEF ServeKeepsOne, Live
<1> QED
  BY <1>3, <1>5, <1>6 DEF DaemonInv, StopHolds

(* What a request or a thread has spent stays within the bound.            *)
LEMMA SpendType ==
    ASSUME TypeOK, NEW n \in Nat, Spend(n)
    PROVE  events' \in 0..MaxEvents
BY DaemonBoundAssumption DEF TypeOK, Spend

(* Moving one thread on from one step to the next keeps who is running.    *)
LEMMA MoveKeepsRunning ==
    ASSUME NEW p \in Places, NEW c \in Caller, c = Route \/ p[c] # "off",
           NEW s \in {"check", "tick", "ticking", "status"}
    PROVE  /\ [p EXCEPT ![c] = s] \in Places
           /\ Running([p EXCEPT ![c] = s]) = Running(p)
BY ThreadAssumption DEF Places, Running, Caller
-----------------------------------------------------------------------------
(* Theorems *)

(* A fresh process over a fresh directory satisfies the invariant.         *)
THEOREM DaemonInit == Init => DaemonInv
<1> SUFFICES ASSUME Init PROVE DaemonInv
  OBVIOUS
<1>1. pc \in Places /\ Live = {}
  BY ThreadAssumption DEF Init, Places, Live, Running, Caller
<1>2. disk \in Saved
  BY DEF Init, Saved, DaemonState
<1>3. /\ stop = FALSE /\ cur = NoOne /\ lock = NoOne /\ stopper = "none"
      /\ pressure = FALSE /\ raced = FALSE /\ halted = FALSE
      /\ events \in 0..MaxEvents
  BY DaemonBoundAssumption DEF Init
<1>4. TypeOK
  BY <1>1, <1>2, <1>3 DEF TypeOK, Places, Saved
<1> QED
  BY <1>1, <1>3, <1>4 DEF DaemonInv, OneWorker, Dropping, StopHolds

(* So does every state that one step leads to.                             *)
THEOREM DaemonStep == DaemonInv /\ [Next]_vars => DaemonInv'
<1> SUFFICES ASSUME DaemonInv, [Next]_vars
             PROVE  DaemonInv'
  OBVIOUS
<1> USE ThreadAssumption, DaemonBoundAssumption
<1>0. /\ TypeOK /\ OneWorker /\ Dropping /\ StopHolds
      /\ pc \in Places /\ disk \in Saved
  BY DEF DaemonInv, TypeOK, Places, Saved
<1>1. ASSUME NEW lost \in BOOLEAN, Poll(lost) PROVE DaemonInv'
  <2>1. events' \in 0..MaxEvents
    BY <1>0, <1>1, SpendType DEF Poll, Cost
  <2> QED
    BY <1>0, <1>1, <2>1, ServeKeepsInv DEF Poll, TypeOK, StopHolds, Live
<1>2. ASSUME NEW lost \in BOOLEAN, Start(lost) PROVE DaemonInv'
  <2>1. events' \in 0..MaxEvents
    BY <1>0, <1>2, SpendType DEF Start, Cost
  <2>2. CASE Alive(pc)
    BY <1>0, <1>2, <2>1, <2>2, ServeKeepsInv DEF Start, TypeOK, StopHolds, Live
  <2>3. CASE ~Alive(pc)
    BY <1>2, <2>1, <2>3, LaunchKeepsInv DEF Start
  <2> QED
    BY <2>2, <2>3
<1>3. ASSUME NEW lost \in BOOLEAN, StopBegin(lost) PROVE DaemonInv'
  <2>1. events' \in 0..MaxEvents
    BY <1>0, <1>3, SpendType DEF StopBegin, Cost
  <2>2. Live' = Live
    BY <1>3 DEF StopBegin, Live, Running
  <2>3. TypeOK'
    BY <1>0, <1>3, <2>1 DEF StopBegin, TypeOK, DaemonState
  <2> QED
    BY <1>0, <1>3, <2>2, <2>3 DEF StopBegin, DaemonInv, OneWorker, Dropping, StopHolds
<1>4. ASSUME StopJoin PROVE DaemonInv'
  <2>1. Live' = Live
    BY <1>4 DEF StopJoin, Live, Running
  <2>2. TypeOK'
    BY <1>0, <1>4 DEF StopJoin, TypeOK
  <2>3. Dropping'
    BY <1>0, <1>4, <2>1 DEF StopJoin, Dropping, OneWorker, Alive, Live
  <2> QED
    BY <1>0, <1>4, <2>1, <2>2, <2>3 DEF StopJoin, DaemonInv, OneWorker, StopHolds
<1>5. ASSUME StopClear PROVE DaemonInv'
  <2>1. Live' = Live
    BY <1>5 DEF StopClear, Live, Running
  <2>2. TypeOK'
    BY <1>0, <1>5 DEF StopClear, TypeOK
  <2> QED
    BY <1>0, <1>5, <2>1, <2>2 DEF StopClear, DaemonInv, OneWorker, Dropping, StopHolds
<1>6. ASSUME NEW lost \in BOOLEAN, StopCheckpoint(lost) PROVE DaemonInv'
  <2>1. events' \in 0..MaxEvents
    BY <1>0, <1>6, SpendType DEF StopCheckpoint, Cost
  <2> QED
    BY <1>0, <1>6, <2>1, ServeKeepsInv DEF StopCheckpoint, TypeOK, StopHolds, Live
<1>7. ASSUME NEW w \in Worker, LoopCheck(w) PROVE DaemonInv'
  <2>1. pc' \in Places /\ Live' \subseteq Live
    BY <1>0, <1>7 DEF LoopCheck, Places, Live, Running, Caller
  <2>2. TypeOK'
    BY <1>0, <1>7, <2>1 DEF LoopCheck, TypeOK, Places
  <2> QED
    BY <1>0, <1>7, <2>1, <2>2 DEF LoopCheck, DaemonInv, OneWorker, Dropping, StopHolds
<1>8. ASSUME NEW c \in Caller, TickBegin(c) PROVE DaemonInv'
  <2>1. pc' \in Places /\ Running(pc') = Running(pc)
    BY <1>0, <1>8, MoveKeepsRunning DEF TickBegin
  <2>2. events' \in 0..MaxEvents
    BY <1>0, <1>8, SpendType DEF TickBegin, TickCost
  <2>3. TypeOK'
    BY <1>0, <1>8, <2>1, <2>2 DEF TickBegin, TypeOK, Places
  <2>4. Live' = Live
    BY <2>1 DEF Live, Running
  <2> QED
    BY <1>0, <1>8, <2>3, <2>4 DEF TickBegin, DaemonInv, OneWorker, Dropping, StopHolds
<1>9. ASSUME NEW c \in Caller, NEW lost \in BOOLEAN, GuardedTick(c, lost) PROVE DaemonInv'
  <2>1. events' \in 0..MaxEvents
    BY <1>0, <1>9, SpendType DEF GuardedTick, TickCost, Cost
  <2>2. AfterTick(c) \in Places /\ Running(AfterTick(c)) = Live
    BY <1>0, <1>9, MoveKeepsRunning DEF GuardedTick, AfterTick, Live
  <2> DEFINE d == [st |-> "guarded_pause", want |-> TRUE]
             p == AfterTick(c)
  <2>3. d \in Saved
    BY DEF Saved, DaemonState
  <2>4. /\ Serve(d, p, lost) /\ halted' = (halted /\ disk' = disk)
        /\ UNCHANGED <<lock, stopper, pressure>>
    BY <1>9 DEF GuardedTick
  <2>5. p \in Places /\ Running(p) = Live
    BY <2>2
  <2>6. /\ halted \in BOOLEAN /\ lock \in Caller \cup {NoOne} /\ pressure \in BOOLEAN
    BY <1>0 DEF TypeOK
  <2>7. halted' \in BOOLEAN /\ (halted' => halted) /\ (halted' => disk' = disk)
    BY <2>4, <2>6, Zenon
  <2>8. /\ lock' \in Caller \cup {NoOne} /\ pressure' \in BOOLEAN /\ stopper' = stopper
    BY <2>4, <2>6
  <2> HIDE DEF d, p
  <2> QED
    BY <2>1, <2>3, <2>4, <2>5, <2>7, <2>8, ServeKeepsInv
<1>10. ASSUME NEW c \in Caller, NEW lost \in BOOLEAN, TickEnd(c, lost) PROVE DaemonInv'
  <2>1. events' \in 0..MaxEvents
    BY <1>0, <1>10, SpendType DEF TickEnd, Cost
  <2>2. AfterTick(c) \in Places /\ Running(AfterTick(c)) = Live
    BY <1>0, <1>10, MoveKeepsRunning DEF TickEnd, AfterTick, Live
  <2> DEFINE d == [disk EXCEPT !.st = IF disk.want THEN "running" ELSE "idle"]
  <2>3. d \in Saved /\ d.want = disk.want
    BY <1>0 DEF Saved, DaemonState
  <2>4. Serve(d, AfterTick(c), lost)
    BY <1>10 DEF TickEnd
  <2> HIDE DEF d
  <2> QED
    BY <1>0, <1>10, <2>1, <2>2, <2>3, <2>4, ServeKeepsInv DEF TickEnd, TypeOK, StopHolds
<1>11. ASSUME NEW c \in Caller, TickRaise(c) PROVE DaemonInv'
  <2>1. pc' \in Places /\ Live' \subseteq Live
    BY <1>0, <1>11 DEF TickRaise, Places, Live, Running, Caller
  <2>2. events' \in 0..MaxEvents
    BY <1>0, <1>11, SpendType DEF TickRaise
  <2>3. TypeOK'
    BY <1>0, <1>11, <2>1, <2>2 DEF TickRaise, TypeOK, Places
  <2> QED
    BY <1>0, <1>11, <2>1, <2>3 DEF TickRaise, DaemonInv, OneWorker, Dropping, StopHolds
<1>12. ASSUME NEW w \in Worker, NEW lost \in BOOLEAN, WorkerStatus(w, lost) PROVE DaemonInv'
  <2>1. events' \in 0..MaxEvents
    BY <1>0, <1>12, SpendType DEF WorkerStatus, Cost
  <2>2. w \in Caller /\ pc[w] # "off"
    BY <1>12 DEF WorkerStatus, Caller
  <2> DEFINE p == [pc EXCEPT ![w] = "check"]
  <2>3. p \in Places /\ Running(p) = Live
    BY <1>0, <2>2, MoveKeepsRunning DEF Live
  <2>4. Serve(disk, p, lost)
    BY <1>12 DEF WorkerStatus
  <2> HIDE DEF p
  <2> QED
    BY <1>0, <1>12, <2>1, <2>3, <2>4, ServeKeepsInv DEF WorkerStatus, TypeOK, StopHolds
<1>13. ASSUME Press \/ Relieve PROVE DaemonInv'
  <2>1. events' \in 0..MaxEvents
    BY <1>0, <1>13, SpendType DEF Press, Relieve, TypeOK
  <2>2. Live' = Live
    BY <1>13 DEF Press, Relieve, Live, Running
  <2>3. TypeOK'
    BY <1>0, <1>13, <2>1 DEF Press, Relieve, TypeOK
  <2> QED
    BY <1>0, <1>13, <2>2, <2>3 DEF Press, Relieve, DaemonInv, OneWorker, Dropping, StopHolds
<1>14. ASSUME NEW boot \in Boots, Restart(boot) PROVE DaemonInv'
  <2>1. events' \in 0..MaxEvents
    BY <1>0, <1>14, SpendType DEF Restart
  <2>2. NoThreads \in Places /\ Running(NoThreads) = {}
    BY DEF NoThreads, Places, Running, Caller
  <2>3. CASE pc' = NoThreads /\ cur' = NoOne /\ UNCHANGED <<disk, halted>>
    <3>1. Live' = {}
      BY <2>2, <2>3 DEF Live, Running
    <3>2. TypeOK'
      BY <1>0, <1>14, <2>1, <2>2, <2>3 DEF Restart, TypeOK, Places
    <3> QED
      BY <1>0, <1>14, <2>3, <3>1, <3>2 DEF Restart, DaemonInv, OneWorker, Dropping, StopHolds
  <2>4. CASE \E w \in Worker : cur' = w /\ pc' = [NoThreads EXCEPT ![w] = "check"]
             /\ disk' = [st |-> "running", want |-> TRUE] /\ halted' = FALSE
    <3>1. PICK w \in Worker : cur' = w /\ pc' = [NoThreads EXCEPT ![w] = "check"]
      BY <2>4
    <3>2. pc' \in Places /\ Live' = {w}
      BY <2>2, <3>1 DEF Live, Running, Places, Caller
    <3>3. disk' \in Saved
      BY <2>4 DEF Saved, DaemonState
    <3>4. TypeOK'
      BY <1>0, <1>14, <2>1, <2>4, <3>1, <3>2, <3>3 DEF Restart, TypeOK, Places, Saved
    <3> QED
      BY <1>14, <2>4, <3>1, <3>2, <3>4 DEF Restart, DaemonInv, OneWorker, Dropping, StopHolds
  <2>5. NewThread(NoThreads) \in Worker
    BY <2>2, NewThreadIsFree
  <2> QED
    BY <1>14, <2>3, <2>4, <2>5 DEF Restart
<1>15. ASSUME PostDecay PROVE DaemonInv'
  <2>1. events' \in 0..MaxEvents
    BY <1>0, <1>15, SpendType DEF PostDecay
  <2>2. Live' = Live
    BY <1>15 DEF PostDecay, Live, Running
  <2>3. TypeOK'
    BY <1>0, <1>15, <2>1 DEF PostDecay, TypeOK
  <2> QED
    BY <1>0, <1>15, <2>2, <2>3 DEF PostDecay, DaemonInv, OneWorker, Dropping, StopHolds
<1>16. CASE UNCHANGED vars
  BY <1>0, <1>16 DEF vars, DaemonInv, TypeOK, OneWorker, Dropping, StopHolds, Live, Running
<1> QED
  BY <1>1, <1>2, <1>3, <1>4, <1>5, <1>6, <1>7, <1>8, <1>9, <1>10, <1>11, <1>12,
     <1>13, <1>14, <1>15, <1>16
     DEF Next, Request, Loop, Caller

(* The fields of the daemon keep their types through every interleaving of *)
(* requests, ticks, exceptions, lost writes and restarts.                  *)
THEOREM DaemonTypes == Spec => []TypeOK
<1>1. DaemonInv => TypeOK
  BY DEF DaemonInv
<1> QED
  BY DaemonInit, DaemonStep, <1>1, PTL DEF Spec

(* However many threads may exist, never do two of them work on one        *)
(* memory, but for the race in stop_daemon that raced records.             *)
THEOREM DaemonOneWorker == Spec => []OneWorker
<1>1. DaemonInv => OneWorker
  BY DEF DaemonInv
<1> QED
  BY DaemonInit, DaemonStep, <1>1, PTL DEF Spec

(* Nothing but a start and a guarded tick takes back a stop on the disk.   *)
THEOREM DaemonStopHolds == Spec => []StopHolds
<1>1. DaemonInv => StopHolds
  BY DEF DaemonInv
<1> QED
  BY DaemonInit, DaemonStep, <1>1, PTL DEF Spec
=============================================================================
