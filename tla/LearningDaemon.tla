---------------------------- MODULE LearningDaemon ----------------------------
(***************************************************************************)
(* The supervisor of the cumulative learner                                *)
(* (knowledge_bakery/learning_daemon.py): the state file                   *)
(* daemon_state.json, the stop event, the worker thread, and the routes    *)
(* of /api/learning/daemon that start, stop, poll and tick it.  Routes     *)
(* run in a thread pool; what they do under _lock is one step, except a    *)
(* tick, which holds the lock from its begin to its end, and stop_daemon,  *)
(* which gives the lock back before it joins the thread.  What a tick does *)
(* in between is in RawIngest.                                             *)
(*                                                                         *)
(* There is one memory directory: no route passes another one.             *)
(***************************************************************************)
EXTENDS Integers, FiniteSets

CONSTANTS
    Worker,       \* threads the process can have at a time
    Route,        \* the caller of POST /tick: a tick in the request's thread
    NoOne,        \* no thread; nobody holds the lock
    SelfHeal,     \* ATANOR_DISABLE_DAEMON_SELF_HEAL is not set
    Boots,        \* what a start of the process may do with the saved state
    MaxEvents     \* bound: commands, ticks by hand, faults and crashes

ASSUME ThreadAssumption ==
    /\ Worker # {} /\ Route \notin Worker /\ NoOne \notin Worker \cup {Route}
    /\ SelfHeal \in BOOLEAN
    /\ Boots \subseteq {"none", "resume", "always"}
ASSUME DaemonBoundAssumption == MaxEvents \in Nat

VARIABLES
    disk,       \* daemon_state.json: state and desired_running
    stop,       \* _stop_event is set
    cur,        \* _worker_thread
    pc,         \* next step of every thread and of the tick by hand
    lock,       \* who holds _lock over several steps
    stopper,    \* next step of the stop_daemon that is running
    pressure,   \* RAM or disk is below its limit
    (* ---- history and bound ---- *)
    raced,      \* a thread was started while stop_daemon was dropping the old one
    halted,     \* a stop was saved; no start and no guarded tick came after it
    events

vars == <<disk, stop, cur, pc, lock, stopper, pressure, raced, halted, events>>

Caller == Worker \cup {Route}
DaemonState == {"idle", "running", "stopped", "guarded_pause", "resume_needed"}

Init ==
    /\ disk = [st |-> "idle", want |-> FALSE]
    /\ stop = FALSE /\ cur = NoOne
    /\ pc = [c \in Caller |-> IF c = Route THEN "tick" ELSE "off"]
    /\ lock = NoOne /\ stopper = "none" /\ pressure = FALSE
    /\ raced = FALSE /\ halted = FALSE /\ events = 0
-----------------------------------------------------------------------------
(* What runs under the lock.  p is pc once the caller has moved on. *)

Running(p) == {w \in Worker : p[w] # "off"}
Live == Running(pc)

(* A fault: the handle is taken for the thread. *)
HandleOnly(p) == cur # NoOne

(* _worker_alive: there is a handle, and its thread has not ended. *)
Alive(p) == cur \in Running(p)

Spend(n) == /\ events + n <= MaxEvents
            /\ events' = events + n

(* A new thread; one name that is free does as well as another. *)
NewThread(p) == CHOOSE w \in Worker \ Running(p) : TRUE

(* _worker_thread := a new thread, with the stop event cleared. *)
Spawn(p) ==
    /\ Worker \ Running(p) # {}
    /\ cur' = NewThread(p)
    /\ pc' = [p EXCEPT ![NewThread(p)] = "check"]
    /\ stop' = FALSE
    /\ raced' = (raced \/ stopper = "clear")

NoSpawn(p) == pc' = p /\ UNCHANGED <<stop, cur, raced>>

(* A fault: a dead thread is replaced whether or not the daemon is wanted. *)
HealsUnwanted(d, p) ==
    SelfHeal /\ ~Alive(p) /\ d.st \notin {"stopped", "guarded_pause"}

(* daemon_status, for the state d it reads. *)
Heals(d, p) ==
    /\ SelfHeal /\ d.want /\ ~Alive(p)
    /\ d.st \notin {"stopped", "guarded_pause"}

(* A fault: a state of its own for a dead worker, which no reader knows. *)
ReportedDead(d, p) ==
    IF Heals(d, p) THEN [d EXCEPT !.st = "running"]
    ELSE IF ~Alive(p) /\ d.st # "guarded_pause" THEN [d EXCEPT !.st = "dead"] ELSE d

Reported(d, p) ==
    IF Heals(d, p) THEN [d EXCEPT !.st = "running"]
    ELSE IF d.want /\ ~Alive(p) /\ d.st # "guarded_pause"
         THEN [d EXCEPT !.st = "resume_needed"]
         ELSE d

(* An operation saves d and ends in daemon_status, which saves again.      *)
(* When replace() is refused five times the new state goes to a pending    *)
(* file nobody reads, and what follows goes by the old one: either save    *)
(* may be lost so, or both.                                                *)
Serve(d, p, lost) ==
    \E seen \in IF lost THEN {disk, d} ELSE {d} :
        /\ IF Heals(seen, p) THEN Spawn(p) ELSE NoSpawn(p)
        /\ disk' \in IF lost THEN {seen, Reported(seen, p)} ELSE {Reported(seen, p)}

Cost(lost) == IF lost THEN 1 ELSE 0

(* start_daemon where there is no live thread. *)
Launch(p, lost) ==
    /\ Spawn(p)
    /\ disk' = IF lost THEN disk ELSE [st |-> "running", want |-> TRUE]
    /\ halted' = FALSE
-----------------------------------------------------------------------------
(* Routes *)

(* GET /status, POST /checkpoint, and every page that polls them. *)
Poll(lost) ==
    /\ lock = NoOne /\ Spend(Cost(lost))
    /\ Serve(disk, pc, lost)
    /\ UNCHANGED <<lock, stopper, pressure, halted>>

(* POST /start and /resume: beside a live thread they only report, even    *)
(* when that thread has been told to stop.                                 *)
Start(lost) ==
    /\ lock = NoOne /\ Spend(1 + Cost(lost))
    /\ IF Alive(pc) THEN Serve(disk, pc, lost) /\ UNCHANGED halted
       ELSE Launch(pc, lost)
    /\ UNCHANGED <<lock, stopper, pressure>>

StopBegin(lost) ==
    /\ stopper = "none" /\ lock = NoOne /\ Spend(1 + Cost(lost))
    /\ stopper' = "join" /\ stop' = TRUE
    /\ disk' = IF lost THEN disk ELSE [st |-> "stopped", want |-> FALSE]
    /\ halted' = (halted \/ ~lost)
    /\ UNCHANGED <<cur, pc, lock, pressure, raced>>

(* A fault: the handle goes whether or not the thread has ended. *)
StopJoinBlind ==
    /\ stopper = "join" /\ stopper' = "clear"
    /\ UNCHANGED <<disk, stop, cur, pc, lock, pressure, raced, halted, events>>

(* The two seconds of join are over, or the thread has ended before. *)
StopJoin ==
    /\ stopper = "join"
    /\ stopper' = IF Alive(pc) THEN "checkpoint" ELSE "clear"
    /\ UNCHANGED <<disk, stop, cur, pc, lock, pressure, raced, halted, events>>

(* The handle is dropped without the lock: a thread started since the look *)
(* at the old one lives on without a handle.                               *)
StopClear ==
    /\ stopper = "clear"
    /\ stopper' = "checkpoint" /\ cur' = NoOne
    /\ UNCHANGED <<disk, stop, pc, lock, pressure, raced, halted, events>>

StopCheckpoint(lost) ==
    /\ stopper = "checkpoint" /\ lock = NoOne /\ Spend(Cost(lost))
    /\ stopper' = "none"
    /\ Serve(disk, pc, lost)
    /\ UNCHANGED <<lock, pressure, halted>>

(* POST /decay does not take the lock, and leaves the daemon's state alone; *)
(* what it does to the synaptic tables is in RawIngest.                    *)
PostDecay ==
    /\ Spend(1)
    /\ UNCHANGED <<disk, stop, cur, pc, lock, stopper, pressure, raced, halted>>
-----------------------------------------------------------------------------
(* The worker's loop, and ticks *)

(* A fault: the loop does not look at the event. *)
LoopCheckBlind(w) ==
    /\ pc[w] = "check" /\ pc' = [pc EXCEPT ![w] = "tick"]
    /\ UNCHANGED <<disk, stop, cur, lock, stopper, pressure, raced, halted, events>>

(* Waiting out the interval, or until the event is set, is part of what    *)
(* comes before the check.                                                 *)
LoopCheck(w) ==
    /\ pc[w] = "check"
    /\ pc' = [pc EXCEPT ![w] = IF stop THEN "off" ELSE "tick"]
    /\ UNCHANGED <<disk, stop, cur, lock, stopper, pressure, raced, halted, events>>

TickCost(c) == IF c = Route THEN 1 ELSE 0
AfterTick(c) == [pc EXCEPT ![c] = IF c = Route THEN "tick" ELSE "status"]

TickBegin(c) ==
    /\ pc[c] = "tick" /\ lock = NoOne /\ ~pressure /\ Spend(TickCost(c))
    /\ lock' = c /\ pc' = [pc EXCEPT ![c] = "ticking"]
    /\ UNCHANGED <<disk, stop, cur, stopper, pressure, raced, halted>>

(* A tick that finds a resource blocker saves that the daemon is wanted,   *)
(* whoever asked for the tick.                                             *)
GuardedTick(c, lost) ==
    /\ pc[c] = "tick" /\ lock = NoOne /\ pressure
    /\ Spend(TickCost(c) + Cost(lost))
    /\ Serve([st |-> "guarded_pause", want |-> TRUE], AfterTick(c), lost)
    /\ halted' = (halted /\ disk' = disk)
    /\ UNCHANGED <<lock, stopper, pressure>>

TickEnd(c, lost) ==
    /\ pc[c] = "ticking" /\ Spend(Cost(lost))
    /\ lock' = NoOne
    /\ Serve([disk EXCEPT !.st = IF disk.want THEN "running" ELSE "idle"],
             AfterTick(c), lost)
    /\ UNCHANGED <<stopper, pressure, halted>>

(* An exception in a tick ends the worker's thread; a request gets a 500. *)
TickRaise(c) ==
    /\ pc[c] = "ticking" /\ Spend(1)
    /\ lock' = NoOne
    /\ pc' = [pc EXCEPT ![c] = IF c = Route THEN "tick" ELSE "off"]
    /\ UNCHANGED <<disk, stop, cur, stopper, pressure, raced, halted>>

WorkerStatus(w, lost) ==
    /\ pc[w] = "status" /\ lock = NoOne /\ Spend(Cost(lost))
    /\ Serve(disk, [pc EXCEPT ![w] = "check"], lost)
    /\ UNCHANGED <<lock, stopper, pressure, halted>>
-----------------------------------------------------------------------------
(* The machine *)

Press ==
    /\ ~pressure /\ Spend(1) /\ pressure' = TRUE
    /\ UNCHANGED <<disk, stop, cur, pc, lock, stopper, raced, halted>>

Relieve ==
    /\ pressure /\ pressure' = FALSE
    /\ UNCHANGED <<disk, stop, cur, pc, lock, stopper, raced, halted, events>>

NoThreads == [c \in Caller |-> IF c = Route THEN "tick" ELSE "off"]

(* The process ends anywhere and starts again: nothing is left but the     *)
(* file.  Importing the module may resume the daemon, and the lifespan of  *)
(* the API may start it whatever the file says.                            *)
Restart(boot) ==
    /\ Spend(1)
    /\ lock' = NoOne /\ stopper' = "none" /\ raced' = FALSE
    /\ IF boot = "always" \/ (boot = "resume" /\ disk.want)
       THEN /\ cur' = NewThread(NoThreads)
            /\ pc' = [NoThreads EXCEPT ![NewThread(NoThreads)] = "check"]
            /\ disk' = [st |-> "running", want |-> TRUE]
            /\ halted' = FALSE
       ELSE cur' = NoOne /\ pc' = NoThreads /\ UNCHANGED <<disk, halted>>
    /\ stop' = FALSE
    /\ UNCHANGED pressure

Request ==
    \/ \E lost \in BOOLEAN : Poll(lost) \/ Start(lost) \/ StopBegin(lost) \/ StopCheckpoint(lost)
    \/ StopJoin \/ StopClear \/ PostDecay

Loop(w) ==
    \/ LoopCheck(w) \/ TickBegin(w)
    \/ \E lost \in BOOLEAN : GuardedTick(w, lost) \/ WorkerStatus(w, lost)

Next ==
    \/ Request
    \/ \E w \in Worker : Loop(w)
    \/ TickBegin(Route)
    \/ \E lost \in BOOLEAN : GuardedTick(Route, lost)
    \/ \E c \in Caller : TickRaise(c) \/ \E lost \in BOOLEAN : TickEnd(c, lost)
    \/ Press \/ Relieve
    \/ \E boot \in Boots : Restart(boot)

Spec == Init /\ [][Next]_vars

(* A page or the worker itself asks for the status again and again, the    *)
(* threads go on, a tick comes to an end, and pressure does not last.      *)
Fairness ==
    /\ WF_vars(Poll(FALSE)) /\ WF_vars(Relieve)
    /\ \A w \in Worker : WF_vars(Loop(w))
    /\ \A c \in Caller : WF_vars(TickEnd(c, FALSE))

FairSpec == Spec /\ Fairness
-----------------------------------------------------------------------------
(* Properties *)

TypeOK ==
    /\ disk \in [st : DaemonState, want : BOOLEAN]
    /\ stop \in BOOLEAN /\ cur \in Worker \cup {NoOne}
    /\ pc \in [Caller -> {"off", "check", "tick", "ticking", "status"}]
    /\ lock \in Caller \cup {NoOne}
    /\ stopper \in {"none", "join", "clear", "checkpoint"}
    /\ pressure \in BOOLEAN /\ raced \in BOOLEAN /\ halted \in BOOLEAN
    /\ events \in 0..MaxEvents

(* Self-healing polls, starts, stops, dying threads and restarts never     *)
(* leave two threads at work on one memory, unless a thread was started    *)
(* between stop_daemon's look at the old one and its dropping the handle   *)
(* (learning_daemon.py:1322-1326 runs outside the lock).                   *)
OneWorker == ~raced => Live \subseteq {cur}

(* A stop that reached the disk holds until somebody starts the daemon or  *)
(* a tick runs into the resource guard: no poll, no tick by hand and no    *)
(* thread that was still busy takes it back, and every thread is on its    *)
(* way out.                                                                *)
StopHolds == halted => ~disk.want /\ (Live # {} => stop)

(* While the saved state wants the daemon, a worker comes back after every *)
(* exception, restart and lost write; only the resource guard's pause is   *)
(* left alone (daemon_status, learning_daemon.py:1017).                    *)
DesiredRuns ==
    disk.want /\ disk.st # "guarded_pause"
        ~> cur \in Live \/ ~disk.want \/ disk.st = "guarded_pause"

(* After a stop the threads end, or somebody takes the stop back.          *)
StopTakesEffect == halted ~> Live = {} \/ ~halted

(* A worker the guard paused is not paused for ever: "Resource guard       *)
(* paused the continuous ingestion worker. It will retry automatically     *)
(* when RAM or disk pressure recovers." (learning_daemon.py:1109-1112)     *)
GuardRetries ==
    disk.st = "guarded_pause" /\ cur \in Live ~> disk.st # "guarded_pause"
===============================================================================
