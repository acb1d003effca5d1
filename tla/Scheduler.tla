----------------------------- MODULE Scheduler -----------------------------
(***************************************************************************)
(* The scheduler object of cluster_manager/scheduler.js: one object per    *)
(* purpose, holding the workers of that purpose and the tasks assigned to  *)
(* them.  An object is a record                                            *)
(*                                                                         *)
(*   workers : worker -> [state, load, tasks]      (a partial function)    *)
(*   tasks   : task -> [worker, reserve_time, armed]  (a partial function) *)
(*   orphans : task -> number of timers that are still pending for the     *)
(*             task although no task entry holds their handle any more     *)
(*                                                                         *)
(* and every method of the object is an operator from an object to the     *)
(* object it leaves (Schedule: to the set of outcomes).  The modules of    *)
(* the managers that own such objects are built from these operators.      *)
(*                                                                         *)
(* A reservation time is a natural number; 0 stands for `undefined', with  *)
(* which JavaScript's < is always false.  The list workers[w].tasks never  *)
(* holds a task twice and its order is never read, so it is a set.         *)
(***************************************************************************)
EXTENDS Integers, FiniteSets, Functions

CONSTANTS
  Workers,              \* worker ids
  Tasks,                \* task ids (rooms, tokens, transcoding jobs)
  NoWorker,             \* the id `undefined'
  MaxLoad,              \* [Workers -> Nat]: info.maxLoad, 0 for undefined
  FullLoad,             \* the load 1.0
  Loads,                \* the loads a worker may report
  Times,                \* reservation times in use, 0 included
  ScheduleReserveTime,  \* schedule_reserve_time of the object
  Strategy,             \* configured allocation strategy of the purpose
  Preferences,          \* scheduling preferences
  Suits                 \* [Preferences -> SUBSET Workers]: the matcher

ASSUME SchedulerAssumption ==
  /\ NoWorker \notin Workers
  /\ MaxLoad \in [Workers -> Nat]
  /\ FullLoad \in Nat \ {0}
  /\ Loads \subseteq Nat
  /\ Times \subseteq Nat
  /\ 0 \in Times
  /\ ScheduleReserveTime \in Times
  /\ Suits \in [Preferences -> SUBSET Workers]

KnownLoads == Loads \cup {FullLoad} \cup {MaxLoad[w] : w \in Workers}
WorkerEntry == [state : BOOLEAN, load : KnownLoads, tasks : SUBSET Tasks]
TaskEntry == [worker : Workers \cup {NoWorker}, reserve_time : Times, armed : BOOLEAN]

-----------------------------------------------------------------------------
(* Partial functions stand for the objects used as dictionaries.           *)
PartialFcn(D, R) == UNION {[S -> R] : S \in SUBSET D}
Put(f, x, v) == [y \in DOMAIN f \cup {x} |-> IF y = x THEN v ELSE f[y]]
Drop(f, x) == [y \in DOMAIN f \ {x} |-> f[y]]

SchedulerType ==
  [workers : PartialFcn(Workers, WorkerEntry),
   tasks   : PartialFcn(Tasks, TaskEntry),
   orphans : [Tasks -> Nat]]

Scheduler0 ==
  [workers |-> [w \in {} |-> 0], tasks |-> [t \in {} |-> 0], orphans |-> [t \in Tasks |-> 0]]

Known(s, w) == w \in DOMAIN s.workers
Assigned(s, t) == t \in DOMAIN s.tasks

(* worker.state is undefined until it is reported; TRUE is undefined or 2. *)
isWorkerAvailable(s, w) == s.workers[w].load < MaxLoad[w] /\ s.workers[w].state

isTaskInExecution(s, t, w) ==
  Assigned(s, t) /\ Known(s, w) /\ s.tasks[t].worker = w /\ t \in s.workers[w].tasks

(* clearTimeout of the handle in the task entry, then delete the entry.    *)
repealTask(s, t) == [s EXCEPT !.tasks = Drop(@, t)]

(* The entry is replaced by one with a fresh timer, its old one cleared.   *)
reserveWorkerForTask(s, t, w, time) ==
  [s EXCEPT !.tasks = Put(@, t, [worker |-> w, reserve_time |-> time, armed |-> TRUE])]

executeTask(s, w, t) ==
  LET time == IF Assigned(s, t) THEN s.tasks[t].reserve_time ELSE ScheduleReserveTime
      entry == [worker |-> w, reserve_time |-> time, armed |-> FALSE]
  IN IF Known(s, w)
       THEN [s EXCEPT !.workers[w].tasks = @ \cup {t}, !.tasks = Put(@, t, entry)]
       ELSE s

(* Faulty: the task stays in the list of the worker that laid it down.     *)
cancelExecution_still_listed(s, w, t) ==
  IF Known(s, w) /\ Assigned(s, t) /\ t \in s.workers[w].tasks
    THEN reserveWorkerForTask(s, t, w, s.tasks[t].reserve_time)
    ELSE repealTask(s, t)

(* A worker that was executing the task keeps it reserved for a while, any *)
(* other worker's lay-down repeals the task.                               *)
cancelExecution(s, w, t) ==
  LET laid == [s EXCEPT !.workers[w].tasks = @ \ {t}]
  IN IF ~Known(s, w) THEN repealTask(s, t)
     ELSE IF ~Assigned(s, t) THEN laid
     ELSE IF t \in s.workers[w].tasks
            THEN reserveWorkerForTask(laid, t, w, s.tasks[t].reserve_time)
            ELSE repealTask(s, t)

-----------------------------------------------------------------------------
(* The methods of the object.                                              *)
Add(s, w) ==
  [s EXCEPT !.workers = Put(@, w,
     [state |-> TRUE, load |-> IF MaxLoad[w] = 0 THEN FullLoad ELSE MaxLoad[w], tasks |-> {}])]

(* Faulty: the worker is forgotten, or its tasks are, but not both.        *)
RemoveAll_tasks_kept(s, Q) == [s EXCEPT !.workers = Restrict(@, DOMAIN @ \ Q)]
RemoveAll_workers_kept(s, Q) ==
  [s EXCEPT !.tasks = Restrict(@, {t \in DOMAIN @ : ~ \E w \in Q : isTaskInExecution(s, t, w)})]

(* Only the tasks the worker executes are repealed: a task reserved for it *)
(* keeps its entry until the timer fires or somebody schedules the task.   *)
(* Removing several workers one after the other is removing the set.       *)
RemoveAll(s, Q) ==
  [s EXCEPT !.workers = Restrict(@, DOMAIN @ \ Q),
            !.tasks = Restrict(@, {t \in DOMAIN @ :
                         ~ \E w \in Q : isTaskInExecution(s, t, w)})]

Remove(s, w) == RemoveAll(s, {w})

UpdateState(s, w, state) ==
  IF Known(s, w) THEN [s EXCEPT !.workers[w].state = state] ELSE s

UpdateLoad(s, w, load) ==
  IF Known(s, w) THEN [s EXCEPT !.workers[w].load = load] ELSE s

(* tasks.forEach(executeTask): the tasks are distinct, so the calls        *)
(* commute and their effects add up.                                       *)
PickUpTasks(s, w, T) ==
  IF Known(s, w)
    THEN [s EXCEPT !.workers[w].tasks = @ \cup T,
                   !.tasks = [t \in DOMAIN @ \cup T |->
                      IF t \in T THEN executeTask(s, w, t).tasks[t] ELSE @[t]]]
    ELSE s

LayDownTask(s, w, t) == IF Known(s, w) THEN cancelExecution(s, w, t) ELSE s

(* The strategies: least-used starts its search at load 1.0 and answers    *)
(* `undefined' when no candidate is below it; the strategies with a memory *)
(* of their own (last-used, round-robin, weight-robin) and random choice   *)
(* answer some candidate.                                                  *)
Allocate(s, candidates) ==
  LET load(w) == s.workers[w].load
      below == {w \in candidates : load(w) < FullLoad}
  IN IF Strategy = "least-used"
       THEN IF below = {} THEN {NoWorker}
            ELSE {w \in below : \A v \in below : load(w) <= load(v)}
     ELSE IF Strategy = "most-used"
       THEN {w \in candidates : \A v \in candidates : load(v) <= load(w)}
     ELSE candidates

longerOf(old, asked) == IF asked # 0 /\ old # 0 /\ old < asked THEN asked ELSE old

Candidates(s, preference) ==
  {w \in DOMAIN s.workers : isWorkerAvailable(s, w)} \cap Suits[preference]

(* The outcomes of schedule: a worker and the object after the call, or    *)
(* `undefined' with the error callback.  An allocation of `undefined'      *)
(* leaves a reservation for it and then throws.                            *)
Schedule(s, t, preference, reserveTime) ==
  LET sticky == Assigned(s, t) /\ Known(s, s.tasks[t].worker)
      owner == s.tasks[t].worker
      time == longerOf(s.tasks[t].reserve_time, reserveTime)
      kept == IF isTaskInExecution(s, t, owner)
                THEN [s EXCEPT !.tasks[t].reserve_time = time]
                ELSE reserveWorkerForTask(s, t, owner, time)
      fresh == IF Assigned(s, t) THEN repealTask(s, t) ELSE s
      candidates == Candidates(fresh, preference)
      asked == IF reserveTime # 0 THEN reserveTime ELSE ScheduleReserveTime
  IN IF sticky THEN {[worker |-> owner, s |-> kept]}
     ELSE IF candidates = {} THEN {[worker |-> NoWorker, s |-> fresh]}
     ELSE {[worker |-> w, s |-> reserveWorkerForTask(fresh, t, w, asked)] :
             w \in Allocate(fresh, candidates)}

(* Faulty: anybody's entry is deleted.                                     *)
Unschedule_anybody(s, w, t) == repealTask(s, t)

Unschedule(s, w, t) ==
  IF Assigned(s, t) /\ s.tasks[t].worker = w THEN repealTask(s, t) ELSE s

(* The entry is overwritten, its timer is not cleared.                     *)
SetScheduled(s, t, w, time) ==
  [s EXCEPT !.orphans[t] = IF Assigned(s, t) /\ s.tasks[t].armed THEN @ + 1 ELSE @,
            !.tasks = Put(@, t, [worker |-> w, reserve_time |-> time, armed |-> FALSE])]

(* What getData copies, as setData installs it in a new object.            *)
GetData(s) ==
  [s EXCEPT !.tasks = [t \in DOMAIN @ |-> [@[t] EXCEPT !.armed = FALSE]],
            !.orphans = [t \in Tasks |-> 0]]

(* Every task of a known worker that does not execute it gets a timer.     *)
Serve(s) ==
  LET pending(t) == /\ Known(s, s.tasks[t].worker)
                    /\ t \notin s.workers[s.tasks[t].worker].tasks
  IN [s EXCEPT !.tasks = [t \in DOMAIN @ |->
        IF pending(t) THEN [@[t] EXCEPT !.armed = TRUE] ELSE @[t]]]

(* The callbacks of the timers: the entry's own, or one nobody holds.      *)
ReserveTimeout(s, t) == repealTask(s, t)
OrphanTimeout(s, t) == repealTask([s EXCEPT !.orphans[t] = @ - 1], t)
=============================================================================
