--------------------------- MODULE ClusterManager ---------------------------
(***************************************************************************)
(* One serving cluster manager (cluster_manager/clusterManager.js) with    *)
(* the scheduler of one purpose: the manager of a gRPC deployment, or the  *)
(* elected leader seen by itself.  Workers and clients are the             *)
(* environment: any RPC of the manager's interface may arrive at any time, *)
(* in any order, so lost, repeated and late calls are included.            *)
(*                                                                         *)
(* Schedulers of different purposes share nothing but the table of         *)
(* workers, whose ids carry the purpose; one purpose stands for each.      *)
(***************************************************************************)
EXTENDS Scheduler

CONSTANTS
  CheckAliveCount,  \* check_alive_count
  AskedTimes,       \* reservation times the callers of schedule pass
  NoSet             \* clusterInfo[purpose] before the first join

ASSUME ClusterManagerAssumption ==
  /\ CheckAliveCount \in Nat
  /\ AskedTimes \subseteq Times

VARIABLES
  state,        \* "initializing" until initial_time has passed
  workers,      \* the manager's table: worker -> alive_count
  sched,        \* schedulers[purpose]
  clusterInfo,  \* clusterInfo[purpose]: NoSet or a set of workers
  advertised,   \* does the cascading cloud hold this purpose as a capacity?
  promise,      \* history: the worker schedule last answered, while it binds
  contested,    \* history: tasks claimed by a worker other than their owner
  rejoined      \* history: workers that joined while still known

vars == <<state, workers, sched, clusterInfo, advertised, promise, contested, rejoined>>
history == <<promise, contested, rejoined>>

TypeOK ==
  /\ state \in {"initializing", "in-service"}
  /\ workers \in PartialFcn(Workers, 0..CheckAliveCount)
  /\ sched \in SchedulerType
  /\ clusterInfo = NoSet \/ clusterInfo \in SUBSET Workers
  /\ advertised \in BOOLEAN
  /\ promise \in [Tasks -> Workers \cup {NoWorker}]
  /\ contested \in SUBSET Tasks
  /\ rejoined \in SUBSET Workers

Init ==
  /\ state = "initializing"
  /\ workers = [w \in {} |-> 0]
  /\ sched = Scheduler0
  /\ clusterInfo = NoSet
  /\ advertised = FALSE
  /\ promise = [t \in Tasks |-> NoWorker]
  /\ contested = {}
  /\ rejoined = {}

Executors(t) == {w \in DOMAIN sched.workers : t \in sched.workers[w].tasks}

-----------------------------------------------------------------------------
(* The initial_time timer of serve.                                        *)
BecomeInService ==
  /\ state = "initializing"
  /\ state' = "in-service"
  /\ UNCHANGED <<workers, sched, clusterInfo, advertised, history>>

(* workerJoin: a worker that is already known is added again, with an      *)
(* empty list of tasks, and its task entries stay.                         *)
Join(w) ==
  /\ sched' = Add(sched, w)
  /\ workers' = Put(workers, w, 0)
  /\ clusterInfo' = (IF clusterInfo = NoSet THEN {} ELSE clusterInfo) \cup {w}
  /\ advertised' = (advertised \/ clusterInfo = NoSet)
  /\ rejoined' = IF Known(sched, w) THEN rejoined \cup {w} ELSE rejoined
  /\ UNCHANGED <<state, promise, contested>>

(* A Set object is never falsy: once clusterInfo[purpose] exists, the test *)
(* that would withdraw the capacity fails.                                 *)
WithdrawCapacity(info) == IF info = NoSet THEN FALSE ELSE advertised

(* workerQuit for every worker of Q.                                       *)
QuitAll(Q) ==
  LET left == IF clusterInfo = NoSet THEN NoSet ELSE clusterInfo \ Q
  IN /\ sched' = RemoveAll(sched, Q)
     /\ clusterInfo' = left
     /\ advertised' = WithdrawCapacity(left)
     /\ promise' = [t \in Tasks |-> IF promise[t] \in Q THEN NoWorker ELSE promise[t]]
     /\ UNCHANGED <<contested, rejoined>>

(* The quit of a worker the manager does not know throws before it changes *)
(* anything: workers[worker].purpose is read unguarded.                    *)
Quit(w) ==
  /\ w \in DOMAIN workers
  /\ workers' = Drop(workers, w)
  /\ QuitAll({w})
  /\ UNCHANGED state

Silent == {w \in DOMAIN workers : workers[w] + 1 > CheckAliveCount}

(* One period of checkAlive, over all the workers.                         *)
CheckAlive ==
  /\ DOMAIN workers # {}
  /\ workers' = [w \in DOMAIN workers \ Silent |-> workers[w] + 1]
  /\ QuitAll(Silent)
  /\ UNCHANGED state

KeepAlive(w) ==
  /\ w \in DOMAIN workers
  /\ workers' = [workers EXCEPT ![w] = 0]
  /\ UNCHANGED <<state, sched, clusterInfo, advertised, history>>

ReportState(w, st) ==
  /\ w \in DOMAIN workers
  /\ sched' = UpdateState(sched, w, st)
  /\ UNCHANGED <<state, workers, clusterInfo, advertised, history>>

ReportLoad(w, load) ==
  /\ w \in DOMAIN workers
  /\ sched' = UpdateLoad(sched, w, load)
  /\ UNCHANGED <<state, workers, clusterInfo, advertised, history>>

pickUpTasks(w, T) ==
  /\ w \in DOMAIN workers
  /\ sched' = PickUpTasks(sched, w, T)
  /\ promise' = [t \in Tasks |-> IF t \in T /\ promise[t] # w THEN NoWorker ELSE promise[t]]
  /\ contested' = contested \cup
       {t \in T : Executors(t) \ {w} # {} \/ (Assigned(sched, t) /\ sched.tasks[t].worker # w)}
  /\ UNCHANGED <<state, workers, clusterInfo, advertised, rejoined>>

layDownTask(w, t) ==
  /\ w \in DOMAIN workers
  /\ sched' = LayDownTask(sched, w, t)
  /\ promise' = [promise EXCEPT ![t] = IF @ = w /\ t \in sched.workers[w].tasks THEN @ ELSE NoWorker]
  /\ contested' = IF Executors(t) \ {w} # {} THEN contested \cup {t} ELSE contested
  /\ UNCHANGED <<state, workers, clusterInfo, advertised, rejoined>>

unschedule(w, t) ==
  /\ w \in DOMAIN workers
  /\ sched' = Unschedule(sched, w, t)
  /\ promise' = [promise EXCEPT ![t] = IF @ = w THEN NoWorker ELSE @]
  /\ contested' = IF Executors(t) # {} THEN contested \cup {t} ELSE contested
  /\ UNCHANGED <<state, workers, clusterInfo, advertised, rejoined>>

(* schedule answers an error until the manager is in service.              *)
schedule(t, preference, time) ==
  /\ state = "in-service"
  /\ \E r \in Schedule(sched, t, preference, time) :
       /\ sched' = r.s
       /\ promise' = [promise EXCEPT ![t] = r.worker]
  /\ UNCHANGED <<state, workers, clusterInfo, advertised, contested, rejoined>>

(* The reservation timer of a task entry, or a timer no entry holds.       *)
reserveTimeout(t) ==
  /\ \/ /\ Assigned(sched, t)
        /\ sched.tasks[t].armed
        /\ sched' = ReserveTimeout(sched, t)
     \/ /\ sched.orphans[t] > 0
        /\ sched' = OrphanTimeout(sched, t)
  /\ promise' = [promise EXCEPT ![t] = NoWorker]
  /\ UNCHANGED <<state, workers, clusterInfo, advertised, contested, rejoined>>

FromWorker(w) ==
  \/ Join(w)
  \/ Quit(w)
  \/ KeepAlive(w)
  \/ \E st \in BOOLEAN : ReportState(w, st)
  \/ \E load \in Loads : ReportLoad(w, load)
  \/ \E T \in SUBSET Tasks : pickUpTasks(w, T)
  \/ \E t \in Tasks : layDownTask(w, t) \/ unschedule(w, t)

Next ==
  \/ BecomeInService
  \/ CheckAlive
  \/ \E w \in Workers : FromWorker(w)
  \/ \E t \in Tasks :
       \/ reserveTimeout(t)
       \/ \E p \in Preferences, time \in AskedTimes : schedule(t, p, time)

Spec == Init /\ [][Next]_vars

(* The two kinds of timers run; nothing is assumed of workers and clients. *)
FairSpec == Spec /\ WF_vars(CheckAlive) /\ \A t \in Tasks : WF_vars(reserveTimeout(t))

-----------------------------------------------------------------------------
(* The manager's table and the scheduler's table name the same workers, so *)
(* no worker can be scheduled that checkAlive does not watch.              *)
SameWorkers == DOMAIN workers = DOMAIN sched.workers

(* Unless two workers ever contended for it, a task with a pending         *)
(* reservation timer is executed by nobody: no timer can take a task away  *)
(* from the worker that picked it up, however pick-ups, lay-downs, joins   *)
(* and quits interleave.                                                   *)
TimerOnlyWhilePending ==
  \A t \in Tasks :
    /\ sched.orphans[t] = 0
    /\ Assigned(sched, t) /\ sched.tasks[t].armed /\ t \notin contested =>
         Executors(t) = {}

(* schedule is sticky: the worker it answered for a task stays the one in  *)
(* the task's entry until the reservation expires, that worker quits,      *)
(* gives the task up or lays it down unexecuted, or another worker claims  *)
(* or lays down the task.  Two clients that ask for the same room within   *)
(* that time are sent to the same worker.                                  *)
PromiseKept ==
  \A t \in Tasks :
    promise[t] # NoWorker => Assigned(sched, t) /\ sched.tasks[t].worker = promise[t]

(* A task that was never claimed by two workers is executed by at most one *)
(* worker, the one its entry names: as long as workers pick up what they   *)
(* were given, a room is not split.                                        *)
OneExecutor ==
  \A t \in Tasks \ contested :
    \A w \in Executors(t) : isTaskInExecution(sched, t, w)

(* A reservation cannot get stuck: an entry is executed by the worker it   *)
(* names or has a pending timer, even when that worker has left, unless    *)
(* the worker ever joined while it was still known (such a join empties    *)
(* its list of tasks and leaves the entries behind).                       *)
NoStuckReservation ==
  \A t \in DOMAIN sched.tasks :
    LET w == sched.tasks[t].worker
    IN w \notin rejoined => sched.tasks[t].armed \/ isTaskInExecution(sched, t, w)

(* A worker that falls silent for ever is forgotten, and everything it was *)
(* executing or had reserved is free for another worker, without anybody's *)
(* help - if the worker never joined while it was still known, and no      *)
(* client asks for its tasks any more (a request restarts the timer).      *)
SilentWorkerReleased ==
  \A w \in Workers :
    /\ <>[][~FromWorker(w) /\ \A t \in Tasks, p \in Preferences, time \in AskedTimes :
                                ~schedule(t, p, time)]_vars
    /\ [](w \notin rejoined)
    => <>[](/\ w \notin DOMAIN workers
            /\ \A t \in DOMAIN sched.tasks : sched.tasks[t].worker # w)

(* cluster_manager.toml promises a default reservation time for a task     *)
(* that was scheduled without one.                                         *)
ReservationTimeDefined ==
  \A t \in DOMAIN sched.tasks : sched.tasks[t].reserve_time # 0

(* doc/design/quic-cascading.md: the cloud is told when the last worker of *)
(* a purpose is gone.                                                      *)
CapacityFollowsWorkers == advertised => DOMAIN workers # {}
=============================================================================
