------------------------------ MODULE Cluster ------------------------------
(***************************************************************************)
(* A cluster worker and the manager it talks to: ClusterWorker composed    *)
(* with ClusterManager through the manager's request queue.  The manager   *)
(* may restart with nothing, or die and be replaced by a follower that     *)
(* holds its data; while there is none the queue does not exist.           *)
(***************************************************************************)
EXTENDS ClusterWorker

CONSTANTS Me, NoWorker, NoSet, CheckAliveCount

VARIABLES state, workers, sched, clusterInfo, advertised, promise, contested, rejoined

M == INSTANCE ClusterManager WITH
       Workers <- {Me}, Tasks <- TaskIds, MaxLoad <- [w \in {Me} |-> 1], FullLoad <- 1,
       Loads <- {}, Times <- {0}, AskedTimes <- {0}, ScheduleReserveTime <- 0,
       Strategy <- "last-used", Preferences <- {"any"}, Suits <- [p \in {"any"} |-> {Me}]

manager == <<state, workers, sched, clusterInfo, advertised, promise, contested, rejoined>>
vars == <<worker, channel, manager>>

(* The manager's own variables are typed by ClusterManager's invariant.    *)
TypeOK == WorkerTypeOK /\ up \in BOOLEAN

Init == WorkerInit /\ M!Init

-----------------------------------------------------------------------------
(* The manager's RPC server takes the requests in the order of the queue   *)
(* and answers each call at once.  A cast of a worker it does not know     *)
(* changes nothing.                                                        *)
Answer(m, result) ==
  replies' = IF m.live THEN Append(replies, [type |-> m.type, round |-> m.round, result |-> result])
             ELSE replies

OnJoin(m) == m.type = "join" /\ M!Join(Me) /\ Answer(m, state)

OnKeepAlive(m) ==
  /\ m.type = "keepAlive"
  /\ \/ M!KeepAlive(Me) /\ Answer(m, "ok")
     \/ Me \notin DOMAIN workers /\ UNCHANGED manager /\ Answer(m, "whoareyou")

OnCast(m) ==
  /\ m.type \notin {"join", "keepAlive"}
  /\ UNCHANGED replies
  /\ \/ Me \notin DOMAIN workers /\ UNCHANGED manager
     \/ m.type = "pickUpTasks" /\ M!pickUpTasks(Me, m.tasks)
     \/ m.type = "layDownTask" /\ \E t \in m.tasks : M!layDownTask(Me, t)
     \/ m.type = "quit" /\ M!Quit(Me)

Handle ==
  /\ up /\ requests # <<>>
  /\ requests' = Tail(requests)
  /\ LET m == Head(requests) IN OnJoin(m) \/ OnKeepAlive(m) \/ OnCast(m)
  /\ UNCHANGED <<worker, up, lost, castLost>>

(* The manager's own timers; Forget is the period that gives the worker up.*)
Watch == M!Silent = {} /\ M!CheckAlive /\ UNCHANGED <<worker, channel>>
Forget == M!Silent # {} /\ M!CheckAlive /\ UNCHANGED <<worker, channel>>
Started == M!BecomeInService /\ UNCHANGED <<worker, channel>>

(* The queue goes with the process that consumes it.                       *)
DropQueue ==
  /\ requests' = <<>>
  /\ lost' = LostCalls(requests)
  /\ castLost' = (castLost \/ \E i \in DOMAIN requests : requests[i].type \notin {"join", "keepAlive"})
  /\ UNCHANGED <<worker, replies>>

MasterDies == up /\ up' = FALSE /\ DropQueue /\ UNCHANGED manager

(* A new manager serves as a freshman: it knows nothing.                   *)
Restart ==
  /\ ~up
  /\ up' = TRUE
  /\ state' = "initializing"
  /\ workers' = [w \in {} |-> 0]
  /\ sched' = M!Scheduler0
  /\ clusterInfo' = NoSet
  /\ advertised' = FALSE
  /\ promise' = [t \in TaskIds |-> NoWorker]
  /\ contested' = {}
  /\ rejoined' = {}
  /\ UNCHANGED <<worker, requests, replies, lost, castLost>>

(* A follower with the data of the master serves, at once in service; the  *)
(* alive counts are those of the snapshot it installed.                    *)
TakeOver ==
  /\ ~up
  /\ up' = TRUE
  /\ state' = "in-service"
  /\ \E n \in 0..CheckAliveCount : workers' = [w \in DOMAIN workers |-> n]
  /\ sched' = M!Serve(sched)
  /\ UNCHANGED <<worker, requests, replies, lost, castLost>>
  /\ UNCHANGED <<clusterInfo, advertised, promise, contested, rejoined>>

-----------------------------------------------------------------------------
FromWorker ==
  /\ \/ TryJoin \/ Joined \/ JoinLost
     \/ Tick \/ Alive \/ quit
     \/ \E r \in Round : AliveLost(r)
     \/ \E t \in TaskIds : addTask(t) \/ removeTask(t)
  /\ UNCHANGED manager

(* What the network and slow processes may do.                             *)
Delay == (JoinTimeout \/ \E r \in Round : AliveTimeout(r)) /\ UNCHANGED manager
Loss == ((\E i \in DOMAIN requests : LoseRequest(i)) \/ LoseReply) /\ UNCHANGED manager

Next ==
  \/ FromWorker \/ Handle
  \/ Watch \/ Started \/ Forget
  \/ Delay \/ Loss
  \/ MasterDies \/ Restart \/ TakeOver

Spec == Init /\ [][Next]_vars

(* Timers run, the broker delivers, and a new manager comes.  The timers  *)
(* are strongly fair: only the model's bound on the queue disables them.  *)
Fairness ==
  /\ SF_vars(TryJoin /\ UNCHANGED manager)
  /\ WF_vars(Joined /\ UNCHANGED manager)
  /\ WF_vars(JoinLost /\ UNCHANGED manager)
  /\ SF_vars(Tick /\ UNCHANGED manager)
  /\ WF_vars(Alive /\ UNCHANGED manager)
  /\ \A r \in Round : WF_vars(AliveLost(r) /\ UNCHANGED manager)
  /\ WF_vars(Handle)
  /\ WF_vars(Restart \/ TakeOver)

FairSpec == Spec /\ Fairness

(* Nothing goes wrong but that masters die and followers take over.        *)
FailoverNext == FromWorker \/ Handle \/ Watch \/ Started \/ MasterDies \/ TakeOver
FailoverSpec == Init /\ [][FailoverNext]_vars

-----------------------------------------------------------------------------
(* When the worker is registered with a manager that knows it and that has *)
(* handled all its requests, the two agree on the tasks the worker         *)
(* executes - whatever joins, timeouts, late answers, restarts and         *)
(* take-overs came before - unless a cast was lost since the worker joined.*)
RecordsAgree ==
  /\ TypeOK
  /\ (wstate = "registered" /\ Me \in DOMAIN workers /\ requests = <<>> /\ ~castLost) =>
       sched.workers[Me].tasks = tasks

(* Once the network, the processes and the manager behave, a worker that   *)
(* does not quit is registered again and known to the manager for good,    *)
(* unless it gave up its very first join.                                  *)
Connected == up /\ wstate = "registered" /\ Me \in DOMAIN workers
GaveUp == wstate = "unregistered" /\ joining = "none"
Calm == <>[][~(Delay \/ Loss \/ MasterDies \/ Forget)]_vars
Reconnects == Calm /\ []~leaving => <>[](Connected \/ GaveUp)

(* doc/servermd/Server.md promises that the loss of the master cluster     *)
(* manager is transparent: a follower serves in its place.                 *)
NoSessionLost == ~dropped
=============================================================================
