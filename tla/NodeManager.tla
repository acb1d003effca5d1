---------------------------- MODULE NodeManager ----------------------------
(***************************************************************************)
(* The node manager of an agent (agent/nodeManager.js): a pool of working  *)
(* processes.  Idle nodes are started in advance; getNode gives a node for *)
(* a task of a room, waiting until it is ready; recycleNode gives the task *)
(* back and the node is dropped with its last task.                        *)
(*                                                                         *)
(* The object is the record `m'; a JavaScript method is an operator from m *)
(* to the m it leaves.  A list of tasks only ever counts its entries.  The *)
(* AMQP flavour is modelled, in which a node is named by its id.           *)
(***************************************************************************)
EXTENDS Integers, Sequences, FiniteSets, SequencesExt

CONSTANTS
  Callers,            \* clients of the agent: each has one call at a time
  Rooms, TaskNames,
  Agents,             \* the configurations of agents a behaviour may be of:
                      \*   prerunNodeNum, reuseNode, consumeNodeByRoom: as in the code
                      \*   maxNodeNum: as in the code, negative for unlimited
                      \*   dropsOnOverload: is this the recording agent?
                      \*   recycles: do the callers recycle (media) or ask again (conference)?
                      \*   asks: [Callers -> SUBSET Ask], what each caller may ask for
                      \*   nodes: bound, nodes ever started
  Undefined,          \* the node id `undefined'
  NoRooms,            \* tasks[id] = undefined
  MaxEntries          \* bound: entries of one task in a list

Ask == [room : Rooms, task : TaskNames]
Nodes == UNION {0..a.nodes - 1 : a \in Agents}
Ids == Nodes \cup {Undefined}

(* Who gives a task back asked for it with an id of its own (a session).   *)
ASSUME NodeManagerAssumption ==
  /\ MaxEntries \in Nat
  /\ Undefined \notin Nodes
  /\ \A S \in SUBSET Rooms : NoRooms \notin [S -> [TaskNames -> Nat]]
  /\ \A a \in Agents :
       /\ a.asks \in [Callers -> SUBSET Ask]
       /\ a.prerunNodeNum \in Nat \ {0} /\ a.maxNodeNum \in Int
       /\ a.nodes \in Nat /\ a.prerunNodeNum <= a.nodes
       /\ {a.reuseNode, a.consumeNodeByRoom, a.dropsOnOverload, a.recycles} \subseteq BOOLEAN
       /\ a.recycles => \A c, d \in Callers : \A x \in a.asks[c], y \in a.asks[d] : x.task = y.task => c = d

VARIABLES
  m,            \* [spec, index, idle, nodes, processes, tasks, spawn_failed]
  children,     \* processes that have not emitted `close': node -> "running", "killed",
                \* or "late": killed before it had sent READY
  watched,      \* nodes with a check_alive_interval
  fills,        \* setTimeout(.., 0) callbacks of pickInIdle under way
  retry,        \* is a 2 s timer of the error handler under way?
  calls,        \* caller -> [status, node, ask]
  workerTasks   \* the tasks of the cluster worker

vars == <<m, children, watched, fills, retry, calls, workerTasks>>

(* Partial functions stand for the objects used as dictionaries.           *)
Put(f, x, v) == [y \in DOMAIN f \cup {x} |-> IF y = x THEN v ELSE f[y]]
Drop(f, x) == [y \in DOMAIN f \ {x} |-> f[y]]
Partial(D, R) == UNION {[S -> R] : S \in SUBSET D}

NoCall == [status |-> "none", node |-> Undefined, ask |-> CHOOSE a \in Ask : TRUE]

-----------------------------------------------------------------------------
(* The methods of the object.                                              *)
NoTasks == [t \in TaskNames |-> 0]

(* Faulty: the node stays in the list of the busy ones.                    *)
cleanupNode_still_busy(s, id) ==
  [s EXCEPT !.processes = Drop(@, id), !.tasks = Drop(@, id), !.idle = RemoveFirst(@, id)]

cleanupNode(s, id) ==
  [s EXCEPT !.processes = Drop(@, id), !.tasks = Drop(@, id),
            !.nodes = RemoveFirst(@, id), !.idle = RemoveFirst(@, id)]

dropNode(s, id) == IF id \in DOMAIN s.processes THEN cleanupNode(s, id) ELSE s

(* How many nodes fillNodes launches.                                      *)
nodesToStart(s) ==
  LET spaceInIdle == s.spec.prerunNodeNum - Len(s.idle)
      runningNodes == Len(s.nodes) + Len(s.idle)
  IN Max({0, IF s.spec.maxNodeNum < 0 THEN spaceInIdle ELSE Min({spaceInIdle, s.spec.maxNodeNum - runningNodes})})

Launched(s) == s.index..s.index + nodesToStart(s) - 1

fillNodes(s) ==
  [s EXCEPT !.index = @ + nodesToStart(s),
            !.idle = @ \o [i \in 1..nodesToStart(s) |-> s.index + i - 1],
            !.processes = [n \in DOMAIN @ \cup Launched(s) |-> IF n \in DOMAIN @ THEN @[n] ELSE "starting"],
            !.tasks = [n \in DOMAIN @ \cup Launched(s) |-> IF n \in DOMAIN @ THEN @[n] ELSE <<>>]]

(* Does tasks[id][room] exist?                                             *)
Serves(s, id, room) ==
  id \in DOMAIN s.tasks /\ s.tasks[id] # NoRooms /\ room \in DOMAIN s.tasks[id]

findIn(s, list, room) ==
  LET k == SelectInSeq(list, LAMBDA id : Serves(s, id, room))
  IN IF k > 0 THEN list[k] ELSE Undefined

(* Faulty: the busy nodes are not searched.                                *)
findNodeUsedByRoom_idle_only(s, room) == findIn(s, s.idle, room)

findNodeUsedByRoom(s, room) ==
  LET busy == findIn(s, s.nodes, room)
  IN IF busy # Undefined THEN busy ELSE findIn(s, s.idle, room)

(* The first idle node, whatever it is, for the room.                      *)
pickInIdle(s, room) ==
  LET id == Head(s.idle)
      old == IF id \in DOMAIN s.tasks /\ s.tasks[id] # NoRooms THEN s.tasks[id] ELSE <<>>
  IN [s EXCEPT !.idle = Tail(@), !.nodes = Append(@, id),
               !.tasks = Put(@, id, IF room \in DOMAIN old THEN old ELSE Put(old, room, NoTasks))]

addTask(s, id, a) == [s EXCEPT !.tasks[id][a.room][a.task] = s.tasks[id][a.room][a.task] + 1]

(* removeTask: the entry is taken out, then the room, then the node.       *)
RoomLeft(s, id, a) ==
  LET left == [s.tasks[id][a.room] EXCEPT ![a.task] = IF @ > 0 THEN @ - 1 ELSE 0]
  IN IF \A t \in TaskNames : left[t] = 0
       THEN [s EXCEPT !.tasks[id] = Drop(@, a.room)]
       ELSE [s EXCEPT !.tasks[id][a.room] = left]

-----------------------------------------------------------------------------
StartAll(s) ==
  LET born == Launched(s) IN [n \in DOMAIN children \cup born |-> IF n \in born THEN "running" ELSE children[n]]

(* There is room for the nodes fillNodes would start.                      *)
Bounded(s) == s.index + nodesToStart(s) <= s.spec.nodes

Start0(a) == [spec |-> a, index |-> 0, idle |-> <<>>, nodes |-> <<>>, processes |-> <<>>, tasks |-> <<>>,
              spawn_failed |-> FALSE]

Init ==
  /\ \E a \in Agents : /\ m = fillNodes(Start0(a))
                        /\ children = [n \in Launched(Start0(a)) |-> "running"]
  /\ watched = {}
  /\ fills = 0
  /\ retry = FALSE
  /\ calls = [c \in Callers |-> NoCall]
  /\ workerTasks = {}

(* dropNode kills the process and clears its interval.                     *)
Killed(ids) ==
  /\ children' = [n \in DOMAIN children |->
                    IF n \notin ids THEN children[n]
                    ELSE IF m.processes[n] = "starting" THEN "late" ELSE "killed"]
  /\ watched' = watched \ ids

KillIf(s, id) == Killed({id} \cap DOMAIN s.processes)

-----------------------------------------------------------------------------
(* getNode, up to the answer when the node is ready; the answer of an      *)
(* error leaves the caller without a node.  `undefined' picked from the    *)
(* pool is answered by an error, and stays in the list.                    *)
Answered(c, id, a) == calls' = [calls EXCEPT ![c] = [status |-> "holding", node |-> id, ask |-> a]]
Refused(c) == calls' = [calls EXCEPT ![c] = NoCall]

(* The .catch: the table of tasks of the node is gone.                     *)
Reject(s, c, id) ==
  /\ m' = [s EXCEPT !.tasks = Put(@, id, NoRooms)]
  /\ Refused(c)
  /\ UNCHANGED workerTasks

(* The .then: addTask throws when the room has left the node meanwhile.    *)
Resolve(s, c, id, a) ==
  IF ~Serves(s, id, a.room) THEN Reject(s, c, id)
  ELSE /\ m' = addTask(s, id, a)
       /\ workerTasks' = IF s.tasks[id][a.room][a.task] = 0 THEN workerTasks \cup {a.task} ELSE workerTasks
       /\ Answered(c, id, a)

Got(s, c, id, a) ==
  IF id = Undefined THEN m' = s /\ Refused(c) /\ UNCHANGED workerTasks
  ELSE IF id \notin DOMAIN s.processes THEN Reject(s, c, id)
  ELSE IF s.processes[id] = "ready" THEN Resolve(s, c, id, a)
  ELSE /\ m' = s
       /\ calls' = [calls EXCEPT ![c] = [status |-> "waiting", node |-> id, ask |-> a]]
       /\ UNCHANGED workerTasks

MayAsk(c, a) ==
  \/ calls[c].status = "none"
  \/ /\ calls[c].status = "holding" /\ ~m.spec.recycles
     /\ Serves(m, calls[c].node, a.room) => m.tasks[calls[c].node][a.room][a.task] < MaxEntries

getNode(c, a) ==
  /\ MayAsk(c, a)
  /\ LET used == IF m.spec.consumeNodeByRoom THEN findNodeUsedByRoom(m, a.room) ELSE Undefined
     IN IF used # Undefined
          THEN Got(m, c, used, a) /\ UNCHANGED fills
        ELSE IF m.idle = <<>>
          THEN Refused(c) /\ UNCHANGED <<m, fills, workerTasks>>
        ELSE Got(pickInIdle(m, a.room), c, Head(m.idle), a) /\ fills' = fills + 1
  /\ UNCHANGED <<children, watched, retry>>

(* A period of waitTillNodeReady's interval in which it ends: the node is  *)
(* ready, or gone, or has been starting for too long and is dropped.       *)
WaitOver(c) ==
  LET id == calls[c].node
      ready == id \in DOMAIN m.processes /\ m.processes[id] = "ready"
      failed == id \in DOMAIN m.processes /\ m.processes[id] = "failed"
      d == dropNode(m, id)
  IN /\ calls[c].status = "waiting" /\ ~failed
     /\ IF ready THEN Resolve(m, c, id, calls[c].ask) /\ UNCHANGED <<children, watched>>
        ELSE Reject(d, c, id) /\ KillIf(m, id)
     /\ UNCHANGED <<fills, retry>>

(* recycleNode: a node whose room is unknown is left alone.                *)
recycleNode(c) ==
  LET id == calls[c].node
      a == calls[c].ask
      left == RoomLeft(m, id, a)
      gone == ~Serves(left, id, a.room) \/ left.tasks[id][a.room][a.task] = 0
      last == left.tasks[id] = <<>>
  IN /\ calls[c].status = "holding" /\ m.spec.recycles
     /\ Refused(c)
     /\ IF Serves(m, id, a.room)
          THEN /\ workerTasks' = IF gone THEN workerTasks \ {a.task} ELSE workerTasks
               /\ m' = IF last THEN dropNode(left, id) ELSE left
               /\ IF last THEN KillIf(m, id) ELSE UNCHANGED <<children, watched>>
          ELSE UNCHANGED <<m, children, watched, workerTasks>>
     /\ UNCHANGED <<fills, retry>>

(* The callback pickInIdle leaves behind.                                  *)
FillTimer ==
  /\ fills > 0
  /\ fills' = fills - 1
  /\ IF m.spec.maxNodeNum < 0 \/ Len(m.nodes) + Len(m.idle) < m.spec.maxNodeNum
       THEN Bounded(m) /\ m' = fillNodes(m) /\ children' = StartAll(m)
     ELSE IF m.spec.reuseNode
       THEN /\ m' = [m EXCEPT !.nodes = IF @ = <<>> THEN @ ELSE Tail(@),
                              !.idle = Append(@, IF m.nodes = <<>> THEN Undefined ELSE Head(m.nodes))]
            /\ UNCHANGED children
     ELSE UNCHANGED <<m, children>>
  /\ UNCHANGED <<watched, retry, calls, workerTasks>>

-----------------------------------------------------------------------------
(* What processes do.  READY of a process that was dropped meanwhile also  *)
(* starts an interval.                                                     *)
Ready(n) ==
  /\ n \in DOMAIN children
  /\ \/ /\ n \in DOMAIN m.processes /\ m.processes[n] = "starting"
        /\ m' = [m EXCEPT !.spawn_failed = FALSE, !.processes[n] = "ready"]
        /\ UNCHANGED children
     \/ /\ children[n] = "late"
        /\ m' = [m EXCEPT !.spawn_failed = FALSE]
        /\ children' = [children EXCEPT ![n] = "killed"]
  /\ watched' = watched \cup {n}
  /\ UNCHANGED <<fills, retry, calls, workerTasks>>

(* The process could not be spawned.                                       *)
SpawnError(n) ==
  /\ n \in DOMAIN m.processes /\ m.processes[n] = "starting"
  /\ m' = [m EXCEPT !.processes[n] = "failed", !.spawn_failed = TRUE]
  /\ retry' = TRUE
  /\ UNCHANGED <<children, watched, fills, calls, workerTasks>>

RetryTimer ==
  /\ retry
  /\ retry' = FALSE
  /\ m' = [m EXCEPT !.spawn_failed = FALSE]
  /\ UNCHANGED <<children, watched, fills, calls, workerTasks>>

(* A process reports an ERROR while starting.                              *)
NodeError(n) ==
  /\ n \in DOMAIN m.processes /\ m.processes[n] = "starting"
  /\ m' = cleanupNode(m, n)
  /\ children' = [children EXCEPT ![n] = "killed"]
  /\ watched' = watched \ {n}
  /\ UNCHANGED <<fills, retry, calls, workerTasks>>

(* The end of a process, killed or not; no task of it is removed, because  *)
(* tasksOnNode answers none.                                               *)
Close(n) ==
  LET s == dropNode(m, n)
  IN /\ n \in DOMAIN children
     /\ IF m.spawn_failed
          THEN m' = s /\ children' = Drop(children, n)
          ELSE Bounded(s) /\ m' = fillNodes(s) /\ children' = Drop(StartAll(s), n)
     /\ watched' = IF n \in DOMAIN m.processes THEN watched \ {n} ELSE watched
     /\ UNCHANGED <<fills, retry, calls, workerTasks>>

(* A watched node has sent no IMOK in a period: it is reported and dropped.*)
NotResponsive(n) ==
  /\ n \in watched /\ n \in DOMAIN m.processes
  /\ m' = dropNode(m, n)
  /\ Killed({n})
  /\ UNCHANGED <<fills, retry, calls, workerTasks>>

(* dropAllNodes: ids that are no process stay in the lists, in an order    *)
(* that does not matter: all are `undefined' (TablesAgree).                *)
Without(list, ids) ==
  LET left == SetToSeq({i \in DOMAIN list : list[i] \notin ids})
  IN [k \in DOMAIN left |-> list[left[k]]]

dropAllNodes(s) ==
  LET ids == DOMAIN s.processes
  IN [s EXCEPT !.spawn_failed = TRUE, !.processes = <<>>,
               !.tasks = [id \in DOMAIN @ \ ids |-> @[id]],
               !.nodes = Without(@, ids), !.idle = Without(@, ids)]

(* The recording agent drops all nodes when it is overloaded.              *)
Overload ==
  /\ m.spec.dropsOnOverload
  /\ m' = dropAllNodes(m)
  /\ Killed(DOMAIN m.processes)
  /\ UNCHANGED <<fills, retry, calls, workerTasks>>

recover(s) == fillNodes([s EXCEPT !.spawn_failed = FALSE])

(* The cluster worker has rejoined a manager that had just started.        *)
Recovery ==
  /\ Bounded(m)
  /\ m' = recover(m)
  /\ children' = StartAll(m)
  /\ UNCHANGED <<watched, fills, retry, calls, workerTasks>>

(* It has rejoined a manager in service: on_loss drops all nodes, the      *)
(* worker forgets its tasks, on_recovery starts over.                      *)
LossAndRecovery ==
  LET s == dropAllNodes(m)
      born == Launched(s)
  IN /\ Bounded(s)
     /\ m' = recover(s)
     /\ children' = [n \in DOMAIN children \cup born |->
                       IF n \in born THEN "running"
                       ELSE IF n \notin DOMAIN m.processes THEN children[n]
                       ELSE IF m.processes[n] = "starting" THEN "late" ELSE "killed"]
     /\ watched' = watched \ DOMAIN m.processes
     /\ workerTasks' = {}
     /\ UNCHANGED <<fills, retry, calls>>

-----------------------------------------------------------------------------
Next ==
  \/ \E c \in Callers : (\E a \in m.spec.asks[c] : getNode(c, a)) \/ WaitOver(c) \/ recycleNode(c)
  \/ \E n \in Nodes : Ready(n) \/ SpawnError(n) \/ NodeError(n) \/ Close(n) \/ NotResponsive(n)
  \/ FillTimer \/ RetryTimer
  \/ Recovery \/ LossAndRecovery \/ Overload

Spec == Init /\ [][Next]_vars

Ends(n) ==
  /\ n \in DOMAIN children
  /\ children[n] = "running" => m.processes[n] = "failed"
  /\ Close(n)

(* Timers run, processes start, and what was killed or not spawned ends.   *)
FairSpec ==
  /\ Spec
  /\ WF_vars(FillTimer) /\ WF_vars(RetryTimer)
  /\ \A n \in Nodes : WF_vars(Ready(n)) /\ WF_vars(Ends(n))
  /\ \A c \in Callers : WF_vars(WaitOver(c))

-----------------------------------------------------------------------------
TypeOK ==
  /\ m.spec \in Agents
  /\ m.index \in 0..m.spec.nodes
  /\ m.idle \in Seq(Ids) /\ m.nodes \in Seq(Ids)
  /\ m.processes \in Partial(Nodes, {"starting", "ready", "failed"})
  /\ DOMAIN m.tasks \subseteq Ids
  /\ m.spawn_failed \in BOOLEAN
  /\ children \in Partial(Nodes, {"running", "killed", "late"})
  /\ watched \subseteq Nodes
  /\ fills \in Nat
  /\ workerTasks \subseteq TaskNames

(* The pool and the table of processes agree: every process is in exactly  *)
(* one place of the two lists, and every id in them is a process (or the   *)
(* id `undefined' that reuseNode may produce).                             *)
TablesAgree ==
  LET all == m.idle \o m.nodes
  IN /\ TypeOK
     /\ {all[i] : i \in DOMAIN all} \ {Undefined} = DOMAIN m.processes
     /\ \A i, j \in DOMAIN all : all[i] = all[j] /\ all[i] # Undefined => i = j

(* With consumeNodeByRoom, two callers that hold live nodes for the same   *)
(* room hold the same node.                                                *)
RoomOnOneNode ==
  m.spec.consumeNodeByRoom =>
    \A c, d \in Callers :
      (/\ calls[c].status = "holding" /\ calls[d].status = "holding"
       /\ calls[c].ask.room = calls[d].ask.room
       /\ {calls[c].node, calls[d].node} \subseteq DOMAIN m.processes)
      => calls[c].node = calls[d].node

(* The task of a caller that holds a live node is a task of the cluster    *)
(* worker: the manager never takes it for a free one.                      *)
HeldTasksKnown ==
  \A c \in Callers :
    calls[c].status = "holding" /\ calls[c].node \in DOMAIN m.processes =>
      calls[c].ask.task \in workerTasks

(* The tables of nodes agree, and no held task is unknown.                 *)
NodesAgree == TablesAgree /\ HeldTasksKnown

(* A task of the cluster worker runs on a live node: the tasks of a node   *)
(* that is lost are removed (the onTaskRemoved and tasksOnNode callbacks). *)
WorkerTasksRun ==
  \A t \in workerTasks : \E id \in DOMAIN m.processes :
    m.tasks[id] # NoRooms /\ \E r \in DOMAIN m.tasks[id] : m.tasks[id][r][t] > 0

(* A live node has a table of its tasks, however calls for it interleave.  *)
LiveNodesKeepTasks == \A id \in DOMAIN m.processes : m.tasks[id] # NoRooms

(* Only a live process is watched: onNodeAbnormallyQuit is never called    *)
(* for a node that was dropped on purpose.                                 *)
WatchedAreProcesses == watched \subseteq DOMAIN m.processes

(* Once processes start without errors, a node is started in advance again *)
(* and again, unless as many run as may (and while the model's bound on    *)
(* nodes is not reached).                                                  *)
PoolRefilled ==
  /\ <>[][\A n \in Nodes : ~SpawnError(n) /\ ~NodeError(n)]_vars
  /\ [](m.index < m.spec.nodes)
  => []<>(m.idle # <<>> \/ (m.spec.maxNodeNum >= 0 /\ Len(m.nodes) >= m.spec.maxNodeNum))
=============================================================================
