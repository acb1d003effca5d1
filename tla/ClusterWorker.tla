--------------------------- MODULE ClusterWorker ---------------------------
(***************************************************************************)
(* A cluster worker (common/clusterWorker.js): how an agent or a portal    *)
(* joins the cluster manager, keeps itself alive, notices that it has lost *)
(* the manager or that the manager has forgotten it, and rejoins.          *)
(*                                                                         *)
(* A call is outstanding until it is answered or times out; a late answer  *)
(* is dropped.  So an outstanding call is a live request in the manager's  *)
(* queue, an answer on its way, or lost.  The answer or timeout of a       *)
(* keepAlive call belongs to the keepAlive() that sent it (its `round'),   *)
(* with a loss_count of its own: it may come after the worker has rejoined *)
(* and started another round.                                              *)
(***************************************************************************)
EXTENDS Integers, Sequences, FiniteSets, SequencesExt

CONSTANTS
  TaskIds,      \* tasks
  JoinRetry,    \* join_retry
  MaxLoss,      \* 3: more losses than this are one too many
  MaxCalls,     \* keepAlive calls outstanding at once
  MaxRequests   \* bound on the manager's queue when the worker posts to it

ASSUME WorkerAssumption ==
  /\ JoinRetry \in Nat /\ MaxLoss \in Nat
  /\ MaxCalls \in Nat /\ MaxRequests \in Nat

Round == 0..MaxCalls + 1

VARIABLES
  wstate,      \* state
  tasks,       \* tasks
  joining,     \* "pausing": before an attempt; "calling": a join call is outstanding
  countDown,   \* attempts left to join for the first time
  ticking,     \* is keep_alive_interval set?
  round,       \* the current keepAlive()
  loss_count,  \* round -> loss_count
  leaving,     \* has quit been called?
  up,          \* does the manager's queue exist?
  requests,    \* the manager's queue
  replies,     \* answers on their way
  lost,        \* calls nobody will answer: <<type, round>> -> number
  castLost,    \* history: a cast was lost since the last (re)join
  dropped      \* history: on_loss was called while the worker had tasks

worker == <<wstate, tasks, joining, countDown, ticking, round, loss_count, leaving, dropped>>
channel == <<up, requests, replies, lost, castLost>>

Call == ({"join"} \X {0}) \cup ({"keepAlive"} \X Round)
Request == [type : {"join", "keepAlive"}, round : Round, live : BOOLEAN]
             \cup [type : {"pickUpTasks", "layDownTask", "quit"}, tasks : SUBSET TaskIds]
Reply == [type : {"join", "keepAlive"}, round : Round,
          result : {"initializing", "in-service", "ok", "whoareyou"}]

WorkerTypeOK ==
  /\ wstate \in {"unregistered", "registered", "recovering"}
  /\ tasks \in SUBSET TaskIds
  /\ joining \in {"none", "pausing", "calling"}
  /\ countDown \in 0..JoinRetry
  /\ ticking \in BOOLEAN
  /\ round \in Round
  /\ loss_count \in [Round -> 0..MaxLoss + 1]
  /\ leaving \in BOOLEAN /\ up \in BOOLEAN /\ castLost \in BOOLEAN /\ dropped \in BOOLEAN
  /\ requests \in Seq(Request)
  /\ replies \in Seq(Reply)
  /\ lost \in [Call -> Nat]

WorkerInit ==
  /\ wstate = "unregistered"
  /\ tasks = {}
  /\ joining = "pausing"
  /\ countDown = JoinRetry
  /\ ticking = FALSE
  /\ round = 0
  /\ loss_count = [r \in Round |-> 0]
  /\ leaving = FALSE
  /\ up = TRUE
  /\ requests = <<>>
  /\ replies = <<>>
  /\ lost = [c \in Call |-> 0]
  /\ castLost = FALSE
  /\ dropped = FALSE

-----------------------------------------------------------------------------
(* The channel.  What is posted while there is no queue is lost.           *)
IsLive(m) == m.type \in {"join", "keepAlive"} /\ m.live

LostCalls(ms) ==
  [c \in Call |-> lost[c] + Cardinality({i \in DOMAIN ms : IsLive(ms[i]) /\ <<ms[i].type, ms[i].round>> = c})]

call(type, r) == [type |-> type, round |-> r, live |-> TRUE]
cast(type, T) == [type |-> type, tasks |-> T]

Post(m) ==
  /\ requests' = IF up THEN Append(requests, m) ELSE requests
  /\ lost' = IF up THEN lost ELSE LostCalls(<<m>>)
PostCall(type, r) == Post(call(type, r)) /\ UNCHANGED castLost
PostCast(type, T) == Post(cast(type, T)) /\ castLost' = (castLost \/ ~up)

Outstanding(c) ==
  \/ lost[c] > 0
  \/ \E i \in DOMAIN requests : IsLive(requests[i]) /\ <<requests[i].type, requests[i].round>> = c
  \/ \E i \in DOMAIN replies : <<replies[i].type, replies[i].round>> = c

CallsOf(r) == <<"keepAlive", r>>
Pending ==
  Cardinality({i \in DOMAIN requests : IsLive(requests[i]) /\ requests[i].type = "keepAlive"})
  + Cardinality({i \in DOMAIN replies : replies[i].type = "keepAlive"})
  + Cardinality({c \in Round \X (1..MaxCalls) : c[2] <= lost[CallsOf(c[1])]})

(* A request is lost on its way, or its answer.                            *)
LoseRequest(i) ==
  /\ i \in DOMAIN requests
  /\ requests' = RemoveAt(requests, i)
  /\ lost' = LostCalls(<<requests[i]>>)
  /\ castLost' = (castLost \/ requests[i].type \notin {"join", "keepAlive"})
  /\ UNCHANGED <<worker, up, replies>>

LoseReply ==
  /\ replies # <<>>
  /\ replies' = Tail(replies)
  /\ lost' = [lost EXCEPT ![<<Head(replies).type, Head(replies).round>>] = @ + 1]
  /\ UNCHANGED <<worker, up, requests, castLost>>

(* A call of kind c ends without an answer: it was lost, or the answer is  *)
(* late and will be dropped.                                               *)
EndLost(c) ==
  /\ lost[c] > 0
  /\ lost' = [lost EXCEPT ![c] = @ - 1]
  /\ UNCHANGED <<requests, replies>>
EndEarly(c) ==
  \/ \E i \in DOMAIN requests :
       /\ IsLive(requests[i]) /\ <<requests[i].type, requests[i].round>> = c
       /\ requests' = [requests EXCEPT ![i].live = FALSE]
       /\ UNCHANGED <<replies, lost>>
  \/ \E i \in DOMAIN replies :
       /\ <<replies[i].type, replies[i].round>> = c
       /\ replies' = RemoveAt(replies, i)
       /\ UNCHANGED <<requests, lost>>

-----------------------------------------------------------------------------
(* join, from joinCluster or from tryRecovery.                             *)
TryJoin ==
  /\ joining = "pausing"
  /\ Len(requests) < MaxRequests
  /\ joining' = "calling"
  /\ PostCall("join", 0)
  /\ UNCHANGED <<wstate, tasks, countDown, ticking, round, loss_count, leaving, dropped, up, replies>>

(* keepAlive(): a new round, with a loss_count and an interval of its own. *)
(* The counters of rounds that have ended are unreachable: they are reset. *)
(* Calls are fewer than rounds (MaxCalls): one is free.                    *)
FreshRounds == {r \in Round : r # round /\ ~Outstanding(CallsOf(r))}
FreshRound == CHOOSE r \in FreshRounds : TRUE
NewRound ==
  /\ FreshRounds # {}
  /\ round' = FreshRound
  /\ loss_count' = [r \in Round |-> IF r # FreshRound /\ Outstanding(CallsOf(r)) THEN loss_count[r] ELSE 0]
  /\ ticking' = TRUE

(* Faulty: the tasks are not picked up again.                              *)
JoinedAgain_silently(result) ==
  IF result = "initializing"
    THEN UNCHANGED <<tasks, dropped, requests, lost>> /\ castLost' = FALSE
    ELSE /\ dropped' = (dropped \/ tasks # {})
         /\ tasks' = {}
         /\ UNCHANGED <<requests, lost>>
         /\ castLost' = FALSE

(* The answer to a rejoin: a manager that has just started is told of the  *)
(* tasks, one that is in service has given them away.                      *)
JoinedAgain(result) ==
  IF result = "initializing"
    THEN /\ IF tasks = {} THEN UNCHANGED <<requests, lost>> ELSE Post(cast("pickUpTasks", tasks))
         /\ castLost' = (tasks # {} /\ ~up)
         /\ UNCHANGED <<tasks, dropped>>
    ELSE /\ dropped' = (dropped \/ tasks # {})
         /\ tasks' = {}
         /\ UNCHANGED <<requests, lost>>
         /\ castLost' = FALSE

Joined ==
  /\ replies # <<>> /\ Head(replies).type = "join"
  /\ replies' = Tail(replies)
  /\ joining' = "none"
  /\ wstate' = "registered"
  /\ NewRound
  /\ IF wstate = "recovering" THEN JoinedAgain(Head(replies).result)
     ELSE UNCHANGED <<tasks, dropped, requests, lost>> /\ castLost' = FALSE
  /\ UNCHANGED <<countDown, leaving, up>>

(* Faulty: a worker that fails to rejoin does not try again.               *)
JoinFailed_once ==
  /\ joining' = IF countDown > 0 /\ wstate = "unregistered" THEN "pausing" ELSE "none"
  /\ countDown' = IF countDown > 0 THEN countDown - 1 ELSE 0
  /\ UNCHANGED <<wstate, tasks, ticking, round, loss_count, leaving, dropped>>

JoinFailed ==
  /\ \/ wstate = "unregistered" /\ countDown = 0 /\ joining' = "none" /\ UNCHANGED countDown
     \/ wstate = "unregistered" /\ countDown > 0 /\ joining' = "pausing" /\ countDown' = countDown - 1
     \/ wstate = "recovering" /\ joining' = "pausing" /\ UNCHANGED countDown
  /\ UNCHANGED <<wstate, tasks, ticking, round, loss_count, leaving, dropped>>

JoinLost == EndLost(<<"join", 0>>) /\ JoinFailed /\ UNCHANGED <<up, castLost>>
JoinTimeout == EndEarly(<<"join", 0>>) /\ JoinFailed /\ UNCHANGED <<up, castLost>>

-----------------------------------------------------------------------------
(* One period of keep_alive_interval.                                      *)
Tick ==
  /\ ticking
  /\ Pending < MaxCalls
  /\ Len(requests) < MaxRequests
  /\ PostCall("keepAlive", round)
  /\ UNCHANGED <<worker, up, replies>>

tryRecovery ==
  /\ ticking' = FALSE
  /\ wstate' = "recovering"
  /\ joining' = "pausing"

(* The answer or the loss of a keepAlive call of round r, whether r is the *)
(* current one or not: only a worker that is recovering ignores it.        *)
Alive ==
  /\ replies # <<>> /\ Head(replies).type = "keepAlive"
  /\ replies' = Tail(replies)
  /\ loss_count' = [loss_count EXCEPT ![Head(replies).round] = 0]
  /\ IF Head(replies).result = "whoareyou" /\ wstate # "recovering" THEN tryRecovery
     ELSE UNCHANGED <<wstate, joining, ticking>>
  /\ UNCHANGED <<tasks, countDown, round, leaving, dropped, up, requests, lost, castLost>>

Missed(r) ==
  /\ loss_count' = [loss_count EXCEPT ![r] = IF @ > MaxLoss THEN @ ELSE @ + 1]
  /\ IF loss_count'[r] > MaxLoss /\ wstate # "recovering" THEN tryRecovery
     ELSE UNCHANGED <<wstate, joining, ticking>>
  /\ UNCHANGED <<tasks, countDown, round, leaving, dropped>>

AliveLost(r) == EndLost(CallsOf(r)) /\ Missed(r) /\ UNCHANGED <<up, castLost>>
AliveTimeout(r) == EndEarly(CallsOf(r)) /\ Missed(r) /\ UNCHANGED <<up, castLost>>

-----------------------------------------------------------------------------
(* The operations of the worker object.  An agent adds tasks only after it *)
(* has joined for the first time: its RPC server is set up by onJoinOK.    *)
addTask(t) ==
  /\ wstate # "unregistered" /\ ~leaving
  /\ t \notin tasks
  /\ Len(requests) < MaxRequests
  /\ tasks' = tasks \cup {t}
  /\ IF wstate = "registered" THEN PostCast("pickUpTasks", {t})
     ELSE UNCHANGED <<requests, lost, castLost>>
  /\ UNCHANGED <<wstate, joining, countDown, ticking, round, loss_count, leaving, dropped, up, replies>>

removeTask(t) ==
  /\ t \in tasks
  /\ Len(requests) < MaxRequests
  /\ tasks' = tasks \ {t}
  /\ IF wstate = "registered" THEN PostCast("layDownTask", {t})
     ELSE UNCHANGED <<requests, lost, castLost>>
  /\ UNCHANGED <<wstate, joining, countDown, ticking, round, loss_count, leaving, dropped, up, replies>>

(* quit: a worker that is joining goes on joining.                         *)
quit ==
  /\ ~leaving
  /\ leaving' = TRUE
  /\ ticking' = IF wstate = "unregistered" THEN ticking ELSE FALSE
  /\ IF wstate = "registered" THEN PostCast("quit", {}) ELSE UNCHANGED <<requests, lost, castLost>>
  /\ UNCHANGED <<wstate, tasks, joining, countDown, round, loss_count, dropped, up, replies>>
=============================================================================
