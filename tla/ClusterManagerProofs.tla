------------------------ MODULE ClusterManagerProofs ------------------------
(***************************************************************************)
(* The safety properties of a serving cluster manager, for any number of   *)
(* workers and tasks, any loads, reservation times, preferences and        *)
(* strategy, and any alive-check count.                                    *)
(***************************************************************************)
EXTENDS ClusterManager, TLAPS

-----------------------------------------------------------------------------
(* What each method of a scheduler object does to the object.              *)

(* Put extends a partial function by one pair, Drop takes one point away.  *)
LEMMA PutType ==
  ASSUME NEW D, NEW R, NEW f \in PartialFcn(D, R), NEW x \in D, NEW v \in R
  PROVE  Put(f, x, v) \in PartialFcn(D, R)
<1>1. PICK S \in SUBSET D : f \in [S -> R]
  BY DEF PartialFcn
<1>2. Put(f, x, v) \in [S \cup {x} -> R]
  BY <1>1 DEF Put
<1>3. S \cup {x} \in SUBSET D
  OBVIOUS
<1> QED
  BY <1>2, <1>3 DEF PartialFcn

LEMMA RestrictType ==
  ASSUME NEW D, NEW R, NEW f \in PartialFcn(D, R), NEW S, S \subseteq DOMAIN f
  PROVE  Restrict(f, S) \in PartialFcn(D, R)
  BY DEF Restrict, PartialFcn

LEMMA DropType ==
  ASSUME NEW D, NEW R, NEW f \in PartialFcn(D, R), NEW x
  PROVE  Drop(f, x) \in PartialFcn(D, R)
<1>1. PICK S \in SUBSET D : f \in [S -> R]
  BY DEF PartialFcn
<1>2. Drop(f, x) \in [S \ {x} -> R]
  BY <1>1 DEF Drop
<1> QED
  BY <1>2 DEF PartialFcn

(* A member of a set of partial functions, taken apart.                    *)
LEMMA PartialFcnElim ==
  ASSUME NEW D, NEW R, NEW f \in PartialFcn(D, R)
  PROVE  /\ DOMAIN f \subseteq D
         /\ \A x \in DOMAIN f : f[x] \in R
  BY DEF PartialFcn

LEMMA ReserveFacts ==
  ASSUME NEW s \in SchedulerType, NEW t \in Tasks, NEW w \in Workers \cup {NoWorker},
         NEW time \in Times
  PROVE  LET n == reserveWorkerForTask(s, t, w, time)
         IN /\ n \in SchedulerType
            /\ n.workers = s.workers
            /\ n.orphans = s.orphans
            /\ DOMAIN n.tasks = DOMAIN s.tasks \cup {t}
            /\ n.tasks[t].worker = w
            /\ n.tasks[t].armed
            /\ \A u \in DOMAIN s.tasks \ {t} : n.tasks[u] = s.tasks[u]
<1> DEFINE e == [worker |-> w, reserve_time |-> time, armed |-> TRUE]
<1>1. e \in TaskEntry
  BY DEF TaskEntry
<1>2. e.worker = w /\ e.armed
  BY DEF e
<1>5. reserveWorkerForTask(s, t, w, time) = [s EXCEPT !.tasks = Put(s.tasks, t, e)]
  BY DEF reserveWorkerForTask
<1> HIDE DEF e
<1>4. s.tasks \in PartialFcn(Tasks, TaskEntry)
  BY DEF SchedulerType
<1>3. /\ Put(s.tasks, t, e) \in PartialFcn(Tasks, TaskEntry)
      /\ DOMAIN Put(s.tasks, t, e) = DOMAIN s.tasks \cup {t}
      /\ Put(s.tasks, t, e)[t] = e
      /\ \A y \in DOMAIN s.tasks \ {t} : Put(s.tasks, t, e)[y] = s.tasks[y]
<2>1. Put(s.tasks, t, e) \in PartialFcn(Tasks, TaskEntry)
  BY <1>1, <1>4, PutType
<2> QED
  BY <2>1 DEF Put
<1>6. /\ [s EXCEPT !.tasks = Put(s.tasks, t, e)] \in SchedulerType
      /\ [s EXCEPT !.tasks = Put(s.tasks, t, e)].tasks = Put(s.tasks, t, e)
      /\ [s EXCEPT !.tasks = Put(s.tasks, t, e)].workers = s.workers
      /\ [s EXCEPT !.tasks = Put(s.tasks, t, e)].orphans = s.orphans
  BY <1>3 DEF SchedulerType
<1> QED
  BY <1>2, <1>3, <1>5, <1>6

LEMMA RepealFacts ==
  ASSUME NEW s \in SchedulerType, NEW t
  PROVE  LET n == repealTask(s, t)
         IN /\ n \in SchedulerType
            /\ n.workers = s.workers
            /\ n.orphans = s.orphans
            /\ DOMAIN n.tasks = DOMAIN s.tasks \ {t}
            /\ \A u \in DOMAIN s.tasks \ {t} : n.tasks[u] = s.tasks[u]
<1>1. s.tasks \in PartialFcn(Tasks, TaskEntry)
  BY DEF SchedulerType
<1>2. Drop(s.tasks, t) \in PartialFcn(Tasks, TaskEntry)
  BY <1>1, DropType
<1>3. /\ DOMAIN Drop(s.tasks, t) = DOMAIN s.tasks \ {t}
      /\ \A u \in DOMAIN s.tasks \ {t} : Drop(s.tasks, t)[u] = s.tasks[u]
  BY DEF Drop
<1>4. repealTask(s, t) = [s EXCEPT !.tasks = Drop(s.tasks, t)]
  BY DEF repealTask
<1> QED
  BY <1>2, <1>3, <1>4 DEF SchedulerType

LEMMA AddFacts ==
  ASSUME SchedulerAssumption, NEW s \in SchedulerType, NEW w \in Workers
  PROVE  LET n == Add(s, w)
         IN /\ n \in SchedulerType
            /\ n.tasks = s.tasks
            /\ n.orphans = s.orphans
            /\ DOMAIN n.workers = DOMAIN s.workers \cup {w}
            /\ n.workers[w].tasks = {}
            /\ \A v \in DOMAIN s.workers \ {w} : n.workers[v] = s.workers[v]
<1> DEFINE e == [state |-> TRUE, load |-> IF MaxLoad[w] = 0 THEN FullLoad ELSE MaxLoad[w],
                 tasks |-> {}]
<1>1. e \in WorkerEntry
  BY DEF WorkerEntry, KnownLoads, SchedulerAssumption
<1>2. e.tasks = {}
  OBVIOUS
<1>3. Add(s, w) = [s EXCEPT !.workers = Put(s.workers, w, e)]
  BY DEF Add
<1> HIDE DEF e
<1>4. Put(s.workers, w, e) \in PartialFcn(Workers, WorkerEntry)
  BY <1>1, PutType DEF SchedulerType
<1>5. /\ DOMAIN Put(s.workers, w, e) = DOMAIN s.workers \cup {w}
      /\ Put(s.workers, w, e)[w] = e
      /\ \A v \in DOMAIN s.workers \ {w} : Put(s.workers, w, e)[v] = s.workers[v]
  BY DEF Put
<1> QED
  BY <1>2, <1>3, <1>4, <1>5 DEF SchedulerType

LEMMA RemoveFacts ==
  ASSUME NEW s \in SchedulerType, NEW Q
  PROVE  LET n == RemoveAll(s, Q)
         IN /\ n \in SchedulerType
            /\ n.orphans = s.orphans
            /\ DOMAIN n.workers = DOMAIN s.workers \ Q
            /\ \A v \in DOMAIN n.workers : n.workers[v] = s.workers[v]
            /\ DOMAIN n.tasks =
                 {t \in DOMAIN s.tasks : ~ \E w \in Q : isTaskInExecution(s, t, w)}
            /\ \A t \in DOMAIN n.tasks : n.tasks[t] = s.tasks[t]
<1> DEFINE kept == {t \in DOMAIN s.tasks : ~ \E w \in Q : isTaskInExecution(s, t, w)}
           left == DOMAIN s.workers \ Q
<1>1. RemoveAll(s, Q) = [s EXCEPT !.workers = Restrict(s.workers, left),
                                  !.tasks = Restrict(s.tasks, kept)]
  BY DEF RemoveAll
<1>2. kept \subseteq DOMAIN s.tasks /\ left \subseteq DOMAIN s.workers
  OBVIOUS
<1> HIDE DEF kept, left
<1>3. /\ Restrict(s.workers, left) \in PartialFcn(Workers, WorkerEntry)
      /\ Restrict(s.tasks, kept) \in PartialFcn(Tasks, TaskEntry)
  BY <1>2, RestrictType DEF SchedulerType
<1>4. /\ DOMAIN Restrict(s.workers, left) = left
      /\ DOMAIN Restrict(s.tasks, kept) = kept
      /\ \A v \in left : Restrict(s.workers, left)[v] = s.workers[v]
      /\ \A t \in kept : Restrict(s.tasks, kept)[t] = s.tasks[t]
  BY DEF Restrict
<1> QED
  BY <1>1, <1>3, <1>4 DEF SchedulerType, kept, left

(* The effect of changing one known worker's entry.                        *)
LEMMA EntryType ==
  ASSUME NEW s \in SchedulerType, NEW w \in DOMAIN s.workers, NEW e \in WorkerEntry
  PROVE  [s.workers EXCEPT ![w] = e] \in PartialFcn(Workers, WorkerEntry)
<1>1. PICK S \in SUBSET Workers : s.workers \in [S -> WorkerEntry]
  BY DEF SchedulerType, PartialFcn
<1>2. [s.workers EXCEPT ![w] = e] \in [S -> WorkerEntry]
  BY <1>1
<1> QED
  BY <1>2 DEF PartialFcn

LEMMA UpdateFacts ==
  ASSUME NEW s \in SchedulerType, NEW w \in DOMAIN s.workers, NEW st \in BOOLEAN, NEW ld \in KnownLoads,
         NEW n, n = UpdateState(s, w, st) \/ n = UpdateLoad(s, w, ld)
  PROVE  /\ n \in SchedulerType
         /\ n.tasks = s.tasks
         /\ n.orphans = s.orphans
         /\ DOMAIN n.workers = DOMAIN s.workers
         /\ \A v \in DOMAIN s.workers : n.workers[v].tasks = s.workers[v].tasks
<1>1. s.workers[w] \in WorkerEntry
  BY PartialFcnElim DEF SchedulerType
<1> DEFINE a == [s.workers[w] EXCEPT !.state = st]
           b == [s.workers[w] EXCEPT !.load = ld]
<1>2. a \in WorkerEntry /\ b \in WorkerEntry
  BY <1>1 DEF WorkerEntry, KnownLoads
<1>3. a.tasks = s.workers[w].tasks /\ b.tasks = s.workers[w].tasks
  BY <1>1 DEF WorkerEntry
<1>4. \/ n = [s EXCEPT !.workers = [s.workers EXCEPT ![w] = a]]
      \/ n = [s EXCEPT !.workers = [s.workers EXCEPT ![w] = b]]
  BY DEF UpdateState, UpdateLoad, Known, SchedulerType
<1> HIDE DEF a, b
<1>5. /\ [s.workers EXCEPT ![w] = a] \in PartialFcn(Workers, WorkerEntry)
      /\ [s.workers EXCEPT ![w] = b] \in PartialFcn(Workers, WorkerEntry)
  BY <1>2, EntryType
<1> QED
  BY <1>3, <1>4, <1>5 DEF SchedulerType

LEMMA PickUpFacts ==
  ASSUME SchedulerAssumption, NEW s \in SchedulerType, NEW w \in DOMAIN s.workers,
         NEW T \in SUBSET Tasks
  PROVE  LET n == PickUpTasks(s, w, T)
         IN /\ n \in SchedulerType
            /\ n.orphans = s.orphans
            /\ DOMAIN n.workers = DOMAIN s.workers
            /\ n.workers[w].tasks = s.workers[w].tasks \cup T
            /\ \A v \in DOMAIN s.workers \ {w} : n.workers[v] = s.workers[v]
            /\ DOMAIN n.tasks = DOMAIN s.tasks \cup T
            /\ \A t \in T : n.tasks[t].worker = w /\ ~n.tasks[t].armed
            /\ \A t \in DOMAIN s.tasks \ T : n.tasks[t] = s.tasks[t]
<1> DEFINE e == [s.workers[w] EXCEPT !.tasks = s.workers[w].tasks \cup T]
           ent(t) == [worker |-> w,
                      reserve_time |-> IF Assigned(s, t) THEN s.tasks[t].reserve_time
                                       ELSE ScheduleReserveTime,
                      armed |-> FALSE]
           tk == [t \in DOMAIN s.tasks \cup T |-> IF t \in T THEN ent(t) ELSE s.tasks[t]]
           wk == [s.workers EXCEPT ![w] = e]
<1>1. s.workers[w] \in WorkerEntry /\ w \in Workers
  BY PartialFcnElim DEF SchedulerType
<1>2. e \in WorkerEntry /\ e.tasks = s.workers[w].tasks \cup T
  BY <1>1 DEF WorkerEntry
<1>3. DOMAIN s.tasks \subseteq Tasks /\ \A t \in DOMAIN s.tasks : s.tasks[t] \in TaskEntry
  BY PartialFcnElim DEF SchedulerType
<1>4. \A t \in T : ent(t) \in TaskEntry
  BY <1>1, <1>3 DEF TaskEntry, Assigned, SchedulerAssumption
<1>5. tk \in [DOMAIN s.tasks \cup T -> TaskEntry]
  BY <1>3, <1>4
<1>6. tk \in PartialFcn(Tasks, TaskEntry)
  <2>1. DOMAIN s.tasks \cup T \in SUBSET Tasks
    BY <1>3
  <2> QED
    BY <1>5, <2>1 DEF PartialFcn
<1>7. \A t \in T : executeTask(s, w, t).tasks[t] = ent(t)
  BY <1>1 DEF executeTask, Known, SchedulerType, Put
<1>8. PickUpTasks(s, w, T) = [s EXCEPT !.workers = wk, !.tasks = tk]
  BY <1>7 DEF PickUpTasks, Known, SchedulerType
<1>9. \A t \in T : tk[t].worker = w /\ ~tk[t].armed
  OBVIOUS
<1>10. /\ DOMAIN tk = DOMAIN s.tasks \cup T
       /\ \A t \in DOMAIN s.tasks \ T : tk[t] = s.tasks[t]
  OBVIOUS
<1> HIDE DEF e, tk
<1>11. wk \in PartialFcn(Workers, WorkerEntry)
  BY <1>2, EntryType
<1> QED
  BY <1>2, <1>6, <1>8, <1>9, <1>10, <1>11 DEF SchedulerType

(* A lay-down by a known worker: the task leaves its list; an assigned     *)
(* task stays reserved for it if it was there and is repealed otherwise.   *)
LEMMA LayDownFacts ==
  ASSUME NEW s \in SchedulerType, NEW w \in DOMAIN s.workers, NEW t \in Tasks
  PROVE  LET n == LayDownTask(s, w, t)
         IN /\ n \in SchedulerType
            /\ n.orphans = s.orphans
            /\ DOMAIN n.workers = DOMAIN s.workers
            /\ n.workers[w].tasks = s.workers[w].tasks \ {t}
            /\ \A v \in DOMAIN s.workers \ {w} : n.workers[v] = s.workers[v]
            /\ \A u \in Tasks \ {t} : /\ u \in DOMAIN n.tasks <=> u \in DOMAIN s.tasks
                                      /\ u \in DOMAIN n.tasks => n.tasks[u] = s.tasks[u]
            /\ t \in DOMAIN n.tasks => n.tasks[t].worker = w /\ n.tasks[t].armed
            /\ t \in DOMAIN s.tasks /\ t \in s.workers[w].tasks => t \in DOMAIN n.tasks
<1> DEFINE e == [s.workers[w] EXCEPT !.tasks = s.workers[w].tasks \ {t}]
           wk == [s.workers EXCEPT ![w] = e]
           laid == [s EXCEPT !.workers = wk]
<1>1. s.workers[w] \in WorkerEntry /\ w \in Workers
  BY PartialFcnElim DEF SchedulerType
<1>2. e \in WorkerEntry /\ e.tasks = s.workers[w].tasks \ {t}
  BY <1>1 DEF WorkerEntry
<1>3. \A u \in DOMAIN s.tasks : u \in Tasks /\ s.tasks[u] \in TaskEntry
  BY PartialFcnElim DEF SchedulerType
<1>4. laid = [s EXCEPT !.workers[w].tasks = @ \ {t}]
  BY <1>1 DEF SchedulerType
<1> HIDE DEF e
<1>5. wk \in PartialFcn(Workers, WorkerEntry)
  BY <1>2, EntryType
<1>6. /\ laid \in SchedulerType
      /\ laid.orphans = s.orphans
      /\ laid.tasks = s.tasks
      /\ laid.workers = wk
  BY <1>5 DEF SchedulerType
<1>7. /\ DOMAIN wk = DOMAIN s.workers
      /\ wk[w].tasks = s.workers[w].tasks \ {t}
      /\ \A v \in DOMAIN s.workers \ {w} : wk[v] = s.workers[v]
  BY <1>2
<1>8. LayDownTask(s, w, t) =
        IF t \notin DOMAIN s.tasks THEN laid
        ELSE IF t \in s.workers[w].tasks
               THEN reserveWorkerForTask(laid, t, w, s.tasks[t].reserve_time)
               ELSE repealTask(s, t)
  BY <1>4 DEF LayDownTask, cancelExecution, Known, Assigned
<1> HIDE DEF laid, wk
<1>9. CASE t \notin DOMAIN s.tasks
  BY <1>6, <1>7, <1>8, <1>9
<1>10. CASE t \in DOMAIN s.tasks /\ t \in s.workers[w].tasks
  <2>1. s.tasks[t].reserve_time \in Times
    BY <1>3, <1>10 DEF TaskEntry
  <2>2. LayDownTask(s, w, t) = reserveWorkerForTask(laid, t, w, s.tasks[t].reserve_time)
    BY <1>8, <1>10
  <2> QED
    BY <1>1, <1>6, <1>7, <2>1, <2>2, ReserveFacts, <1>10
<1>11. CASE t \in DOMAIN s.tasks /\ t \notin s.workers[w].tasks
  <2>1. LayDownTask(s, w, t) = repealTask(s, t)
    BY <1>8, <1>11
  <2> QED
    BY <2>1, RepealFacts, <1>11
<1> QED
  BY <1>9, <1>10, <1>11

(* Allocation answers a candidate, or nobody under least-used.             *)
LEMMA AllocateFacts ==
  ASSUME NEW s, NEW C, NEW w \in Allocate(s, C)
  PROVE  w \in C \cup {NoWorker}
  BY DEF Allocate

(* The three outcomes of schedule: the owner is kept; the owner is kept    *)
(* and its timer restarted, or a fresh entry names the answer; nobody is   *)
(* found and a stale entry is gone.                                        *)
LEMMA ScheduleFacts ==
  ASSUME SchedulerAssumption, NEW s \in SchedulerType, NEW t \in Tasks,
         NEW p \in Preferences, NEW time \in Times, NEW r \in Schedule(s, t, p, time)
  PROVE  LET n == r.s
         IN /\ n \in SchedulerType
            /\ n.workers = s.workers
            /\ n.orphans = s.orphans
            /\ r.worker \in DOMAIN s.workers \cup {NoWorker}
            /\ \A u \in Tasks \ {t} : /\ u \in DOMAIN n.tasks <=> u \in DOMAIN s.tasks
                                      /\ u \in DOMAIN n.tasks => n.tasks[u] = s.tasks[u]
            /\ \/ /\ isTaskInExecution(s, t, r.worker)
                  /\ t \in DOMAIN n.tasks
                  /\ n.tasks[t].worker = r.worker
                  /\ n.tasks[t].armed <=> s.tasks[t].armed
               \/ /\ t \in DOMAIN n.tasks
                  /\ n.tasks[t].worker = r.worker
                  /\ n.tasks[t].armed
                  /\ t \in DOMAIN s.tasks =>
                       \/ s.tasks[t].worker \notin DOMAIN s.workers
                       \/ /\ s.tasks[t].worker = r.worker
                          /\ ~isTaskInExecution(s, t, r.worker)
               \/ /\ r.worker = NoWorker /\ t \notin DOMAIN n.tasks
                  /\ t \in DOMAIN s.tasks => s.tasks[t].worker \notin DOMAIN s.workers
<1> DEFINE sticky == Assigned(s, t) /\ Known(s, s.tasks[t].worker)
           owner == s.tasks[t].worker
           newtime == longerOf(s.tasks[t].reserve_time, time)
           fresh == IF Assigned(s, t) THEN repealTask(s, t) ELSE s
           asked == IF time # 0 THEN time ELSE ScheduleReserveTime
           C == Candidates(fresh, p)
<1>1. DOMAIN s.tasks \subseteq Tasks /\ \A u \in DOMAIN s.tasks : s.tasks[u] \in TaskEntry
  BY PartialFcnElim DEF SchedulerType
<1>2. CASE sticky /\ isTaskInExecution(s, t, owner)
  <2> DEFINE e == [s.tasks[t] EXCEPT !.reserve_time = newtime]
             tk == [s.tasks EXCEPT ![t] = e]
  <2>1. s.tasks[t] \in TaskEntry /\ t \in DOMAIN s.tasks
    BY <1>1, <1>2 DEF Assigned
  <2>2. newtime \in Times
    BY <2>1 DEF longerOf, TaskEntry
  <2>3. e \in TaskEntry /\ e.worker = owner /\ e.armed = s.tasks[t].armed
    BY <2>1, <2>2 DEF TaskEntry
  <2>4. r = [worker |-> owner, s |-> [s EXCEPT !.tasks = tk]]
    BY <1>2, <2>1 DEF Schedule, SchedulerType
  <2> HIDE DEF e
  <2>5. tk \in PartialFcn(Tasks, TaskEntry)
    <3>1. PICK S \in SUBSET Tasks : s.tasks \in [S -> TaskEntry]
      BY DEF SchedulerType, PartialFcn
    <3>2. tk \in [S -> TaskEntry]
      BY <2>3, <3>1
    <3> QED
      BY <3>2 DEF PartialFcn
  <2>6. /\ DOMAIN tk = DOMAIN s.tasks
        /\ tk[t] = e
        /\ \A u \in DOMAIN s.tasks \ {t} : tk[u] = s.tasks[u]
    BY <2>1
  <2> HIDE DEF tk
  <2>7. r.s.tasks = tk /\ r.s.workers = s.workers /\ r.s.orphans = s.orphans
        /\ r.s \in SchedulerType
    BY <2>4, <2>5 DEF SchedulerType
  <2> QED
    BY <1>2, <2>1, <2>3, <2>4, <2>6, <2>7 DEF isTaskInExecution, Known
<1>3. CASE sticky /\ ~isTaskInExecution(s, t, owner)
  <2>1. s.tasks[t] \in TaskEntry
    BY <1>1, <1>3 DEF Assigned
  <2>2. newtime \in Times /\ owner \in Workers \cup {NoWorker}
    BY <2>1 DEF longerOf, TaskEntry
  <2>3. r = [worker |-> owner, s |-> reserveWorkerForTask(s, t, owner, newtime)]
    BY <1>3 DEF Schedule
  <2> HIDE DEF newtime, owner
  <2>4. LET n == r.s
        IN /\ n \in SchedulerType
           /\ n.workers = s.workers
           /\ n.orphans = s.orphans
           /\ DOMAIN n.tasks = DOMAIN s.tasks \cup {t}
           /\ n.tasks[t].worker = owner
           /\ n.tasks[t].armed
           /\ \A u \in DOMAIN s.tasks \ {t} : n.tasks[u] = s.tasks[u]
    BY <2>2, <2>3, ReserveFacts
  <2> QED
    BY <1>3, <2>3, <2>4 DEF owner, Known
<1>4. CASE ~sticky
  <2>1. /\ fresh \in SchedulerType
        /\ fresh.workers = s.workers
        /\ fresh.orphans = s.orphans
        /\ DOMAIN fresh.tasks = DOMAIN s.tasks \ {t}
        /\ \A u \in DOMAIN s.tasks \ {t} : fresh.tasks[u] = s.tasks[u]
    BY RepealFacts DEF Assigned
  <2>2. \/ r = [worker |-> NoWorker, s |-> fresh]
        \/ \E w \in Allocate(fresh, C) :
             r = [worker |-> w, s |-> reserveWorkerForTask(fresh, t, w, asked)]
    BY <1>4 DEF Schedule
  <2>3. asked \in Times
    BY DEF SchedulerAssumption
  <2>4. C \subseteq DOMAIN fresh.workers
    BY DEF Candidates
  <2>5. DOMAIN s.workers \subseteq Workers
    BY PartialFcnElim DEF SchedulerType
  <2> HIDE DEF fresh, C, asked
  <2>6. CASE r = [worker |-> NoWorker, s |-> fresh]
    <3>1. t \in DOMAIN s.tasks => s.tasks[t].worker \notin DOMAIN s.workers
      BY <1>4 DEF Assigned, Known
    <3> QED
      BY <2>1, <2>6, <3>1
  <2>7. ASSUME NEW w \in Allocate(fresh, C),
               r = [worker |-> w, s |-> reserveWorkerForTask(fresh, t, w, asked)]
        PROVE  /\ r.s \in SchedulerType
               /\ r.s.workers = s.workers
               /\ r.s.orphans = s.orphans
               /\ r.worker \in DOMAIN s.workers \cup {NoWorker}
               /\ DOMAIN r.s.tasks = DOMAIN s.tasks \cup {t}
               /\ \A u \in DOMAIN s.tasks \ {t} : r.s.tasks[u] = s.tasks[u]
               /\ r.s.tasks[t].worker = r.worker
               /\ r.s.tasks[t].armed
    <3>1. w \in DOMAIN s.workers \cup {NoWorker}
      BY <2>1, <2>4, AllocateFacts
    <3>2. w \in Workers \cup {NoWorker}
      BY <2>5, <3>1
    <3> QED
      BY <2>1, <2>3, <2>7, <3>1, <3>2, ReserveFacts
  <2> QED
    BY <1>4, <2>2, <2>6, <2>7 DEF Assigned, Known
<1> QED
  BY <1>2, <1>3, <1>4

-----------------------------------------------------------------------------
(* The invariant of the manager.                                           *)
IInv ==
  /\ TypeOK
  /\ SameWorkers
  /\ TimerOnlyWhilePending
  /\ PromiseKept
  /\ OneExecutor
  /\ NoStuckReservation

(* The initial state of a manager satisfies the invariant.                 *)
LEMMA InitIInv ==
  ASSUME SchedulerAssumption, ClusterManagerAssumption, Init
  PROVE  IInv
<1> DEFINE none == [x \in {} |-> 0]
<1>1. \A D, R : none \in PartialFcn(D, R)
  <2> SUFFICES ASSUME NEW D, NEW R PROVE none \in PartialFcn(D, R)
    OBVIOUS
  <2>1. none \in [{} -> R]
    OBVIOUS
  <2> QED
    BY <2>1 DEF PartialFcn
<1>2. Scheduler0.workers = none /\ Scheduler0.tasks = none
      /\ Scheduler0.orphans = [t \in Tasks |-> 0]
  BY DEF Scheduler0
<1>3. Scheduler0 \in SchedulerType
  BY <1>1 DEF SchedulerType, Scheduler0
<1>4. TypeOK
  BY <1>1, <1>3 DEF Init, TypeOK
<1> QED
  BY <1>2, <1>4 DEF Init, IInv, SameWorkers, TimerOnlyWhilePending, PromiseKept, OneExecutor,
     NoStuckReservation, Assigned, Executors, Known, isTaskInExecution

(* Steps that leave the lists of tasks and the task entries alone.         *)
LEMMA TasksUnchanged ==
  ASSUME IInv, TypeOK', SameWorkers',
         sched'.tasks = sched.tasks, sched'.orphans = sched.orphans,
         DOMAIN sched'.workers = DOMAIN sched.workers,
         \A w \in DOMAIN sched.workers : sched'.workers[w].tasks = sched.workers[w].tasks,
         UNCHANGED history
  PROVE  IInv'
  BY DEF IInv, TypeOK, TimerOnlyWhilePending, PromiseKept, OneExecutor, NoStuckReservation,
     Assigned, Executors, Known, isTaskInExecution, history

(* A join: the worker's list is emptied, the entries that name it stay.    *)
LEMMA JoinIInv ==
  ASSUME SchedulerAssumption, ClusterManagerAssumption, IInv, NEW w \in Workers, Join(w)
  PROVE  IInv'
<1>1. LET n == sched'
      IN /\ n \in SchedulerType
         /\ n.tasks = sched.tasks
         /\ n.orphans = sched.orphans
         /\ DOMAIN n.workers = DOMAIN sched.workers \cup {w}
         /\ n.workers[w].tasks = {}
         /\ \A v \in DOMAIN sched.workers \ {w} : n.workers[v] = sched.workers[v]
  BY AddFacts DEF Join, IInv, TypeOK
<1>2. DOMAIN workers' = DOMAIN workers \cup {w}
  BY DEF Join, Put
<1>3. workers' \in PartialFcn(Workers, 0..CheckAliveCount)
  <2>1. 0 \in 0..CheckAliveCount
    BY DEF ClusterManagerAssumption
  <2> QED
    BY <2>1, PutType DEF Join, IInv, TypeOK
<1>4. TypeOK'
  BY <1>1, <1>3 DEF Join, IInv, TypeOK
<1>5. SameWorkers'
  BY <1>1, <1>2 DEF IInv, SameWorkers
<1>6. \A t \in Tasks : Executors(t)' = Executors(t) \ {w}
  BY <1>1 DEF Executors
<1>7. TimerOnlyWhilePending'
  BY <1>1, <1>6 DEF Join, IInv, TimerOnlyWhilePending, Assigned
<1>8. PromiseKept'
  BY <1>1 DEF Join, IInv, PromiseKept, Assigned
<1>9. OneExecutor'
  BY <1>1, <1>6 DEF Join, IInv, OneExecutor, isTaskInExecution, Assigned, Known
<1>10. NoStuckReservation'
  BY <1>1 DEF Join, IInv, NoStuckReservation, isTaskInExecution, Assigned, Known
<1> QED
  BY <1>4, <1>5, <1>7, <1>8, <1>9, <1>10 DEF IInv

(* Workers that quit, or are found dead, take the tasks they execute along.*)
LEMMA QuitIInv ==
  ASSUME IInv, NEW Q \in SUBSET Workers, QuitAll(Q), UNCHANGED state,
         workers' \in PartialFcn(Workers, 0..CheckAliveCount),
         DOMAIN workers' = DOMAIN workers \ Q
  PROVE  IInv'
<1>1. LET n == sched'
      IN /\ n \in SchedulerType
         /\ n.orphans = sched.orphans
         /\ DOMAIN n.workers = DOMAIN sched.workers \ Q
         /\ \A v \in DOMAIN n.workers : n.workers[v] = sched.workers[v]
         /\ DOMAIN n.tasks =
              {t \in DOMAIN sched.tasks : ~ \E w \in Q : isTaskInExecution(sched, t, w)}
         /\ \A t \in DOMAIN n.tasks : n.tasks[t] = sched.tasks[t]
  BY RemoveFacts DEF QuitAll, IInv, TypeOK
<1>2. TypeOK'
  BY <1>1 DEF QuitAll, WithdrawCapacity, IInv, TypeOK
<1>3. SameWorkers'
  BY <1>1 DEF IInv, SameWorkers
<1>4. \A t \in Tasks : Executors(t)' = Executors(t) \ Q
  BY <1>1 DEF Executors
<1>5. TimerOnlyWhilePending'
  BY <1>1, <1>4 DEF QuitAll, IInv, TimerOnlyWhilePending, Assigned
<1>6. PromiseKept'
  <2> SUFFICES ASSUME NEW t \in Tasks, promise'[t] # NoWorker
               PROVE  t \in DOMAIN sched'.tasks /\ sched'.tasks[t].worker = promise'[t]
    BY DEF PromiseKept, Assigned
  <2>1. promise'[t] = promise[t] /\ promise[t] \notin Q /\ promise[t] # NoWorker
    BY DEF QuitAll
  <2>2. t \in DOMAIN sched.tasks /\ sched.tasks[t].worker = promise[t]
    BY <2>1 DEF IInv, PromiseKept, Assigned
  <2>3. ~ \E w \in Q : isTaskInExecution(sched, t, w)
    BY <2>1, <2>2 DEF isTaskInExecution
  <2> QED
    BY <1>1, <2>1, <2>2, <2>3
<1>7. OneExecutor'
  <2> SUFFICES ASSUME NEW t \in Tasks \ contested', NEW w \in Executors(t)'
               PROVE  isTaskInExecution(sched', t, w)
    BY DEF OneExecutor
  <2>1. w \in Executors(t) /\ w \notin Q
    BY <1>4
  <2>2. isTaskInExecution(sched, t, w)
    BY <2>1 DEF IInv, OneExecutor, QuitAll
  <2>3. w \in DOMAIN sched'.workers /\ sched'.workers[w] = sched.workers[w]
    BY <1>1, <2>1, <2>2 DEF isTaskInExecution, Known
  <2>4. t \in DOMAIN sched'.tasks
    BY <1>1, <2>1, <2>2 DEF isTaskInExecution, Assigned
  <2> QED
    BY <1>1, <2>2, <2>3, <2>4 DEF isTaskInExecution, Known, Assigned
<1>8. NoStuckReservation'
  BY <1>1 DEF QuitAll, IInv, NoStuckReservation, isTaskInExecution, Known, Assigned
<1> QED
  BY <1>2, <1>3, <1>5, <1>6, <1>7, <1>8 DEF IInv

(* A pick-up makes the worker the owner and an executor of the tasks.      *)
LEMMA PickUpIInv ==
  ASSUME SchedulerAssumption, IInv, NEW w \in Workers, NEW T \in SUBSET Tasks, pickUpTasks(w, T)
  PROVE  IInv'
<1>1. w \in DOMAIN sched.workers
  BY DEF pickUpTasks, IInv, SameWorkers
<1>2. LET n == sched'
      IN /\ n \in SchedulerType
         /\ n.orphans = sched.orphans
         /\ DOMAIN n.workers = DOMAIN sched.workers
         /\ n.workers[w].tasks = sched.workers[w].tasks \cup T
         /\ \A v \in DOMAIN sched.workers \ {w} : n.workers[v] = sched.workers[v]
         /\ DOMAIN n.tasks = DOMAIN sched.tasks \cup T
         /\ \A t \in T : n.tasks[t].worker = w /\ ~n.tasks[t].armed
         /\ \A t \in DOMAIN sched.tasks \ T : n.tasks[t] = sched.tasks[t]
  BY <1>1, PickUpFacts DEF pickUpTasks, IInv, TypeOK
<1>3. TypeOK'
  BY <1>2 DEF pickUpTasks, IInv, TypeOK
<1>4. SameWorkers'
  BY <1>2 DEF pickUpTasks, IInv, SameWorkers
<1>5. /\ \A t \in T : Executors(t)' = Executors(t) \cup {w}
      /\ \A t \in Tasks \ T : Executors(t)' = Executors(t)
  BY <1>1, <1>2 DEF Executors
<1>6. TimerOnlyWhilePending'
  BY <1>2, <1>5 DEF pickUpTasks, IInv, TimerOnlyWhilePending, Assigned
<1>7. PromiseKept'
  BY <1>2 DEF pickUpTasks, IInv, PromiseKept, Assigned
<1>8. OneExecutor'
  <2> SUFFICES ASSUME NEW t \in Tasks \ contested', NEW v \in Executors(t)'
               PROVE  isTaskInExecution(sched', t, v)
    BY DEF OneExecutor
  <2>1. t \notin contested
    BY DEF pickUpTasks
  <2>2. CASE t \in T
    <3>1. Executors(t) \subseteq {w}
      BY <2>2 DEF pickUpTasks
    <3> QED
      BY <1>1, <1>2, <1>5, <2>2, <3>1 DEF isTaskInExecution, Known, Assigned
  <2>3. CASE t \notin T
    <3>1. isTaskInExecution(sched, t, v)
      BY <1>5, <2>1, <2>3 DEF IInv, OneExecutor
    <3> QED
      BY <1>2, <2>3, <3>1 DEF isTaskInExecution, Known, Assigned
  <2> QED
    BY <2>2, <2>3
<1>9. NoStuckReservation'
  BY <1>1, <1>2 DEF pickUpTasks, IInv, NoStuckReservation, isTaskInExecution, Known, Assigned
<1> QED
  BY <1>3, <1>4, <1>6, <1>7, <1>8, <1>9 DEF IInv

(* A lay-down.                                                             *)
LEMMA LayDownIInv ==
  ASSUME IInv, NEW w \in Workers, NEW t \in Tasks, layDownTask(w, t)
  PROVE  IInv'
<1>1. w \in DOMAIN sched.workers
  BY DEF layDownTask, IInv, SameWorkers
<1>2. LET n == sched'
      IN /\ n \in SchedulerType
         /\ n.orphans = sched.orphans
         /\ DOMAIN n.workers = DOMAIN sched.workers
         /\ n.workers[w].tasks = sched.workers[w].tasks \ {t}
         /\ \A v \in DOMAIN sched.workers \ {w} : n.workers[v] = sched.workers[v]
         /\ \A u \in Tasks \ {t} : /\ u \in DOMAIN n.tasks <=> u \in DOMAIN sched.tasks
                                   /\ u \in DOMAIN n.tasks => n.tasks[u] = sched.tasks[u]
         /\ t \in DOMAIN n.tasks => n.tasks[t].worker = w /\ n.tasks[t].armed
         /\ t \in DOMAIN sched.tasks /\ t \in sched.workers[w].tasks => t \in DOMAIN n.tasks
  BY <1>1, LayDownFacts DEF layDownTask, IInv, TypeOK
<1>3. DOMAIN sched'.tasks \subseteq Tasks
  BY <1>2, PartialFcnElim DEF SchedulerType
<1>4. TypeOK'
  BY <1>2 DEF layDownTask, IInv, TypeOK
<1>5. SameWorkers'
  BY <1>2 DEF layDownTask, IInv, SameWorkers
<1>6. /\ Executors(t)' = Executors(t) \ {w}
      /\ \A u \in Tasks \ {t} : Executors(u)' = Executors(u)
  BY <1>1, <1>2 DEF Executors
<1>7. /\ contested \subseteq contested'
      /\ t \notin contested' => Executors(t)' = {}
  BY <1>6 DEF layDownTask
<1>8. TimerOnlyWhilePending'
  BY <1>2, <1>6, <1>7 DEF IInv, TimerOnlyWhilePending, Assigned
<1>9. PromiseKept'
  BY <1>2 DEF layDownTask, IInv, TypeOK, PromiseKept, Assigned
<1>10. OneExecutor'
  <2> SUFFICES ASSUME NEW u \in Tasks \ contested', NEW v \in Executors(u)'
               PROVE  isTaskInExecution(sched', u, v)
    BY DEF OneExecutor
  <2>1. u # t
    BY <1>7
  <2>2. isTaskInExecution(sched, u, v)
    BY <1>6, <1>7, <2>1 DEF IInv, OneExecutor
  <2> QED
    BY <1>2, <2>1, <2>2 DEF isTaskInExecution, Known, Assigned
<1>11. NoStuckReservation'
  BY <1>1, <1>2, <1>3 DEF layDownTask, IInv, NoStuckReservation, isTaskInExecution, Known, Assigned
<1> QED
  BY <1>4, <1>5, <1>8, <1>9, <1>10, <1>11 DEF IInv

(* A task entry that is deleted, by its worker or by a timer.              *)
LEMMA RepealIInv ==
  ASSUME IInv, NEW t \in Tasks, sched' = repealTask(sched, t),
         promise'[t] = NoWorker, \A u \in Tasks \ {t} : promise'[u] = promise[u],
         promise' \in [Tasks -> Workers \cup {NoWorker}],
         contested \subseteq contested', contested' \subseteq Tasks,
         Executors(t) # {} => t \in contested',
         UNCHANGED <<state, workers, clusterInfo, advertised, rejoined>>
  PROVE  IInv'
<1>1. LET n == sched'
      IN /\ n \in SchedulerType
         /\ n.workers = sched.workers
         /\ n.orphans = sched.orphans
         /\ DOMAIN n.tasks = DOMAIN sched.tasks \ {t}
         /\ \A u \in DOMAIN sched.tasks \ {t} : n.tasks[u] = sched.tasks[u]
  BY RepealFacts DEF IInv, TypeOK
<1>2. TypeOK'
  BY <1>1 DEF IInv, TypeOK
<1>3. SameWorkers'
  BY <1>1 DEF IInv, SameWorkers
<1>4. \A u \in Tasks : Executors(u)' = Executors(u)
  BY <1>1 DEF Executors
<1>5. TimerOnlyWhilePending'
  BY <1>1, <1>4 DEF IInv, TimerOnlyWhilePending, Assigned
<1>6. PromiseKept'
  BY <1>1 DEF IInv, PromiseKept, Assigned
<1>7. OneExecutor'
  BY <1>1, <1>4 DEF IInv, OneExecutor, isTaskInExecution, Known, Assigned
<1>8. NoStuckReservation'
  BY <1>1 DEF IInv, NoStuckReservation, isTaskInExecution, Known, Assigned
<1> QED
  BY <1>2, <1>3, <1>5, <1>6, <1>7, <1>8 DEF IInv

(* schedule.                                                               *)
LEMMA ScheduleIInv ==
  ASSUME SchedulerAssumption, ClusterManagerAssumption, IInv,
         NEW t \in Tasks, NEW p \in Preferences, NEW time \in AskedTimes, schedule(t, p, time)
  PROVE  IInv'
<1>1. PICK r \in Schedule(sched, t, p, time) :
        sched' = r.s /\ promise' = [promise EXCEPT ![t] = r.worker]
  BY DEF schedule
<1>2. LET n == sched'
      IN /\ n \in SchedulerType
         /\ n.workers = sched.workers
         /\ n.orphans = sched.orphans
         /\ r.worker \in DOMAIN sched.workers \cup {NoWorker}
         /\ \A u \in Tasks \ {t} : /\ u \in DOMAIN n.tasks <=> u \in DOMAIN sched.tasks
                                   /\ u \in DOMAIN n.tasks => n.tasks[u] = sched.tasks[u]
         /\ \/ /\ isTaskInExecution(sched, t, r.worker)
               /\ t \in DOMAIN n.tasks
               /\ n.tasks[t].worker = r.worker
               /\ n.tasks[t].armed <=> sched.tasks[t].armed
            \/ /\ t \in DOMAIN n.tasks
               /\ n.tasks[t].worker = r.worker
               /\ n.tasks[t].armed
               /\ t \in DOMAIN sched.tasks =>
                    \/ sched.tasks[t].worker \notin DOMAIN sched.workers
                    \/ /\ sched.tasks[t].worker = r.worker
                       /\ ~isTaskInExecution(sched, t, r.worker)
            \/ /\ r.worker = NoWorker /\ t \notin DOMAIN n.tasks
               /\ t \in DOMAIN sched.tasks => sched.tasks[t].worker \notin DOMAIN sched.workers
  <2>1. time \in Times
    BY DEF ClusterManagerAssumption
  <2>2. sched \in SchedulerType
    BY DEF IInv, TypeOK
  <2> QED
    BY <1>1, <2>1, <2>2, ScheduleFacts
<1>3. DOMAIN sched.workers \subseteq Workers /\ DOMAIN sched'.tasks \subseteq Tasks
  BY <1>2, PartialFcnElim DEF IInv, TypeOK, SchedulerType
<1>4. TypeOK'
  BY <1>1, <1>2, <1>3 DEF schedule, IInv, TypeOK
<1>5. SameWorkers'
  BY <1>2 DEF schedule, IInv, SameWorkers
<1>6. \A u \in Tasks : Executors(u)' = Executors(u)
  BY <1>2 DEF Executors
<1>7. contested' = contested /\ rejoined' = rejoined
  BY DEF schedule
<1>8. (* a task that gets a fresh timer is executed by nobody *)
      t \notin contested /\ ~isTaskInExecution(sched, t, r.worker) /\ t \in DOMAIN sched'.tasks
        => Executors(t) = {}
  BY <1>2 DEF IInv, OneExecutor, isTaskInExecution, Assigned, Known
<1>9. TimerOnlyWhilePending'
  <2> SUFFICES ASSUME NEW u \in Tasks, u \in DOMAIN sched'.tasks, sched'.tasks[u].armed,
                      u \notin contested
               PROVE  Executors(u) = {}
    BY <1>2, <1>6, <1>7 DEF IInv, TimerOnlyWhilePending, Assigned
  <2>1. CASE u # t
    BY <1>2, <2>1 DEF IInv, TimerOnlyWhilePending, Assigned
  <2>2. CASE u = t /\ isTaskInExecution(sched, t, r.worker)
    <3>1. t \in DOMAIN sched.tasks /\ sched.tasks[t].armed
      <4>1. sched.tasks[t].worker = r.worker /\ r.worker \in DOMAIN sched.workers
        BY <2>2 DEF isTaskInExecution, Known
      <4>2. t \in DOMAIN sched.tasks
        BY <2>2 DEF isTaskInExecution, Assigned
      <4> QED
        BY <1>2, <2>2, <4>1, <4>2
    <3>2. t \notin contested
      BY <2>2
    <3> QED
      BY <2>2, <3>1, <3>2 DEF IInv, TimerOnlyWhilePending, Assigned
  <2>3. CASE u = t /\ ~isTaskInExecution(sched, t, r.worker)
    BY <1>8, <2>3
  <2> QED
    BY <2>1, <2>2, <2>3
<1>10. PromiseKept'
  BY <1>1, <1>2 DEF IInv, TypeOK, PromiseKept, Assigned
<1>11. OneExecutor'
  <2> SUFFICES ASSUME NEW u \in Tasks \ contested, NEW v \in Executors(u)
               PROVE  isTaskInExecution(sched', u, v)
    BY <1>6, <1>7 DEF OneExecutor
  <2>1. isTaskInExecution(sched, u, v)
    BY DEF IInv, OneExecutor
  <2>2. CASE u # t
    BY <1>2, <2>1, <2>2 DEF isTaskInExecution, Known, Assigned
  <2>3. CASE u = t
    <3>1. isTaskInExecution(sched, t, v) /\ Executors(t) # {} /\ t \notin contested
      BY <2>1, <2>3
    <3>2. isTaskInExecution(sched, t, r.worker)
      BY <1>2, <1>8, <3>1 DEF isTaskInExecution, Known, Assigned
    <3> QED
      BY <1>2, <2>3, <3>1, <3>2 DEF isTaskInExecution, Known, Assigned
  <2> QED
    BY <2>2, <2>3
<1>12. NoStuckReservation'
  BY <1>2, <1>3, <1>7 DEF IInv, NoStuckReservation, isTaskInExecution, Known, Assigned
<1> QED
  BY <1>4, <1>5, <1>9, <1>10, <1>11, <1>12 DEF IInv

(* The deletion of an entry by the worker's unschedule, or by its timer:   *)
(* no timer is without an entry.                                           *)
LEMMA UnscheduleIInv ==
  ASSUME IInv, NEW w \in Workers, NEW t \in Tasks, unschedule(w, t)
  PROVE  IInv'
<1>1. CASE Assigned(sched, t) /\ sched.tasks[t].worker = w
  <2>1. promise'[t] = NoWorker
    BY <1>1 DEF unschedule, IInv, TypeOK, PromiseKept
  <2> QED
    BY <1>1, <2>1, RepealIInv DEF unschedule, Unschedule, IInv, TypeOK
<1>2. CASE ~(Assigned(sched, t) /\ sched.tasks[t].worker = w)
  <2>1. sched' = sched
    BY <1>2 DEF unschedule, Unschedule
  <2>2. promise' = promise
    BY <1>2 DEF unschedule, IInv, TypeOK, PromiseKept
  <2>3. contested \subseteq contested' /\ contested' \subseteq Tasks
    BY DEF unschedule, IInv, TypeOK
  <2>4. TypeOK' /\ SameWorkers'
    BY <2>1, <2>2, <2>3 DEF unschedule, IInv, TypeOK, SameWorkers
  <2> QED
    BY <2>1, <2>2, <2>3, <2>4 DEF unschedule, IInv, TimerOnlyWhilePending, PromiseKept,
       OneExecutor, NoStuckReservation, Executors
<1> QED
  BY <1>1, <1>2

LEMMA TimeoutIInv ==
  ASSUME IInv, NEW t \in Tasks, reserveTimeout(t)
  PROVE  IInv'
<1>1. sched.orphans[t] = 0
  BY DEF IInv, TimerOnlyWhilePending
<1>2. Assigned(sched, t) /\ sched.tasks[t].armed /\ sched' = repealTask(sched, t)
  BY <1>1 DEF reserveTimeout, ReserveTimeout
<1>3. Executors(t) # {} => t \in contested
  BY <1>2 DEF IInv, TimerOnlyWhilePending
<1> QED
  BY <1>2, <1>3, RepealIInv DEF reserveTimeout, IInv, TypeOK

(* An alive check counts up and removes the workers that were silent.      *)
LEMMA CheckAliveIInv ==
  ASSUME ClusterManagerAssumption, IInv, CheckAlive
  PROVE  IInv'
<1>1. DOMAIN workers \subseteq Workers /\ \A w \in DOMAIN workers : workers[w] \in 0..CheckAliveCount
  BY PartialFcnElim DEF IInv, TypeOK
<1>2. workers' = [w \in DOMAIN workers \ Silent |-> workers[w] + 1]
  BY DEF CheckAlive
<1>3. workers' \in [DOMAIN workers \ Silent -> 0..CheckAliveCount]
  BY <1>1, <1>2 DEF ClusterManagerAssumption, Silent
<1>4. DOMAIN workers \ Silent \in SUBSET Workers
  BY <1>1
<1>5. workers' \in PartialFcn(Workers, 0..CheckAliveCount)
  BY <1>3, <1>4 DEF PartialFcn
<1>6. Silent \in SUBSET Workers /\ QuitAll(Silent) /\ UNCHANGED state
  BY <1>1 DEF CheckAlive, Silent
<1> QED
  BY <1>2, <1>5, <1>6, QuitIInv

(* Every step of a manager preserves the invariant.                        *)
LEMMA NextIInv ==
  ASSUME SchedulerAssumption, ClusterManagerAssumption, IInv, [Next]_vars
  PROVE  IInv'
<1>1. CASE UNCHANGED vars
  BY <1>1 DEF vars, IInv, TypeOK, SameWorkers, TimerOnlyWhilePending, PromiseKept, OneExecutor,
     NoStuckReservation, Executors
<1>2. CASE BecomeInService
  <2>1. TypeOK' /\ SameWorkers'
    BY <1>2 DEF BecomeInService, history, IInv, TypeOK, SameWorkers
  <2> QED
    BY <1>2, <2>1, TasksUnchanged DEF BecomeInService
<1>3. CASE CheckAlive
  BY <1>3, CheckAliveIInv
<1>4. ASSUME NEW w \in Workers, Join(w)
      PROVE  IInv'
  BY <1>4, JoinIInv
<1>5. ASSUME NEW w \in Workers, Quit(w)
      PROVE  IInv'
  <2>1. workers' \in PartialFcn(Workers, 0..CheckAliveCount)
    BY <1>5, DropType DEF Quit, IInv, TypeOK
  <2>2. DOMAIN workers' = DOMAIN workers \ {w}
    BY <1>5 DEF Quit, Drop
  <2> QED
    BY <1>5, <2>1, <2>2, QuitIInv DEF Quit
<1>6. ASSUME NEW w \in Workers, KeepAlive(w)
      PROVE  IInv'
  <2>1. PICK S \in SUBSET Workers : workers \in [S -> 0..CheckAliveCount]
    BY DEF IInv, TypeOK, PartialFcn
  <2>2. workers' \in [S -> 0..CheckAliveCount]
    BY <1>6, <2>1 DEF KeepAlive, ClusterManagerAssumption
  <2>3. workers' \in PartialFcn(Workers, 0..CheckAliveCount)
    BY <2>2 DEF PartialFcn
  <2>4. TypeOK' /\ SameWorkers'
    BY <1>6, <2>3 DEF KeepAlive, history, IInv, TypeOK, SameWorkers
  <2> QED
    BY <1>6, <2>4, TasksUnchanged DEF KeepAlive
<1>7. ASSUME NEW w \in Workers, NEW st \in BOOLEAN, NEW ld \in KnownLoads,
             ReportState(w, st) \/ ReportLoad(w, ld)
      PROVE  IInv'
  <2>1. w \in DOMAIN sched.workers /\ sched \in SchedulerType
    BY <1>7 DEF ReportState, ReportLoad, IInv, SameWorkers, TypeOK
  <2>2. sched' = UpdateState(sched, w, st) \/ sched' = UpdateLoad(sched, w, ld)
    BY <1>7 DEF ReportState, ReportLoad
  <2>3. /\ sched' \in SchedulerType
        /\ sched'.tasks = sched.tasks
        /\ sched'.orphans = sched.orphans
        /\ DOMAIN sched'.workers = DOMAIN sched.workers
        /\ \A v \in DOMAIN sched.workers : sched'.workers[v].tasks = sched.workers[v].tasks
    BY <2>1, <2>2, UpdateFacts
  <2>4. UNCHANGED <<state, workers, clusterInfo, advertised, history>>
    BY <1>7 DEF ReportState, ReportLoad
  <2>5. TypeOK' /\ SameWorkers'
    BY <2>3, <2>4 DEF history, IInv, TypeOK, SameWorkers
  <2> QED
    BY <2>3, <2>4, <2>5, TasksUnchanged
<1>8. ASSUME NEW w \in Workers, NEW T \in SUBSET Tasks, pickUpTasks(w, T)
      PROVE  IInv'
  BY <1>8, PickUpIInv
<1>9. ASSUME NEW w \in Workers, NEW t \in Tasks, layDownTask(w, t) \/ unschedule(w, t)
      PROVE  IInv'
  BY <1>9, LayDownIInv, UnscheduleIInv
<1>10. ASSUME NEW t \in Tasks, reserveTimeout(t)
       PROVE  IInv'
  BY <1>10, TimeoutIInv
<1>11. ASSUME NEW t \in Tasks, NEW p \in Preferences, NEW time \in AskedTimes, schedule(t, p, time)
       PROVE  IInv'
  BY <1>11, ScheduleIInv
<1> QED
  <2>1. CASE \E w \in Workers : FromWorker(w)
    <3>1. PICK w \in Workers : FromWorker(w)
      BY <2>1
    <3>2. CASE \E st \in BOOLEAN : ReportState(w, st)
      BY <1>7, FullLoad \in KnownLoads, <3>2 DEF KnownLoads
    <3>3. CASE \E ld \in Loads : ReportLoad(w, ld)
      BY <1>7, <3>3, TRUE \in BOOLEAN DEF KnownLoads
    <3> QED
      BY <1>4, <1>5, <1>6, <1>8, <1>9, <3>1, <3>2, <3>3 DEF FromWorker
  <2> QED
    BY <1>1, <1>2, <1>3, <1>10, <1>11, <2>1 DEF Next

(* The invariant holds in every reachable state of every instance.         *)
THEOREM ManagerInvariant == Spec => []IInv
<1>1. Init => IInv
  BY InitIInv, SchedulerAssumption, ClusterManagerAssumption
<1>2. IInv /\ [Next]_vars => IInv'
  BY NextIInv, SchedulerAssumption, ClusterManagerAssumption
<1> QED
  BY <1>1, <1>2, PTL DEF Spec

(* The manager's variables keep their types.                               *)
THEOREM ManagerTypeOK == Spec => []TypeOK
<1>1. IInv => TypeOK
  BY DEF IInv
<1> QED
  BY <1>1, ManagerInvariant, PTL

(* The manager watches exactly the workers it may schedule.                *)
THEOREM ManagerSameWorkers == Spec => []SameWorkers
<1>1. IInv => SameWorkers
  BY DEF IInv
<1> QED
  BY <1>1, ManagerInvariant, PTL

(* A reservation timer never runs for an uncontested task in execution.    *)
THEOREM ManagerTimers == Spec => []TimerOnlyWhilePending
<1>1. IInv => TimerOnlyWhilePending
  BY DEF IInv
<1> QED
  BY <1>1, ManagerInvariant, PTL

(* schedule stays with its answer while the answer binds.                  *)
THEOREM ManagerPromise == Spec => []PromiseKept
<1>1. IInv => PromiseKept
  BY DEF IInv
<1> QED
  BY <1>1, ManagerInvariant, PTL

(* An uncontested task is executed by its owner alone.                     *)
THEOREM ManagerOneExecutor == Spec => []OneExecutor
<1>1. IInv => OneExecutor
  BY DEF IInv
<1> QED
  BY <1>1, ManagerInvariant, PTL

(* Without a double join no reservation gets stuck.                        *)
THEOREM ManagerNoStuck == Spec => []NoStuckReservation
<1>1. IInv => NoStuckReservation
  BY DEF IInv
<1> QED
  BY <1>1, ManagerInvariant, PTL
=============================================================================
