---------------------------- MODULE ClusterProofs ---------------------------
(***************************************************************************)
(* A worker and the manager it is registered with agree on the worker's    *)
(* tasks, for any tasks, bounds and limits of the protocol, whatever is    *)
(* lost or late and however managers die, restart and take over.           *)
(***************************************************************************)
EXTENDS Cluster, SequenceTheorems, FiniteSetTheorems, TLAPS

JoinCall == <<"join", 0>>
Kinds == {"join", "keepAlive"}

(* What a queue q of requests holds.                                       *)
IsJoin(m) == m.type = "join"
IsCast(m) == m.type \notin Kinds
Touches(m, t) == m.type \in {"pickUpTasks", "layDownTask"} /\ t \in m.tasks

NoJoins(q) == \A i \in DOMAIN q : ~IsJoin(q[i])
NoCasts(q) == \A i \in DOMAIN q : ~IsCast(q[i])
Quits(q) == \E i \in DOMAIN q : q[i].type = "quit"

(* Joins are of no round; what is laid down is one task; casts come before *)
(* joins, and joins that have timed out before the one that has not.       *)
Ordered(q) ==
  /\ \A i \in DOMAIN q : IsJoin(q[i]) => q[i].round = 0
  /\ \A i \in DOMAIN q : q[i].type = "layDownTask" => \E t \in TaskIds : q[i].tasks = {t}
  /\ \A i, j \in DOMAIN q : i < j /\ IsJoin(q[i]) => ~IsCast(q[j])
  /\ \A i, j \in DOMAIN q : i < j /\ IsJoin(q[i]) /\ q[i].live => ~IsJoin(q[j])

LiveJoin(q) == \E i \in DOMAIN q : IsJoin(q[i]) /\ q[i].live

(* The tasks a manager that has T will have when it has handled q.         *)
Handled(q, T, t) ==
  \/ \E i \in DOMAIN q :
       /\ q[i].type = "pickUpTasks" /\ t \in q[i].tasks
       /\ \A j \in DOMAIN q : j > i => ~Touches(q[j], t)
  \/ t \in T /\ \A j \in DOMAIN q : ~Touches(q[j], t)

Agrees(q, T, known) == \A t \in TaskIds : t \in known <=> Handled(q, T, t)

-----------------------------------------------------------------------------
(* The parts of the inductive invariant.  A join has one outcome: its      *)
(* request is in the queue, its answer on its way, or it is lost.          *)
JoinReply(m) == m.type = "join"
Answering == \E k \in DOMAIN replies : JoinReply(replies[k])

OneJoin ==
  /\ lost[JoinCall] \in {0, 1}
  /\ LiveJoin(requests) \/ Answering \/ lost[JoinCall] = 1 => joining = "calling"
  /\ LiveJoin(requests) => ~Answering /\ lost[JoinCall] = 0
  /\ Answering => lost[JoinCall] = 0 /\ NoJoins(requests)
  /\ \A k \in DOMAIN replies : JoinReply(replies[k]) => replies[k].round = 0
  /\ \A k, l \in DOMAIN replies : JoinReply(replies[k]) /\ JoinReply(replies[l]) => k = l

States ==
  /\ wstate = "registered" => joining = "none" /\ NoJoins(requests)
  /\ wstate = "unregistered" =>
       /\ tasks = {} /\ ~ticking
       /\ \A i \in DOMAIN requests : IsJoin(requests[i])
       /\ \A k \in DOMAIN replies : JoinReply(replies[k])
       /\ \A r \in Round : lost[CallsOf(r)] = 0

(* What the manager keeps of the worker.                                   *)
Kept == sched.workers[Me].tasks

ManagerOK ==
  /\ state \in {"initializing", "in-service"}
  /\ workers = [w \in DOMAIN workers |-> workers[w]] /\ DOMAIN workers \subseteq {Me}
  /\ sched = [workers |-> sched.workers, tasks |-> sched.tasks, orphans |-> sched.orphans]
  /\ sched.workers = [w \in DOMAIN sched.workers |-> sched.workers[w]]
  /\ DOMAIN sched.workers = DOMAIN workers
  /\ Me \in DOMAIN workers =>
       /\ sched.workers[Me] = [state |-> sched.workers[Me].state, load |-> sched.workers[Me].load, tasks |-> Kept]
       /\ Kept \subseteq TaskIds

(* A manager that has answered a join knows no task.                       *)
JustJoined == Answering => NoCasts(requests) /\ (Me \in DOMAIN workers => Kept = {})

(* A registered worker and its manager agree when all is handled.          *)
WillAgree ==
  wstate = "registered" /\ Me \in DOMAIN workers /\ ~castLost /\ ~Quits(requests) =>
    Agrees(requests, Kept, tasks)

IInv ==
  /\ TypeOK
  /\ Ordered(requests)
  /\ OneJoin
  /\ States
  /\ ManagerOK
  /\ JustJoined
  /\ WillAgree

-----------------------------------------------------------------------------
(* Queues.  Within(p, q): p is what is left of q.                          *)
Within(p, q) ==
  \E f \in [DOMAIN p -> DOMAIN q] :
    /\ \A i, j \in DOMAIN p : i < j => f[i] < f[j]
    /\ \A i \in DOMAIN p :
         /\ p[i].type = q[f[i]].type /\ p[i].round = q[f[i]].round
         /\ IsCast(p[i]) => p[i].tasks = q[f[i]].tasks
         /\ p[i].live => q[f[i]].live

LEMMA WithinKeeps ==
  ASSUME NEW p, NEW q, Within(p, q)
  PROVE  /\ Ordered(q) => Ordered(p)
         /\ NoJoins(q) => NoJoins(p)
         /\ NoCasts(q) => NoCasts(p)
         /\ LiveJoin(p) => LiveJoin(q)
         /\ Quits(p) => Quits(q)
<1>1. PICK f \in [DOMAIN p -> DOMAIN q] :
        /\ \A i, j \in DOMAIN p : i < j => f[i] < f[j]
        /\ \A i \in DOMAIN p :
             /\ p[i].type = q[f[i]].type /\ p[i].round = q[f[i]].round
             /\ IsCast(p[i]) => p[i].tasks = q[f[i]].tasks
             /\ p[i].live => q[f[i]].live
  BY DEF Within
<1>2. \A i \in DOMAIN p : f[i] \in DOMAIN q
  OBVIOUS
<1>3. ASSUME Ordered(q) PROVE Ordered(p)
  <2>1. \A i \in DOMAIN p : IsJoin(p[i]) => p[i].round = 0
    BY <1>1, <1>2, <1>3 DEF Ordered, IsJoin
  <2>2. \A i \in DOMAIN p : p[i].type = "layDownTask" => \E t \in TaskIds : p[i].tasks = {t}
    BY <1>1, <1>2, <1>3 DEF Ordered, IsCast, Kinds
  <2>3. \A i, j \in DOMAIN p : i < j /\ IsJoin(p[i]) => ~IsCast(p[j])
    BY <1>1, <1>2, <1>3 DEF Ordered, IsJoin, IsCast
  <2>4. \A i, j \in DOMAIN p : i < j /\ IsJoin(p[i]) /\ p[i].live => ~IsJoin(p[j])
    BY <1>1, <1>2, <1>3 DEF Ordered, IsJoin
  <2> QED
    BY <2>1, <2>2, <2>3, <2>4 DEF Ordered
<1>4. NoJoins(q) => NoJoins(p)
  BY <1>1, <1>2 DEF NoJoins, IsJoin
<1>5. NoCasts(q) => NoCasts(p)
  BY <1>1, <1>2 DEF NoCasts, IsCast
<1>6. LiveJoin(p) => LiveJoin(q)
  BY <1>1, <1>2 DEF LiveJoin, IsJoin
<1>7. Quits(p) => Quits(q)
  BY <1>1, <1>2 DEF Quits
<1> QED
  BY <1>3, <1>4, <1>5, <1>6, <1>7

LEMMA RemoveAtFacts ==
  ASSUME NEW S, NEW q \in Seq(S), NEW i \in DOMAIN q
  PROVE  /\ RemoveAt(q, i) \in Seq(S)
         /\ DOMAIN RemoveAt(q, i) = 1..Len(q) - 1
         /\ \A k \in 1..Len(q) - 1 : RemoveAt(q, i)[k] = IF k < i THEN q[k] ELSE q[k + 1]
<1>1. i \in 1..Len(q) /\ Len(q) \in Nat
  OBVIOUS
<1>2. PICK a : a = SubSeq(q, 1, i - 1)
  OBVIOUS
<1>3. PICK b : b = SubSeq(q, i + 1, Len(q))
  OBVIOUS
<1>4. a \in Seq(S) /\ Len(a) = i - 1 /\ \A k \in 1..i - 1 : a[k] = q[k]
  BY <1>1, <1>2
<1>5. b \in Seq(S) /\ Len(b) = Len(q) - i /\ \A k \in 1..Len(q) - i : b[k] = q[i + k]
  BY <1>1, <1>3
<1>6. RemoveAt(q, i) = a \o b
  BY <1>2, <1>3 DEF RemoveAt
<1>7. a \o b \in Seq(S) /\ Len(a \o b) = Len(q) - 1
  BY <1>1, <1>4, <1>5
<1>8. \A k \in 1..Len(q) - 1 : (a \o b)[k] = IF k < i THEN q[k] ELSE q[k + 1]
  <2>1. TAKE k \in 1..Len(q) - 1
  <2>2. CASE k < i
    BY <1>1, <1>4, <1>5, <2>2
  <2>3. CASE ~(k < i)
    <3>1. (a \o b)[k] = b[k - (i - 1)]
      BY <1>1, <1>4, <1>5, <2>3
    <3>2. k - (i - 1) \in 1..Len(q) - i
      BY <1>1, <2>3
    <3>3. b[k - (i - 1)] = q[i + (k - (i - 1))]
      BY <1>5, <3>2
    <3>4. i + (k - (i - 1)) = k + 1
      BY <1>1
    <3> QED
      BY <2>3, <3>1, <3>3, <3>4
  <2> QED
    BY <2>2, <2>3
<1> QED
  BY <1>6, <1>7, <1>8

LEMMA RemoveWithin ==
  ASSUME NEW q \in Seq(Request), NEW i \in DOMAIN q
  PROVE  Within(RemoveAt(q, i), q)
<1>1. PICK p : p = RemoveAt(q, i)
  OBVIOUS
<1>2. DOMAIN p = 1..Len(q) - 1 /\ \A k \in 1..Len(q) - 1 : p[k] = IF k < i THEN q[k] ELSE q[k + 1]
  BY <1>1, RemoveAtFacts
<1>3. DOMAIN q = 1..Len(q) /\ Len(q) \in Nat
  OBVIOUS
<1>4. PICK f : f = [k \in DOMAIN p |-> IF k < i THEN k ELSE k + 1]
  OBVIOUS
<1>5. f \in [DOMAIN p -> DOMAIN q]
  BY <1>2, <1>3, <1>4
<1>6. \A k, j \in DOMAIN p : k < j => f[k] < f[j]
  BY <1>2, <1>3, <1>4
<1>7. \A k \in DOMAIN p : p[k] = q[f[k]]
  BY <1>2, <1>4
<1> QED
  BY <1>1, <1>5, <1>6, <1>7 DEF Within

LEMMA TailWithin ==
  ASSUME NEW q \in Seq(Request), q # <<>>
  PROVE  /\ Within(Tail(q), q)
         /\ Tail(q) \in Seq(Request)
         /\ DOMAIN Tail(q) = 1..Len(q) - 1
         /\ \A k \in 1..Len(q) - 1 : Tail(q)[k] = q[k + 1]
<1>1. PICK p : p = Tail(q)
  OBVIOUS
<1>2. /\ p \in Seq(Request) /\ DOMAIN p = 1..Len(q) - 1 /\ \A k \in 1..Len(q) - 1 : p[k] = q[k + 1]
      /\ DOMAIN q = 1..Len(q) /\ Len(q) \in Nat
  BY <1>1
<1>3. PICK f : f = [k \in DOMAIN p |-> k + 1]
  OBVIOUS
<1>4. f \in [DOMAIN p -> DOMAIN q]
  BY <1>2, <1>3
<1>5. \A k, j \in DOMAIN p : k < j => f[k] < f[j]
  BY <1>2, <1>3
<1>6. \A k \in DOMAIN p : p[k] = q[f[k]]
  BY <1>2, <1>3
<1> QED
  BY <1>1, <1>2, <1>4, <1>5, <1>6 DEF Within

LEMMA EmptyWithin ==
  ASSUME NEW q \in Seq(Request)
  PROVE  Within(<<>>, q)
<1>1. PICK f : f = [k \in DOMAIN <<>> |-> 1]
  OBVIOUS
<1>2. f \in [DOMAIN <<>> -> DOMAIN q] /\ \A k \in DOMAIN <<>> : FALSE
  BY <1>1
<1> QED
  BY <1>2 DEF Within

(* The caller of a request gives up.                                       *)
LEMMA TimeoutWithin ==
  ASSUME NEW q \in Seq(Request), NEW i \in DOMAIN q, q[i].type \in Kinds
  PROVE  LET p == [q EXCEPT ![i].live = FALSE]
         IN /\ p \in Seq(Request) /\ Within(p, q) /\ DOMAIN p = DOMAIN q
            /\ ~p[i].live
            /\ \A k \in DOMAIN q : p[k].type = q[k].type
            /\ \A k \in DOMAIN q : k # i => p[k] = q[k]
<1>1. PICK m : m = q[i]
  OBVIOUS
<1>2. m \in [type : Kinds, round : Round, live : BOOLEAN]
  BY <1>1 DEF Request, Kinds
<1>3. PICK n : n = [m EXCEPT !.live = FALSE]
  OBVIOUS
<1>4. n \in Request /\ n.type = m.type /\ n.round = m.round /\ n.live = FALSE
  <2>1. n = [type |-> m.type, round |-> m.round, live |-> FALSE]
    BY <1>2, <1>3
  <2>2. n \in [type : Kinds, round : Round, live : BOOLEAN]
    BY <1>2, <2>1
  <2> QED
    BY <1>2, <2>1, <2>2 DEF Request, Kinds
<1>5. PICK p : p = [q EXCEPT ![i] = n]
  OBVIOUS
<1>6. p = [q EXCEPT ![i].live = FALSE]
  BY <1>1, <1>3, <1>5
<1>7. p \in Seq(Request) /\ DOMAIN p = DOMAIN q /\ p[i] = n /\ \A k \in DOMAIN q : k # i => p[k] = q[k]
  BY <1>4, <1>5
<1>8. \A k \in DOMAIN q : p[k].type = q[k].type /\ p[k].round = q[k].round
                          /\ (IsCast(p[k]) => p[k].tasks = q[k].tasks) /\ (p[k].live => q[k].live)
  BY <1>1, <1>2, <1>4, <1>7 DEF IsCast
<1>9. Within(p, q)
  <2>1. PICK f : f = [k \in DOMAIN p |-> k]
    OBVIOUS
  <2>2. f \in [DOMAIN p -> DOMAIN q]
    BY <1>7, <2>1
  <2>3. \A k, j \in DOMAIN p : k < j => f[k] < f[j]
    BY <2>1
  <2>4. \A k \in DOMAIN p : f[k] = k
    BY <2>1
  <2> QED
    BY <1>7, <1>8, <2>2, <2>3, <2>4 DEF Within
<1> QED
  BY <1>4, <1>6, <1>7, <1>8, <1>9

-----------------------------------------------------------------------------
(* What is lost with a queue.                                              *)
LEMMA LostFacts ==
  ASSUME NEW q \in Seq(Request), lost \in [Call -> Nat]
  PROVE  /\ LostCalls(q) \in [Call -> Nat]
         /\ \A c \in Call : (\A i \in DOMAIN q : IsLive(q[i]) => q[i].type # c[1]) => LostCalls(q)[c] = lost[c]
         /\ ~LiveJoin(q) => LostCalls(q)[JoinCall] = lost[JoinCall]
         /\ Ordered(q) /\ LiveJoin(q) => LostCalls(q)[JoinCall] = lost[JoinCall] + 1
<1> DEFINE At(c) == {i \in DOMAIN q : IsLive(q[i]) /\ <<q[i].type, q[i].round>> = c}
<1>1. DOMAIN q = 1..Len(q) /\ Len(q) \in Nat
  OBVIOUS
<1>2. IsFiniteSet(DOMAIN q)
  BY <1>1, FS_Interval
<1>3. \A c \in Call : Cardinality(At(c)) \in Nat
  <2>1. TAKE c \in Call
  <2>2. At(c) \subseteq DOMAIN q
    OBVIOUS
  <2> QED
    BY <1>2, <2>2, FS_Subset, FS_CardinalityType
<1>4. PICK l : l = LostCalls(q)
  OBVIOUS
<1>5. l = [c \in Call |-> lost[c] + Cardinality(At(c))]
  BY <1>4 DEF LostCalls
<1>6. JoinCall \in Call
  BY DEF JoinCall, Call
<1>7. l \in [Call -> Nat]
  BY <1>3, <1>5
<1>8. \A c \in Call : At(c) = {} => l[c] = lost[c]
  BY <1>5, FS_EmptySet
<1>9. \A c \in Call : (\A i \in DOMAIN q : IsLive(q[i]) => q[i].type # c[1]) => At(c) = {}
  OBVIOUS
<1>10. ~LiveJoin(q) => At(JoinCall) = {}
  BY DEF LiveJoin, JoinCall, IsLive, IsJoin
<1>11. ASSUME Ordered(q), LiveJoin(q) PROVE l[JoinCall] = lost[JoinCall] + 1
  <2>1. PICK i \in DOMAIN q : IsJoin(q[i]) /\ q[i].live
    BY <1>11 DEF LiveJoin
  <2>2. i \in At(JoinCall)
    BY <1>11, <2>1 DEF Ordered, IsJoin, IsLive, JoinCall
  <2>3. \A j \in At(JoinCall) : IsJoin(q[j]) /\ q[j].live
    BY DEF IsJoin, IsLive, JoinCall
  <2>4. \A j \in At(JoinCall) : j = i
    BY <1>1, <1>11, <2>1, <2>3 DEF Ordered
  <2>5. At(JoinCall) = {i}
    BY <2>2, <2>4
  <2> HIDE DEF At
  <2>6. Cardinality(At(JoinCall)) = 1
    BY <2>5, FS_Singleton
  <2> QED
    BY <1>5, <1>6, <2>6
<1> HIDE DEF At
<1> QED
  BY <1>4, <1>6, <1>7, <1>8, <1>9, <1>10, <1>11

-----------------------------------------------------------------------------
(* What a manager will have.                                               *)
LEMMA AgreesNothing ==
  ASSUME NEW q, NEW T, NEW known, \A i \in DOMAIN q : q[i].type \in Kinds
  PROVE  Agrees(q, T, known) <=> (\A t \in TaskIds : t \in known <=> t \in T)
<1>1. \A i \in DOMAIN q : \A t : ~Touches(q[i], t) /\ q[i].type # "pickUpTasks"
  BY DEF Touches, Kinds
<1> QED
  BY <1>1 DEF Agrees, Handled

LEMMA AgreesCall ==
  ASSUME NEW q \in Seq(Request), NEW T, NEW known, NEW i \in DOMAIN q, q[i].type \in Kinds,
         Agrees(q, T, known)
  PROVE  Agrees(RemoveAt(q, i), T, known)
<1>1. PICK p : p = RemoveAt(q, i)
  OBVIOUS
<1>2. DOMAIN p = 1..Len(q) - 1 /\ \A k \in 1..Len(q) - 1 : p[k] = IF k < i THEN q[k] ELSE q[k + 1]
  BY <1>1, RemoveAtFacts
<1>3. DOMAIN q = 1..Len(q) /\ Len(q) \in Nat /\ i \in 1..Len(q)
  OBVIOUS
<1>4. \A t : ~Touches(q[i], t) /\ q[i].type # "pickUpTasks"
  BY DEF Touches, Kinds
<1>5. ASSUME NEW t \in TaskIds PROVE (\A j \in DOMAIN p : ~Touches(p[j], t)) <=> (\A j \in DOMAIN q : ~Touches(q[j], t))
  <2>1. ASSUME \A j \in DOMAIN p : ~Touches(p[j], t), NEW j \in DOMAIN q PROVE ~Touches(q[j], t)
    <3>1. CASE j < i
      <4>1. j \in DOMAIN p /\ p[j] = q[j]
        BY <1>2, <1>3, <3>1
      <4> QED
        BY <2>1, <4>1
    <3>2. CASE j = i
      BY <1>4, <3>2
    <3>3. CASE j > i
      <4>1. j - 1 \in DOMAIN p /\ p[j - 1] = q[j]
        BY <1>2, <1>3, <3>3
      <4> QED
        BY <2>1, <4>1
    <3> QED
      BY <1>3, <3>1, <3>2, <3>3
  <2>2. ASSUME \A j \in DOMAIN q : ~Touches(q[j], t), NEW j \in DOMAIN p PROVE ~Touches(p[j], t)
    BY <1>2, <1>3, <2>2
  <2> QED
    BY <2>1, <2>2
<1>6. ASSUME NEW t \in TaskIds, NEW k \in DOMAIN p
      PROVE  LET j == IF k < i THEN k ELSE k + 1
             IN /\ j \in DOMAIN q /\ p[k] = q[j]
                /\ (\A l \in DOMAIN p : l > k => ~Touches(p[l], t)) <=> (\A l \in DOMAIN q : l > j => ~Touches(q[l], t))
  <2> DEFINE j == IF k < i THEN k ELSE k + 1
  <2>1. j \in DOMAIN q /\ p[k] = q[j]
    BY <1>2, <1>3
  <2>2. ASSUME \A l \in DOMAIN p : l > k => ~Touches(p[l], t), NEW l \in DOMAIN q, l > j PROVE ~Touches(q[l], t)
    <3>1. CASE l < i
      <4>1. l \in DOMAIN p /\ p[l] = q[l] /\ l > k
        BY <1>2, <1>3, <2>2, <3>1
      <4> QED
        BY <2>2, <4>1
    <3>2. CASE l = i
      BY <1>4, <3>2
    <3>3. CASE l > i
      <4>1. l - 1 \in DOMAIN p /\ p[l - 1] = q[l] /\ l - 1 > k
        BY <1>2, <1>3, <2>2, <3>3
      <4> QED
        BY <2>2, <4>1
    <3> QED
      BY <1>3, <3>1, <3>2, <3>3
  <2>3. ASSUME \A l \in DOMAIN q : l > j => ~Touches(q[l], t), NEW l \in DOMAIN p, l > k PROVE ~Touches(p[l], t)
    BY <1>2, <1>3, <2>3
  <2> QED
    BY <2>1, <2>2, <2>3
<1>7. ASSUME NEW j \in DOMAIN q, j # i
      PROVE  \E k \in DOMAIN p : j = IF k < i THEN k ELSE k + 1
  <2>1. CASE j < i
    BY <1>2, <1>3, <2>1
  <2>2. CASE j > i
    <3>1. j - 1 \in DOMAIN p /\ j = IF j - 1 < i THEN j - 1 ELSE (j - 1) + 1
      BY <1>2, <1>3, <2>2
    <3> QED
      BY <3>1
  <2> QED
    BY <1>3, <1>7, <2>1, <2>2
<1>8. ASSUME NEW t \in TaskIds PROVE Handled(p, T, t) <=> Handled(q, T, t)
  <2>1. ASSUME NEW k \in DOMAIN p, p[k].type = "pickUpTasks" /\ t \in p[k].tasks,
               \A l \in DOMAIN p : l > k => ~Touches(p[l], t)
        PROVE  Handled(q, T, t)
    BY <1>6, <2>1 DEF Handled
  <2>2. ASSUME NEW j \in DOMAIN q, q[j].type = "pickUpTasks" /\ t \in q[j].tasks,
               \A l \in DOMAIN q : l > j => ~Touches(q[l], t)
        PROVE  Handled(p, T, t)
    <3>1. j # i
      BY <1>4, <2>2
    <3>2. PICK k \in DOMAIN p : j = IF k < i THEN k ELSE k + 1
      BY <1>7, <3>1
    <3> QED
      BY <1>6, <2>2, <3>2 DEF Handled
  <2> QED
    BY <1>5, <2>1, <2>2 DEF Handled
<1> QED
  BY <1>1, <1>8 DEF Agrees

LEMMA AgreesSame ==
  ASSUME NEW q, NEW p, NEW T, NEW known, Agrees(q, T, known), DOMAIN p = DOMAIN q,
         \A i \in DOMAIN q : p[i].type = q[i].type /\ (IsCast(q[i]) => p[i] = q[i])
  PROVE  Agrees(p, T, known)
<1>1. \A i \in DOMAIN q : \A t : Touches(p[i], t) <=> Touches(q[i], t)
  BY DEF Touches, IsCast, Kinds
<1>2. \A i \in DOMAIN q : \A t : p[i].type = "pickUpTasks" /\ t \in p[i].tasks <=> q[i].type = "pickUpTasks" /\ t \in q[i].tasks
  BY DEF IsCast, Kinds
<1> QED
  BY <1>1, <1>2 DEF Agrees, Handled

(* A request is added at the end.                                          *)
LEMMA AppendFacts ==
  ASSUME NEW q \in Seq(Request), NEW m \in Request
  PROVE  /\ Append(q, m) \in Seq(Request)
         /\ DOMAIN Append(q, m) = 1..Len(q) + 1 /\ DOMAIN q = 1..Len(q) /\ Len(q) \in Nat
         /\ \A i \in DOMAIN q : Append(q, m)[i] = q[i]
         /\ Append(q, m)[Len(q) + 1] = m
  OBVIOUS

LEMMA AgreesAppend ==
  ASSUME NEW q \in Seq(Request), NEW m \in Request, NEW T, NEW known, NEW known2, Agrees(q, T, known),
         \A t \in TaskIds : t \in known2 <=>
           \/ m.type = "pickUpTasks" /\ t \in m.tasks
           \/ t \in known /\ ~Touches(m, t)
  PROVE  Agrees(Append(q, m), T, known2)
<1>1. PICK p : p = Append(q, m)
  OBVIOUS
<1>2. PICK n : n = Len(q) + 1
  OBVIOUS
<1>3. /\ DOMAIN p = 1..n /\ DOMAIN q = 1..n - 1 /\ n \in Nat \ {0}
      /\ \A i \in DOMAIN q : p[i] = q[i]
      /\ p[n] = m
  BY <1>1, <1>2, AppendFacts
<1>4. ASSUME NEW t \in TaskIds PROVE (t \in known2) <=> Handled(p, T, t)
  <2>1. CASE m.type = "pickUpTasks" /\ t \in m.tasks
    <3>1. n \in DOMAIN p /\ p[n].type = "pickUpTasks" /\ t \in p[n].tasks /\ \A j \in DOMAIN p : j > n => ~Touches(p[j], t)
      BY <1>3, <2>1
    <3>2. Handled(p, T, t)
      BY <3>1 DEF Handled
    <3> QED
      BY <2>1, <3>2
  <2>2. CASE ~(m.type = "pickUpTasks" /\ t \in m.tasks) /\ Touches(m, t)
    <3>1. n \in DOMAIN p /\ Touches(p[n], t) /\ ~(p[n].type = "pickUpTasks" /\ t \in p[n].tasks) /\ \A i \in DOMAIN p : i # n => n > i
      BY <1>3, <2>2
    <3>2. ~Handled(p, T, t)
      BY <3>1 DEF Handled
    <3> QED
      BY <2>2, <3>2
  <2>3. CASE ~Touches(m, t)
    <3>0. ~(m.type = "pickUpTasks" /\ t \in m.tasks)
      BY <2>3 DEF Touches
    <3>1. \A i \in DOMAIN p : i \in DOMAIN q \/ i = n
      BY <1>3
    <3>2. \A i \in DOMAIN q : i \in DOMAIN p
      BY <1>3
    <3>3. Handled(q, T, t) <=> Handled(p, T, t)
      BY <1>3, <2>3, <3>0, <3>1, <3>2 DEF Handled
    <3> QED
      BY <2>3, <3>0, <3>3 DEF Agrees
  <2> QED
    BY <2>1, <2>2, <2>3
<1> QED
  BY <1>1, <1>4 DEF Agrees

(* A request is handled: the manager has U after it.                       *)
LEMMA AgreesTail ==
  ASSUME NEW q \in Seq(Request), q # <<>>, NEW T, NEW U, NEW known, Agrees(q, T, known),
         \A t \in TaskIds : t \in U <=>
           \/ q[1].type = "pickUpTasks" /\ t \in q[1].tasks
           \/ t \in T /\ ~Touches(q[1], t)
  PROVE  Agrees(Tail(q), U, known)
<1>1. PICK p : p = Tail(q)
  OBVIOUS
<1>2. /\ DOMAIN p = 1..Len(q) - 1 /\ \A k \in 1..Len(q) - 1 : p[k] = q[k + 1]
      /\ DOMAIN q = 1..Len(q) /\ Len(q) \in Nat /\ Len(q) > 0
  BY <1>1, TailWithin
<1>3. \A j \in DOMAIN q : j = 1 \/ (j - 1 \in DOMAIN p /\ q[j] = p[j - 1])
  BY <1>2
<1>4. \A j \in DOMAIN p : j + 1 \in DOMAIN q /\ p[j] = q[j + 1]
  BY <1>2
<1>5. ASSUME NEW t \in TaskIds PROVE Handled(q, T, t) <=> Handled(p, U, t)
  <2>1. ASSUME NEW k \in DOMAIN p PROVE (\A l \in DOMAIN p : l > k => ~Touches(p[l], t)) <=> (\A l \in DOMAIN q : l > k + 1 => ~Touches(q[l], t))
    <3>1. ASSUME \A l \in DOMAIN p : l > k => ~Touches(p[l], t), NEW l \in DOMAIN q, l > k + 1 PROVE ~Touches(q[l], t)
      <4>1. l - 1 \in DOMAIN p /\ q[l] = p[l - 1] /\ l - 1 > k
        BY <1>2, <1>3, <3>1
      <4> QED
        BY <3>1, <4>1
    <3>2. ASSUME \A l \in DOMAIN q : l > k + 1 => ~Touches(q[l], t), NEW l \in DOMAIN p, l > k PROVE ~Touches(p[l], t)
      <4>1. l + 1 \in DOMAIN q /\ q[l + 1] = p[l] /\ l + 1 > k + 1
        BY <1>2, <1>4, <3>2
      <4> QED
        BY <3>2, <4>1
    <3> QED
      BY <3>1, <3>2
  <2>2. (\A l \in DOMAIN q : l > 1 => ~Touches(q[l], t)) <=> (\A l \in DOMAIN p : ~Touches(p[l], t))
    <3>1. ASSUME \A l \in DOMAIN p : ~Touches(p[l], t), NEW l \in DOMAIN q, l > 1 PROVE ~Touches(q[l], t)
      BY <1>2, <1>3, <3>1
    <3>2. ASSUME \A l \in DOMAIN q : l > 1 => ~Touches(q[l], t), NEW l \in DOMAIN p PROVE ~Touches(p[l], t)
      <4>1. l + 1 \in DOMAIN q /\ q[l + 1] = p[l] /\ l + 1 > 1
        BY <1>2, <1>4
      <4> QED
        BY <3>2, <4>1
    <3> QED
      BY <3>1, <3>2
  <2>3. 1 \in DOMAIN q
    BY <1>2
  <2>4. Handled(q, T, t) => Handled(p, U, t)
    <3>1. ASSUME NEW i \in DOMAIN q, q[i].type = "pickUpTasks" /\ t \in q[i].tasks,
                 \A j \in DOMAIN q : j > i => ~Touches(q[j], t)
          PROVE  Handled(p, U, t)
      <4>1. CASE i = 1
        <5>1. t \in U
          BY <3>1, <4>1
        <5>2. \A l \in DOMAIN p : ~Touches(p[l], t)
          BY <2>2, <3>1, <4>1
        <5> QED
          BY <5>1, <5>2 DEF Handled
      <4>2. CASE i # 1
        <5>1. i - 1 \in DOMAIN p /\ q[i] = p[i - 1] /\ (i - 1) + 1 = i
          BY <1>2, <1>3, <4>2
        <5>2. \A l \in DOMAIN p : l > i - 1 => ~Touches(p[l], t)
          BY <2>1, <3>1, <5>1
        <5> QED
          BY <3>1, <5>1, <5>2 DEF Handled
      <4> QED
        BY <4>1, <4>2
    <3>2. ASSUME t \in T, \A j \in DOMAIN q : ~Touches(q[j], t)
          PROVE  Handled(p, U, t)
      <4>1. t \in U
        BY <2>3, <3>2
      <4>2. \A l \in DOMAIN p : ~Touches(p[l], t)
        BY <2>2, <3>2
      <4> QED
        BY <4>1, <4>2 DEF Handled
    <3> QED
      BY <3>1, <3>2 DEF Handled
  <2>5. Handled(p, U, t) => Handled(q, T, t)
    <3>1. ASSUME NEW i \in DOMAIN p, p[i].type = "pickUpTasks" /\ t \in p[i].tasks,
                 \A j \in DOMAIN p : j > i => ~Touches(p[j], t)
          PROVE  Handled(q, T, t)
      <4>1. i + 1 \in DOMAIN q /\ p[i] = q[i + 1]
        BY <1>4
      <4>2. \A l \in DOMAIN q : l > i + 1 => ~Touches(q[l], t)
        BY <2>1, <3>1
      <4> QED
        BY <3>1, <4>1, <4>2 DEF Handled
    <3>2. ASSUME t \in U, \A j \in DOMAIN p : ~Touches(p[j], t)
          PROVE  Handled(q, T, t)
      <4>1. \A l \in DOMAIN q : l > 1 => ~Touches(q[l], t)
        BY <2>2, <3>2
      <4>2. CASE q[1].type = "pickUpTasks" /\ t \in q[1].tasks
        BY <2>3, <4>1, <4>2 DEF Handled
      <4>3. CASE t \in T /\ ~Touches(q[1], t)
        <5>1. \A l \in DOMAIN q : ~Touches(q[l], t)
          BY <1>2, <4>1, <4>3
        <5> QED
          BY <4>3, <5>1 DEF Handled
      <4> QED
        BY <3>2, <4>2, <4>3
    <3> QED
      BY <3>1, <3>2 DEF Handled
  <2> QED
    BY <2>4, <2>5
<1> QED
  BY <1>1, <1>5 DEF Agrees

-----------------------------------------------------------------------------
(* What the manager's operations do to the worker's tasks.                 *)
LEMMA JoinKept ==
  ASSUME ManagerOK, M!Join(Me)
  PROVE  ManagerOK' /\ Me \in DOMAIN workers' /\ Kept' = {}
<1>1. PICK e : e = [state |-> TRUE, load |-> IF [w \in {Me} |-> 1][Me] = 0 THEN 1 ELSE [w \in {Me} |-> 1][Me], tasks |-> {}]
  OBVIOUS
<1>2. sched' = [sched EXCEPT !.workers = M!Put(sched.workers, Me, e)]
  BY <1>1 DEF M!Join, M!Add
<1>3. PICK ws : ws = M!Put(sched.workers, Me, e)
  OBVIOUS
<1>4. sched' = [workers |-> ws, tasks |-> sched.tasks, orphans |-> sched.orphans]
  BY <1>2, <1>3 DEF ManagerOK
<1>5. workers' = M!Put(workers, Me, 0)
  BY DEF M!Join
<1>6. DOMAIN ws = {Me} /\ ws[Me] = e /\ ws = [w \in DOMAIN ws |-> ws[w]]
  BY <1>3 DEF ManagerOK, M!Put
<1>7. DOMAIN workers' = {Me} /\ workers' = [w \in DOMAIN workers' |-> workers'[w]]
  BY <1>5 DEF ManagerOK, M!Put
<1> QED
  BY <1>1, <1>4, <1>6, <1>7 DEF ManagerOK, Kept, M!Join

(* The table of workers keeps its worker, if it is kept.                   *)
LEMMA SameKept ==
  ASSUME ManagerOK, state' \in {"initializing", "in-service"},
         DOMAIN workers' \subseteq DOMAIN workers, workers' = [w \in DOMAIN workers' |-> workers'[w]],
         NEW ws, NEW ts, NEW os, sched' = [workers |-> ws, tasks |-> ts, orphans |-> os],
         ws = [w \in DOMAIN workers' |-> sched.workers[w]]
  PROVE  ManagerOK' /\ (Me \in DOMAIN workers' => Kept' = Kept)
  BY DEF ManagerOK, Kept

LEMMA KeepAliveKept ==
  ASSUME ManagerOK, M!KeepAlive(Me)
  PROVE  ManagerOK' /\ DOMAIN workers' = DOMAIN workers /\ Kept' = Kept
<1>1. sched' = sched /\ state' = state /\ DOMAIN workers' = DOMAIN workers /\ workers' = [w \in DOMAIN workers' |-> workers'[w]]
  BY DEF M!KeepAlive, ManagerOK
<1> QED
  BY <1>1 DEF ManagerOK, Kept

(* One worker's list of tasks is replaced.                                 *)
LEMMA ListKept ==
  ASSUME ManagerOK, Me \in DOMAIN workers, UNCHANGED <<state, workers>>, NEW T \in SUBSET TaskIds,
         NEW ts, NEW os,
         sched' = [workers |-> [sched.workers EXCEPT ![Me].tasks = T], tasks |-> ts, orphans |-> os]
  PROVE  ManagerOK' /\ Kept' = T
<1>1. PICK e : e = [sched.workers[Me] EXCEPT !.tasks = T]
  OBVIOUS
<1>2. e = [state |-> sched.workers[Me].state, load |-> sched.workers[Me].load, tasks |-> T]
  BY <1>1 DEF ManagerOK
<1>3. PICK ws : ws = [sched.workers EXCEPT ![Me] = e]
  OBVIOUS
<1>4. sched' = [workers |-> ws, tasks |-> ts, orphans |-> os]
  BY <1>1, <1>3
<1>5. DOMAIN ws = DOMAIN sched.workers /\ ws = [w \in DOMAIN ws |-> ws[w]] /\ ws[Me] = e
  BY <1>3 DEF ManagerOK
<1> QED
  BY <1>2, <1>4, <1>5 DEF ManagerOK, Kept

LEMMA PickKept ==
  ASSUME ManagerOK, NEW T \in SUBSET TaskIds, M!pickUpTasks(Me, T)
  PROVE  ManagerOK' /\ DOMAIN workers' = DOMAIN workers /\ Kept' = Kept \cup T
<1>1. Me \in DOMAIN workers /\ UNCHANGED <<state, workers>> /\ sched' = M!PickUpTasks(sched, Me, T)
  BY DEF M!pickUpTasks
<1>2. M!Known(sched, Me)
  BY <1>1 DEF M!Known, ManagerOK
<1>3. PICK ts : sched' = [sched EXCEPT !.workers[Me].tasks = @ \cup T, !.tasks = ts]
  BY <1>1, <1>2 DEF M!PickUpTasks
<1>4. sched' = [workers |-> [sched.workers EXCEPT ![Me].tasks = Kept \cup T], tasks |-> ts, orphans |-> sched.orphans]
  BY <1>3 DEF ManagerOK, Kept
<1>5. Kept \cup T \in SUBSET TaskIds
  BY <1>1 DEF ManagerOK
<1> QED
  BY <1>1, <1>4, <1>5, ListKept

LEMMA LayKept ==
  ASSUME ManagerOK, NEW t \in TaskIds, M!layDownTask(Me, t)
  PROVE  ManagerOK' /\ DOMAIN workers' = DOMAIN workers /\ Kept' = Kept \ {t}
<1>1. Me \in DOMAIN workers /\ UNCHANGED <<state, workers>> /\ sched' = M!LayDownTask(sched, Me, t)
  BY DEF M!layDownTask
<1>2. M!Known(sched, Me)
  BY <1>1 DEF M!Known, ManagerOK
<1>3. sched' = M!cancelExecution(sched, Me, t)
  BY <1>1, <1>2 DEF M!LayDownTask
<1>4. PICK laid : laid = [sched EXCEPT !.workers[Me].tasks = @ \ {t}]
  OBVIOUS
<1>5. laid = [workers |-> [sched.workers EXCEPT ![Me].tasks = Kept \ {t}], tasks |-> sched.tasks, orphans |-> sched.orphans]
  BY <1>4 DEF ManagerOK, Kept
<1>6. Kept \ {t} \in SUBSET TaskIds
  BY <1>1 DEF ManagerOK
<1>7. CASE ~M!Assigned(sched, t)
  <2>1. sched' = laid
    BY <1>2, <1>3, <1>4, <1>7 DEF M!cancelExecution
  <2> QED
    BY <1>1, <1>5, <1>6, <2>1, ListKept
<1>8. CASE M!Assigned(sched, t) /\ t \in Kept
  <2>1. PICK ts : sched' = [laid EXCEPT !.tasks = ts]
    BY <1>2, <1>3, <1>4, <1>8 DEF M!cancelExecution, M!reserveWorkerForTask, Kept
  <2>2. sched' = [workers |-> [sched.workers EXCEPT ![Me].tasks = Kept \ {t}], tasks |-> ts, orphans |-> sched.orphans]
    BY <1>5, <2>1
  <2> QED
    BY <1>1, <1>6, <2>2, ListKept
<1>9. CASE M!Assigned(sched, t) /\ t \notin Kept
  <2>1. PICK ts : sched' = [sched EXCEPT !.tasks = ts]
    BY <1>2, <1>3, <1>9 DEF M!cancelExecution, M!repealTask, Kept
  <2>2. sched' = [workers |-> sched.workers, tasks |-> ts, orphans |-> sched.orphans]
    BY <2>1 DEF ManagerOK
  <2>3. sched.workers = [w \in DOMAIN workers' |-> sched.workers[w]]
    BY <1>1 DEF ManagerOK
  <2>4. ManagerOK' /\ Kept' = Kept
    <3>1. state' \in {"initializing", "in-service"} /\ workers' = [w \in DOMAIN workers' |-> workers'[w]]
      BY <1>1 DEF ManagerOK
    <3> QED
      BY <1>1, <2>2, <2>3, <3>1, SameKept
  <2>5. Kept \ {t} = Kept
    BY <1>9
  <2> QED
    BY <1>1, <2>4, <2>5
<1> QED
  BY <1>7, <1>8, <1>9

(* Workers of Q leave.                                                     *)
LEMMA LeaveKept ==
  ASSUME ManagerOK, UNCHANGED state, NEW Q, M!QuitAll(Q), DOMAIN workers' = DOMAIN workers \ Q,
         workers' = [w \in DOMAIN workers' |-> workers'[w]]
  PROVE  ManagerOK' /\ (Me \in DOMAIN workers' => Kept' = Kept)
<1>1. PICK ts : sched' = [sched EXCEPT !.workers = M!Restrict(sched.workers, DOMAIN sched.workers \ Q), !.tasks = ts]
  BY DEF M!QuitAll, M!RemoveAll
<1>2. PICK ws : ws = M!Restrict(sched.workers, DOMAIN sched.workers \ Q)
  OBVIOUS
<1>3. sched' = [workers |-> ws, tasks |-> ts, orphans |-> sched.orphans]
  BY <1>1, <1>2 DEF ManagerOK
<1>4. ws = [w \in DOMAIN workers' |-> sched.workers[w]]
  BY <1>2 DEF ManagerOK, M!Restrict
<1>5. DOMAIN workers' \subseteq DOMAIN workers /\ state' \in {"initializing", "in-service"}
  BY DEF ManagerOK
<1> QED
  BY <1>3, <1>4, <1>5, SameKept

LEMMA QuitKept ==
  ASSUME ManagerOK, M!Quit(Me)
  PROVE  ManagerOK' /\ Me \notin DOMAIN workers'
<1>1. M!QuitAll({Me}) /\ UNCHANGED state /\ workers' = M!Drop(workers, Me)
  BY DEF M!Quit
<1>2. DOMAIN workers' = DOMAIN workers \ {Me} /\ workers' = [w \in DOMAIN workers' |-> workers'[w]]
  BY <1>1 DEF M!Drop
<1> QED
  BY <1>1, <1>2, LeaveKept

LEMMA CheckKept ==
  ASSUME ManagerOK, M!CheckAlive
  PROVE  /\ ManagerOK' /\ DOMAIN workers' \subseteq DOMAIN workers
         /\ Me \in DOMAIN workers' => Kept' = Kept
<1>1. PICK Q : Q = M!Silent
  OBVIOUS
<1>2. M!QuitAll(Q) /\ UNCHANGED state /\ workers' = [w \in DOMAIN workers \ Q |-> workers[w] + 1]
  BY <1>1 DEF M!CheckAlive
<1>3. DOMAIN workers' = DOMAIN workers \ Q /\ workers' = [w \in DOMAIN workers' |-> workers'[w]]
  BY <1>2
<1> QED
  BY <1>2, <1>3, LeaveKept

LEMMA RestartKept ==
  ASSUME Restart
  PROVE  ManagerOK' /\ Me \notin DOMAIN workers'
  BY DEF Restart, ManagerOK, M!Scheduler0

LEMMA TakeOverKept ==
  ASSUME ManagerOK, TakeOver
  PROVE  ManagerOK' /\ DOMAIN workers' = DOMAIN workers /\ Kept' = Kept
<1>1. PICK n : workers' = [w \in DOMAIN workers |-> n]
  BY DEF TakeOver
<1>2. PICK ts : sched' = [sched EXCEPT !.tasks = ts]
  BY DEF TakeOver, M!Serve
<1>3. sched' = [workers |-> sched.workers, tasks |-> ts, orphans |-> sched.orphans]
  BY <1>2 DEF ManagerOK
<1>4. DOMAIN workers' = DOMAIN workers /\ workers' = [w \in DOMAIN workers' |-> workers'[w]]
  BY <1>1
<1>5. sched.workers = [w \in DOMAIN workers' |-> sched.workers[w]]
  BY <1>4 DEF ManagerOK
<1>6. ManagerOK'
  <2>1. state' \in {"initializing", "in-service"} /\ DOMAIN workers' \subseteq DOMAIN workers
    BY <1>4 DEF TakeOver
  <2> QED
    BY <1>3, <1>4, <1>5, <2>1, SameKept
<1>7. Kept' = Kept
  BY <1>3 DEF Kept
<1> QED
  BY <1>4, <1>6, <1>7

-----------------------------------------------------------------------------
(* The invariant after a step, part by part.                               *)
LEMMA Parts ==
  ASSUME NEW q, requests' = q, NEW T, Kept' = T
  PROVE  /\ Ordered(requests)' <=> Ordered(q)
         /\ OneJoin' <=>
              /\ lost'[JoinCall] \in {0, 1}
              /\ LiveJoin(q) \/ Answering' \/ lost'[JoinCall] = 1 => joining' = "calling"
              /\ LiveJoin(q) => ~Answering' /\ lost'[JoinCall] = 0
              /\ Answering' => lost'[JoinCall] = 0 /\ NoJoins(q)
              /\ \A k \in DOMAIN replies' : JoinReply(replies'[k]) => replies'[k].round = 0
              /\ \A k, l \in DOMAIN replies' : JoinReply(replies'[k]) /\ JoinReply(replies'[l]) => k = l
         /\ JustJoined' <=> (Answering' => NoCasts(q) /\ (Me \in DOMAIN workers' => T = {}))
         /\ WillAgree' <=>
              (wstate' = "registered" /\ Me \in DOMAIN workers' /\ ~castLost' /\ ~Quits(q) => Agrees(q, T, tasks'))
  BY DEF OneJoin, JustJoined, WillAgree

-----------------------------------------------------------------------------
(* Posting.                                                                *)
LEMMA AppendOrdered ==
  ASSUME NEW q \in Seq(Request), NEW m \in Request
  PROVE  /\ Ordered(q) /\ m.type = "join" /\ m.round = 0 /\ ~LiveJoin(q) => Ordered(Append(q, m))
         /\ Ordered(q) /\ m.type = "keepAlive" => Ordered(Append(q, m))
         /\ Ordered(q) /\ NoJoins(q) /\ IsCast(m) /\ (m.type = "layDownTask" => \E t \in TaskIds : m.tasks = {t})
              => Ordered(Append(q, m))
         /\ NoJoins(q) /\ ~IsJoin(m) => NoJoins(Append(q, m))
         /\ NoCasts(q) /\ ~IsCast(m) => NoCasts(Append(q, m))
         /\ LiveJoin(Append(q, m)) => LiveJoin(q) \/ (IsJoin(m) /\ m.live)
         /\ Quits(Append(q, m)) <=> Quits(q) \/ m.type = "quit"
<1>1. PICK p : p = Append(q, m)
  OBVIOUS
<1>2. PICK n : n = Len(q) + 1
  OBVIOUS
<1>3. /\ n \in Nat \ {0} /\ DOMAIN q = 1..n - 1 /\ DOMAIN p = 1..n
      /\ \A i \in DOMAIN q : p[i] = q[i]
      /\ p[n] = m
  BY <1>1, <1>2, AppendFacts
<1>4. /\ n \in DOMAIN p /\ \A i \in DOMAIN p : i \in DOMAIN q \/ i = n
      /\ \A i \in DOMAIN q : i \in DOMAIN p /\ i < n /\ i # n /\ ~(n < i)
      /\ ~(n < n)
  BY <1>3
<1>5. ASSUME Ordered(q), m.type = "join", m.round = 0, ~LiveJoin(q) PROVE Ordered(p)
  <2>1. \A i \in DOMAIN p : IsJoin(p[i]) => p[i].round = 0
    BY <1>3, <1>4, <1>5 DEF Ordered
  <2>2. \A i \in DOMAIN p : p[i].type = "layDownTask" => \E t \in TaskIds : p[i].tasks = {t}
    BY <1>3, <1>4, <1>5 DEF Ordered
  <2>3. \A i, j \in DOMAIN p : i < j /\ IsJoin(p[i]) => ~IsCast(p[j])
    BY <1>3, <1>4, <1>5 DEF Ordered, IsCast, Kinds
  <2>4. \A i, j \in DOMAIN p : i < j /\ IsJoin(p[i]) /\ p[i].live => ~IsJoin(p[j])
    BY <1>3, <1>4, <1>5 DEF Ordered, LiveJoin
  <2> QED
    BY <2>1, <2>2, <2>3, <2>4 DEF Ordered
<1>6. ASSUME Ordered(q), m.type = "keepAlive" PROVE Ordered(p)
  <2>0. ~IsJoin(m) /\ ~IsCast(m)
    BY <1>6 DEF IsJoin, IsCast, Kinds
  <2>1. \A i \in DOMAIN p : IsJoin(p[i]) => p[i].round = 0
    BY <1>3, <1>4, <1>6, <2>0 DEF Ordered
  <2>2. \A i \in DOMAIN p : p[i].type = "layDownTask" => \E t \in TaskIds : p[i].tasks = {t}
    BY <1>3, <1>4, <1>6 DEF Ordered
  <2>3. \A i, j \in DOMAIN p : i < j /\ IsJoin(p[i]) => ~IsCast(p[j])
    BY <1>3, <1>4, <1>6, <2>0 DEF Ordered
  <2>4. \A i, j \in DOMAIN p : i < j /\ IsJoin(p[i]) /\ p[i].live => ~IsJoin(p[j])
    BY <1>3, <1>4, <1>6, <2>0 DEF Ordered
  <2> QED
    BY <2>1, <2>2, <2>3, <2>4 DEF Ordered
<1>7. ASSUME Ordered(q), NoJoins(q), IsCast(m), m.type = "layDownTask" => \E t \in TaskIds : m.tasks = {t}
      PROVE  Ordered(p)
  <2>0. ~IsJoin(m)
    BY <1>7 DEF IsJoin, IsCast, Kinds
  <2>1. \A i \in DOMAIN p : ~IsJoin(p[i])
    BY <1>3, <1>4, <1>7, <2>0 DEF NoJoins
  <2>2. \A i \in DOMAIN p : p[i].type = "layDownTask" => \E t \in TaskIds : p[i].tasks = {t}
    BY <1>3, <1>4, <1>7 DEF Ordered
  <2> QED
    BY <2>1, <2>2 DEF Ordered
<1>8. NoJoins(q) /\ ~IsJoin(m) => NoJoins(p)
  BY <1>3, <1>4 DEF NoJoins
<1>9. NoCasts(q) /\ ~IsCast(m) => NoCasts(p)
  BY <1>3, <1>4 DEF NoCasts
<1>10. LiveJoin(p) => LiveJoin(q) \/ (IsJoin(m) /\ m.live)
  BY <1>3, <1>4 DEF LiveJoin
<1>11. Quits(p) <=> Quits(q) \/ m.type = "quit"
  BY <1>3, <1>4 DEF Quits
<1> QED
  BY <1>1, <1>5, <1>6, <1>7, <1>8, <1>9, <1>10, <1>11

LEMMA CallRequest ==
  ASSUME NEW type \in Kinds, NEW r \in Round, NEW m, m = call(type, r)
  PROVE  m \in Request /\ m.type = type /\ m.round = r /\ m.live = TRUE
<1>1. m = [type |-> type, round |-> r, live |-> TRUE]
  BY DEF call
<1> QED
  BY <1>1 DEF Request, Kinds

LEMMA PostCallFacts ==
  ASSUME TypeOK, NEW m \in Request, m.type \in Kinds, m.live = TRUE, NEW k \in Call, k = <<m.type, m.round>>, Post(m)
  PROVE  /\ requests' \in Seq(Request) /\ lost' \in [Call -> Nat]
         /\ up => requests' = Append(requests, m) /\ lost' = lost
         /\ ~up => /\ requests' = requests
                   /\ \A c \in Call : lost'[c] = IF c = k THEN lost[c] + 1 ELSE lost[c]
<1>3. requests \in Seq(Request) /\ lost \in [Call -> Nat]
  BY DEF TypeOK, WorkerTypeOK
<1>4. PICK q : q = <<m>>
  OBVIOUS
<1>5. DOMAIN q = {1} /\ q[1] = m
  BY <1>4
<1>6. PICK l : l = LostCalls(q)
  OBVIOUS
<1>7. \A c \in Call : l[c] = IF c = k THEN lost[c] + 1 ELSE lost[c]
  <2>1. TAKE c \in Call
  <2>2. l[c] = lost[c] + Cardinality({i \in DOMAIN q : IsLive(q[i]) /\ <<q[i].type, q[i].round>> = c})
    BY <1>6 DEF LostCalls
  <2>3. CASE c = k
    <3>1. {i \in DOMAIN q : IsLive(q[i]) /\ <<q[i].type, q[i].round>> = c} = {1}
      BY <1>5, <2>3 DEF IsLive, Kinds
    <3> QED
      BY <2>2, <2>3, <3>1, FS_Singleton
  <2>4. CASE c # k
    <3>1. {i \in DOMAIN q : IsLive(q[i]) /\ <<q[i].type, q[i].round>> = c} = {}
      BY <1>5, <2>4
    <3>2. l[c] = lost[c] + 0
      BY <2>2, <3>1, FS_EmptySet
    <3>3. lost[c] \in Nat
      BY <1>3
    <3> QED
      BY <2>4, <3>2, <3>3
  <2> QED
    BY <2>3, <2>4
<1>8. l \in [Call -> Nat]
  <2>1. DOMAIN l = Call /\ l = [c \in Call |-> l[c]]
    BY <1>6 DEF LostCalls
  <2> QED
    BY <1>3, <1>7, <2>1
<1>9. /\ requests' = IF up THEN Append(requests, m) ELSE requests
      /\ lost' = IF up THEN lost ELSE l
  BY <1>4, <1>6 DEF Post
<1>10. Append(requests, m) \in Seq(Request)
  BY <1>3, AppendFacts
<1> QED
  BY <1>3, <1>7, <1>8, <1>9, <1>10

LEMMA PostCastFacts ==
  ASSUME TypeOK, NEW m \in Request, IsCast(m), Post(m)
  PROVE  /\ requests' \in Seq(Request) /\ lost' = lost
         /\ requests' = IF up THEN Append(requests, m) ELSE requests
<1>1. requests \in Seq(Request) /\ lost \in [Call -> Nat]
  BY DEF TypeOK, WorkerTypeOK
<1>2. <<m>> \in Seq(Request) /\ DOMAIN <<m>> = {1} /\ <<m>>[1] = m
  OBVIOUS
<1>3. ~IsLive(m)
  BY DEF IsCast, IsLive, Kinds
<1>4. PICK q : q = <<m>>
  OBVIOUS
<1>5. LostCalls(q) \in [Call -> Nat] /\ \A c \in Call : LostCalls(q)[c] = lost[c]
  BY <1>1, <1>2, <1>3, <1>4, LostFacts
<1>6. LostCalls(q) = lost
  BY <1>1, <1>5
<1>7. Append(requests, m) \in Seq(Request)
  BY <1>1, AppendFacts
<1> QED
  BY <1>1, <1>4, <1>6, <1>7 DEF Post

LEMMA CallFacts ==
  /\ JoinCall \in Call /\ 0 \in Round
  /\ \A r \in Round : CallsOf(r) \in Call /\ CallsOf(r) # JoinCall
<1>1. 0 \in Round
  BY WorkerAssumption DEF Round
<1>2. JoinCall \in Call
  BY DEF JoinCall, Call
<1>3. \A r \in Round : CallsOf(r) \in Call
  BY DEF CallsOf, Call
<1>4. \A r \in Round : CallsOf(r) # JoinCall
  BY DEF JoinCall, CallsOf
<1> QED
  BY <1>1, <1>2, <1>3, <1>4

-----------------------------------------------------------------------------
(* The steps of the worker.                                                *)
LEMMA SameManager ==
  ASSUME ManagerOK, UNCHANGED manager
  PROVE  ManagerOK' /\ Kept' = Kept /\ workers' = workers
<1>1. sched' = sched /\ workers' = workers /\ state' = state
  BY DEF manager
<1> QED
  BY <1>1 DEF ManagerOK, Kept

LEMMA TryJoinIInv ==
  ASSUME IInv, TryJoin, UNCHANGED manager
  PROVE  IInv'
<1>1. /\ joining = "pausing" /\ joining' = "calling" /\ PostCall("join", 0)
      /\ UNCHANGED <<wstate, tasks, countDown, ticking, round, loss_count, leaving, dropped, up, replies>>
  BY DEF TryJoin
<1>2. PICK m : m = call("join", 0)
  OBVIOUS
<1>3. /\ m \in Request /\ m.type = "join" /\ m.round = 0 /\ m.live = TRUE
      /\ requests' \in Seq(Request) /\ lost' \in [Call -> Nat] /\ castLost' = castLost
      /\ up => requests' = Append(requests, m) /\ lost' = lost
      /\ ~up => /\ requests' = requests
                /\ \A c \in Call : lost'[c] = IF c = JoinCall THEN lost[c] + 1 ELSE lost[c]
  <2>1. m \in Request /\ m.type = "join" /\ m.round = 0 /\ m.live = TRUE /\ m.type \in Kinds
    BY <1>2, CallRequest, CallFacts DEF Kinds
  <2>2. JoinCall = <<m.type, m.round>> /\ JoinCall \in Call
    BY <2>1, CallFacts DEF JoinCall
  <2>3. Post(m) /\ castLost' = castLost
    BY <1>1, <1>2 DEF PostCall
  <2> QED
    BY <2>1, <2>2, <2>3, PostCallFacts DEF IInv
<1>4. TypeOK'
  BY <1>1, <1>3 DEF IInv, TypeOK, WorkerTypeOK
<1>5. ManagerOK' /\ Kept' = Kept /\ workers' = workers
  BY SameManager DEF IInv
<1>6. wstate # "registered" /\ ~LiveJoin(requests) /\ ~Answering /\ lost[JoinCall] = 0
  BY <1>1 DEF IInv, States, OneJoin
<1>7. Answering' = Answering
  BY <1>1 DEF Answering
<1>8. requests \in Seq(Request)
  BY DEF IInv, TypeOK, WorkerTypeOK
<1>9. Ordered(requests')
  BY <1>3, <1>6, <1>8, AppendOrdered DEF IInv, TypeOK
<1>10. lost'[JoinCall] \in {0, 1} /\ (LiveJoin(requests') => lost'[JoinCall] = 0)
  BY <1>3, <1>6, CallFacts DEF IInv, TypeOK
<1>11. OneJoin'
  BY <1>1, <1>5, <1>6, <1>7, <1>10, Parts DEF IInv, OneJoin
<1>12. States'
  <2>1. ASSUME wstate = "unregistered" PROVE \A i \in DOMAIN requests' : IsJoin(requests'[i])
    <3>1. CASE up
      <4>1. \A i \in DOMAIN requests' : i \in DOMAIN requests \/ i = Len(requests) + 1
        BY <1>3, <1>8, <3>1, AppendFacts
      <4> QED
        BY <1>3, <1>8, <2>1, <3>1, <4>1, AppendFacts DEF IInv, States, IsJoin
    <3>2. CASE ~up
      BY <1>3, <2>1, <3>2 DEF IInv, States
    <3> QED
      BY <3>1, <3>2
  <2>2. \A r \in Round : lost'[CallsOf(r)] = lost[CallsOf(r)]
    BY <1>3, CallFacts DEF IInv, TypeOK
  <2> QED
    BY <1>1, <1>6, <2>1, <2>2 DEF IInv, States
<1>13. JustJoined' /\ WillAgree'
  BY <1>1, <1>5, <1>6, <1>7, Parts
<1>14. Ordered(requests)'
  BY <1>5, <1>9, Parts
<1> QED
  BY <1>4, <1>5, <1>11, <1>12, <1>13, <1>14 DEF IInv

(* The failure of a join.                                                  *)
LEMMA JoinFailedIInv ==
  ASSUME IInv, JoinFailed, UNCHANGED manager, UNCHANGED <<up, castLost>>,
         NEW q, requests' = q, NEW l, replies' = l,
         q \in Seq(Request), Within(q, requests), DOMAIN q = DOMAIN requests,
         \A i \in DOMAIN q : q[i].type = requests[i].type /\ (IsCast(q[i]) => q[i] = requests[i]),
         l \in Seq(Reply), \A k \in DOMAIN l : \E j \in DOMAIN replies : l[k] = replies[j],
         ~LiveJoin(q), ~Answering', lost' \in [Call -> Nat], lost'[JoinCall] = 0,
         \A r \in Round : lost'[CallsOf(r)] = lost[CallsOf(r)]
  PROVE  IInv'
<1>1. UNCHANGED <<wstate, tasks, ticking, round, loss_count, leaving, dropped>> /\ wstate # "registered"
  BY DEF JoinFailed
<1>2. TypeOK'
  <2>1. joining' \in {"none", "pausing"}
    BY DEF JoinFailed
  <2>2. countDown' \in 0..JoinRetry
    BY WorkerAssumption DEF JoinFailed, IInv, TypeOK, WorkerTypeOK
  <2> QED
    BY <1>1, <2>1, <2>2 DEF IInv, TypeOK, WorkerTypeOK
<1>3. ManagerOK' /\ Kept' = Kept /\ workers' = workers
  BY SameManager DEF IInv
<1>4. Ordered(requests)'
  BY <1>3, WithinKeeps, Parts DEF IInv
<1>5. \A k \in DOMAIN l : ~JoinReply(l[k])
  BY DEF Answering
<1>6. OneJoin'
  BY <1>3, <1>5, Parts
<1>7. JustJoined' /\ WillAgree'
  BY <1>1, <1>3, Parts
<1>8. States'
  BY <1>1 DEF IInv, States, IsJoin
<1> QED
  BY <1>2, <1>3, <1>4, <1>6, <1>7, <1>8 DEF IInv

LEMMA SameQueue ==
  ASSUME NEW q \in Seq(Request)
  PROVE  Within(q, q)
<1>1. PICK f : f = [k \in DOMAIN q |-> k]
  OBVIOUS
<1>2. f \in [DOMAIN q -> DOMAIN q] /\ \A k \in DOMAIN q : f[k] = k
  BY <1>1
<1> QED
  BY <1>2 DEF Within

LEMMA JoinLostIInv ==
  ASSUME IInv, JoinLost, UNCHANGED manager
  PROVE  IInv'
<1>1. JoinFailed /\ UNCHANGED <<up, castLost>> /\ EndLost(JoinCall)
  BY DEF JoinLost, JoinCall
<1>2. lost[JoinCall] > 0 /\ lost' = [lost EXCEPT ![JoinCall] = @ - 1] /\ UNCHANGED <<requests, replies>>
  BY <1>1 DEF EndLost
<1>3. lost[JoinCall] = 1 /\ lost \in [Call -> Nat] /\ requests \in Seq(Request) /\ replies \in Seq(Reply)
  BY <1>2 DEF IInv, OneJoin, TypeOK, WorkerTypeOK
<1>4. ~LiveJoin(requests) /\ ~Answering
  BY <1>3 DEF IInv, OneJoin
<1>5. ~Answering'
  BY <1>2, <1>4 DEF Answering
<1>6. lost' \in [Call -> Nat] /\ lost'[JoinCall] = 0 /\ \A r \in Round : lost'[CallsOf(r)] = lost[CallsOf(r)]
  BY <1>2, <1>3, CallFacts
<1>7. requests' = requests /\ replies' = replies /\ \A k \in DOMAIN replies : \E j \in DOMAIN replies : replies[k] = replies[j]
  BY <1>2
<1> QED
  BY <1>1, <1>3, <1>4, <1>5, <1>6, <1>7, SameQueue, JoinFailedIInv

LEMMA JoinTimeoutIInv ==
  ASSUME IInv, JoinTimeout, UNCHANGED manager
  PROVE  IInv'
<1>1. JoinFailed /\ UNCHANGED <<up, castLost>> /\ EndEarly(JoinCall)
  BY DEF JoinTimeout, JoinCall
<1>2. requests \in Seq(Request) /\ replies \in Seq(Reply) /\ lost \in [Call -> Nat]
  BY DEF IInv, TypeOK, WorkerTypeOK
<1>3. ASSUME NEW i \in DOMAIN requests, IsLive(requests[i]) /\ <<requests[i].type, requests[i].round>> = JoinCall,
             requests' = [requests EXCEPT ![i].live = FALSE], UNCHANGED <<replies, lost>>
      PROVE  IInv'
  <2>1. IsJoin(requests[i]) /\ requests[i].live /\ requests[i].type \in Kinds
    BY <1>3 DEF IsLive, JoinCall, IsJoin, Kinds
  <2>2. PICK q : q = [requests EXCEPT ![i].live = FALSE]
    OBVIOUS
  <2>3. /\ q \in Seq(Request) /\ Within(q, requests) /\ DOMAIN q = DOMAIN requests
        /\ ~q[i].live
        /\ \A k \in DOMAIN requests : q[k].type = requests[k].type
        /\ \A k \in DOMAIN requests : k # i => q[k] = requests[k]
    BY <1>2, <2>1, <2>2, TimeoutWithin
  <2>4. LiveJoin(requests)
    BY <2>1 DEF LiveJoin
  <2>5. ~Answering /\ lost[JoinCall] = 0
    BY <2>4 DEF IInv, OneJoin
  <2>6. ~Answering'
    BY <1>3, <2>5 DEF Answering
  <2>7. ~LiveJoin(q)
    <3>1. SUFFICES ASSUME NEW j \in DOMAIN q, IsJoin(q[j]), q[j].live PROVE FALSE
      BY DEF LiveJoin
    <3>2. j # i
      BY <2>3, <3>1
    <3>3. IsJoin(requests[j]) /\ requests[j].live /\ j \in DOMAIN requests
      BY <2>3, <3>1, <3>2
    <3>4. i < j \/ j < i
      <4>1. i \in Int /\ j \in Int
        BY <1>2, <3>3
      <4> QED
        BY <3>2, <4>1
    <3> QED
      BY <2>1, <3>3, <3>4 DEF IInv, Ordered
  <2>8. \A k \in DOMAIN q : q[k].type = requests[k].type /\ (IsCast(q[k]) => q[k] = requests[k])
    BY <2>1, <2>3 DEF IsCast
  <2>9. requests' = q /\ replies' = replies /\ lost' = lost
    BY <1>3, <2>2
  <2>10. \A k \in DOMAIN replies : \E j \in DOMAIN replies : replies[k] = replies[j]
    OBVIOUS
  <2> QED
    BY <1>1, <1>2, <2>3, <2>5, <2>6, <2>7, <2>8, <2>9, <2>10, JoinFailedIInv
<1>4. ASSUME NEW i \in DOMAIN replies, <<replies[i].type, replies[i].round>> = JoinCall,
             replies' = RemoveAt(replies, i), UNCHANGED <<requests, lost>>
      PROVE  IInv'
  <2>1. JoinReply(replies[i])
    BY <1>4 DEF JoinReply, JoinCall
  <2>2. Answering
    BY <2>1 DEF Answering
  <2>3. lost[JoinCall] = 0 /\ ~LiveJoin(requests)
    BY <2>2 DEF IInv, OneJoin
  <2>4. PICK l : l = RemoveAt(replies, i)
    OBVIOUS
  <2>5. /\ l \in Seq(Reply) /\ DOMAIN l = 1..Len(replies) - 1
        /\ \A k \in 1..Len(replies) - 1 : l[k] = IF k < i THEN replies[k] ELSE replies[k + 1]
    BY <1>2, <2>4, RemoveAtFacts
  <2>6. \A k \in DOMAIN l : \E j \in DOMAIN replies : j # i /\ l[k] = replies[j]
    <3>1. TAKE k \in DOMAIN l
    <3>2. DOMAIN replies = 1..Len(replies) /\ Len(replies) \in Nat
      BY <1>2
    <3>3. CASE k < i
      BY <2>5, <3>2, <3>3
    <3>4. CASE ~(k < i)
      <4>1. k + 1 \in DOMAIN replies /\ k + 1 # i
        BY <2>5, <3>2, <3>4
      <4> QED
        BY <2>5, <3>4, <4>1
    <3> QED
      BY <3>3, <3>4
  <2>7. requests' = requests /\ replies' = l /\ lost' = lost
    BY <1>4, <2>4
  <2>8. ~Answering'
    BY <2>1, <2>6, <2>7 DEF Answering, IInv, OneJoin
  <2>9. \A k \in DOMAIN requests : requests[k].type = requests[k].type /\ (IsCast(requests[k]) => requests[k] = requests[k])
    OBVIOUS
  <2> QED
    BY <1>1, <1>2, <2>3, <2>5, <2>6, <2>7, <2>8, <2>9, SameQueue, JoinFailedIInv
<1> QED
  BY <1>1, <1>3, <1>4 DEF EndEarly

(* The answer to a join.                                                   *)
LEMMA JoinedIInv ==
  ASSUME IInv, Joined, UNCHANGED manager
  PROVE  IInv'
<1>1. /\ replies # <<>> /\ Head(replies).type = "join" /\ replies' = Tail(replies)
      /\ joining' = "none" /\ wstate' = "registered" /\ NewRound
      /\ UNCHANGED <<countDown, leaving, up>>
  BY DEF Joined
<1>2. requests \in Seq(Request) /\ replies \in Seq(Reply) /\ lost \in [Call -> Nat] /\ tasks \in SUBSET TaskIds
      /\ loss_count \in [Round -> 0..MaxLoss + 1]
  BY DEF IInv, TypeOK, WorkerTypeOK
<1>3. ManagerOK' /\ Kept' = Kept /\ workers' = workers
  BY SameManager DEF IInv
<1>4. 1 \in DOMAIN replies /\ JoinReply(replies[1])
  BY <1>1, <1>2 DEF JoinReply
<1>5. Answering
  BY <1>4 DEF Answering
<1>6. /\ lost[JoinCall] = 0 /\ NoJoins(requests) /\ ~LiveJoin(requests)
      /\ NoCasts(requests) /\ (Me \in DOMAIN workers => Kept = {})
  BY <1>5 DEF IInv, OneJoin, JustJoined
<1>7. \A k \in DOMAIN replies' : ~JoinReply(replies'[k])
  <2>1. TAKE k \in DOMAIN replies'
  <2>2. k + 1 \in DOMAIN replies /\ k + 1 # 1 /\ replies'[k] = replies[k + 1]
    BY <1>1, <1>2
  <2> QED
    BY <1>4, <2>2 DEF IInv, OneJoin
<1>8. ~Answering' /\ replies' \in Seq(Reply)
  BY <1>1, <1>2, <1>7 DEF Answering
<1>9. round' \in Round /\ loss_count' \in [Round -> 0..MaxLoss + 1] /\ ticking' = TRUE
  <2>1. round' \in FreshRounds
    BY <1>1 DEF NewRound, FreshRound
  <2>2. round' \in Round
    BY <2>1 DEF FreshRounds
  <2>3. 0 \in 0..MaxLoss + 1
    BY WorkerAssumption
  <2>4. loss_count' = [r \in Round |-> IF r # FreshRound /\ Outstanding(CallsOf(r)) THEN loss_count[r] ELSE 0]
    BY <1>1 DEF NewRound
  <2>5. \A r \in Round : loss_count[r] \in 0..MaxLoss + 1
    BY <1>2
  <2>6. loss_count' \in [Round -> 0..MaxLoss + 1]
    BY <2>3, <2>4, <2>5
  <2> QED
    BY <1>1, <2>2, <2>6 DEF NewRound
(* It leaves the tasks and the queue in one of these ways.                 *)
<1>10. \/ /\ UNCHANGED <<requests, lost>> /\ castLost' = FALSE
          /\ tasks' = {}
       \/ /\ tasks # {} /\ tasks' = tasks /\ castLost' = (~up)
          /\ Post(cast("pickUpTasks", tasks))
  <2>1. CASE wstate # "recovering"
    <3>1. wstate = "unregistered"
      <4>1. joining = "calling"
        BY <1>5 DEF IInv, OneJoin
      <4>2. wstate # "registered"
        BY <4>1 DEF IInv, States
      <4> QED
        BY <2>1, <4>2 DEF IInv, TypeOK, WorkerTypeOK
    <3>2. tasks = {}
      BY <3>1 DEF IInv, States
    <3>3. UNCHANGED <<tasks, dropped, requests, lost>> /\ castLost' = FALSE
      BY <2>1 DEF Joined
    <3> QED
      BY <3>2, <3>3
  <2>2. CASE wstate = "recovering"
    <3>1. JoinedAgain(Head(replies).result)
      BY <2>2 DEF Joined
    <3> QED
      BY <3>1 DEF JoinedAgain
  <2> QED
    BY <2>1, <2>2
<1>11. dropped' \in BOOLEAN /\ castLost' \in BOOLEAN
  <2>1. dropped \in BOOLEAN /\ up \in BOOLEAN
    BY DEF IInv, TypeOK, WorkerTypeOK
  <2>2. castLost' \in BOOLEAN
    BY <1>10, <2>1
  <2>3. dropped' \in BOOLEAN
    <3>1. CASE wstate = "recovering"
      BY <2>1, <3>1 DEF Joined, JoinedAgain
    <3>2. CASE wstate # "recovering"
      BY <2>1, <3>2 DEF Joined
    <3> QED
      BY <3>1, <3>2
  <2> QED
    BY <2>2, <2>3
<1>12. PICK q : q = requests'
  OBVIOUS
<1>13. /\ q \in Seq(Request) /\ lost' = lost /\ tasks' \in SUBSET TaskIds
       /\ Ordered(q) /\ NoJoins(q)
       /\ ~castLost' /\ Me \in DOMAIN workers => Agrees(q, Kept, tasks')
  <2>1. Ordered(requests)
    BY DEF IInv
  <2>2. \A i \in DOMAIN requests : requests[i].type \in Kinds
    BY <1>6 DEF NoCasts, IsCast
  <2>3. CASE UNCHANGED <<requests, lost>> /\ castLost' = FALSE /\ tasks' = {}
    <3>1. Me \in DOMAIN workers => Agrees(requests, Kept, {})
      BY <1>6, <2>2, AgreesNothing
    <3> QED
      BY <1>2, <1>6, <1>12, <2>1, <2>3, <3>1
  <2>4. CASE tasks # {} /\ tasks' = tasks /\ castLost' = (~up) /\ Post(cast("pickUpTasks", tasks))
    <3>1. PICK m : m = cast("pickUpTasks", tasks)
      OBVIOUS
    <3>2. m = [type |-> "pickUpTasks", tasks |-> tasks]
      BY <3>1 DEF cast
    <3>3. m \in Request /\ m.type = "pickUpTasks" /\ m.tasks = tasks
      BY <1>2, <3>2 DEF Request
    <3>4. IsCast(m) /\ ~IsJoin(m)
      BY <3>3 DEF IsCast, IsJoin, Kinds
    <3>5. Post(m) /\ TypeOK
      BY <2>4, <3>1 DEF IInv
    <3>6. requests' \in Seq(Request) /\ lost' = lost /\ requests' = IF up THEN Append(requests, m) ELSE requests
      BY <3>3, <3>4, <3>5, PostCastFacts
    <3>7. Ordered(q) /\ NoJoins(q)
      BY <1>2, <1>6, <1>12, <2>1, <3>3, <3>4, <3>6, AppendOrdered
    <3>8. ASSUME ~castLost', Me \in DOMAIN workers PROVE Agrees(q, Kept, tasks')
      <4>1. up /\ q = Append(requests, m) /\ Kept = {}
        BY <1>6, <1>12, <2>4, <3>6, <3>8
      <4>2. Agrees(requests, Kept, {})
        BY <2>2, <4>1, AgreesNothing
      <4>3. \A t \in TaskIds : t \in tasks <=> (m.type = "pickUpTasks" /\ t \in m.tasks) \/ (t \in {} /\ ~Touches(m, t))
        BY <3>3
      <4> QED
        BY <1>2, <2>4, <3>3, <4>1, <4>2, <4>3, AgreesAppend
    <3> QED
      BY <1>2, <1>12, <2>4, <3>6, <3>7, <3>8
  <2> QED
    BY <1>10, <2>3, <2>4
<1>14. ~LiveJoin(q)
  BY <1>13 DEF LiveJoin, NoJoins
<1>15. TypeOK'
  <2>1. countDown' \in 0..JoinRetry /\ leaving' \in BOOLEAN /\ up' \in BOOLEAN
    BY <1>1 DEF IInv, TypeOK, WorkerTypeOK
  <2> QED
    BY <1>1, <1>2, <1>8, <1>9, <1>11, <1>12, <1>13, <2>1 DEF TypeOK, WorkerTypeOK
<1>16. OneJoin'
  BY <1>3, <1>6, <1>7, <1>8, <1>12, <1>13, <1>14, Parts
<1>17. States'
  BY <1>1, <1>12, <1>13 DEF States
<1>18. Ordered(requests)' /\ JustJoined' /\ WillAgree'
  BY <1>3, <1>8, <1>12, <1>13, Parts
<1> QED
  BY <1>3, <1>15, <1>16, <1>17, <1>18 DEF IInv

(* Answers that arrive, are lost or are dropped.                           *)
Left(l) ==
  /\ l \in Seq(Reply)
  /\ \E f \in [DOMAIN l -> DOMAIN replies] :
       /\ \A j, k \in DOMAIN l : f[j] = f[k] => j = k
       /\ \A k \in DOMAIN l : l[k] = replies[f[k]]

LEMMA LeftTail ==
  ASSUME replies \in Seq(Reply), replies # <<>>
  PROVE  Left(Tail(replies))
<1>1. PICK l : l = Tail(replies)
  OBVIOUS
<1>2. l \in Seq(Reply) /\ DOMAIN l = 1..Len(replies) - 1 /\ \A k \in DOMAIN l : l[k] = replies[k + 1] /\ k + 1 \in DOMAIN replies
  BY <1>1
<1>3. PICK f : f = [k \in DOMAIN l |-> k + 1]
  OBVIOUS
<1>4. f \in [DOMAIN l -> DOMAIN replies] /\ \A j, k \in DOMAIN l : f[j] = f[k] => j = k
  BY <1>2, <1>3
<1> QED
  BY <1>1, <1>2, <1>3, <1>4 DEF Left

LEMMA LeftRemove ==
  ASSUME replies \in Seq(Reply), NEW i \in DOMAIN replies
  PROVE  Left(RemoveAt(replies, i))
<1>1. PICK l : l = RemoveAt(replies, i)
  OBVIOUS
<1>2. l \in Seq(Reply) /\ DOMAIN l = 1..Len(replies) - 1 /\ \A k \in DOMAIN l : l[k] = IF k < i THEN replies[k] ELSE replies[k + 1]
  BY <1>1, RemoveAtFacts
<1>3. PICK f : f = [k \in DOMAIN l |-> IF k < i THEN k ELSE k + 1]
  OBVIOUS
<1>4. DOMAIN replies = 1..Len(replies) /\ Len(replies) \in Nat
  OBVIOUS
<1>5. f \in [DOMAIN l -> DOMAIN replies]
  BY <1>2, <1>3, <1>4
<1>6. \A j, k \in DOMAIN l : f[j] = f[k] => j = k
  BY <1>2, <1>3, <1>4
<1>7. \A k \in DOMAIN l : l[k] = replies[f[k]]
  BY <1>2, <1>3
<1> QED
  BY <1>1, <1>2, <1>5, <1>6, <1>7 DEF Left

LEMMA LeftFacts ==
  ASSUME OneJoin, NEW l, Left(l), replies' = l
  PROVE  /\ replies' \in Seq(Reply)
         /\ Answering' => Answering
         /\ \A k \in DOMAIN l : JoinReply(l[k]) => l[k].round = 0
         /\ \A j, k \in DOMAIN l : JoinReply(l[j]) /\ JoinReply(l[k]) => j = k
         /\ (\A k \in DOMAIN replies : JoinReply(replies[k])) => \A k \in DOMAIN l : JoinReply(l[k])
<1>1. PICK f \in [DOMAIN l -> DOMAIN replies] :
        /\ \A j, k \in DOMAIN l : f[j] = f[k] => j = k
        /\ \A k \in DOMAIN l : l[k] = replies[f[k]]
  BY DEF Left
<1>2. \A k \in DOMAIN l : f[k] \in DOMAIN replies
  OBVIOUS
<1> QED
  BY <1>1, <1>2 DEF Left, OneJoin, Answering

(* The end of a keepAlive call, answered or not.                           *)
LEMMA AliveOver ==
  ASSUME IInv, UNCHANGED manager, UNCHANGED <<tasks, countDown, round, leaving, dropped, up, castLost>>,
         loss_count' \in [Round -> 0..MaxLoss + 1],
         wstate # "unregistered",
         (wstate # "recovering" /\ tryRecovery) \/ UNCHANGED <<wstate, joining, ticking>>,
         NEW q, requests' = q, NEW l, replies' = l,
         q \in Seq(Request), Within(q, requests), DOMAIN q = DOMAIN requests,
         \A i \in DOMAIN q : q[i].type = requests[i].type /\ (IsCast(q[i]) => q[i] = requests[i]),
         Left(l), lost' \in [Call -> Nat], lost'[JoinCall] = lost[JoinCall]
  PROVE  IInv'
<1>1. /\ replies' \in Seq(Reply)
      /\ Answering' => Answering
      /\ \A k \in DOMAIN l : JoinReply(l[k]) => l[k].round = 0
      /\ \A j, k \in DOMAIN l : JoinReply(l[j]) /\ JoinReply(l[k]) => j = k
  BY LeftFacts DEF IInv
<1>2. TypeOK'
  BY <1>1 DEF tryRecovery, IInv, TypeOK, WorkerTypeOK
<1>3. ManagerOK' /\ Kept' = Kept /\ workers' = workers
  BY SameManager DEF IInv
<1>4. /\ Ordered(q)
      /\ NoJoins(requests) => NoJoins(q)
      /\ NoCasts(requests) => NoCasts(q)
      /\ LiveJoin(q) => LiveJoin(requests)
  BY WithinKeeps DEF IInv
<1>5. Quits(requests) => Quits(q)
  BY DEF Quits
<1>6. Agrees(requests, Kept, tasks) => Agrees(q, Kept, tasks)
  <2>1. \A i \in DOMAIN requests : q[i].type = requests[i].type /\ (IsCast(requests[i]) => q[i] = requests[i])
    BY DEF IsCast
  <2> QED
    BY <2>1, AgreesSame
<1>7. wstate' # "unregistered" /\ (wstate' = "registered" => wstate = "registered" /\ joining' = joining)
  BY DEF tryRecovery
<1>8. (LiveJoin(requests) \/ Answering \/ lost[JoinCall] = 1) => joining' = "calling"
  BY DEF tryRecovery, IInv, OneJoin, States, TypeOK, WorkerTypeOK
<1>9. OneJoin'
  BY <1>1, <1>3, <1>4, <1>8, Parts DEF IInv, OneJoin
<1>10. States'
  BY <1>4, <1>7 DEF IInv, States
<1>11. JustJoined'
  BY <1>1, <1>3, <1>4, Parts DEF IInv, JustJoined
<1>12. WillAgree'
  BY <1>3, <1>5, <1>6, <1>7, Parts DEF IInv, WillAgree
<1>13. Ordered(requests)'
  BY <1>3, <1>4, Parts
<1> QED
  BY <1>2, <1>3, <1>9, <1>10, <1>11, <1>12, <1>13 DEF IInv

LEMMA QueueTypes ==
  ASSUME IInv
  PROVE  /\ requests \in Seq(Request) /\ replies \in Seq(Reply) /\ lost \in [Call -> Nat]
         /\ \A r \in Round : loss_count[r] \in 0..MaxLoss + 1
         /\ loss_count \in [Round -> 0..MaxLoss + 1]
         /\ \A i \in DOMAIN requests : requests[i].type = requests[i].type /\ (IsCast(requests[i]) => requests[i] = requests[i])
         /\ Within(requests, requests)
         /\ \A k \in DOMAIN replies : replies[k].type \in Kinds /\ replies[k].round \in Round
         /\ Left(replies)
<1>1. /\ requests \in Seq(Request) /\ replies \in Seq(Reply) /\ lost \in [Call -> Nat]
      /\ loss_count \in [Round -> 0..MaxLoss + 1]
  BY DEF IInv, TypeOK, WorkerTypeOK
<1>2. \A r \in Round : loss_count[r] \in 0..MaxLoss + 1
  BY <1>1
<1>3. \A k \in DOMAIN replies : replies[k] \in Reply
  BY <1>1
<1>4. \A m \in Reply : m.type \in Kinds /\ m.round \in Round
  BY DEF Reply, Kinds
<1>5. Left(replies)
  <2>1. PICK f : f = [k \in DOMAIN replies |-> k]
    OBVIOUS
  <2>2. f \in [DOMAIN replies -> DOMAIN replies] /\ \A k \in DOMAIN replies : f[k] = k
    BY <2>1
  <2> QED
    BY <1>1, <2>2 DEF Left
<1> QED
  BY <1>1, <1>2, <1>3, <1>4, <1>5, SameQueue

LEMMA AliveIInv ==
  ASSUME IInv, Alive, UNCHANGED manager
  PROVE  IInv'
<1>1. /\ replies # <<>> /\ Head(replies).type = "keepAlive" /\ replies' = Tail(replies)
      /\ loss_count' = [loss_count EXCEPT ![Head(replies).round] = 0]
      /\ UNCHANGED <<tasks, countDown, round, leaving, dropped, up, requests, lost, castLost>>
      /\ (wstate # "recovering" /\ tryRecovery) \/ UNCHANGED <<wstate, joining, ticking>>
  BY DEF Alive
<1>2. 1 \in DOMAIN replies /\ replies[1].type = "keepAlive"
  BY <1>1, QueueTypes
<1>3. wstate # "unregistered"
  BY <1>2 DEF IInv, States, JoinReply
<1>4. loss_count' \in [Round -> 0..MaxLoss + 1]
  BY <1>1, QueueTypes, WorkerAssumption
<1>5. Left(Tail(replies))
  BY <1>1, QueueTypes, LeftTail
<1>6. requests' = requests /\ lost' = lost
  BY <1>1
<1> QED
  BY <1>1, <1>3, <1>4, <1>5, <1>6, QueueTypes, AliveOver

LEMMA MissedFacts ==
  ASSUME IInv, NEW r \in Round, Missed(r)
  PROVE  /\ loss_count' \in [Round -> 0..MaxLoss + 1]
         /\ UNCHANGED <<tasks, countDown, round, leaving, dropped>>
         /\ (wstate # "recovering" /\ tryRecovery) \/ UNCHANGED <<wstate, joining, ticking>>
<1>1. /\ loss_count' = [loss_count EXCEPT ![r] = IF @ > MaxLoss THEN @ ELSE @ + 1]
      /\ UNCHANGED <<tasks, countDown, round, leaving, dropped>>
      /\ (wstate # "recovering" /\ tryRecovery) \/ UNCHANGED <<wstate, joining, ticking>>
  BY DEF Missed
<1>2. (IF loss_count[r] > MaxLoss THEN loss_count[r] ELSE loss_count[r] + 1) \in 0..MaxLoss + 1
  BY QueueTypes, WorkerAssumption
<1>3. loss_count' \in [Round -> 0..MaxLoss + 1]
  BY <1>1, <1>2, QueueTypes
<1> QED
  BY <1>1, <1>3

LEMMA AliveLostIInv ==
  ASSUME IInv, NEW r \in Round, AliveLost(r), UNCHANGED manager
  PROVE  IInv'
<1>1. EndLost(CallsOf(r)) /\ Missed(r) /\ UNCHANGED <<up, castLost>>
  BY DEF AliveLost
<1>2. lost[CallsOf(r)] > 0 /\ lost' = [lost EXCEPT ![CallsOf(r)] = @ - 1] /\ UNCHANGED <<requests, replies>>
  BY <1>1 DEF EndLost
<1>3. wstate # "unregistered"
  BY <1>2 DEF IInv, States
<1>4. lost' \in [Call -> Nat] /\ lost'[JoinCall] = lost[JoinCall]
  BY <1>2, QueueTypes, CallFacts
<1>5. requests' = requests /\ replies' = replies
  BY <1>2
<1>6. /\ loss_count' \in [Round -> 0..MaxLoss + 1]
      /\ UNCHANGED <<tasks, countDown, round, leaving, dropped>>
      /\ (wstate # "recovering" /\ tryRecovery) \/ UNCHANGED <<wstate, joining, ticking>>
  BY <1>1, MissedFacts
<1> QED
  BY <1>1, <1>3, <1>4, <1>5, <1>6, QueueTypes, AliveOver

LEMMA AliveTimeoutIInv ==
  ASSUME IInv, NEW r \in Round, AliveTimeout(r), UNCHANGED manager
  PROVE  IInv'
<1>1. EndEarly(CallsOf(r)) /\ Missed(r) /\ UNCHANGED <<up, castLost>>
  BY DEF AliveTimeout
<1>2. /\ loss_count' \in [Round -> 0..MaxLoss + 1]
      /\ UNCHANGED <<tasks, countDown, round, leaving, dropped>>
      /\ (wstate # "recovering" /\ tryRecovery) \/ UNCHANGED <<wstate, joining, ticking>>
  BY <1>1, MissedFacts
<1>3. ASSUME NEW i \in DOMAIN requests, IsLive(requests[i]) /\ <<requests[i].type, requests[i].round>> = CallsOf(r),
             requests' = [requests EXCEPT ![i].live = FALSE], UNCHANGED <<replies, lost>>
      PROVE  IInv'
  <2>1. requests[i].type = "keepAlive"
    BY <1>3 DEF CallsOf
  <2>2. wstate # "unregistered" /\ requests[i].type \in Kinds
    BY <2>1 DEF IInv, States, IsJoin, Kinds
  <2>3. PICK q : q = [requests EXCEPT ![i].live = FALSE]
    OBVIOUS
  <2>4. /\ q \in Seq(Request) /\ Within(q, requests) /\ DOMAIN q = DOMAIN requests
        /\ \A k \in DOMAIN requests : q[k].type = requests[k].type
        /\ \A k \in DOMAIN requests : k # i => q[k] = requests[k]
    BY <2>2, <2>3, TimeoutWithin, QueueTypes
  <2>5. \A k \in DOMAIN q : q[k].type = requests[k].type /\ (IsCast(q[k]) => q[k] = requests[k])
    BY <2>2, <2>4 DEF IsCast
  <2>6. requests' = q /\ replies' = replies /\ lost' = lost
    BY <1>3, <2>3
  <2> QED
    BY <1>1, <1>2, <2>2, <2>4, <2>5, <2>6, QueueTypes, AliveOver
<1>4. ASSUME NEW i \in DOMAIN replies, <<replies[i].type, replies[i].round>> = CallsOf(r),
             replies' = RemoveAt(replies, i), UNCHANGED <<requests, lost>>
      PROVE  IInv'
  <2>1. replies[i].type = "keepAlive"
    BY <1>4 DEF CallsOf
  <2>2. wstate # "unregistered"
    BY <2>1 DEF IInv, States, JoinReply
  <2>3. Left(RemoveAt(replies, i))
    BY QueueTypes, LeftRemove
  <2>4. requests' = requests /\ lost' = lost
    BY <1>4
  <2> QED
    BY <1>1, <1>2, <1>4, <2>2, <2>3, <2>4, QueueTypes, AliveOver
<1> QED
  BY <1>1, <1>3, <1>4 DEF EndEarly

LEMMA TickIInv ==
  ASSUME IInv, Tick, UNCHANGED manager
  PROVE  IInv'
<1>1. ticking /\ PostCall("keepAlive", round) /\ UNCHANGED <<worker, up, replies>>
  BY DEF Tick
<1>2. UNCHANGED <<wstate, tasks, joining, countDown, ticking, round, loss_count, leaving, dropped>>
  BY <1>1 DEF worker
<1>0. PICK r \in Round : r = round
  BY DEF IInv, TypeOK, WorkerTypeOK
<1>3. PICK m : m = call("keepAlive", r)
  OBVIOUS
<1>4. /\ m \in Request /\ m.type = "keepAlive"
      /\ requests' \in Seq(Request) /\ lost' \in [Call -> Nat] /\ castLost' = castLost
      /\ up => requests' = Append(requests, m) /\ lost' = lost
      /\ ~up => /\ requests' = requests
                /\ \A c \in Call : lost'[c] = IF c = CallsOf(r) THEN lost[c] + 1 ELSE lost[c]
  <2>1. m \in Request /\ m.type = "keepAlive" /\ m.round = r /\ m.live = TRUE /\ m.type \in Kinds
    BY <1>3, CallRequest DEF Kinds
  <2>2. CallsOf(r) = <<m.type, m.round>> /\ CallsOf(r) \in Call
    BY <2>1, CallFacts DEF CallsOf
  <2>3. Post(m) /\ castLost' = castLost
    BY <1>0, <1>1, <1>3 DEF PostCall
  <2> QED
    BY <2>1, <2>2, <2>3, PostCallFacts DEF IInv
<1>5. TypeOK'
  BY <1>1, <1>2, <1>4 DEF IInv, TypeOK, WorkerTypeOK
<1>6. ManagerOK' /\ Kept' = Kept /\ workers' = workers
  BY SameManager DEF IInv
<1>7. lost'[JoinCall] = lost[JoinCall]
  <2>1. CallsOf(r) # JoinCall /\ JoinCall \in Call
    BY CallFacts
  <2> QED
    BY <1>4, <2>1 DEF IInv, TypeOK
<1>8. ~IsJoin(m) /\ ~IsCast(m)
  BY <1>4 DEF IsJoin, IsCast, Kinds
<1>9. /\ Ordered(requests')
      /\ NoJoins(requests) => NoJoins(requests')
      /\ NoCasts(requests) => NoCasts(requests')
      /\ LiveJoin(requests') => LiveJoin(requests)
      /\ Quits(requests) => Quits(requests')
  <2>1. CASE up
    <3>1. /\ Ordered(Append(requests, m))
          /\ NoJoins(requests) => NoJoins(Append(requests, m))
          /\ NoCasts(requests) => NoCasts(Append(requests, m))
          /\ LiveJoin(Append(requests, m)) => LiveJoin(requests)
          /\ Quits(requests) => Quits(Append(requests, m))
      BY <1>4, <1>8, QueueTypes, AppendOrdered DEF IInv
    <3> QED
      BY <1>4, <2>1, <3>1
  <2>2. CASE ~up
    <3>1. requests' = requests
      BY <1>4, <2>2
    <3> QED
      BY <3>1 DEF IInv
  <2> QED
    BY <2>1, <2>2
<1>10. Agrees(requests, Kept, tasks) => Agrees(requests', Kept, tasks)
  <2>1. \A t : ~Touches(m, t) /\ m.type # "pickUpTasks"
    BY <1>4 DEF Touches
  <2>2. Agrees(requests, Kept, tasks) => Agrees(Append(requests, m), Kept, tasks)
    BY <1>4, <2>1, QueueTypes, AgreesAppend
  <2> QED
    BY <1>4, <2>2 DEF IInv, TypeOK
<1>11. wstate # "unregistered"
  BY <1>1 DEF IInv, States
<1>12. Answering' = Answering /\ replies' = replies
  BY <1>1 DEF Answering
<1>13. OneJoin'
  BY <1>2, <1>6, <1>7, <1>9, <1>12, Parts DEF IInv, OneJoin
<1>14. States'
  BY <1>2, <1>9, <1>11 DEF IInv, States
<1>15. JustJoined' /\ WillAgree' /\ Ordered(requests)'
  BY <1>2, <1>4, <1>6, <1>9, <1>10, <1>12, Parts DEF IInv, JustJoined, WillAgree
<1> QED
  BY <1>5, <1>6, <1>13, <1>14, <1>15 DEF IInv

(* A registered worker tells the manager.                                  *)
LEMMA CastIInv ==
  ASSUME IInv, UNCHANGED manager, wstate = "registered",
         NEW m \in Request, IsCast(m), m.type = "layDownTask" => \E t \in TaskIds : m.tasks = {t},
         Post(m), castLost' = (castLost \/ ~up),
         UNCHANGED <<wstate, joining, countDown, round, loss_count, dropped, up, replies>>,
         tasks' \in SUBSET TaskIds, ticking' \in BOOLEAN, leaving' \in BOOLEAN,
         m.type # "quit" =>
           \A t \in TaskIds : t \in tasks' <=>
             \/ m.type = "pickUpTasks" /\ t \in m.tasks
             \/ t \in tasks /\ ~Touches(m, t)
  PROVE  IInv'
<1>1. requests' \in Seq(Request) /\ lost' = lost /\ requests' = IF up THEN Append(requests, m) ELSE requests
  BY PostCastFacts DEF IInv
<1>2. TypeOK'
  BY <1>1 DEF IInv, TypeOK, WorkerTypeOK
<1>3. ManagerOK' /\ Kept' = Kept /\ workers' = workers
  BY SameManager DEF IInv
<1>4. joining = "none" /\ NoJoins(requests)
  BY DEF IInv, States
<1>5. ~Answering /\ lost[JoinCall] = 0
  BY <1>4 DEF IInv, OneJoin
<1>6. ~IsJoin(m)
  BY DEF IsCast, IsJoin, Kinds
<1>7. Ordered(requests') /\ NoJoins(requests')
  BY <1>1, <1>4, <1>6, QueueTypes, AppendOrdered DEF IInv
<1>8. ~LiveJoin(requests')
  BY <1>7 DEF LiveJoin, NoJoins
<1>9. Answering' = Answering /\ replies' = replies
  BY DEF Answering
<1>10. OneJoin'
  BY <1>1, <1>3, <1>5, <1>8, <1>9, Parts DEF IInv, OneJoin
<1>11. States'
  BY <1>4, <1>7 DEF States
<1>12. ASSUME Me \in DOMAIN workers, ~castLost', ~Quits(requests') PROVE Agrees(requests', Kept, tasks')
  <2>1. up /\ ~castLost
    BY <1>12 DEF IInv, TypeOK, WorkerTypeOK
  <2>2. requests' = Append(requests, m)
    BY <1>1, <2>1
  <2>3. m.type # "quit" /\ ~Quits(requests)
    BY <1>12, <2>2, QueueTypes, AppendOrdered
  <2>4. Agrees(requests, Kept, tasks)
    BY <1>12, <2>1, <2>3 DEF IInv, WillAgree
  <2> QED
    BY <2>2, <2>3, <2>4, QueueTypes, AgreesAppend
<1>13. JustJoined' /\ WillAgree' /\ Ordered(requests)'
  BY <1>3, <1>5, <1>7, <1>9, <1>12, Parts
<1> QED
  BY <1>2, <1>3, <1>10, <1>11, <1>13 DEF IInv

(* A worker that is not registered tells nobody.                           *)
LEMMA QuietIInv ==
  ASSUME IInv, UNCHANGED manager, wstate # "registered",
         UNCHANGED <<wstate, joining, countDown, round, loss_count, dropped, up, replies, requests, lost, castLost>>,
         tasks' \in SUBSET TaskIds, ticking' \in BOOLEAN, leaving' \in BOOLEAN,
         wstate = "unregistered" => tasks' = tasks /\ ticking' = ticking
  PROVE  IInv'
<1>1. TypeOK'
  BY DEF IInv, TypeOK, WorkerTypeOK
<1>2. ManagerOK' /\ Kept' = Kept /\ workers' = workers
  BY SameManager DEF IInv
<1>3. Answering' = Answering /\ replies' = replies /\ requests' = requests
  BY DEF Answering
<1>4. OneJoin'
  BY <1>2, <1>3, Parts DEF IInv, OneJoin
<1>5. States'
  BY DEF IInv, States
<1>6. JustJoined' /\ WillAgree' /\ Ordered(requests)'
  BY <1>2, <1>3, Parts DEF IInv, JustJoined
<1> QED
  BY <1>1, <1>2, <1>4, <1>5, <1>6 DEF IInv

LEMMA TaskCasts ==
  ASSUME NEW t \in TaskIds, NEW type \in {"pickUpTasks", "layDownTask"}, NEW m, m = cast(type, {t})
  PROVE  /\ m \in Request /\ IsCast(m) /\ m.type = type /\ m.tasks = {t}
         /\ \A u : Touches(m, u) <=> u = t
<1>1. m = [type |-> type, tasks |-> {t}]
  BY DEF cast
<1>2. m \in Request /\ m.type = type /\ m.tasks = {t}
  BY <1>1 DEF Request
<1> QED
  BY <1>2 DEF IsCast, Touches, Kinds

LEMMA AddTaskIInv ==
  ASSUME IInv, NEW t \in TaskIds, addTask(t), UNCHANGED manager
  PROVE  IInv'
<1>1. /\ wstate # "unregistered" /\ tasks' = tasks \cup {t}
      /\ UNCHANGED <<wstate, joining, countDown, ticking, round, loss_count, leaving, dropped, up, replies>>
  BY DEF addTask
<1>2. tasks' \in SUBSET TaskIds /\ ticking' \in BOOLEAN /\ leaving' \in BOOLEAN
  BY <1>1 DEF IInv, TypeOK, WorkerTypeOK
<1>3. CASE wstate = "registered"
  <2>1. PICK m : m = cast("pickUpTasks", {t})
    OBVIOUS
  <2>2. /\ m \in Request /\ IsCast(m) /\ m.type = "pickUpTasks" /\ m.tasks = {t}
        /\ \A u : Touches(m, u) <=> u = t
    BY <2>1, TaskCasts
  <2>3. Post(m) /\ castLost' = (castLost \/ ~up)
    BY <1>3, <2>1 DEF addTask, PostCast
  <2>4. \A u \in TaskIds : u \in tasks' <=> (m.type = "pickUpTasks" /\ u \in m.tasks) \/ (u \in tasks /\ ~Touches(m, u))
    BY <1>1, <2>2
  <2> QED
    BY <1>1, <1>2, <1>3, <2>2, <2>3, <2>4, CastIInv
<1>4. CASE wstate # "registered"
  <2>1. UNCHANGED <<requests, lost, castLost>>
    BY <1>4 DEF addTask
  <2> QED
    BY <1>1, <1>2, <1>4, <2>1, QuietIInv
<1> QED
  BY <1>3, <1>4

LEMMA RemoveTaskIInv ==
  ASSUME IInv, NEW t \in TaskIds, removeTask(t), UNCHANGED manager
  PROVE  IInv'
<1>1. /\ t \in tasks /\ tasks' = tasks \ {t}
      /\ UNCHANGED <<wstate, joining, countDown, ticking, round, loss_count, leaving, dropped, up, replies>>
  BY DEF removeTask
<1>2. tasks' \in SUBSET TaskIds /\ ticking' \in BOOLEAN /\ leaving' \in BOOLEAN /\ wstate # "unregistered"
  BY <1>1 DEF IInv, TypeOK, WorkerTypeOK, States
<1>3. CASE wstate = "registered"
  <2>1. PICK m : m = cast("layDownTask", {t})
    OBVIOUS
  <2>2. /\ m \in Request /\ IsCast(m) /\ m.type = "layDownTask" /\ m.tasks = {t}
        /\ \A u : Touches(m, u) <=> u = t
    BY <2>1, TaskCasts
  <2>3. Post(m) /\ castLost' = (castLost \/ ~up)
    BY <1>3, <2>1 DEF removeTask, PostCast
  <2>4. \A u \in TaskIds : u \in tasks' <=> (m.type = "pickUpTasks" /\ u \in m.tasks) \/ (u \in tasks /\ ~Touches(m, u))
    BY <1>1, <2>2
  <2> QED
    BY <1>1, <1>2, <1>3, <2>2, <2>3, <2>4, CastIInv
<1>4. CASE wstate # "registered"
  <2>1. UNCHANGED <<requests, lost, castLost>>
    BY <1>4 DEF removeTask
  <2> QED
    BY <1>1, <1>2, <1>4, <2>1, QuietIInv
<1> QED
  BY <1>3, <1>4

LEMMA QuitIInv ==
  ASSUME IInv, quit, UNCHANGED manager
  PROVE  IInv'
<1>1. /\ leaving' = TRUE
      /\ ticking' = IF wstate = "unregistered" THEN ticking ELSE FALSE
      /\ UNCHANGED <<wstate, tasks, joining, countDown, round, loss_count, dropped, up, replies>>
  BY DEF quit
<1>2. tasks' \in SUBSET TaskIds /\ ticking' \in BOOLEAN /\ leaving' \in BOOLEAN
  BY <1>1 DEF IInv, TypeOK, WorkerTypeOK
<1>3. CASE wstate = "registered"
  <2>1. PICK m : m = cast("quit", {})
    OBVIOUS
  <2>2. m = [type |-> "quit", tasks |-> {}]
    BY <2>1 DEF cast
  <2>3. m \in Request /\ IsCast(m) /\ m.type = "quit"
    BY <2>2 DEF Request, IsCast, Kinds
  <2>4. Post(m) /\ castLost' = (castLost \/ ~up)
    BY <1>3, <2>1 DEF quit, PostCast
  <2> QED
    BY <1>1, <1>2, <1>3, <2>3, <2>4, CastIInv
<1>4. CASE wstate # "registered"
  <2>1. UNCHANGED <<requests, lost, castLost>>
    BY <1>4 DEF quit
  <2> QED
    BY <1>1, <1>2, <1>4, <2>1, QuietIInv
<1> QED
  BY <1>3, <1>4

-----------------------------------------------------------------------------
(* The network.                                                            *)
LEMMA RemoveOthers ==
  ASSUME NEW q \in Seq(Request), NEW i \in DOMAIN q, NEW j \in DOMAIN q, j # i
  PROVE  \E k \in DOMAIN RemoveAt(q, i) : RemoveAt(q, i)[k] = q[j]
<1>1. PICK p : p = RemoveAt(q, i)
  OBVIOUS
<1>2. DOMAIN p = 1..Len(q) - 1 /\ \A k \in 1..Len(q) - 1 : p[k] = IF k < i THEN q[k] ELSE q[k + 1]
  BY <1>1, RemoveAtFacts
<1>3. DOMAIN q = 1..Len(q) /\ Len(q) \in Nat
  OBVIOUS
<1>4. CASE j < i
  BY <1>1, <1>2, <1>3, <1>4
<1>5. CASE j > i
  <2>1. j - 1 \in DOMAIN p /\ p[j - 1] = q[j]
    BY <1>2, <1>3, <1>5
  <2> QED
    BY <1>1, <2>1
<1> QED
  BY <1>3, <1>4, <1>5

LEMMA SingleWithin ==
  ASSUME NEW q \in Seq(Request), NEW i \in DOMAIN q
  PROVE  Within(<<q[i]>>, q) /\ <<q[i]>> \in Seq(Request) /\ q[i] \in Request
<1>1. PICK p : p = <<q[i]>>
  OBVIOUS
<1>2. DOMAIN p = {1} /\ p[1] = q[i]
  BY <1>1
<1>3. PICK f : f = [k \in {1} |-> i]
  OBVIOUS
<1>4. f \in [DOMAIN p -> DOMAIN q] /\ f[1] = i
  BY <1>2, <1>3
<1>5. Within(p, q)
  BY <1>2, <1>4 DEF Within
<1> QED
  BY <1>1, <1>5

LEMMA LoseRequestIInv ==
  ASSUME IInv, NEW i \in DOMAIN requests, LoseRequest(i), UNCHANGED manager
  PROVE  IInv'
<1>1. /\ requests' = RemoveAt(requests, i) /\ lost' = LostCalls(<<requests[i]>>)
      /\ castLost' = (castLost \/ requests[i].type \notin {"join", "keepAlive"})
      /\ UNCHANGED <<worker, up, replies>>
  BY DEF LoseRequest
<1>2. UNCHANGED <<wstate, tasks, joining, countDown, ticking, round, loss_count, leaving, dropped>>
  BY <1>1 DEF worker
<1>3. PICK q : q = RemoveAt(requests, i)
  OBVIOUS
<1>4. q \in Seq(Request) /\ Within(q, requests)
  BY <1>3, QueueTypes, RemoveAtFacts, RemoveWithin
<1>5. /\ Ordered(q)
      /\ NoJoins(requests) => NoJoins(q)
      /\ NoCasts(requests) => NoCasts(q)
      /\ LiveJoin(q) => LiveJoin(requests)
  BY <1>4, WithinKeeps DEF IInv
<1>6. PICK m : m = requests[i]
  OBVIOUS
<1>7. PICK s : s = <<m>>
  OBVIOUS
<1>8. s \in Seq(Request) /\ Ordered(s) /\ m \in Request
  BY <1>6, <1>7, QueueTypes, SingleWithin, WithinKeeps DEF IInv
<1>9. DOMAIN s = {1} /\ s[1] = m
  BY <1>7
<1>10. /\ lost' \in [Call -> Nat]
       /\ \A c \in Call : (IsLive(m) => m.type # c[1]) => lost'[c] = lost[c]
       /\ ~LiveJoin(s) => lost'[JoinCall] = lost[JoinCall]
       /\ LiveJoin(s) => lost'[JoinCall] = lost[JoinCall] + 1
  <2>1. lost' = LostCalls(s)
    BY <1>1, <1>6, <1>7
  <2> QED
    BY <1>8, <1>9, <2>1, QueueTypes, LostFacts
<1>11. LiveJoin(s) <=> IsJoin(m) /\ m.live
  BY <1>9 DEF LiveJoin
<1>12. LiveJoin(s) => LiveJoin(requests) /\ ~LiveJoin(q)
  <2>1. SUFFICES ASSUME IsJoin(m), m.live PROVE LiveJoin(requests) /\ ~LiveJoin(q)
    BY <1>11
  <2>2. LiveJoin(requests)
    BY <1>6, <2>1 DEF LiveJoin
  <2>3. ASSUME NEW k \in DOMAIN q, IsJoin(q[k]), q[k].live PROVE FALSE
    <3>0. requests \in Seq(Request)
      BY QueueTypes
    <3>1. DOMAIN requests = 1..Len(requests) /\ Len(requests) \in Nat /\ DOMAIN q = 1..Len(requests) - 1
          /\ q[k] = IF k < i THEN requests[k] ELSE requests[k + 1]
      <4>1. /\ DOMAIN q = 1..Len(requests) - 1
            /\ \A j \in 1..Len(requests) - 1 : q[j] = IF j < i THEN requests[j] ELSE requests[j + 1]
        BY <1>3, <3>0, RemoveAtFacts
      <4> QED
        BY <3>0, <4>1
    <3>2. PICK j \in DOMAIN requests : j = IF k < i THEN k ELSE k + 1
      BY <3>1
    <3>3. q[k] = requests[j] /\ (j < i \/ i < j)
      BY <3>1, <3>2
    <3> QED
      BY <1>6, <2>1, <2>3, <3>3 DEF IInv, Ordered
  <2> QED
    BY <2>2, <2>3 DEF LiveJoin
<1>13. TypeOK'
  <2>1. castLost' \in BOOLEAN /\ requests' \in Seq(Request) /\ replies' \in Seq(Reply)
    BY <1>1, <1>3, <1>4 DEF IInv, TypeOK, WorkerTypeOK
  <2> QED
    BY <1>1, <1>2, <1>10, <2>1 DEF IInv, TypeOK, WorkerTypeOK
<1>14. ManagerOK' /\ Kept' = Kept /\ workers' = workers
  BY SameManager DEF IInv
<1>15. Answering' = Answering /\ replies' = replies /\ requests' = q
  BY <1>1, <1>3 DEF Answering
<1>16. lost[JoinCall] \in {0, 1} /\ (LiveJoin(requests) => lost[JoinCall] = 0 /\ ~Answering)
  BY DEF IInv, OneJoin
<1>17. lost'[JoinCall] \in {0, 1} /\ (LiveJoin(q) => lost'[JoinCall] = 0) /\ (Answering => lost'[JoinCall] = 0)
  BY <1>5, <1>10, <1>12, <1>16 DEF IInv, OneJoin
<1>18. LiveJoin(q) \/ Answering \/ lost'[JoinCall] = 1 => joining = "calling"
  BY <1>5, <1>10, <1>12 DEF IInv, OneJoin
<1>19. OneJoin'
  BY <1>2, <1>5, <1>14, <1>15, <1>17, <1>18, Parts DEF IInv, OneJoin
<1>20. States'
  <2>1. ASSUME wstate = "unregistered"
        PROVE  /\ \A k \in DOMAIN q : IsJoin(q[k])
               /\ \A r \in Round : lost'[CallsOf(r)] = 0
    <3>1. \A k \in DOMAIN requests : IsJoin(requests[k])
      BY <2>1 DEF IInv, States
    <3>2. \A k \in DOMAIN q : IsJoin(q[k])
      BY <1>4, <3>1 DEF Within, IsJoin
    <3>3. \A r \in Round : lost'[CallsOf(r)] = lost[CallsOf(r)]
      BY <1>6, <1>10, <3>1, CallFacts DEF CallsOf, IsJoin
    <3> QED
      BY <2>1, <3>2, <3>3 DEF IInv, States
  <2> QED
    BY <1>2, <1>5, <1>15, <2>1 DEF IInv, States
<1>21. ASSUME wstate = "registered", Me \in DOMAIN workers, ~castLost', ~Quits(q) PROVE Agrees(q, Kept, tasks)
  <2>1. ~castLost /\ m.type \in Kinds
    BY <1>1, <1>6, <1>21 DEF Kinds
  <2>2. ~Quits(requests)
    <3>1. SUFFICES ASSUME NEW j \in DOMAIN requests, requests[j].type = "quit" PROVE FALSE
      BY DEF Quits
    <3>2. j # i
      BY <1>6, <2>1, <3>1 DEF Kinds
    <3>3. \E k \in DOMAIN q : q[k] = requests[j]
      BY <1>3, <3>2, QueueTypes, RemoveOthers
    <3> QED
      BY <1>21, <3>1, <3>3 DEF Quits
  <2>3. Agrees(requests, Kept, tasks)
    BY <1>21, <2>1, <2>2 DEF IInv, WillAgree
  <2> QED
    BY <1>3, <1>6, <2>1, <2>3, QueueTypes, AgreesCall
<1>22. JustJoined' /\ WillAgree' /\ Ordered(requests)'
  BY <1>2, <1>5, <1>14, <1>15, <1>21, Parts DEF IInv, JustJoined
<1> QED
  BY <1>13, <1>14, <1>19, <1>20, <1>22 DEF IInv

LEMMA LoseReplyIInv ==
  ASSUME IInv, LoseReply, UNCHANGED manager
  PROVE  IInv'
<1>1. /\ replies # <<>> /\ replies' = Tail(replies)
      /\ lost' = [lost EXCEPT ![<<Head(replies).type, Head(replies).round>>] = @ + 1]
      /\ UNCHANGED <<worker, up, requests, castLost>>
  BY DEF LoseReply
<1>2. UNCHANGED <<wstate, tasks, joining, countDown, ticking, round, loss_count, leaving, dropped>>
  BY <1>1 DEF worker
<1>3. PICK l : l = Tail(replies)
  OBVIOUS
<1>4. 1 \in DOMAIN replies /\ Head(replies) = replies[1]
  BY <1>1, QueueTypes
<1>5. PICK m : m = replies[1]
  OBVIOUS
<1>6. PICK c : c = <<m.type, m.round>>
  OBVIOUS
<1>7. lost' = [lost EXCEPT ![c] = @ + 1]
  BY <1>1, <1>4, <1>5, <1>6
<1>8. lost' \in [Call -> Nat] /\ \A d \in Call : lost'[d] = IF d = c THEN lost[d] + 1 ELSE lost[d]
  <2>1. DOMAIN lost' = Call /\ lost' = [d \in Call |-> lost'[d]]
    BY <1>7, QueueTypes
  <2>2. \A d \in Call : lost[d] \in Nat
    BY QueueTypes
  <2>3. \A d \in Call : lost'[d] = IF d = c THEN lost[d] + 1 ELSE lost[d]
    BY <1>7, QueueTypes
  <2>4. \A d \in Call : lost'[d] \in Nat
    BY <2>2, <2>3
  <2> QED
    BY <2>1, <2>3, <2>4
<1>9. /\ replies' \in Seq(Reply)
      /\ Answering' => Answering
      /\ \A k \in DOMAIN l : JoinReply(l[k]) => l[k].round = 0
      /\ \A j, k \in DOMAIN l : JoinReply(l[j]) /\ JoinReply(l[k]) => j = k
      /\ (\A k \in DOMAIN replies : JoinReply(replies[k])) => \A k \in DOMAIN l : JoinReply(l[k])
  BY <1>1, <1>3, QueueTypes, LeftTail, LeftFacts DEF IInv
<1>10. TypeOK'
  BY <1>1, <1>2, <1>8, <1>9 DEF IInv, TypeOK, WorkerTypeOK
<1>11. ManagerOK' /\ Kept' = Kept /\ workers' = workers
  BY SameManager DEF IInv
<1>12. requests' = requests /\ replies' = l
  BY <1>1, <1>3
<1>13. CASE JoinReply(m)
  <2>1. Answering /\ m.round = 0
    BY <1>4, <1>5, <1>13 DEF Answering, IInv, OneJoin
  <2>2. c = JoinCall
    BY <1>6, <1>13, <2>1 DEF JoinReply, JoinCall
  <2>3. lost[JoinCall] = 0 /\ NoJoins(requests) /\ ~LiveJoin(requests) /\ joining = "calling"
    BY <2>1 DEF IInv, OneJoin
  <2>4. lost'[JoinCall] = 1 /\ \A r \in Round : lost'[CallsOf(r)] = lost[CallsOf(r)]
    BY <1>8, <2>2, <2>3, CallFacts
  <2>5. ~Answering'
    <3>1. SUFFICES ASSUME NEW k \in DOMAIN l, JoinReply(l[k]) PROVE FALSE
      BY <1>12 DEF Answering
    <3>2. k + 1 \in DOMAIN replies /\ l[k] = replies[k + 1] /\ k + 1 # 1
      BY <1>3, <1>4, QueueTypes
    <3> QED
      BY <1>4, <1>5, <1>13, <3>1, <3>2 DEF IInv, OneJoin
  <2>6. OneJoin'
    BY <1>2, <1>9, <1>11, <1>12, <2>3, <2>4, <2>5, Parts
  <2>7. States'
    BY <1>2, <1>9, <1>12, <2>4 DEF IInv, States
  <2>8. JustJoined' /\ WillAgree' /\ Ordered(requests)'
    BY <1>1, <1>2, <1>11, <1>12, <2>5, Parts DEF IInv, WillAgree
  <2> QED
    BY <1>10, <1>11, <2>6, <2>7, <2>8 DEF IInv
<1>14. CASE ~JoinReply(m)
  <2>1. c # JoinCall
    BY <1>6, <1>14 DEF JoinReply, JoinCall
  <2>2. lost'[JoinCall] = lost[JoinCall]
    BY <1>8, <2>1, CallFacts
  <2>3. wstate # "unregistered"
    BY <1>4, <1>5, <1>14 DEF IInv, States
  <2>4. OneJoin'
    BY <1>2, <1>9, <1>11, <1>12, <2>2, Parts DEF IInv, OneJoin
  <2>5. States'
    BY <1>2, <1>12, <2>3 DEF IInv, States
  <2>6. JustJoined' /\ WillAgree' /\ Ordered(requests)'
    BY <1>1, <1>2, <1>9, <1>11, <1>12, Parts DEF IInv, JustJoined, WillAgree
  <2> QED
    BY <1>10, <1>11, <2>4, <2>5, <2>6 DEF IInv
<1> QED
  BY <1>13, <1>14

-----------------------------------------------------------------------------
(* The manager.                                                            *)
LEMMA TailKeeps ==
  ASSUME IInv, requests # <<>>, NEW m, m = Head(requests), NEW q, q = Tail(requests)
  PROVE  /\ 1 \in DOMAIN requests /\ m = requests[1] /\ m \in Request
         /\ q \in Seq(Request) /\ Within(q, requests) /\ Ordered(q)
         /\ NoJoins(requests) => NoJoins(q)
         /\ NoCasts(requests) => NoCasts(q)
         /\ LiveJoin(q) => LiveJoin(requests)
         /\ IsJoin(m) => NoCasts(q) /\ m.round = 0
         /\ IsJoin(m) /\ m.live => NoJoins(q)
         /\ m.type = "layDownTask" => \E t \in TaskIds : m.tasks = {t}
         /\ m.type # "quit" /\ Quits(requests) => Quits(q)
         /\ (\A i \in DOMAIN requests : IsJoin(requests[i])) => \A i \in DOMAIN q : IsJoin(q[i])
<1>1. requests \in Seq(Request)
  BY QueueTypes
<1>2. /\ q \in Seq(Request) /\ Within(q, requests)
      /\ DOMAIN q = 1..Len(requests) - 1 /\ \A k \in 1..Len(requests) - 1 : q[k] = requests[k + 1]
  BY <1>1, TailWithin
<1>3. 1 \in DOMAIN requests /\ m = requests[1] /\ DOMAIN requests = 1..Len(requests) /\ Len(requests) \in Nat
  BY <1>1
<1>4. m \in Request
  BY <1>1, <1>3
<1>5. \A k \in DOMAIN q : k + 1 \in DOMAIN requests /\ 1 < k + 1 /\ q[k] = requests[k + 1]
  BY <1>2, <1>3
<1>6. Ordered(requests)
  BY DEF IInv
<1>7. /\ Ordered(q)
      /\ NoJoins(requests) => NoJoins(q)
      /\ NoCasts(requests) => NoCasts(q)
      /\ LiveJoin(q) => LiveJoin(requests)
  BY <1>2, <1>6, WithinKeeps
<1>8. IsJoin(m) => NoCasts(q) /\ m.round = 0
  BY <1>3, <1>5, <1>6 DEF Ordered, NoCasts
<1>9. IsJoin(m) /\ m.live => NoJoins(q)
  BY <1>3, <1>5, <1>6 DEF Ordered, NoJoins
<1>10. m.type = "layDownTask" => \E t \in TaskIds : m.tasks = {t}
  BY <1>3, <1>6 DEF Ordered
<1>11. ASSUME m.type # "quit", Quits(requests) PROVE Quits(q)
  <2>1. PICK j \in DOMAIN requests : requests[j].type = "quit"
    BY <1>11 DEF Quits
  <2>2. j # 1
    BY <1>3, <1>11, <2>1
  <2>3. j - 1 \in DOMAIN q /\ q[j - 1] = requests[j]
    BY <1>2, <1>3, <2>2
  <2> QED
    BY <2>1, <2>3 DEF Quits
<1>12. (\A i \in DOMAIN requests : IsJoin(requests[i])) => \A i \in DOMAIN q : IsJoin(q[i])
  BY <1>5
<1> QED
  BY <1>2, <1>3, <1>4, <1>7, <1>8, <1>9, <1>10, <1>11, <1>12

(* An answer is sent, if the caller still waits.                           *)
LEMMA AnswerFacts ==
  ASSUME IInv, NEW m \in Request, m.type \in Kinds,
         NEW result \in {"initializing", "in-service", "ok", "whoareyou"}, Answer(m, result),
         IsJoin(m) /\ m.live => ~Answering /\ m.round = 0
  PROVE  /\ replies' \in Seq(Reply)
         /\ Answering' => Answering \/ (IsJoin(m) /\ m.live)
         /\ \A k \in DOMAIN replies' : JoinReply(replies'[k]) => replies'[k].round = 0
         /\ \A k, l \in DOMAIN replies' : JoinReply(replies'[k]) /\ JoinReply(replies'[l]) => k = l
         /\ IsJoin(m) /\ (\A k \in DOMAIN replies : JoinReply(replies[k])) => \A k \in DOMAIN replies' : JoinReply(replies'[k])
<1>1. m.round \in Round
  BY DEF Request, Kinds
<1>2. replies \in Seq(Reply)
  BY QueueTypes
<1>3. PICK a : a = [type |-> m.type, round |-> m.round, result |-> result]
  OBVIOUS
<1>4. a \in Reply /\ a.type = m.type /\ a.round = m.round
  BY <1>1, <1>3 DEF Reply, Kinds
<1>5. replies' = IF m.live THEN Append(replies, a) ELSE replies
  BY <1>3 DEF Answer
<1>6. /\ \A k \in DOMAIN replies : JoinReply(replies[k]) => replies[k].round = 0
      /\ \A k, l \in DOMAIN replies : JoinReply(replies[k]) /\ JoinReply(replies[l]) => k = l
  BY DEF IInv, OneJoin
<1>7. CASE ~m.live
  <2>1. replies' = replies
    BY <1>5, <1>7
  <2> QED
    BY <1>2, <1>6, <2>1 DEF Answering
<1>8. CASE m.live
  <2>1. PICK l : l = Append(replies, a)
    OBVIOUS
  <2>2. PICK n : n = Len(replies) + 1
    OBVIOUS
  <2>3. /\ l \in Seq(Reply) /\ DOMAIN l = 1..n /\ DOMAIN replies = 1..n - 1 /\ n \in Nat \ {0}
        /\ \A k \in DOMAIN replies : l[k] = replies[k]
        /\ l[n] = a
    BY <1>2, <1>4, <2>1, <2>2
  <2>4. \A k \in DOMAIN l : k = n \/ (k \in DOMAIN replies /\ l[k] = replies[k])
    BY <2>3
  <2>5. replies' = l
    BY <1>5, <1>8, <2>1
  <2>6. JoinReply(a) <=> IsJoin(m)
    BY <1>4 DEF JoinReply, IsJoin
  <2>7. Answering' => Answering \/ (IsJoin(m) /\ m.live)
    BY <1>8, <2>3, <2>4, <2>5, <2>6 DEF Answering
  <2>8. \A k \in DOMAIN l : JoinReply(l[k]) => l[k].round = 0
    BY <1>4, <1>6, <1>8, <2>3, <2>4, <2>6
  <2>9. \A j, k \in DOMAIN l : JoinReply(l[j]) /\ JoinReply(l[k]) => j = k
    BY <1>6, <1>8, <2>3, <2>4, <2>6 DEF Answering
  <2>10. IsJoin(m) /\ (\A k \in DOMAIN replies : JoinReply(replies[k])) => \A k \in DOMAIN l : JoinReply(l[k])
    BY <2>3, <2>4, <2>6
  <2> QED
    BY <2>3, <2>5, <2>7, <2>8, <2>9, <2>10
<1> QED
  BY <1>7, <1>8

LEMMA HandleIInv ==
  ASSUME IInv, Handle
  PROVE  IInv'
<1>1. requests # <<>> /\ requests' = Tail(requests) /\ UNCHANGED <<worker, up, lost, castLost>>
  BY DEF Handle
<1>2. UNCHANGED <<wstate, tasks, joining, countDown, ticking, round, loss_count, leaving, dropped>>
  BY <1>1 DEF worker
<1>3. PICK m : m = Head(requests)
  OBVIOUS
<1>4. OnJoin(m) \/ OnKeepAlive(m) \/ OnCast(m)
  BY <1>3 DEF Handle
<1>5. PICK q : q = Tail(requests)
  OBVIOUS
<1>6. /\ 1 \in DOMAIN requests /\ m = requests[1] /\ m \in Request
      /\ q \in Seq(Request) /\ Within(q, requests) /\ Ordered(q)
      /\ NoJoins(requests) => NoJoins(q)
      /\ NoCasts(requests) => NoCasts(q)
      /\ LiveJoin(q) => LiveJoin(requests)
      /\ IsJoin(m) => NoCasts(q) /\ m.round = 0
      /\ IsJoin(m) /\ m.live => NoJoins(q)
      /\ m.type = "layDownTask" => \E t \in TaskIds : m.tasks = {t}
      /\ m.type # "quit" /\ Quits(requests) => Quits(q)
      /\ (\A i \in DOMAIN requests : IsJoin(requests[i])) => \A i \in DOMAIN q : IsJoin(q[i])
  BY <1>1, <1>3, <1>5, TailKeeps
<1>7. requests' = q
  BY <1>1, <1>5
<1>8. requests \in Seq(Request)
  BY QueueTypes
<1>9. CASE OnJoin(m)
  <2>1. m.type = "join" /\ M!Join(Me) /\ Answer(m, state)
    BY <1>9 DEF OnJoin
  <2>2. IsJoin(m) /\ m.type \in Kinds
    BY <2>1 DEF IsJoin, Kinds
  <2>3. ManagerOK' /\ Me \in DOMAIN workers' /\ Kept' = {}
    BY <2>1, JoinKept DEF IInv
  <2>4. ~NoJoins(requests)
    BY <1>6, <2>2 DEF NoJoins
  <2>5. ~Answering /\ wstate # "registered"
    BY <2>4 DEF IInv, OneJoin, States
  <2>6. state \in {"initializing", "in-service", "ok", "whoareyou"}
    BY DEF IInv, ManagerOK
  <2>7. PICK result \in {"initializing", "in-service", "ok", "whoareyou"} : result = state
    BY <2>6
  <2>8. Answer(m, result)
    BY <2>1, <2>7 DEF Answer
  <2>9. /\ replies' \in Seq(Reply)
        /\ Answering' => Answering \/ (IsJoin(m) /\ m.live)
        /\ \A k \in DOMAIN replies' : JoinReply(replies'[k]) => replies'[k].round = 0
        /\ \A k, l \in DOMAIN replies' : JoinReply(replies'[k]) /\ JoinReply(replies'[l]) => k = l
        /\ IsJoin(m) /\ (\A k \in DOMAIN replies : JoinReply(replies[k])) => \A k \in DOMAIN replies' : JoinReply(replies'[k])
    BY <1>6, <2>2, <2>5, <2>8, AnswerFacts
  <2>10. TypeOK'
    BY <1>1, <1>2, <1>6, <1>7, <2>9 DEF IInv, TypeOK, WorkerTypeOK
  <2>11. m.live => LiveJoin(requests) /\ lost[JoinCall] = 0 /\ joining = "calling" /\ ~LiveJoin(q)
    <3>1. m.live => LiveJoin(requests)
      BY <1>6, <2>2 DEF LiveJoin
    <3>2. LiveJoin(requests) => lost[JoinCall] = 0 /\ joining = "calling"
      BY DEF IInv, OneJoin
    <3>3. m.live => ~LiveJoin(q)
      BY <1>6, <2>2 DEF LiveJoin, NoJoins
    <3> QED
      BY <3>1, <3>2, <3>3
  <2>12. Answering' => m.live
    BY <2>5, <2>9
  <2>13. OneJoin'
    <3>1. lost'[JoinCall] = lost[JoinCall] /\ lost[JoinCall] \in {0, 1} /\ joining' = joining
      BY <1>1, <1>2 DEF IInv, OneJoin
    <3>2. LiveJoin(q) \/ Answering' \/ lost'[JoinCall] = 1 => joining' = "calling"
      BY <1>6, <2>11, <2>12, <3>1 DEF IInv, OneJoin
    <3>3. LiveJoin(q) => ~Answering' /\ lost'[JoinCall] = 0
      BY <1>6, <2>11, <2>12, <3>1 DEF IInv, OneJoin
    <3>4. Answering' => lost'[JoinCall] = 0 /\ NoJoins(q)
      BY <1>6, <2>2, <2>11, <2>12, <3>1
    <3> QED
      BY <1>7, <2>3, <2>9, <3>1, <3>2, <3>3, <3>4, Parts
  <2>14. States'
    BY <1>1, <1>2, <1>6, <1>7, <2>2, <2>5, <2>9 DEF IInv, States
  <2>15. JustJoined' /\ WillAgree' /\ Ordered(requests)'
    BY <1>2, <1>6, <1>7, <2>2, <2>3, <2>5, Parts
  <2> QED
    BY <2>3, <2>10, <2>13, <2>14, <2>15 DEF IInv
(* After a step that adds no answer to a join and handles no join.         *)
<1>10. ASSUME ~IsJoin(m), ManagerOK', replies' \in Seq(Reply), Answering' => Answering,
              \A k \in DOMAIN replies' : JoinReply(replies'[k]) => replies'[k].round = 0,
              \A k, l \in DOMAIN replies' : JoinReply(replies'[k]) /\ JoinReply(replies'[l]) => k = l,
              IsCast(m) \/ (Me \in DOMAIN workers' => Me \in DOMAIN workers /\ Kept' = Kept),
              wstate = "registered" /\ Me \in DOMAIN workers' /\ ~castLost /\ ~Quits(q) => Agrees(q, Kept', tasks)
       PROVE  IInv'
  <2>1. wstate # "unregistered"
    BY <1>6, <1>10 DEF IInv, States
  <2>2. TypeOK'
    BY <1>1, <1>2, <1>6, <1>7, <1>10 DEF IInv, TypeOK, WorkerTypeOK
  <2>3. PICK T : T = Kept'
    OBVIOUS
  <2>4. lost'[JoinCall] = lost[JoinCall] /\ joining' = joining
    BY <1>1, <1>2
  <2>5. OneJoin'
    <3>1. LiveJoin(q) \/ Answering' \/ lost'[JoinCall] = 1 => joining' = "calling"
      BY <1>6, <1>10, <2>4 DEF IInv, OneJoin
    <3>2. LiveJoin(q) => ~Answering' /\ lost'[JoinCall] = 0
      BY <1>6, <1>10, <2>4 DEF IInv, OneJoin
    <3>3. Answering' => lost'[JoinCall] = 0 /\ NoJoins(q)
      BY <1>6, <1>10, <2>4 DEF IInv, OneJoin
    <3>4. lost'[JoinCall] \in {0, 1}
      BY <2>4 DEF IInv, OneJoin
    <3> QED
      BY <1>7, <1>10, <2>3, <3>1, <3>2, <3>3, <3>4, Parts
  <2>6. States'
    BY <1>2, <1>6, <1>7, <2>1 DEF IInv, States
  <2>7. Answering' => NoCasts(q) /\ (Me \in DOMAIN workers' => T = {})
    <3>1. ASSUME Answering' PROVE NoCasts(requests) /\ (Me \in DOMAIN workers => Kept = {})
      BY <1>10, <3>1 DEF IInv, JustJoined
    <3>2. NoCasts(requests) => ~IsCast(m)
      BY <1>6 DEF NoCasts
    <3> QED
      BY <1>6, <1>10, <2>3, <3>1, <3>2
  <2>8. JustJoined' /\ WillAgree' /\ Ordered(requests)'
    BY <1>1, <1>2, <1>6, <1>7, <1>10, <2>3, <2>7, Parts
  <2> QED
    BY <1>10, <2>2, <2>5, <2>6, <2>8 DEF IInv
<1>11. ASSUME NEW U, m.type # "quit", Me \in DOMAIN workers,
              \A t \in TaskIds : t \in U <=> (m.type = "pickUpTasks" /\ t \in m.tasks) \/ (t \in Kept /\ ~Touches(m, t))
       PROVE  wstate = "registered" /\ ~castLost /\ ~Quits(q) => Agrees(q, U, tasks)
  <2>1. SUFFICES ASSUME wstate = "registered", ~castLost, ~Quits(q) PROVE Agrees(q, U, tasks)
    OBVIOUS
  <2>2. Agrees(requests, Kept, tasks)
    BY <1>6, <1>11, <2>1 DEF IInv, WillAgree
  <2> QED
    BY <1>1, <1>5, <1>6, <1>8, <1>11, <2>2, AgreesTail
<1>12. CASE OnKeepAlive(m)
  <2>1. m.type = "keepAlive"
    BY <1>12 DEF OnKeepAlive
  <2>2. ~IsJoin(m) /\ m.type \in Kinds /\ m.type # "quit" /\ m.type # "pickUpTasks" /\ \A t : ~Touches(m, t)
    BY <2>1 DEF IsJoin, Kinds, Touches
  <2>3. \E result \in {"initializing", "in-service", "ok", "whoareyou"} : Answer(m, result)
    BY <1>12 DEF OnKeepAlive
  <2>4. PICK result \in {"initializing", "in-service", "ok", "whoareyou"} : Answer(m, result)
    BY <2>3
  <2>5. /\ replies' \in Seq(Reply)
        /\ Answering' => Answering \/ (IsJoin(m) /\ m.live)
        /\ \A k \in DOMAIN replies' : JoinReply(replies'[k]) => replies'[k].round = 0
        /\ \A k, l \in DOMAIN replies' : JoinReply(replies'[k]) /\ JoinReply(replies'[l]) => k = l
    BY <1>6, <2>2, <2>4, AnswerFacts
  <2>6. ManagerOK' /\ DOMAIN workers' = DOMAIN workers /\ Kept' = Kept
    <3>1. CASE M!KeepAlive(Me)
      BY <3>1, KeepAliveKept DEF IInv
    <3>2. CASE UNCHANGED manager
      BY <3>2, SameManager DEF IInv
    <3> QED
      BY <1>12, <3>1, <3>2 DEF OnKeepAlive
  <2>7. \A t \in TaskIds : t \in Kept <=> (m.type = "pickUpTasks" /\ t \in m.tasks) \/ (t \in Kept /\ ~Touches(m, t))
    BY <2>2
  <2> QED
    BY <1>10, <1>11, <2>2, <2>5, <2>6, <2>7
<1>13. CASE OnCast(m)
  <2>1. m.type \notin Kinds /\ UNCHANGED replies
    BY <1>13 DEF OnCast, Kinds
  <2>2. IsCast(m) /\ ~IsJoin(m)
    BY <2>1 DEF IsCast, IsJoin, Kinds
  <2>3. /\ replies' \in Seq(Reply) /\ (Answering' => Answering)
        /\ \A k \in DOMAIN replies' : JoinReply(replies'[k]) => replies'[k].round = 0
        /\ \A k, l \in DOMAIN replies' : JoinReply(replies'[k]) /\ JoinReply(replies'[l]) => k = l
    BY <2>1, QueueTypes DEF Answering, IInv, OneJoin
  <2>4. CASE Me \notin DOMAIN workers /\ UNCHANGED manager
    <3>1. ManagerOK' /\ workers' = workers
      BY <2>4, SameManager DEF IInv
    <3> QED
      BY <1>10, <2>2, <2>3, <2>4, <3>1
  <2>5. CASE m.type = "pickUpTasks" /\ M!pickUpTasks(Me, m.tasks)
    <3>1. PICK T : T = m.tasks
      OBVIOUS
    <3>2. T \in SUBSET TaskIds
      BY <1>6, <2>5, <3>1 DEF Request
    <3>3. M!pickUpTasks(Me, T) /\ Me \in DOMAIN workers
      BY <2>5, <3>1 DEF M!pickUpTasks
    <3>4. ManagerOK' /\ DOMAIN workers' = DOMAIN workers /\ Kept' = Kept \cup T
      BY <3>2, <3>3, PickKept DEF IInv
    <3>5. PICK U : U = Kept \cup T
      OBVIOUS
    <3>6. \A t \in TaskIds : t \in U <=> (m.type = "pickUpTasks" /\ t \in m.tasks) \/ (t \in Kept /\ ~Touches(m, t))
      BY <2>5, <3>1, <3>5 DEF Touches
    <3>7. wstate = "registered" /\ ~castLost /\ ~Quits(q) => Agrees(q, U, tasks)
      BY <1>11, <2>5, <3>3, <3>6
    <3>8. Kept' = U
      BY <3>4, <3>5
    <3> QED
      BY <1>10, <2>2, <2>3, <3>4, <3>7, <3>8
  <2>6. CASE m.type = "layDownTask" /\ \E t \in m.tasks : M!layDownTask(Me, t)
    <3>1. PICK t \in TaskIds : m.tasks = {t}
      BY <1>6, <2>6
    <3>2. M!layDownTask(Me, t)
      BY <2>6, <3>1
    <3>3. Me \in DOMAIN workers
      BY <3>2 DEF M!layDownTask
    <3>4. ManagerOK' /\ DOMAIN workers' = DOMAIN workers /\ Kept' = Kept \ {t}
      BY <3>2, LayKept DEF IInv
    <3>5. PICK U : U = Kept \ {t}
      OBVIOUS
    <3>6. \A u \in TaskIds : u \in U <=> (m.type = "pickUpTasks" /\ u \in m.tasks) \/ (u \in Kept /\ ~Touches(m, u))
      BY <2>6, <3>1, <3>5 DEF Touches
    <3>7. wstate = "registered" /\ ~castLost /\ ~Quits(q) => Agrees(q, U, tasks)
      BY <1>11, <2>6, <3>3, <3>6
    <3>8. Kept' = U
      BY <3>4, <3>5
    <3> QED
      BY <1>10, <2>2, <2>3, <3>4, <3>7, <3>8
  <2>7. CASE m.type = "quit" /\ M!Quit(Me)
    <3>1. ManagerOK' /\ Me \notin DOMAIN workers'
      BY <2>7, QuitKept DEF IInv
    <3> QED
      BY <1>10, <2>2, <2>3, <3>1
  <2> QED
    BY <1>13, <2>4, <2>5, <2>6, <2>7 DEF OnCast
<1> QED
  BY <1>4, <1>9, <1>12, <1>13

(* The manager alone moves, or is replaced: it may forget the worker.      *)
LEMMA ManagerIInv ==
  ASSUME IInv, UNCHANGED worker, UNCHANGED <<requests, replies, lost, castLost>>, up' \in BOOLEAN,
         ManagerOK', Me \in DOMAIN workers' => Me \in DOMAIN workers /\ Kept' = Kept
  PROVE  IInv'
<1>1. /\ wstate' = wstate /\ tasks' = tasks /\ joining' = joining /\ countDown' = countDown
      /\ ticking' = ticking /\ round' = round /\ loss_count' = loss_count /\ leaving' = leaving
      /\ dropped' = dropped /\ replies' = replies /\ lost' = lost /\ castLost' = castLost
  BY DEF worker
<1>2. PICK q : q = requests
  OBVIOUS
<1>3. requests' = q
  BY <1>2
<1>4. PICK T : T = Kept'
  OBVIOUS
<1>5. TypeOK'
  BY <1>1 DEF IInv, TypeOK, WorkerTypeOK
<1>6. Answering' <=> Answering
  BY <1>1 DEF Answering
<1>7. Ordered(requests)' /\ OneJoin'
  BY <1>1, <1>2, <1>3, <1>4, <1>6, Parts DEF IInv, OneJoin
<1>8. States'
  BY <1>1 DEF IInv, States
<1>9. JustJoined'
  BY <1>2, <1>3, <1>4, <1>6, Parts DEF IInv, JustJoined
<1>10. WillAgree'
  BY <1>1, <1>2, <1>3, <1>4, Parts DEF IInv, WillAgree
<1> QED
  BY <1>5, <1>7, <1>8, <1>9, <1>10 DEF IInv

LEMMA CheckIInv ==
  ASSUME IInv, M!CheckAlive, UNCHANGED <<worker, channel>>
  PROVE  IInv'
<1>1. ManagerOK
  BY DEF IInv
<1>2. /\ ManagerOK' /\ DOMAIN workers' \subseteq DOMAIN workers
      /\ Me \in DOMAIN workers' => Kept' = Kept
  BY <1>1, CheckKept
<1>3. UNCHANGED worker /\ UNCHANGED <<requests, replies, lost, castLost>> /\ up' \in BOOLEAN
  BY DEF channel, IInv, TypeOK
<1> QED
  BY <1>2, <1>3, ManagerIInv

LEMMA StartedIInv ==
  ASSUME IInv, Started
  PROVE  IInv'
<1>1. state' = "in-service" /\ workers' = workers /\ sched' = sched
  BY DEF Started, M!BecomeInService
<1>2. ManagerOK' /\ Kept' = Kept
  BY <1>1 DEF IInv, ManagerOK, Kept
<1>3. UNCHANGED worker /\ UNCHANGED <<requests, replies, lost, castLost>> /\ up' \in BOOLEAN
  BY DEF Started, channel, IInv, TypeOK
<1> QED
  BY <1>1, <1>2, <1>3, ManagerIInv

LEMMA RestartIInv ==
  ASSUME IInv, Restart
  PROVE  IInv'
<1>1. ManagerOK' /\ Me \notin DOMAIN workers'
  BY RestartKept
<1>2. UNCHANGED worker /\ UNCHANGED <<requests, replies, lost, castLost>> /\ up' \in BOOLEAN
  BY DEF Restart
<1> QED
  BY <1>1, <1>2, ManagerIInv

LEMMA TakeOverIInv ==
  ASSUME IInv, TakeOver
  PROVE  IInv'
<1>1. ManagerOK
  BY DEF IInv
<1>2. ManagerOK' /\ DOMAIN workers' = DOMAIN workers /\ Kept' = Kept
  BY <1>1, TakeOverKept
<1>3. UNCHANGED worker /\ UNCHANGED <<requests, replies, lost, castLost>> /\ up' \in BOOLEAN
  BY DEF TakeOver
<1> QED
  BY <1>2, <1>3, ManagerIInv

(* The queue is lost with the manager.                                     *)
LEMMA MasterDiesIInv ==
  ASSUME IInv, MasterDies
  PROVE  IInv'
<1>1. /\ up' = FALSE /\ requests' = <<>> /\ lost' = LostCalls(requests)
      /\ castLost' = (castLost \/ \E i \in DOMAIN requests : requests[i].type \notin Kinds)
      /\ replies' = replies /\ UNCHANGED worker /\ UNCHANGED manager
  BY DEF MasterDies, DropQueue, Kinds
<1>2. /\ wstate' = wstate /\ tasks' = tasks /\ joining' = joining /\ countDown' = countDown
      /\ ticking' = ticking /\ round' = round /\ loss_count' = loss_count /\ leaving' = leaving
      /\ dropped' = dropped
  BY <1>1 DEF worker
<1>3. requests \in Seq(Request) /\ lost \in [Call -> Nat]
  BY QueueTypes
<1>4. /\ lost' \in [Call -> Nat]
      /\ \A c \in Call : (\A i \in DOMAIN requests : IsLive(requests[i]) => requests[i].type # c[1]) => lost'[c] = lost[c]
      /\ ~LiveJoin(requests) => lost'[JoinCall] = lost[JoinCall]
      /\ Ordered(requests) /\ LiveJoin(requests) => lost'[JoinCall] = lost[JoinCall] + 1
  <2>1. PICK l : l = LostCalls(requests)
    OBVIOUS
  <2>2. /\ l \in [Call -> Nat]
        /\ \A c \in Call : (\A i \in DOMAIN requests : IsLive(requests[i]) => requests[i].type # c[1]) => l[c] = lost[c]
        /\ ~LiveJoin(requests) => l[JoinCall] = lost[JoinCall]
        /\ Ordered(requests) /\ LiveJoin(requests) => l[JoinCall] = lost[JoinCall] + 1
    BY <1>3, <2>1, LostFacts
  <2>3. lost' = l
    BY <1>1, <2>1
  <2> QED
    BY <2>2, <2>3
<1>5. PICK q : q = <<>>
  OBVIOUS
<1>6. requests' = q /\ q \in Seq(Request) /\ \A i \in DOMAIN q : FALSE
  BY <1>1, <1>5
<1>7. Ordered(q) /\ NoJoins(q) /\ NoCasts(q) /\ ~LiveJoin(q) /\ ~Quits(q)
  BY <1>6 DEF Ordered, NoJoins, NoCasts, LiveJoin, Quits
<1>8. ManagerOK' /\ Kept' = Kept /\ workers' = workers
  BY <1>1, SameManager DEF IInv
<1>9. PICK T : T = Kept
  OBVIOUS
<1>10. Kept' = T
  BY <1>8, <1>9
<1>11. TypeOK'
  BY <1>1, <1>2, <1>4, <1>6 DEF IInv, TypeOK, WorkerTypeOK
<1>12. Answering' <=> Answering
  BY <1>1 DEF Answering
<1>13. Ordered(requests)
  BY DEF IInv
<1>14. OneJoin'
  <2>1. lost'[JoinCall] \in {0, 1}
    BY <1>4, <1>13 DEF IInv, OneJoin
  <2>2. Answering' \/ lost'[JoinCall] = 1 => joining' = "calling"
    BY <1>2, <1>4, <1>12, <1>13 DEF IInv, OneJoin
  <2>3. Answering' => lost'[JoinCall] = 0
    BY <1>4, <1>12 DEF IInv, OneJoin
  <2>4. /\ \A k \in DOMAIN replies : JoinReply(replies[k]) => replies[k].round = 0
        /\ \A k, l \in DOMAIN replies : JoinReply(replies[k]) /\ JoinReply(replies[l]) => k = l
    BY DEF IInv, OneJoin
  <2> QED
    BY <1>1, <1>6, <1>7, <1>10, <2>1, <2>2, <2>3, <2>4, Parts
<1>15. States'
  <2>1. wstate = "unregistered" => \A r \in Round : lost'[CallsOf(r)] = lost[CallsOf(r)]
    <3>1. ASSUME wstate = "unregistered", NEW r \in Round PROVE lost'[CallsOf(r)] = lost[CallsOf(r)]
      <4>1. \A i \in DOMAIN requests : requests[i].type = "join"
        BY <3>1 DEF IInv, States, IsJoin
      <4>2. CallsOf(r) \in Call /\ CallsOf(r)[1] = "keepAlive"
        BY CallFacts DEF CallsOf
      <4> QED
        BY <1>4, <4>1, <4>2
    <3> QED
      BY <3>1
  <2> QED
    BY <1>1, <1>2, <1>6, <1>7, <2>1 DEF IInv, States
<1>16. JustJoined'
  BY <1>6, <1>7, <1>8, <1>9, <1>10, <1>12, Parts DEF IInv, JustJoined
<1>17. WillAgree'
  <2>1. SUFFICES ASSUME wstate = "registered", Me \in DOMAIN workers, ~castLost' PROVE Agrees(q, T, tasks)
    BY <1>2, <1>6, <1>8, <1>10, Parts
  <2>2. ~castLost /\ \A i \in DOMAIN requests : requests[i].type \in Kinds
    BY <1>1, <2>1
  <2>3. ~Quits(requests)
    BY <2>2 DEF Quits, Kinds
  <2>4. Agrees(requests, T, tasks)
    BY <1>9, <2>1, <2>2, <2>3 DEF IInv, WillAgree
  <2>5. \A t \in TaskIds : t \in tasks <=> t \in T
    BY <2>2, <2>4, AgreesNothing
  <2>6. \A i \in DOMAIN q : q[i].type \in Kinds
    BY <1>6
  <2> QED
    BY <2>5, <2>6, AgreesNothing
<1> QED
  BY <1>6, <1>7, <1>8, <1>11, <1>14, <1>15, <1>16, <1>17 DEF IInv

-----------------------------------------------------------------------------
(* The invariant.                                                          *)
LEMMA InitIInv ==
  ASSUME Init
  PROVE  IInv
<1>1. WorkerInit /\ M!Init
  BY DEF Init
<1>2. DOMAIN requests = {} /\ DOMAIN replies = {} /\ requests \in Seq(Request) /\ replies \in Seq(Reply)
  BY <1>1 DEF WorkerInit
<1>3. lost \in [Call -> Nat] /\ lost[JoinCall] = 0 /\ \A r \in Round : lost[CallsOf(r)] = 0
  BY <1>1, CallFacts DEF WorkerInit
<1>4. TypeOK
  <2>1. 0 \in Round /\ JoinRetry \in Nat /\ MaxLoss \in Nat
    BY CallFacts, WorkerAssumption
  <2>2. loss_count \in [Round -> 0..MaxLoss + 1]
    BY <1>1, <2>1 DEF WorkerInit
  <2> QED
    BY <1>1, <1>2, <1>3, <2>1, <2>2 DEF WorkerInit, TypeOK, WorkerTypeOK
<1>5. Ordered(requests) /\ ~LiveJoin(requests) /\ NoJoins(requests) /\ ~Answering
  BY <1>2 DEF Ordered, LiveJoin, NoJoins, Answering
<1>6. OneJoin
  BY <1>2, <1>3, <1>5 DEF OneJoin
<1>7. States
  BY <1>1, <1>2, <1>3 DEF States, WorkerInit
<1>8. ManagerOK /\ Me \notin DOMAIN workers
  BY <1>1 DEF ManagerOK, M!Init, M!Scheduler0
<1>9. JustJoined /\ WillAgree
  BY <1>5, <1>8 DEF JustJoined, WillAgree
<1> QED
  BY <1>4, <1>5, <1>6, <1>7, <1>8, <1>9 DEF IInv

LEMMA NextIInv ==
  ASSUME IInv, [Next]_vars
  PROVE  IInv'
<1>1. CASE FromWorker
  <2>1. UNCHANGED manager
    BY <1>1 DEF FromWorker
  <2>2. CASE TryJoin
    BY <2>1, <2>2, TryJoinIInv
  <2>3. CASE Joined
    BY <2>1, <2>3, JoinedIInv
  <2>4. CASE JoinLost
    BY <2>1, <2>4, JoinLostIInv
  <2>5. CASE Tick
    BY <2>1, <2>5, TickIInv
  <2>6. CASE Alive
    BY <2>1, <2>6, AliveIInv
  <2>7. CASE quit
    BY <2>1, <2>7, QuitIInv
  <2>8. CASE \E r \in Round : AliveLost(r)
    BY <2>1, <2>8, AliveLostIInv
  <2>9. CASE \E t \in TaskIds : addTask(t) \/ removeTask(t)
    BY <2>1, <2>9, AddTaskIInv, RemoveTaskIInv
  <2> QED
    BY <1>1, <2>2, <2>3, <2>4, <2>5, <2>6, <2>7, <2>8, <2>9 DEF FromWorker
<1>2. CASE Handle
  BY <1>2, HandleIInv
<1>3. CASE Watch \/ Forget
  BY <1>3, CheckIInv DEF Watch, Forget
<1>4. CASE Started
  BY <1>4, StartedIInv
<1>5. CASE Delay
  <2>1. UNCHANGED manager
    BY <1>5 DEF Delay
  <2>2. CASE JoinTimeout
    BY <2>1, <2>2, JoinTimeoutIInv
  <2>3. CASE \E r \in Round : AliveTimeout(r)
    BY <2>1, <2>3, AliveTimeoutIInv
  <2> QED
    BY <1>5, <2>2, <2>3 DEF Delay
<1>6. CASE Loss
  <2>1. UNCHANGED manager
    BY <1>6 DEF Loss
  <2>2. CASE \E i \in DOMAIN requests : LoseRequest(i)
    BY <2>1, <2>2, LoseRequestIInv
  <2>3. CASE LoseReply
    BY <2>1, <2>3, LoseReplyIInv
  <2> QED
    BY <1>6, <2>2, <2>3 DEF Loss
<1>7. CASE MasterDies
  BY <1>7, MasterDiesIInv
<1>8. CASE Restart
  BY <1>8, RestartIInv
<1>9. CASE TakeOver
  BY <1>9, TakeOverIInv
<1>10. CASE UNCHANGED vars
  <2>1. UNCHANGED worker /\ UNCHANGED manager /\ UNCHANGED <<requests, replies, lost, castLost>> /\ up' = up
    BY <1>10 DEF vars, channel
  <2>2. ManagerOK' /\ Kept' = Kept /\ workers' = workers
    BY <2>1, SameManager DEF IInv
  <2>3. up' \in BOOLEAN
    BY <2>1 DEF IInv, TypeOK
  <2> QED
    BY <2>1, <2>2, <2>3, ManagerIInv
<1> QED
  BY <1>1, <1>2, <1>3, <1>4, <1>5, <1>6, <1>7, <1>8, <1>9, <1>10 DEF Next

(* The inductive invariant of a worker and its managers: one outcome of a  *)
(* join, casts of a worker before its joins, and a manager that will agree *)
(* with a registered worker once it has handled the worker's queue.        *)
THEOREM ClusterInvariant == Spec => []IInv
<1>1. Init => IInv
  BY InitIInv
<1>2. IInv /\ [Next]_vars => IInv'
  BY NextIInv
<1> QED
  BY <1>1, <1>2, PTL DEF Spec

(* When a worker is registered with a manager that knows it and that has   *)
(* handled all its requests, both have the same tasks, unless a cast was   *)
(* lost since the worker joined (clusterWorker.js, clusterManager.js).     *)
THEOREM ClusterRecords == Spec => []RecordsAgree
<1>1. ASSUME IInv PROVE RecordsAgree
  <2>1. SUFFICES ASSUME wstate = "registered", Me \in DOMAIN workers, requests = <<>>, ~castLost
                 PROVE  Kept = tasks
    BY <1>1 DEF RecordsAgree, IInv, Kept
  <2>2. \A i \in DOMAIN requests : FALSE
    BY <2>1
  <2>3. Agrees(requests, Kept, tasks)
    BY <1>1, <2>1, <2>2 DEF IInv, WillAgree, Quits
  <2>4. \A t \in TaskIds : t \in tasks <=> t \in Kept
    BY <2>2, <2>3, AgreesNothing
  <2>5. tasks \subseteq TaskIds /\ Kept \subseteq TaskIds
    BY <1>1, <2>1 DEF IInv, TypeOK, WorkerTypeOK, ManagerOK
  <2> QED
    BY <2>4, <2>5
<1>2. Spec => []IInv
  BY ClusterInvariant
<1> QED
  BY <1>1, <1>2, PTL
=============================================================================
