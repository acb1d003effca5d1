-------------------------- MODULE NodeManagerProofs --------------------------
(***************************************************************************)
(* The node manager's tables agree and no held task is unknown, for any    *)
(* number of callers, rooms, tasks and nodes and any configuration of the  *)
(* agent.                                                                  *)
(***************************************************************************)
EXTENDS NodeManager, FiniteSetTheorems, SequenceTheorems, WellFoundedInduction, TLAPS

(* The shape of the object.                                                *)
States == {"starting", "ready", "failed"}
IsTable(x) ==
  /\ x = [r \in DOMAIN x |-> x[r]] /\ DOMAIN x \subseteq Rooms
  /\ \A r \in DOMAIN x : x[r] \in [TaskNames -> Nat]

Object(s) ==
  /\ s = [spec |-> s.spec, index |-> s.index, idle |-> s.idle, nodes |-> s.nodes,
          processes |-> s.processes, tasks |-> s.tasks, spawn_failed |-> s.spawn_failed]
  /\ s.spec \in Agents /\ s.index \in 0..s.spec.nodes
  /\ s.idle \in Seq(Ids) /\ s.nodes \in Seq(Ids)
  /\ s.processes \in Partial(Nodes, States)
  /\ s.tasks = [id \in DOMAIN s.tasks |-> s.tasks[id]]
  /\ \A id \in DOMAIN s.tasks : s.tasks[id] = NoRooms \/ IsTable(s.tasks[id])
  /\ s.spawn_failed \in BOOLEAN

(* The ids in a list, each of which is there once.                         *)
In(list) == {list[i] : i \in DOMAIN list} \ {Undefined}
Distinct(list) == \A i, j \in DOMAIN list : list[i] = list[j] /\ list[i] # Undefined => i = j

(* The lists hold the processes, and nobody knows of a later process.      *)
Lists(s) ==
  /\ Distinct(s.idle) /\ Distinct(s.nodes)
  /\ In(s.idle) \cap In(s.nodes) = {}
  /\ In(s.idle) \cup In(s.nodes) = DOMAIN s.processes
  /\ DOMAIN s.processes \subseteq 0..s.index - 1
  /\ DOMAIN s.tasks \subseteq 0..s.index - 1 \cup {Undefined}

(* How often a task is in the list of a room on a node.                    *)
Entries(s, id, r, t) == IF Serves(s, id, r) THEN s.tasks[id][r][t] ELSE 0

Types ==
  /\ children \in Partial(Nodes, {"running", "killed", "late"})
  /\ watched \subseteq Nodes
  /\ fills \in Nat

(* Callers wait for and hold nodes that were started once.                 *)
CallsOK(s, k) ==
  /\ k = [c \in Callers |-> k[c]]
  /\ \A c \in Callers :
       k[c].status # "none" => k[c].node \in 0..s.index - 1 /\ k[c].ask \in s.spec.asks[c]

(* What a process is said to execute, the cluster worker knows.            *)
EntriesKnown(s, w) ==
  /\ w \subseteq TaskNames
  /\ \A id \in DOMAIN s.processes, r \in Rooms, t \in TaskNames : Entries(s, id, r, t) > 0 => t \in w

(* Where tasks are given back, an entry is of one caller that holds it.    *)
Holds(k, c, id, r, t) ==
  k[c].status = "holding" /\ k[c].node = id /\ k[c].ask.room = r /\ k[c].ask.task = t

EntriesHeld(s, k) ==
  s.spec.recycles =>
    \A id \in DOMAIN s.processes, r \in Rooms, t \in TaskNames :
      Entries(s, id, r, t) > 0 => Entries(s, id, r, t) = 1 /\ \E c \in Callers : Holds(k, c, id, r, t)

HeldKnown(s, k, w) ==
  \A c \in Callers : k[c].status = "holding" /\ k[c].node \in DOMAIN s.processes => k[c].ask.task \in w

IInv ==
  /\ Object(m) /\ Lists(m)
  /\ Types
  /\ CallsOK(m, calls)
  /\ EntriesKnown(m, workerTasks)
  /\ EntriesHeld(m, calls)
  /\ HeldKnown(m, calls, workerTasks)

-----------------------------------------------------------------------------
(* Numbers and lists.                                                      *)
LEMMA Least ==
  ASSUME NEW T \in SUBSET Nat, T # {}
  PROVE  \E x \in T : \A y \in T : x <= y
<1>1. \E x \in T : \A y \in T : ~(<<y, x>> \in OpToRel(<, Nat))
  BY WFMin, NatLessThanWellFounded
<1>2. \A x \in Nat, y \in Nat : <<y, x>> \in OpToRel(<, Nat) <=> y < x
  BY DEF OpToRel
<1>3. PICK x \in T : \A y \in T : ~(<<y, x>> \in OpToRel(<, Nat))
  BY <1>1
<1>4. \A y \in T : y \in Nat /\ x \in Nat /\ ~(y < x)
  BY <1>2, <1>3
<1>5. \A y \in T : x <= y
  BY <1>4
<1> QED
  BY <1>5

LEMMA RemoveAtFacts ==
  ASSUME NEW S, NEW q \in Seq(S), NEW i \in DOMAIN q
  PROVE  /\ RemoveAt(q, i) \in Seq(S)
         /\ DOMAIN RemoveAt(q, i) = 1..Len(q) - 1
         /\ \A k \in 1..Len(q) - 1 : RemoveAt(q, i)[k] = IF k < i THEN q[k] ELSE q[k + 1]
<1>1. i \in 1..Len(q) /\ Len(q) \in Nat
  OBVIOUS
<1>2. PICK a : a = SubSeq(q, 1, i - 1)
  OBVIOUS
<1>3. PICK b : b = SubSeq(q, i + 1, Len(q))
  OBVIOUS
<1>4. a \in Seq(S) /\ Len(a) = i - 1 /\ \A k \in 1..i - 1 : a[k] = q[k]
  BY <1>1, <1>2
<1>5. b \in Seq(S) /\ Len(b) = Len(q) - i /\ \A k \in 1..Len(q) - i : b[k] = q[i + k]
  BY <1>1, <1>3
<1>6. RemoveAt(q, i) = a \o b
  BY <1>2, <1>3 DEF RemoveAt
<1>7. a \o b \in Seq(S) /\ Len(a \o b) = Len(q) - 1
  BY <1>1, <1>4, <1>5
<1>8. \A k \in 1..Len(q) - 1 : (a \o b)[k] = IF k < i THEN q[k] ELSE q[k + 1]
  <2>1. TAKE k \in 1..Len(q) - 1
  <2>2. CASE k < i
    BY <1>1, <1>4, <1>5, <2>2
  <2>3. CASE ~(k < i)
    <3>1. (a \o b)[k] = b[k - (i - 1)]
      BY <1>1, <1>4, <1>5, <2>3
    <3>2. k - (i - 1) \in 1..Len(q) - i
      BY <1>1, <2>3
    <3>3. b[k - (i - 1)] = q[i + (k - (i - 1))]
      BY <1>5, <3>2
    <3>4. i + (k - (i - 1)) = k + 1
      BY <1>1
    <3> QED
      BY <2>3, <3>1, <3>3, <3>4
  <2> QED
    BY <2>2, <2>3
<1> QED
  BY <1>6, <1>7, <1>8

(* An id is taken out of a list.                                           *)
LEMMA RemoveFirstFacts ==
  ASSUME NEW list \in Seq(Ids), NEW id, id # Undefined, Distinct(list)
  PROVE  /\ RemoveFirst(list, id) \in Seq(Ids)
         /\ Distinct(RemoveFirst(list, id))
         /\ In(RemoveFirst(list, id)) = In(list) \ {id}
<1>1. DOMAIN list = 1..Len(list) /\ Len(list) \in Nat
  OBVIOUS
<1>2. CASE \A i \in 1..Len(list) : list[i] # id
  <2>1. RemoveFirst(list, id) = list
    BY <1>2 DEF RemoveFirst
  <2>2. id \notin In(list)
    BY <1>1, <1>2 DEF In
  <2> QED
    BY <2>1, <2>2
<1>3. CASE \E i \in 1..Len(list) : list[i] = id
  <2>1. PICK I : I = {i \in 1..Len(list) : list[i] = id}
    OBVIOUS
  <2>2. I \in SUBSET Nat /\ I # {}
    BY <1>3, <2>1
  <2>3. PICK x \in I : \A y \in I : x <= y
    BY <2>2, Least
  <2>4. PICK k : k = Min(I)
    OBVIOUS
  <2>5. k \in I
    BY <2>3, <2>4 DEF Min
  <2>6. RemoveFirst(list, id) = RemoveAt(list, k)
    BY <1>3, <2>1, <2>4, <2>5 DEF RemoveFirst, SelectInSeq
  <2>7. k \in DOMAIN list /\ list[k] = id
    BY <1>1, <2>1, <2>5
  <2>8. PICK p : p = RemoveAt(list, k)
    OBVIOUS
  <2>9. /\ p \in Seq(Ids) /\ DOMAIN p = 1..Len(list) - 1
        /\ \A i \in 1..Len(list) - 1 : p[i] = IF i < k THEN list[i] ELSE list[i + 1]
    BY <2>7, <2>8, RemoveAtFacts
  <2>10. ASSUME NEW i \in DOMAIN p
         PROVE  LET j == IF i < k THEN i ELSE i + 1 IN j \in DOMAIN list /\ j # k /\ p[i] = list[j]
    BY <1>1, <2>7, <2>9, <2>10
  <2>11. Distinct(p)
    <3>1. SUFFICES ASSUME NEW i \in DOMAIN p, NEW j \in DOMAIN p, p[i] = p[j], p[i] # Undefined PROVE i = j
      BY DEF Distinct
    <3>2. (IF i < k THEN i ELSE i + 1) = (IF j < k THEN j ELSE j + 1)
      BY <2>10, <3>1 DEF Distinct
    <3> QED
      BY <1>1, <2>7, <2>9, <3>2
  <2>12. \A v : v \in In(p) => v \in In(list) /\ v # id
    <3>1. SUFFICES ASSUME NEW i \in DOMAIN p, p[i] # Undefined PROVE p[i] \in In(list) /\ p[i] # id
      BY DEF In
    <3>2. PICK j \in DOMAIN list : j # k /\ p[i] = list[j]
      BY <2>10
    <3> QED
      BY <2>7, <3>1, <3>2 DEF In, Distinct
  <2>13. \A v : v \in In(list) /\ v # id => v \in In(p)
    <3>1. SUFFICES ASSUME NEW j \in DOMAIN list, list[j] # Undefined, list[j] # id PROVE list[j] \in In(p)
      BY DEF In
    <3>2. j # k
      BY <2>7, <3>1
    <3>3. \E i \in DOMAIN p : p[i] = list[j]
      <4>1. CASE j < k
        BY <1>1, <2>7, <2>9, <4>1
      <4>2. CASE j > k
        <5>1. j - 1 \in 1..Len(list) - 1 /\ ~(j - 1 < k) /\ (j - 1) + 1 = j
          BY <1>1, <2>7, <4>2
        <5> QED
          BY <2>9, <5>1
      <4> QED
        BY <1>1, <2>7, <3>2, <4>1, <4>2
    <3> QED
      BY <3>1, <3>3 DEF In
  <2> QED
    BY <2>6, <2>8, <2>9, <2>11, <2>12, <2>13
<1> QED
  BY <1>1, <1>2, <1>3

(* The first id is taken.                                                  *)
LEMMA TailFacts ==
  ASSUME NEW list \in Seq(Ids), list # <<>>, Distinct(list)
  PROVE  /\ Head(list) \in Ids
         /\ Head(list) # Undefined => Head(list) \in In(list)
         /\ Tail(list) \in Seq(Ids)
         /\ Distinct(Tail(list))
         /\ In(Tail(list)) = In(list) \ {Head(list)}
<1>1. DOMAIN list = 1..Len(list) /\ Len(list) \in Nat \ {0}
  OBVIOUS
<1>2. PICK p : p = Tail(list)
  OBVIOUS
<1>3. PICK h : h = Head(list)
  OBVIOUS
<1>4. /\ p \in Seq(Ids) /\ DOMAIN p = 1..Len(list) - 1
      /\ \A i \in 1..Len(list) - 1 : p[i] = list[i + 1]
      /\ h = list[1] /\ h \in Ids /\ 1 \in DOMAIN list
  BY <1>1, <1>2, <1>3
<1>5. \A i \in DOMAIN p : i + 1 \in DOMAIN list /\ i + 1 # 1 /\ p[i] = list[i + 1]
  BY <1>1, <1>4
<1>6. Distinct(p)
  <2>1. SUFFICES ASSUME NEW i \in DOMAIN p, NEW j \in DOMAIN p, p[i] = p[j], p[i] # Undefined PROVE i = j
    BY DEF Distinct
  <2>2. i + 1 = j + 1
    BY <1>5, <2>1 DEF Distinct
  <2> QED
    BY <1>1, <1>4, <2>2
<1>7. \A v : v \in In(p) => v \in In(list) /\ v # h
  <2>1. SUFFICES ASSUME NEW i \in DOMAIN p, p[i] # Undefined PROVE p[i] \in In(list) /\ p[i] # h
    BY DEF In
  <2> QED
    BY <1>4, <1>5, <2>1 DEF In, Distinct
<1>8. \A v : v \in In(list) /\ v # h => v \in In(p)
  <2>1. SUFFICES ASSUME NEW j \in DOMAIN list, list[j] # Undefined, list[j] # h PROVE list[j] \in In(p)
    BY DEF In
  <2>2. j - 1 \in 1..Len(list) - 1 /\ (j - 1) + 1 = j
    BY <1>1, <1>4, <2>1
  <2>3. j - 1 \in DOMAIN p /\ p[j - 1] = list[j]
    BY <1>4, <2>2
  <2> QED
    BY <2>1, <2>3 DEF In
<1>9. h # Undefined => h \in In(list)
  BY <1>4 DEF In
<1> QED
  BY <1>2, <1>3, <1>4, <1>6, <1>7, <1>8, <1>9

(* Ids are added at the end.                                               *)
LEMMA ConcatFacts ==
  ASSUME NEW p \in Seq(Ids), NEW q \in Seq(Ids), Distinct(p), Distinct(q), In(p) \cap In(q) = {}
  PROVE  /\ p \o q \in Seq(Ids)
         /\ Distinct(p \o q)
         /\ In(p \o q) = In(p) \cup In(q)
<1>1. DOMAIN p = 1..Len(p) /\ Len(p) \in Nat /\ DOMAIN q = 1..Len(q) /\ Len(q) \in Nat
  OBVIOUS
<1>2. PICK l : l = p \o q
  OBVIOUS
<1>3. /\ l \in Seq(Ids) /\ DOMAIN l = 1..Len(p) + Len(q)
      /\ \A i \in DOMAIN p : l[i] = p[i] /\ i \in DOMAIN l
      /\ \A i \in DOMAIN q : l[Len(p) + i] = q[i] /\ Len(p) + i \in DOMAIN l
  BY <1>1, <1>2
<1>4. \A i \in DOMAIN l : i \in DOMAIN p \/ (i - Len(p) \in DOMAIN q /\ l[i] = q[i - Len(p)])
  <2>1. TAKE i \in DOMAIN l
  <2>2. CASE i > Len(p)
    <3>1. i - Len(p) \in DOMAIN q /\ Len(p) + (i - Len(p)) = i
      BY <1>1, <1>3, <2>2
    <3> QED
      BY <1>3, <3>1
  <2>3. CASE ~(i > Len(p))
    BY <1>1, <1>3, <2>3
  <2> QED
    BY <2>2, <2>3
<1>5. \A v : v \in In(l) <=> v \in In(p) \cup In(q)
  BY <1>3, <1>4 DEF In
<1>6. Distinct(l)
  <2>1. SUFFICES ASSUME NEW i \in DOMAIN l, NEW j \in DOMAIN l, l[i] = l[j], l[i] # Undefined PROVE i = j
    BY DEF Distinct
  <2>2. CASE i \in DOMAIN p /\ j \in DOMAIN p
    BY <1>3, <2>1, <2>2 DEF Distinct
  <2>3. CASE i \in DOMAIN p /\ j \notin DOMAIN p
    <3>1. l[i] \in In(p)
      BY <1>3, <2>1, <2>3 DEF In
    <3>2. l[j] \in In(q)
      BY <1>4, <2>1, <2>3 DEF In
    <3> QED
      BY <2>1, <3>1, <3>2
  <2>4. CASE i \notin DOMAIN p /\ j \in DOMAIN p
    <3>1. l[j] \in In(p)
      BY <1>3, <2>1, <2>4 DEF In
    <3>2. l[i] \in In(q)
      BY <1>4, <2>1, <2>4 DEF In
    <3> QED
      BY <2>1, <3>1, <3>2
  <2>5. CASE i \notin DOMAIN p /\ j \notin DOMAIN p
    <3>1. i - Len(p) = j - Len(p)
      BY <1>4, <2>1, <2>5 DEF Distinct
    <3> QED
      BY <1>1, <1>3, <3>1
  <2> QED
    BY <2>2, <2>3, <2>4, <2>5
<1> QED
  BY <1>2, <1>3, <1>5, <1>6

LEMMA AppendFacts ==
  ASSUME NEW list \in Seq(Ids), NEW id \in Ids, Distinct(list), id \notin In(list)
  PROVE  /\ Append(list, id) \in Seq(Ids)
         /\ Distinct(Append(list, id))
         /\ In(Append(list, id)) = (In(list) \cup {id}) \ {Undefined}
<1>1. PICK q : q = <<id>>
  OBVIOUS
<1>2. q \in Seq(Ids) /\ DOMAIN q = {1} /\ q[1] = id
  BY <1>1
<1>3. Distinct(q) /\ In(q) = {id} \ {Undefined}
  BY <1>2 DEF Distinct, In
<1>4. Append(list, id) = list \o q
  BY <1>1
<1>5. Undefined \notin In(list)
  BY DEF In
<1>6. In(list) \cap In(q) = {}
  BY <1>3
<1>7. list \o q \in Seq(Ids) /\ Distinct(list \o q) /\ In(list \o q) = In(list) \cup In(q)
  BY <1>2, <1>3, <1>6, ConcatFacts
<1> QED
  BY <1>3, <1>4, <1>5, <1>7

(* Nothing is left but what is undefined.                                  *)
LEMMA WithoutFacts ==
  ASSUME NEW list \in Seq(Ids), NEW ids, In(list) \subseteq ids
  PROVE  /\ Without(list, ids) \in Seq(Ids)
         /\ Distinct(Without(list, ids))
         /\ In(Without(list, ids)) = {}
<1>1. PICK S : S = {i \in DOMAIN list : list[i] \notin ids}
  OBVIOUS
<1>2. DOMAIN list = 1..Len(list) /\ Len(list) \in Nat
  OBVIOUS
<1>3. IsFiniteSet(S)
  <2>1. IsFiniteSet(DOMAIN list)
    BY <1>2, FS_Interval
  <2> QED
    BY <1>1, <2>1, FS_Subset
<1>4. PICK n : n = Cardinality(S)
  OBVIOUS
<1>5. n \in Nat /\ ExistsBijection(1..n, S)
  BY <1>3, <1>4, FS_CardinalityType
<1>6. \E f \in [1..n -> S] : IsInjective(f)
  <2>1. PICK f \in Bijection(1..n, S) : TRUE
    BY <1>5 DEF ExistsBijection
  <2>2. f \in [1..n -> S] /\ \A a, b \in 1..n : f[a] = f[b] => a = b
    BY <2>1 DEF Bijection, Injection, IsInjective
  <2>3. DOMAIN f = 1..n
    BY <2>2
  <2> QED
    BY <2>2, <2>3 DEF IsInjective
<1>7. PICK left : left = SetToSeq(S)
  OBVIOUS
<1>8. left \in [1..n -> S]
  BY <1>4, <1>6, <1>7 DEF SetToSeq
<1>9. PICK l : l = [k \in DOMAIN left |-> list[left[k]]]
  OBVIOUS
<1>10. Without(list, ids) = l
  BY <1>1, <1>7, <1>9 DEF Without
<1>11. DOMAIN l = 1..n /\ \A k \in 1..n : l[k] \in Ids /\ l[k] \notin ids
  <2>1. DOMAIN l = 1..n
    BY <1>8, <1>9
  <2>2. \A k \in 1..n : left[k] \in S /\ l[k] = list[left[k]]
    BY <1>8, <1>9
  <2>3. \A i \in S : list[i] \in Ids /\ list[i] \notin ids
    BY <1>1, <1>2
  <2> QED
    BY <2>1, <2>2, <2>3
<1>12. l \in Seq(Ids)
  BY <1>5, <1>9, <1>11
<1>13. \A i \in S : list[i] = Undefined
  BY <1>1 DEF In
<1>14. \A k \in DOMAIN l : l[k] = Undefined
  BY <1>8, <1>9, <1>13
<1> QED
  BY <1>10, <1>12, <1>14 DEF Distinct, In

-----------------------------------------------------------------------------
(* The methods of the object.  After(u, s): u is what is left of s, with   *)
(* new processes of which nothing is known.                                *)
After(u, s) ==
  /\ u.spec = s.spec /\ s.index <= u.index
  /\ \A i \in DOMAIN u.processes : i \in DOMAIN s.processes \/ i >= s.index
  /\ \A i \in DOMAIN u.processes, r \in Rooms, t \in TaskNames :
       Entries(u, i, r, t) = 0 \/ (i \in DOMAIN s.processes /\ Entries(u, i, r, t) = Entries(s, i, r, t))

LEMMA NodesAreNumbers ==
  /\ Nodes \subseteq Nat /\ Undefined \notin Nodes /\ Nodes \subseteq Ids /\ Undefined \in Ids
  /\ \A a \in Agents : a.nodes \in Nat /\ 0..a.nodes - 1 \subseteq Nodes
<1>1. \A a \in Agents : a.nodes \in Nat
  BY NodeManagerAssumption
<1>2. \A a \in Agents : 0..a.nodes - 1 \subseteq Nodes
  BY DEF Nodes
<1>3. Nodes \subseteq Nat
  BY <1>1 DEF Nodes
<1> QED
  BY <1>1, <1>2, <1>3, NodeManagerAssumption DEF Ids

LEMMA PartialFacts ==
  ASSUME NEW D, NEW R, NEW f
  PROVE  f \in Partial(D, R) <=> f = [x \in DOMAIN f |-> f[x]] /\ DOMAIN f \subseteq D /\ \A x \in DOMAIN f : f[x] \in R
<1>1. ASSUME f \in Partial(D, R) PROVE f = [x \in DOMAIN f |-> f[x]] /\ DOMAIN f \subseteq D /\ \A x \in DOMAIN f : f[x] \in R
  <2>1. PICK S \in SUBSET D : f \in [S -> R]
    BY <1>1 DEF Partial
  <2> QED
    BY <2>1
<1>2. ASSUME f = [x \in DOMAIN f |-> f[x]], DOMAIN f \subseteq D, \A x \in DOMAIN f : f[x] \in R PROVE f \in Partial(D, R)
  <2>1. f \in [DOMAIN f -> R]
    BY <1>2
  <2> QED
    BY <1>2, <2>1 DEF Partial
<1> QED
  BY <1>1, <1>2

(* The fields of an object.                                                *)
Fields(u, a, i, l, n, p, ts, f) ==
  u = [spec |-> a, index |-> i, idle |-> l, nodes |-> n, processes |-> p, tasks |-> ts, spawn_failed |-> f]

LEMMA AfterSame ==
  ASSUME NEW u, NEW s, Object(s), u.spec = s.spec, u.index = s.index, u.tasks = s.tasks, DOMAIN u.processes \subseteq DOMAIN s.processes
  PROVE  After(u, s)
<1>1. s.index \in Int
  BY DEF Object
<1>2. \A i, r, t : Entries(u, i, r, t) = Entries(s, i, r, t)
  BY DEF Entries, Serves
<1> QED
  BY <1>1, <1>2 DEF After

LEMMA AfterTrans ==
  ASSUME NEW u, NEW v, NEW s, Object(u), Object(v), Object(s), Lists(v), After(u, v), After(v, s), DOMAIN s.processes \subseteq 0..s.index - 1
  PROVE  After(u, s)
<1>1. s.index \in Int /\ v.index \in Int /\ u.index \in Int
  BY DEF Object
<1>2. u.spec = s.spec /\ s.index <= u.index
  BY <1>1 DEF After
<1>3. DOMAIN u.processes \subseteq Nat
  <2>1. DOMAIN u.processes \subseteq Nodes
    BY PartialFacts DEF Object
  <2> QED
    BY <2>1, NodesAreNumbers
<1>4. ASSUME NEW i \in DOMAIN u.processes PROVE i \in DOMAIN s.processes \/ i >= s.index
  <2>1. CASE i \in DOMAIN v.processes
    BY <2>1 DEF After
  <2>2. CASE i >= v.index
    BY <1>1, <1>3, <2>2 DEF After
  <2> QED
    BY <2>1, <2>2 DEF After
<1>5. ASSUME NEW i \in DOMAIN u.processes, NEW r \in Rooms, NEW t \in TaskNames
      PROVE  Entries(u, i, r, t) = 0 \/ (i \in DOMAIN s.processes /\ Entries(u, i, r, t) = Entries(s, i, r, t))
  <2>1. CASE i \in DOMAIN v.processes
    BY <2>1 DEF After
  <2>2. CASE i \notin DOMAIN v.processes
    BY <2>2 DEF After
  <2> QED
    BY <2>1, <2>2
<1> QED
  BY <1>2, <1>4, <1>5 DEF After

(* A node is cleaned up.                                                   *)
LEMMA CleanupFacts ==
  ASSUME NEW s, Object(s), Lists(s), NEW id \in DOMAIN s.processes, NEW u, u = cleanupNode(s, id)
  PROVE  /\ Object(u) /\ Lists(u) /\ After(u, s) /\ u.index = s.index
         /\ DOMAIN u.processes = DOMAIN s.processes \ {id}
         /\ u.spawn_failed = s.spawn_failed
<1>1. id \in Nodes /\ id # Undefined
  BY PartialFacts, NodesAreNumbers DEF Object
<1>2. PICK p : p = Drop(s.processes, id)
  OBVIOUS
<1>3. PICK ts : ts = Drop(s.tasks, id)
  OBVIOUS
<1>4. PICK n : n = RemoveFirst(s.nodes, id)
  OBVIOUS
<1>5. PICK l : l = RemoveFirst(s.idle, id)
  OBVIOUS
<1>6. s = [spec |-> s.spec, index |-> s.index, idle |-> s.idle, nodes |-> s.nodes,
           processes |-> s.processes, tasks |-> s.tasks, spawn_failed |-> s.spawn_failed]
  BY DEF Object
<1>7. u = [s EXCEPT !.processes = p, !.tasks = ts, !.nodes = n, !.idle = l]
  BY <1>2, <1>3, <1>4, <1>5 DEF cleanupNode
<1>8. Fields(u, s.spec, s.index, l, n, p, ts, s.spawn_failed)
  BY <1>6, <1>7 DEF Fields
<1>9. /\ u.spec = s.spec /\ u.index = s.index /\ u.idle = l /\ u.nodes = n /\ u.processes = p /\ u.tasks = ts
      /\ u.spawn_failed = s.spawn_failed
      /\ u = [spec |-> u.spec, index |-> u.index, idle |-> u.idle, nodes |-> u.nodes,
              processes |-> u.processes, tasks |-> u.tasks, spawn_failed |-> u.spawn_failed]
  BY ONLY <1>8 DEF Fields
<1>10. s.idle \in Seq(Ids) /\ s.nodes \in Seq(Ids) /\ Distinct(s.idle) /\ Distinct(s.nodes)
  BY DEF Object, Lists
<1>11. l \in Seq(Ids) /\ Distinct(l) /\ In(l) = In(s.idle) \ {id}
  BY <1>1, <1>5, <1>10, RemoveFirstFacts
<1>12. n \in Seq(Ids) /\ Distinct(n) /\ In(n) = In(s.nodes) \ {id}
  BY <1>1, <1>4, <1>10, RemoveFirstFacts
<1>13. /\ p = [y \in DOMAIN p |-> p[y]] /\ DOMAIN p = DOMAIN s.processes \ {id}
       /\ \A y \in DOMAIN p : p[y] = s.processes[y]
  BY <1>2 DEF Drop
<1>14. /\ ts = [y \in DOMAIN ts |-> ts[y]] /\ DOMAIN ts = DOMAIN s.tasks \ {id}
       /\ \A y \in DOMAIN ts : ts[y] = s.tasks[y]
  BY <1>3 DEF Drop
<1>15. p \in Partial(Nodes, States)
  BY <1>13, PartialFacts DEF Object
<1>16. Object(u)
  BY <1>9, <1>11, <1>12, <1>14, <1>15 DEF Object
<1>17. Lists(u)
  BY <1>9, <1>11, <1>12, <1>13, <1>14 DEF Lists
<1>18. \A i \in DOMAIN p : \A r, t : Entries(u, i, r, t) = Entries(s, i, r, t)
  BY <1>9, <1>13, <1>14 DEF Entries, Serves
<1>19. After(u, s)
  BY <1>9, <1>13, <1>18 DEF After, Object
<1> QED
  BY <1>9, <1>13, <1>16, <1>17, <1>19

LEMMA DropNodeFacts ==
  ASSUME NEW s, Object(s), Lists(s), NEW id, NEW u, u = dropNode(s, id)
  PROVE  /\ Object(u) /\ Lists(u) /\ After(u, s) /\ u.index = s.index
         /\ DOMAIN u.processes = DOMAIN s.processes \ {id}
         /\ u.spawn_failed = s.spawn_failed
<1>1. CASE id \in DOMAIN s.processes
  BY <1>1, CleanupFacts DEF dropNode
<1>2. CASE id \notin DOMAIN s.processes
  <2>1. u = s
    BY <1>2 DEF dropNode
  <2> QED
    BY <1>2, <2>1, AfterSame
<1> QED
  BY <1>1, <1>2

LEMMA CountFacts ==
  ASSUME NEW s, Object(s)
  PROVE  nodesToStart(s) \in Nat
<1>1. PICK a : a = s.spec.prerunNodeNum
  OBVIOUS
<1>2. PICK b : b = s.spec.maxNodeNum
  OBVIOUS
<1>3. PICK x : x = Len(s.idle)
  OBVIOUS
<1>4. PICK y : y = Len(s.nodes)
  OBVIOUS
<1>5. a \in Int /\ b \in Int
  BY <1>1, <1>2, NodeManagerAssumption DEF Object
<1>6. x \in Int /\ y \in Int
  BY <1>3, <1>4 DEF Object
<1>7. \A i, j \in Int : Min({i, j}) \in Int
  BY DEF Min
<1>8. \A i \in Int : Max({0, i}) \in Nat
  BY DEF Max
<1>9. PICK n : n = IF b < 0 THEN a - x ELSE Min({a - x, b - (y + x)})
  OBVIOUS
<1>10. a - x \in Int /\ b - (y + x) \in Int
  BY <1>5, <1>6
<1>11. n \in Int
  BY <1>7, <1>9, <1>10
<1>12. nodesToStart(s) = Max({0, n})
  BY <1>1, <1>2, <1>3, <1>4, <1>9 DEF nodesToStart
<1> QED
  BY <1>8, <1>11, <1>12

LEMMA FillFacts ==
  ASSUME NEW s, Object(s), Lists(s), Bounded(s), NEW u, u = fillNodes(s)
  PROVE  /\ Object(u) /\ Lists(u) /\ After(u, s)
         /\ Launched(s) \subseteq Nodes
         /\ DOMAIN u.processes = DOMAIN s.processes \cup Launched(s)
<1>1. PICK k : k = nodesToStart(s)
  OBVIOUS
<1>2. k \in Nat /\ s.index \in Nat /\ s.spec \in Agents /\ s.spec.nodes \in Nat /\ s.index + k <= s.spec.nodes
  BY <1>1, CountFacts, NodeManagerAssumption DEF Object, Bounded
<1>3. Launched(s) = s.index..s.index + k - 1
  BY <1>1 DEF Launched
<1>4. Launched(s) \subseteq 0..s.spec.nodes - 1
  BY <1>2, <1>3
<1>5. Launched(s) \subseteq Nodes
  BY <1>2, <1>4, NodesAreNumbers
<1>6. PICK born : born = Launched(s)
  OBVIOUS
<1>7. PICK q : q = [i \in 1..k |-> s.index + i - 1]
  OBVIOUS
<1>8. PICK p : p = [n \in DOMAIN s.processes \cup born |-> IF n \in DOMAIN s.processes THEN s.processes[n] ELSE "starting"]
  OBVIOUS
<1>9. PICK ts : ts = [n \in DOMAIN s.tasks \cup born |-> IF n \in DOMAIN s.tasks THEN s.tasks[n] ELSE <<>>]
  OBVIOUS
<1>10. PICK l : l = s.idle \o q
  OBVIOUS
<1>11. s = [spec |-> s.spec, index |-> s.index, idle |-> s.idle, nodes |-> s.nodes,
            processes |-> s.processes, tasks |-> s.tasks, spawn_failed |-> s.spawn_failed]
  BY DEF Object
<1>12. u = [s EXCEPT !.index = s.index + k, !.idle = l, !.processes = p, !.tasks = ts]
  BY <1>1, <1>6, <1>7, <1>8, <1>9, <1>10 DEF fillNodes
<1>13. Fields(u, s.spec, s.index + k, l, s.nodes, p, ts, s.spawn_failed)
  BY <1>11, <1>12 DEF Fields
<1>14. /\ u.spec = s.spec /\ u.index = s.index + k /\ u.idle = l /\ u.nodes = s.nodes /\ u.processes = p /\ u.tasks = ts
       /\ u.spawn_failed = s.spawn_failed
       /\ u = [spec |-> u.spec, index |-> u.index, idle |-> u.idle, nodes |-> u.nodes,
               processes |-> u.processes, tasks |-> u.tasks, spawn_failed |-> u.spawn_failed]
  BY ONLY <1>13 DEF Fields
<1>15. \A i \in 1..k : q[i] \in born /\ q[i] = s.index + i - 1
  BY <1>2, <1>3, <1>6, <1>7
<1>16. q \in Seq(Ids) /\ DOMAIN q = 1..k
  <2>1. \A i \in 1..k : q[i] \in Ids
    BY <1>5, <1>6, <1>15, NodesAreNumbers
  <2> QED
    BY <1>2, <1>7, <2>1
<1>17. Distinct(q)
  BY <1>2, <1>15, <1>16 DEF Distinct
<1>18. In(q) = born
  <2>1. \A x \in born : x - s.index + 1 \in 1..k /\ s.index + (x - s.index + 1) - 1 = x
    BY <1>2, <1>3, <1>6
  <2>2. \A x \in born : \E i \in 1..k : q[i] = x
    BY <1>15, <2>1
  <2>3. Undefined \notin born
    BY <1>5, <1>6, NodesAreNumbers
  <2> QED
    BY <1>15, <1>16, <2>2, <2>3 DEF In
<1>19. /\ s.idle \in Seq(Ids) /\ s.nodes \in Seq(Ids) /\ Distinct(s.idle) /\ Distinct(s.nodes)
       /\ In(s.idle) \cap In(s.nodes) = {} /\ In(s.idle) \cup In(s.nodes) = DOMAIN s.processes
       /\ DOMAIN s.processes \subseteq 0..s.index - 1
       /\ DOMAIN s.tasks \subseteq 0..s.index - 1 \cup {Undefined}
  BY DEF Object, Lists
<1>20. \A x \in born : x \notin 0..s.index - 1 /\ x # Undefined
  BY <1>2, <1>3, <1>5, <1>6, NodesAreNumbers
<1>21. In(s.idle) \cap In(q) = {}
  BY <1>18, <1>19, <1>20
<1>22. l \in Seq(Ids) /\ Distinct(l) /\ In(l) = In(s.idle) \cup born
  BY <1>10, <1>16, <1>17, <1>18, <1>19, <1>21, ConcatFacts
<1>23. DOMAIN p = DOMAIN s.processes \cup born /\ p = [y \in DOMAIN p |-> p[y]]
  BY <1>8
<1>24. p \in Partial(Nodes, States)
  <2>1. DOMAIN s.processes \subseteq Nodes /\ \A n \in DOMAIN s.processes : s.processes[n] \in States
    BY PartialFacts DEF Object
  <2>2. \A n \in DOMAIN p : p[n] \in States
    BY <1>8, <2>1 DEF States
  <2> QED
    BY <1>5, <1>6, <1>23, <2>1, <2>2, PartialFacts
<1>25. DOMAIN ts = DOMAIN s.tasks \cup born /\ ts = [y \in DOMAIN ts |-> ts[y]]
  BY <1>9
<1>26. IsTable(<<>>)
  <2>1. PICK e : e = <<>>
    OBVIOUS
  <2>2. DOMAIN e = {} /\ e = [r \in DOMAIN e |-> e[r]]
    BY <2>1
  <2> QED
    BY <2>1, <2>2 DEF IsTable
<1>27. \A i \in DOMAIN ts : ts[i] = NoRooms \/ IsTable(ts[i])
  BY <1>9, <1>26 DEF Object
<1>28. Object(u)
  BY <1>2, <1>14, <1>19, <1>22, <1>24, <1>25, <1>27 DEF Object
<1>29. Lists(u)
  <2>1. In(l) \cap In(s.nodes) = {} /\ In(l) \cup In(s.nodes) = DOMAIN p
    BY <1>19, <1>20, <1>22, <1>23
  <2>2. 0..s.index - 1 \subseteq 0..(s.index + k) - 1 /\ born \subseteq 0..(s.index + k) - 1
    BY <1>2, <1>3, <1>6
  <2> QED
    BY <1>14, <1>19, <1>22, <1>23, <1>25, <2>1, <2>2 DEF Lists
<1>30. \A i \in DOMAIN p, r \in Rooms, t \in TaskNames :
         Entries(u, i, r, t) = IF i \in DOMAIN s.processes THEN Entries(s, i, r, t) ELSE 0
  <2>1. TAKE i \in DOMAIN p, r \in Rooms, t \in TaskNames
  <2>2. CASE i \in DOMAIN s.processes
    <3>1. i \notin born
      BY <1>19, <1>20, <2>2
    <3> QED
      BY <1>9, <1>14, <1>25, <2>2, <3>1 DEF Entries, Serves
  <2>3. CASE i \notin DOMAIN s.processes
    <3>1. i \in born /\ i \notin DOMAIN s.tasks
      BY <1>19, <1>20, <1>23, <2>3
    <3>2. ts[i] = <<>>
      BY <1>9, <3>1
    <3>3. ~Serves(u, i, r)
      BY <1>14, <3>2 DEF Serves
    <3> QED
      BY <2>3, <3>3 DEF Entries
  <2> QED
    BY <2>2, <2>3
<1>31. \A i \in DOMAIN p : i \in DOMAIN s.processes \/ i >= s.index
  BY <1>2, <1>3, <1>6, <1>23
<1>32. After(u, s)
  BY <1>2, <1>14, <1>30, <1>31 DEF After
<1> QED
  BY <1>5, <1>6, <1>14, <1>23, <1>28, <1>29, <1>32

(* An idle node is picked for a room.                                      *)
LEMMA PickFacts ==
  ASSUME NEW s, Object(s), Lists(s), s.idle # <<>>, NEW room \in Rooms, NEW u, u = pickInIdle(s, room)
  PROVE  /\ Object(u) /\ Lists(u) /\ After(u, s) /\ u.index = s.index
         /\ u.processes = s.processes
<1>1. PICK id : id = Head(s.idle)
  OBVIOUS
<1>2. /\ s.idle \in Seq(Ids) /\ s.nodes \in Seq(Ids) /\ Distinct(s.idle) /\ Distinct(s.nodes)
      /\ In(s.idle) \cap In(s.nodes) = {} /\ In(s.idle) \cup In(s.nodes) = DOMAIN s.processes
      /\ DOMAIN s.processes \subseteq 0..s.index - 1
      /\ DOMAIN s.tasks \subseteq 0..s.index - 1 \cup {Undefined}
  BY DEF Object, Lists
<1>3. PICK l : l = Tail(s.idle)
  OBVIOUS
<1>4. /\ id \in Ids /\ (id # Undefined => id \in In(s.idle))
      /\ l \in Seq(Ids) /\ Distinct(l) /\ In(l) = In(s.idle) \ {id}
  BY <1>1, <1>2, <1>3, TailFacts
<1>5. PICK n : n = Append(s.nodes, id)
  OBVIOUS
<1>6. Undefined \notin In(s.idle) /\ Undefined \notin In(s.nodes)
  BY DEF In
<1>7. id \notin In(s.nodes)
  BY <1>2, <1>4, <1>6
<1>8. n \in Seq(Ids) /\ Distinct(n) /\ In(n) = (In(s.nodes) \cup {id}) \ {Undefined}
  BY <1>2, <1>4, <1>5, <1>7, AppendFacts
<1>9. PICK old : old = IF id \in DOMAIN s.tasks /\ s.tasks[id] # NoRooms THEN s.tasks[id] ELSE <<>>
  OBVIOUS
<1>10. PICK new : new = IF room \in DOMAIN old THEN old ELSE Put(old, room, NoTasks)
  OBVIOUS
<1>11. PICK ts : ts = Put(s.tasks, id, new)
  OBVIOUS
<1>12. s = [spec |-> s.spec, index |-> s.index, idle |-> s.idle, nodes |-> s.nodes,
            processes |-> s.processes, tasks |-> s.tasks, spawn_failed |-> s.spawn_failed]
  BY DEF Object
<1>13. u = [s EXCEPT !.idle = l, !.nodes = n, !.tasks = ts]
  BY <1>1, <1>3, <1>5, <1>9, <1>10, <1>11 DEF pickInIdle
<1>14. Fields(u, s.spec, s.index, l, n, s.processes, ts, s.spawn_failed)
  BY <1>12, <1>13 DEF Fields
<1>15. /\ u.spec = s.spec /\ u.index = s.index /\ u.idle = l /\ u.nodes = n /\ u.processes = s.processes /\ u.tasks = ts
       /\ u.spawn_failed = s.spawn_failed
       /\ u = [spec |-> u.spec, index |-> u.index, idle |-> u.idle, nodes |-> u.nodes,
               processes |-> u.processes, tasks |-> u.tasks, spawn_failed |-> u.spawn_failed]
  BY ONLY <1>14 DEF Fields
<1>16. IsTable(old)
  <2>1. CASE id \in DOMAIN s.tasks /\ s.tasks[id] # NoRooms
    BY <1>9, <2>1 DEF Object
  <2>2. CASE ~(id \in DOMAIN s.tasks /\ s.tasks[id] # NoRooms)
    <3>1. old = <<>>
      BY <1>9, <2>2
    <3>2. DOMAIN old = {} /\ old = [r \in DOMAIN old |-> old[r]]
      BY <3>1
    <3> QED
      BY <3>2 DEF IsTable
  <2> QED
    BY <2>1, <2>2
<1>17. NoTasks \in [TaskNames -> Nat] /\ \A t \in TaskNames : NoTasks[t] = 0
  BY DEF NoTasks
<1>18. IsTable(new) /\ (\A r \in DOMAIN old : r \in DOMAIN new /\ new[r] = old[r])
       /\ (\A r \in DOMAIN new : r \in DOMAIN old \/ new[r] = NoTasks)
  <2>1. CASE room \in DOMAIN old
    BY <1>10, <1>16, <2>1
  <2>2. CASE room \notin DOMAIN old
    <3>1. /\ new = [y \in DOMAIN new |-> new[y]] /\ DOMAIN new = DOMAIN old \cup {room}
          /\ new[room] = NoTasks /\ \A y \in DOMAIN old : y # room => new[y] = old[y]
      BY <1>10, <2>2 DEF Put
    <3> QED
      BY <1>16, <1>17, <2>2, <3>1 DEF IsTable
  <2> QED
    BY <2>1, <2>2
<1>19. /\ ts = [y \in DOMAIN ts |-> ts[y]] /\ DOMAIN ts = DOMAIN s.tasks \cup {id}
       /\ ts[id] = new /\ \A y \in DOMAIN s.tasks : y # id => ts[y] = s.tasks[y]
  BY <1>11 DEF Put
<1>20. Object(u)
  <2>1. \A i \in DOMAIN ts : ts[i] = NoRooms \/ IsTable(ts[i])
    BY <1>18, <1>19 DEF Object
  <2> QED
    BY <1>4, <1>8, <1>15, <1>19, <2>1 DEF Object
<1>21. Lists(u)
  <2>1. In(l) \cap In(n) = {} /\ In(l) \cup In(n) = DOMAIN s.processes
    BY <1>2, <1>4, <1>6, <1>8
  <2>2. id \in 0..s.index - 1 \cup {Undefined}
    BY <1>2, <1>4
  <2> QED
    BY <1>2, <1>4, <1>8, <1>15, <1>19, <2>1, <2>2 DEF Lists
<1>22. \A i \in DOMAIN s.processes, r \in Rooms, t \in TaskNames :
         Entries(u, i, r, t) = 0 \/ Entries(u, i, r, t) = Entries(s, i, r, t)
  <2>1. TAKE i \in DOMAIN s.processes, r \in Rooms, t \in TaskNames
  <2>2. CASE i # id
    BY <1>15, <1>19, <2>2 DEF Entries, Serves
  <2>3. CASE i = id
    <3>1. Serves(s, i, r) => r \in DOMAIN old /\ old = s.tasks[id]
      BY <1>9, <2>3 DEF Serves
    <3>2. ~Serves(s, i, r) => r \notin DOMAIN old
      BY <1>9, <2>3 DEF Serves
    <3>3. CASE Serves(s, i, r)
      <4>1. new[r] = s.tasks[id][r]
        BY <1>18, <3>1, <3>3
      <4> QED
        BY <1>15, <1>19, <2>3, <3>3, <4>1 DEF Entries, Serves
    <3>4. CASE ~Serves(s, i, r)
      <4>1. Serves(u, i, r) => u.tasks[i][r] = NoTasks
        BY <1>15, <1>18, <1>19, <2>3, <3>2, <3>4 DEF Serves
      <4> QED
        BY <1>17, <3>4, <4>1 DEF Entries
    <3> QED
      BY <3>3, <3>4
  <2> QED
    BY <2>2, <2>3
<1>23. After(u, s)
  BY <1>15, <1>22 DEF After, Object
<1> QED
  BY <1>15, <1>20, <1>21, <1>23

(* All nodes are dropped.                                                  *)
LEMMA DropAllFacts ==
  ASSUME NEW s, Object(s), Lists(s), NEW u, u = dropAllNodes(s)
  PROVE  Object(u) /\ Lists(u) /\ After(u, s) /\ u.index = s.index /\ DOMAIN u.processes = {}
<1>1. PICK ids : ids = DOMAIN s.processes
  OBVIOUS
<1>2. /\ s.idle \in Seq(Ids) /\ s.nodes \in Seq(Ids)
      /\ In(s.idle) \subseteq ids /\ In(s.nodes) \subseteq ids
      /\ DOMAIN s.tasks \subseteq 0..s.index - 1 \cup {Undefined}
  BY <1>1 DEF Object, Lists
<1>3. PICK l : l = Without(s.idle, ids)
  OBVIOUS
<1>4. PICK n : n = Without(s.nodes, ids)
  OBVIOUS
<1>5. PICK p : p = <<>>
  OBVIOUS
<1>6. PICK ts : ts = [id \in DOMAIN s.tasks \ ids |-> s.tasks[id]]
  OBVIOUS
<1>7. l \in Seq(Ids) /\ Distinct(l) /\ In(l) = {}
  BY <1>2, <1>3, WithoutFacts
<1>8. n \in Seq(Ids) /\ Distinct(n) /\ In(n) = {}
  BY <1>2, <1>4, WithoutFacts
<1>9. s = [spec |-> s.spec, index |-> s.index, idle |-> s.idle, nodes |-> s.nodes,
           processes |-> s.processes, tasks |-> s.tasks, spawn_failed |-> s.spawn_failed]
  BY DEF Object
<1>10. u = [s EXCEPT !.spawn_failed = TRUE, !.processes = p, !.tasks = ts, !.nodes = n, !.idle = l]
  BY <1>1, <1>3, <1>4, <1>5, <1>6 DEF dropAllNodes
<1>11. Fields(u, s.spec, s.index, l, n, p, ts, TRUE)
  BY <1>9, <1>10 DEF Fields
<1>12. /\ u.spec = s.spec /\ u.index = s.index /\ u.idle = l /\ u.nodes = n /\ u.processes = p /\ u.tasks = ts
       /\ u.spawn_failed = TRUE
       /\ u = [spec |-> u.spec, index |-> u.index, idle |-> u.idle, nodes |-> u.nodes,
               processes |-> u.processes, tasks |-> u.tasks, spawn_failed |-> u.spawn_failed]
  BY ONLY <1>11 DEF Fields
<1>13. DOMAIN p = {} /\ p = [x \in DOMAIN p |-> p[x]]
  BY <1>5
<1>14. p \in Partial(Nodes, States)
  BY <1>13, PartialFacts
<1>15. /\ DOMAIN ts \subseteq DOMAIN s.tasks /\ ts = [i \in DOMAIN ts |-> ts[i]]
       /\ \A i \in DOMAIN ts : ts[i] = s.tasks[i]
  BY <1>6
<1>16. Object(u)
  BY <1>7, <1>8, <1>12, <1>14, <1>15 DEF Object
<1>17. Lists(u)
  BY <1>2, <1>7, <1>8, <1>12, <1>13, <1>15 DEF Lists
<1>18. After(u, s)
  BY <1>12, <1>13 DEF After, Object
<1> QED
  BY <1>12, <1>13, <1>16, <1>17, <1>18

(* Only the flag changes.                                                  *)
LEMMA FlagFacts ==
  ASSUME NEW s, Object(s), Lists(s), NEW b \in BOOLEAN, NEW u, u = [s EXCEPT !.spawn_failed = b]
  PROVE  Object(u) /\ Lists(u) /\ After(u, s) /\ u.index = s.index /\ u.processes = s.processes
<1>1. s = [spec |-> s.spec, index |-> s.index, idle |-> s.idle, nodes |-> s.nodes,
           processes |-> s.processes, tasks |-> s.tasks, spawn_failed |-> s.spawn_failed]
  BY DEF Object
<1>2. Fields(u, s.spec, s.index, s.idle, s.nodes, s.processes, s.tasks, b)
  BY <1>1 DEF Fields
<1>3. /\ u.spec = s.spec /\ u.index = s.index /\ u.idle = s.idle /\ u.nodes = s.nodes /\ u.processes = s.processes
      /\ u.tasks = s.tasks /\ u.spawn_failed = b
      /\ u = [spec |-> u.spec, index |-> u.index, idle |-> u.idle, nodes |-> u.nodes,
              processes |-> u.processes, tasks |-> u.tasks, spawn_failed |-> u.spawn_failed]
  BY ONLY <1>2 DEF Fields
<1>4. Object(u)
  BY <1>3 DEF Object
<1>5. Lists(u)
  BY <1>3 DEF Lists
<1> QED
  BY <1>3, <1>4, <1>5, AfterSame

(* A process gets another state.                                           *)
LEMMA StateFacts ==
  ASSUME NEW s, Object(s), Lists(s), NEW id \in DOMAIN s.processes, NEW st \in States, NEW b \in BOOLEAN,
         NEW u, u = [s EXCEPT !.spawn_failed = b, !.processes[id] = st]
  PROVE  Object(u) /\ Lists(u) /\ After(u, s) /\ u.index = s.index /\ DOMAIN u.processes = DOMAIN s.processes
<1>1. s = [spec |-> s.spec, index |-> s.index, idle |-> s.idle, nodes |-> s.nodes,
           processes |-> s.processes, tasks |-> s.tasks, spawn_failed |-> s.spawn_failed]
  BY DEF Object
<1>2. PICK p : p = [s.processes EXCEPT ![id] = st]
  OBVIOUS
<1>3. Fields(u, s.spec, s.index, s.idle, s.nodes, p, s.tasks, b)
  BY <1>1, <1>2 DEF Fields
<1>4. /\ u.spec = s.spec /\ u.index = s.index /\ u.idle = s.idle /\ u.nodes = s.nodes /\ u.processes = p
      /\ u.tasks = s.tasks /\ u.spawn_failed = b
      /\ u = [spec |-> u.spec, index |-> u.index, idle |-> u.idle, nodes |-> u.nodes,
              processes |-> u.processes, tasks |-> u.tasks, spawn_failed |-> u.spawn_failed]
  BY ONLY <1>3 DEF Fields
<1>5. DOMAIN p = DOMAIN s.processes /\ p = [x \in DOMAIN p |-> p[x]] /\ \A x \in DOMAIN p : p[x] = st \/ p[x] = s.processes[x]
  BY <1>2
<1>6. p \in Partial(Nodes, States)
  BY <1>5, PartialFacts DEF Object
<1>7. Object(u)
  BY <1>4, <1>6 DEF Object
<1>8. Lists(u)
  BY <1>4, <1>5 DEF Lists
<1>9. DOMAIN u.processes \subseteq DOMAIN s.processes
  BY <1>4, <1>5
<1>10. After(u, s)
  BY <1>4, <1>9, AfterSame
<1> QED
  BY <1>4, <1>5, <1>7, <1>8, <1>10

(* The oldest busy node is an idle one again.                              *)
LEMMA ReuseFacts ==
  ASSUME NEW s, Object(s), Lists(s), NEW u,
         u = [s EXCEPT !.nodes = IF s.nodes = <<>> THEN s.nodes ELSE Tail(s.nodes),
                       !.idle = Append(s.idle, IF s.nodes = <<>> THEN Undefined ELSE Head(s.nodes))]
  PROVE  Object(u) /\ Lists(u) /\ After(u, s) /\ u.index = s.index /\ u.processes = s.processes
<1>1. PICK id : id = IF s.nodes = <<>> THEN Undefined ELSE Head(s.nodes)
  OBVIOUS
<1>2. PICK n : n = IF s.nodes = <<>> THEN s.nodes ELSE Tail(s.nodes)
  OBVIOUS
<1>3. PICK l : l = Append(s.idle, id)
  OBVIOUS
<1>4. /\ s.idle \in Seq(Ids) /\ s.nodes \in Seq(Ids) /\ Distinct(s.idle) /\ Distinct(s.nodes)
      /\ In(s.idle) \cap In(s.nodes) = {} /\ In(s.idle) \cup In(s.nodes) = DOMAIN s.processes
  BY DEF Object, Lists
<1>5. Undefined \notin In(s.idle) /\ Undefined \notin In(s.nodes)
  BY DEF In
<1>6. /\ id \in Ids /\ (id # Undefined => id \in In(s.nodes))
      /\ n \in Seq(Ids) /\ Distinct(n) /\ In(n) = In(s.nodes) \ {id}
  <2>1. CASE s.nodes = <<>>
    <3>1. id = Undefined /\ n = s.nodes
      BY <1>1, <1>2, <2>1
    <3> QED
      BY <1>4, <1>5, <3>1, NodesAreNumbers
  <2>2. CASE s.nodes # <<>>
    <3>1. id = Head(s.nodes) /\ n = Tail(s.nodes)
      BY <1>1, <1>2, <2>2
    <3> QED
      BY <1>4, <2>2, <3>1, TailFacts
  <2> QED
    BY <2>1, <2>2
<1>7. id \notin In(s.idle)
  BY <1>4, <1>5, <1>6
<1>8. l \in Seq(Ids) /\ Distinct(l) /\ In(l) = (In(s.idle) \cup {id}) \ {Undefined}
  BY <1>3, <1>4, <1>6, <1>7, AppendFacts
<1>9. s = [spec |-> s.spec, index |-> s.index, idle |-> s.idle, nodes |-> s.nodes,
           processes |-> s.processes, tasks |-> s.tasks, spawn_failed |-> s.spawn_failed]
  BY DEF Object
<1>10. u = [s EXCEPT !.nodes = n, !.idle = l]
  BY <1>1, <1>2, <1>3
<1>11. Fields(u, s.spec, s.index, l, n, s.processes, s.tasks, s.spawn_failed)
  BY <1>9, <1>10 DEF Fields
<1>12. /\ u.spec = s.spec /\ u.index = s.index /\ u.idle = l /\ u.nodes = n /\ u.processes = s.processes
       /\ u.tasks = s.tasks /\ u.spawn_failed = s.spawn_failed
       /\ u = [spec |-> u.spec, index |-> u.index, idle |-> u.idle, nodes |-> u.nodes,
               processes |-> u.processes, tasks |-> u.tasks, spawn_failed |-> u.spawn_failed]
  BY ONLY <1>11 DEF Fields
<1>13. Object(u)
  BY <1>6, <1>8, <1>12 DEF Object
<1>14. Lists(u)
  <2>1. In(l) \cap In(n) = {} /\ In(l) \cup In(n) = DOMAIN s.processes
    BY <1>4, <1>5, <1>6, <1>8
  <2> QED
    BY <1>6, <1>8, <1>12, <2>1 DEF Lists
<1> QED
  BY <1>12, <1>13, <1>14, AfterSame

(* The tables of the tasks of one node are replaced.                       *)
LEMMA TasksFacts ==
  ASSUME NEW s, Object(s), Lists(s), NEW id, id \in 0..s.index - 1, NEW ts,
         ts = [i \in DOMAIN ts |-> ts[i]], DOMAIN ts = DOMAIN s.tasks \cup {id},
         ts[id] = NoRooms \/ IsTable(ts[id]), \A i \in DOMAIN s.tasks : i # id => ts[i] = s.tasks[i],
         NEW u, u = [s EXCEPT !.tasks = ts]
  PROVE  /\ Object(u) /\ Lists(u) /\ u.index = s.index /\ u.processes = s.processes /\ u.spec = s.spec /\ u.tasks = ts
         /\ \A i, r, t : i # id => Entries(u, i, r, t) = Entries(s, i, r, t)
<1>1. s = [spec |-> s.spec, index |-> s.index, idle |-> s.idle, nodes |-> s.nodes,
           processes |-> s.processes, tasks |-> s.tasks, spawn_failed |-> s.spawn_failed]
  BY DEF Object
<1>2. Fields(u, s.spec, s.index, s.idle, s.nodes, s.processes, ts, s.spawn_failed)
  BY <1>1 DEF Fields
<1>3. /\ u.spec = s.spec /\ u.index = s.index /\ u.idle = s.idle /\ u.nodes = s.nodes /\ u.processes = s.processes
      /\ u.tasks = ts /\ u.spawn_failed = s.spawn_failed
      /\ u = [spec |-> u.spec, index |-> u.index, idle |-> u.idle, nodes |-> u.nodes,
              processes |-> u.processes, tasks |-> u.tasks, spawn_failed |-> u.spawn_failed]
  BY ONLY <1>2 DEF Fields
<1>4. \A i \in DOMAIN ts : ts[i] = NoRooms \/ IsTable(ts[i])
  BY DEF Object
<1>5. Object(u)
  BY <1>3, <1>4 DEF Object
<1>6. Lists(u)
  BY <1>3 DEF Lists
<1>7. \A i, r, t : i # id => Entries(u, i, r, t) = Entries(s, i, r, t)
  BY <1>3 DEF Entries, Serves
<1> QED
  BY <1>3, <1>5, <1>6, <1>7

-----------------------------------------------------------------------------
(* The invariant after a step.                                             *)
LEMMA StepIInv ==
  ASSUME NEW u, NEW k, NEW w, m' = u, calls' = k, workerTasks' = w,
         Object(u), Lists(u), Types', CallsOK(u, k), EntriesKnown(u, w), EntriesHeld(u, k), HeldKnown(u, k, w)
  PROVE  IInv'
  BY DEF IInv

LEMMA IndexFacts ==
  ASSUME NEW s, Object(s), Lists(s)
  PROVE  /\ s.index \in Nat /\ s.spec \in Agents
         /\ DOMAIN s.processes \subseteq 0..s.index - 1 /\ DOMAIN s.processes \subseteq Nodes
         /\ \A id, r, t : t \in TaskNames => Entries(s, id, r, t) \in Nat
<1>1. s.index \in Nat /\ s.spec \in Agents /\ DOMAIN s.processes \subseteq 0..s.index - 1
  BY DEF Object, Lists
<1>2. DOMAIN s.processes \subseteq Nodes
  BY PartialFacts DEF Object
<1>3. ASSUME NEW id, NEW r, NEW t, t \in TaskNames PROVE Entries(s, id, r, t) \in Nat
  <2>1. CASE Serves(s, id, r)
    <3>1. IsTable(s.tasks[id]) /\ r \in DOMAIN s.tasks[id]
      BY <2>1 DEF Serves, Object
    <3>2. s.tasks[id][r] \in [TaskNames -> Nat]
      BY <3>1 DEF IsTable
    <3> QED
      BY <1>3, <2>1, <3>2 DEF Entries
  <2>2. CASE ~Serves(s, id, r)
    BY <2>2 DEF Entries
  <2> QED
    BY <2>1, <2>2
<1> QED
  BY <1>1, <1>2, <1>3

(* What is left of the object, and callers that give up what they wait for *)
(* or ask for.                                                             *)
LEMMA CalmIInv ==
  ASSUME IInv, NEW u, m' = u, Object(u), Lists(u), After(u, m), Types', workerTasks' = workerTasks,
         NEW k, calls' = k, k = [c \in Callers |-> k[c]],
         \A c \in Callers :
           \/ k[c] = calls[c]
           \/ /\ k[c].status # "holding" /\ (m.spec.recycles => calls[c].status # "holding")
              /\ k[c].status # "none" => k[c].node \in 0..u.index - 1 /\ k[c].ask \in m.spec.asks[c]
  PROVE  IInv'
<1>1. Object(m) /\ Lists(m) /\ CallsOK(m, calls) /\ EntriesKnown(m, workerTasks) /\ EntriesHeld(m, calls) /\ HeldKnown(m, calls, workerTasks)
  BY DEF IInv
<1>2. /\ m.index \in Nat /\ u.index \in Nat /\ u.spec = m.spec /\ m.index <= u.index
      /\ DOMAIN u.processes \subseteq 0..u.index - 1
      /\ \A i \in DOMAIN u.processes : i \in DOMAIN m.processes \/ i >= m.index
      /\ \A i \in DOMAIN u.processes, r \in Rooms, t \in TaskNames :
           Entries(u, i, r, t) = 0 \/ (i \in DOMAIN m.processes /\ Entries(u, i, r, t) = Entries(m, i, r, t))
  BY <1>1, IndexFacts DEF After
<1>3. CallsOK(u, k)
  <2>1. 0..m.index - 1 \subseteq 0..u.index - 1
    BY <1>2
  <2> QED
    BY <1>1, <1>2, <2>1 DEF CallsOK
<1>4. EntriesKnown(u, workerTasks)
  BY <1>1, <1>2 DEF EntriesKnown
<1>5. EntriesHeld(u, k)
  <2>1. SUFFICES ASSUME m.spec.recycles, NEW id \in DOMAIN u.processes, NEW r \in Rooms, NEW t \in TaskNames,
                        Entries(u, id, r, t) > 0
                 PROVE  Entries(u, id, r, t) = 1 /\ \E c \in Callers : Holds(k, c, id, r, t)
    BY <1>2 DEF EntriesHeld
  <2>2. id \in DOMAIN m.processes /\ Entries(u, id, r, t) = Entries(m, id, r, t)
    BY <1>2, <2>1
  <2>3. Entries(m, id, r, t) = 1 /\ \E c \in Callers : Holds(calls, c, id, r, t)
    BY <1>1, <2>1, <2>2 DEF EntriesHeld
  <2>4. PICK c \in Callers : Holds(calls, c, id, r, t)
    BY <2>3
  <2>5. k[c] = calls[c]
    BY <2>1, <2>4 DEF Holds
  <2> QED
    BY <2>2, <2>3, <2>4, <2>5 DEF Holds
<1>6. HeldKnown(u, k, workerTasks)
  <2>1. SUFFICES ASSUME NEW c \in Callers, k[c].status = "holding", k[c].node \in DOMAIN u.processes
                 PROVE  k[c].ask.task \in workerTasks
    BY DEF HeldKnown
  <2>2. k[c] = calls[c]
    BY <2>1
  <2>3. calls[c].node \in 0..m.index - 1
    BY <1>1, <2>1, <2>2 DEF CallsOK
  <2>4. calls[c].node \in DOMAIN m.processes
    BY <1>2, <2>1, <2>2, <2>3
  <2> QED
    BY <1>1, <2>1, <2>2, <2>4 DEF HeldKnown
<1> QED
  BY <1>3, <1>4, <1>5, <1>6, StepIInv

LEMMA AfterIInv ==
  ASSUME IInv, NEW u, m' = u, Object(u), Lists(u), After(u, m), Types', UNCHANGED <<calls, workerTasks>>
  PROVE  IInv'
<1>1. PICK k : k = calls
  OBVIOUS
<1>2. calls' = k /\ k = [c \in Callers |-> k[c]] /\ \A c \in Callers : k[c] = calls[c]
  BY <1>1 DEF IInv, CallsOK
<1> QED
  BY <1>2, CalmIInv

(* One caller's call changes, and it holds nothing.                        *)
LEMMA CallIInv ==
  ASSUME IInv, NEW u, m' = u, Object(u), Lists(u), After(u, m), Types', workerTasks' = workerTasks,
         NEW c \in Callers, m.spec.recycles => calls[c].status # "holding", NEW e, calls' = [calls EXCEPT ![c] = e],
         e.status # "holding", e.status # "none" => e.node \in 0..u.index - 1 /\ e.ask \in m.spec.asks[c]
  PROVE  IInv'
<1>1. PICK k : k = [calls EXCEPT ![c] = e]
  OBVIOUS
<1>2. calls' = k
  BY <1>1
<1>3. calls = [d \in Callers |-> calls[d]]
  BY DEF IInv, CallsOK
<1>4. k = [d \in Callers |-> k[d]] /\ k[c] = e /\ \A d \in Callers : d # c => k[d] = calls[d]
  BY <1>1, <1>3
<1> QED
  BY <1>2, <1>4, CalmIInv

LEMMA RejectIInv ==
  ASSUME IInv, NEW u, Object(u), Lists(u), After(u, m), Types',
         NEW c \in Callers, m.spec.recycles => calls[c].status # "holding", NEW id \in 0..u.index - 1, Reject(u, c, id)
  PROVE  IInv'
<1>1. PICK ts : ts = Put(u.tasks, id, NoRooms)
  OBVIOUS
<1>2. PICK v : v = [u EXCEPT !.tasks = ts]
  OBVIOUS
<1>3. m' = v /\ calls' = [calls EXCEPT ![c] = NoCall] /\ workerTasks' = workerTasks
  BY <1>1, <1>2 DEF Reject, Refused
<1>4. /\ ts = [i \in DOMAIN ts |-> ts[i]] /\ DOMAIN ts = DOMAIN u.tasks \cup {id} /\ ts[id] = NoRooms
      /\ \A i \in DOMAIN u.tasks : i # id => ts[i] = u.tasks[i]
  BY <1>1 DEF Put
<1>5. /\ Object(v) /\ Lists(v) /\ v.index = u.index /\ v.processes = u.processes /\ v.spec = u.spec /\ v.tasks = ts
      /\ \A i, r, t : i # id => Entries(v, i, r, t) = Entries(u, i, r, t)
  BY <1>2, <1>4, TasksFacts
<1>6. \A r, t : Entries(v, id, r, t) = 0
  BY <1>4, <1>5 DEF Entries, Serves
<1>7. After(v, m)
  BY <1>5, <1>6 DEF After
<1>8. NoCall.status = "none"
  BY DEF NoCall
<1> QED
  BY <1>3, <1>5, <1>7, <1>8, CallIInv

LEMMA AsksFacts ==
  ASSUME NEW s \in Agents, NEW c \in Callers, NEW a \in s.asks[c]
  PROVE  /\ a.room \in Rooms /\ a.task \in TaskNames
         /\ s.recycles => \A d \in Callers : \A b \in s.asks[d] : b.task = a.task => d = c
<1>1. s.asks \in [Callers -> SUBSET Ask]
  BY NodeManagerAssumption
<1>2. a \in Ask
  BY <1>1
<1>3. a.room \in Rooms /\ a.task \in TaskNames
  BY <1>2 DEF Ask
<1>4. s.recycles => \A d \in Callers : \A b \in s.asks[d] : b.task = a.task => d = c
  BY NodeManagerAssumption
<1> QED
  BY <1>3, <1>4

(* One more entry of a task.                                               *)
LEMMA AddFacts ==
  ASSUME NEW s, Object(s), Lists(s), NEW id \in DOMAIN s.processes, NEW a, a.room \in Rooms, a.task \in TaskNames,
         Serves(s, id, a.room), NEW u, u = addTask(s, id, a)
  PROVE  /\ Object(u) /\ Lists(u) /\ u.index = s.index /\ u.processes = s.processes /\ u.spec = s.spec
         /\ s.tasks[id][a.room][a.task] = Entries(s, id, a.room, a.task)
         /\ Entries(u, id, a.room, a.task) = Entries(s, id, a.room, a.task) + 1
         /\ \A i, r, t : t \in TaskNames /\ (i # id \/ r # a.room \/ t # a.task) => Entries(u, i, r, t) = Entries(s, i, r, t)
<1>1. PICK tab : tab = s.tasks[id]
  OBVIOUS
<1>2. id \in DOMAIN s.tasks /\ tab # NoRooms /\ a.room \in DOMAIN tab /\ IsTable(tab)
  BY <1>1 DEF Serves, Object
<1>3. PICK row : row = tab[a.room]
  OBVIOUS
<1>4. row \in [TaskNames -> Nat]
  BY <1>2, <1>3 DEF IsTable
<1>5. PICK row1 : row1 = [row EXCEPT ![a.task] = row[a.task] + 1]
  OBVIOUS
<1>6. row1 \in [TaskNames -> Nat] /\ row1[a.task] = row[a.task] + 1 /\ \A t \in TaskNames : t # a.task => row1[t] = row[t]
  BY <1>4, <1>5
<1>7. PICK tab1 : tab1 = [tab EXCEPT ![a.room] = row1]
  OBVIOUS
<1>8. tab = [r \in DOMAIN tab |-> tab[r]] /\ DOMAIN tab \subseteq Rooms /\ \A r \in DOMAIN tab : tab[r] \in [TaskNames -> Nat]
  BY <1>2 DEF IsTable
<1>9. /\ DOMAIN tab1 = DOMAIN tab /\ tab1 = [r \in DOMAIN tab1 |-> tab1[r]]
      /\ tab1[a.room] = row1 /\ \A r \in DOMAIN tab : r # a.room => tab1[r] = tab[r]
  BY <1>2, <1>7
<1>10. IsTable(tab1)
  BY <1>6, <1>8, <1>9 DEF IsTable
<1>11. tab1 # NoRooms
  <2>1. \A r \in DOMAIN tab1 : tab1[r] \in [TaskNames -> Nat]
    BY <1>10 DEF IsTable
  <2>2. tab1 \in [DOMAIN tab1 -> [TaskNames -> Nat]]
    BY <1>9, <2>1
  <2>3. DOMAIN tab1 \in SUBSET Rooms
    BY <1>8, <1>9
  <2> QED
    BY <2>2, <2>3, NodeManagerAssumption
<1>12. PICK ts : ts = [s.tasks EXCEPT ![id] = tab1]
  OBVIOUS
<1>13. s.tasks = [i \in DOMAIN s.tasks |-> s.tasks[i]]
  BY DEF Object
<1>14. /\ ts = [i \in DOMAIN ts |-> ts[i]] /\ DOMAIN ts = DOMAIN s.tasks /\ ts[id] = tab1
       /\ \A i \in DOMAIN s.tasks : i # id => ts[i] = s.tasks[i]
  BY <1>2, <1>12, <1>13
<1>15. u = [s EXCEPT !.tasks = ts]
  BY <1>1, <1>3, <1>5, <1>7, <1>12 DEF addTask
<1>16. id \in 0..s.index - 1 /\ DOMAIN ts = DOMAIN s.tasks \cup {id}
  BY <1>2, <1>14 DEF Lists
<1>17. /\ Object(u) /\ Lists(u) /\ u.index = s.index /\ u.processes = s.processes /\ u.spec = s.spec /\ u.tasks = ts
       /\ \A i, r, t : i # id => Entries(u, i, r, t) = Entries(s, i, r, t)
  BY <1>10, <1>14, <1>15, <1>16, TasksFacts
<1>18. \A r : Serves(u, id, r) <=> Serves(s, id, r)
  BY <1>1, <1>2, <1>9, <1>11, <1>14, <1>17 DEF Serves
<1>19. Serves(u, id, a.room)
  BY <1>18
<1>20. s.tasks[id][a.room][a.task] = Entries(s, id, a.room, a.task)
  BY DEF Entries
<1>21. Entries(u, id, a.room, a.task) = Entries(s, id, a.room, a.task) + 1
  BY <1>1, <1>3, <1>6, <1>9, <1>14, <1>17, <1>19, <1>20 DEF Entries
<1>22. ASSUME NEW r, NEW t, t \in TaskNames, r # a.room \/ t # a.task PROVE Entries(u, id, r, t) = Entries(s, id, r, t)
  <2>1. CASE Serves(s, id, r)
    <3>1. r \in DOMAIN tab /\ u.tasks[id][r] = tab1[r] /\ s.tasks[id][r] = tab[r]
      BY <1>1, <1>14, <1>17, <2>1 DEF Serves
    <3>2. tab1[r][t] = tab[r][t]
      BY <1>3, <1>6, <1>9, <1>22, <3>1
    <3> QED
      BY <1>18, <2>1, <3>1, <3>2 DEF Entries
  <2>2. CASE ~Serves(s, id, r)
    BY <1>18, <2>2 DEF Entries
  <2> QED
    BY <2>1, <2>2
<1> QED
  BY <1>17, <1>20, <1>21, <1>22

LEMMA ResolveIInv ==
  ASSUME IInv, NEW s, Object(s), Lists(s), After(s, m), s.index = m.index, s.processes = m.processes, Types',
         NEW c \in Callers, m.spec.recycles => calls[c].status # "holding",
         NEW id \in DOMAIN s.processes, NEW a \in m.spec.asks[c], Resolve(s, c, id, a)
  PROVE  IInv'
<1>1. id \in 0..s.index - 1
  BY DEF Lists
<1>2. CASE ~Serves(s, id, a.room)
  <2>1. Reject(s, c, id)
    BY <1>2 DEF Resolve
  <2> QED
    BY <1>1, <2>1, RejectIInv
<1>3. CASE Serves(s, id, a.room)
  <2>1. Object(m) /\ Lists(m) /\ CallsOK(m, calls) /\ EntriesKnown(m, workerTasks) /\ EntriesHeld(m, calls) /\ HeldKnown(m, calls, workerTasks)
    BY DEF IInv
  <2>2. m.spec \in Agents
    BY <2>1, IndexFacts
  <2>3. /\ a.room \in Rooms /\ a.task \in TaskNames
        /\ m.spec.recycles => \A d \in Callers : \A b \in m.spec.asks[d] : b.task = a.task => d = c
    BY <2>2, AsksFacts
  <2>4. PICK v : v = addTask(s, id, a)
    OBVIOUS
  <2>5. PICK w : w = IF s.tasks[id][a.room][a.task] = 0 THEN workerTasks \cup {a.task} ELSE workerTasks
    OBVIOUS
  <2>6. PICK e : e = [status |-> "holding", node |-> id, ask |-> a]
    OBVIOUS
  <2>7. PICK k : k = [calls EXCEPT ![c] = e]
    OBVIOUS
  <2>8. m' = v /\ workerTasks' = w /\ calls' = k
    BY <1>3, <2>4, <2>5, <2>6, <2>7 DEF Resolve, Answered
  <2>9. PICK n : n = Entries(s, id, a.room, a.task)
    OBVIOUS
  <2>10. /\ Object(v) /\ Lists(v) /\ v.index = m.index /\ v.processes = m.processes /\ v.spec = m.spec
         /\ Entries(v, id, a.room, a.task) = n + 1
         /\ \A i, r, t : t \in TaskNames /\ (i # id \/ r # a.room \/ t # a.task) => Entries(v, i, r, t) = Entries(s, i, r, t)
         /\ s.tasks[id][a.room][a.task] = n
    BY <1>3, <2>3, <2>4, <2>9, AddFacts DEF After
  <2>11. n \in Nat
    BY <2>3, <2>9, IndexFacts
  <2>12. \A i \in DOMAIN m.processes, r \in Rooms, t \in TaskNames :
           Entries(s, i, r, t) = 0 \/ Entries(s, i, r, t) = Entries(m, i, r, t)
    BY DEF After
  <2>13. n > 0 => n = Entries(m, id, a.room, a.task)
    BY <2>3, <2>9, <2>11, <2>12
  <2>14. a.task \in w /\ workerTasks \subseteq w /\ w \subseteq TaskNames
    <3>1. CASE n = 0
      <4>1. w = workerTasks \cup {a.task}
        BY <2>5, <2>10, <3>1
      <4> QED
        BY <2>1, <2>3, <4>1 DEF EntriesKnown
    <3>2. CASE n # 0
      <4>1. w = workerTasks
        BY <2>5, <2>10, <3>2
      <4>2. Entries(m, id, a.room, a.task) > 0
        BY <2>11, <2>13, <3>2
      <4>3. a.task \in workerTasks
        BY <2>1, <2>3, <4>2 DEF EntriesKnown
      <4> QED
        BY <2>1, <4>1, <4>3 DEF EntriesKnown
    <3> QED
      BY <3>1, <3>2
  <2>15. /\ k = [d \in Callers |-> k[d]] /\ k[c] = e /\ \A d \in Callers : d # c => k[d] = calls[d]
         /\ e.status = "holding" /\ e.node = id /\ e.ask = a
    <3>1. calls = [d \in Callers |-> calls[d]]
      BY <2>1 DEF CallsOK
    <3> QED
      BY <2>6, <2>7, <3>1
  <2>16. CallsOK(v, k)
    BY <1>1, <2>1, <2>10, <2>15 DEF CallsOK
  <2>17. EntriesKnown(v, w)
    <3>1. SUFFICES ASSUME NEW i \in DOMAIN m.processes, NEW r \in Rooms, NEW t \in TaskNames, Entries(v, i, r, t) > 0
                   PROVE  t \in w
      BY <2>10, <2>14 DEF EntriesKnown
    <3>2. CASE i = id /\ r = a.room /\ t = a.task
      BY <2>14, <3>2
    <3>3. CASE i # id \/ r # a.room \/ t # a.task
      <4>1. Entries(v, i, r, t) = Entries(s, i, r, t)
        BY <2>10, <3>3
      <4>2. Entries(m, i, r, t) > 0
        BY <2>12, <3>1, <4>1
      <4> QED
        BY <2>1, <2>14, <4>2 DEF EntriesKnown
    <3> QED
      BY <3>2, <3>3
  <2>18. EntriesHeld(v, k)
    <3>1. SUFFICES ASSUME m.spec.recycles, NEW i \in DOMAIN m.processes, NEW r \in Rooms, NEW t \in TaskNames,
                          Entries(v, i, r, t) > 0
                   PROVE  Entries(v, i, r, t) = 1 /\ \E d \in Callers : Holds(k, d, i, r, t)
      BY <2>10 DEF EntriesHeld
    <3>2. CASE i = id /\ r = a.room /\ t = a.task
      <4>1. n = 0
        <5>1. SUFFICES ASSUME n # 0 PROVE FALSE
          OBVIOUS
        <5>2. Entries(m, id, a.room, a.task) > 0
          BY <2>11, <2>13, <5>1
        <5>3. PICK d \in Callers : Holds(calls, d, id, a.room, a.task)
          BY <2>1, <2>3, <3>1, <5>2 DEF EntriesHeld
        <5>4. calls[d].status = "holding" /\ calls[d].ask.task = a.task /\ calls[d].ask \in m.spec.asks[d]
          BY <2>1, <5>3 DEF Holds, CallsOK
        <5>5. d = c
          BY <2>3, <3>1, <5>4
        <5> QED
          BY <3>1, <5>4, <5>5
      <4>2. Holds(k, c, i, r, t)
        BY <2>15, <3>2 DEF Holds
      <4> QED
        BY <2>10, <3>2, <4>1, <4>2
    <3>3. CASE i # id \/ r # a.room \/ t # a.task
      <4>1. Entries(v, i, r, t) = Entries(s, i, r, t)
        BY <2>10, <3>3
      <4>2. Entries(v, i, r, t) = Entries(m, i, r, t)
        BY <2>12, <3>1, <4>1
      <4>3. Entries(m, i, r, t) = 1
        BY <2>1, <3>1, <4>2 DEF EntriesHeld
      <4>4. PICK d \in Callers : Holds(calls, d, i, r, t)
        BY <2>1, <3>1, <4>2 DEF EntriesHeld
      <4>5. d # c
        BY <3>1, <4>4 DEF Holds
      <4>6. Holds(k, d, i, r, t)
        BY <2>15, <4>4, <4>5 DEF Holds
      <4> QED
        BY <4>2, <4>3, <4>6
    <3> QED
      BY <3>2, <3>3
  <2>19. HeldKnown(v, k, w)
    <3>1. SUFFICES ASSUME NEW d \in Callers, k[d].status = "holding", k[d].node \in DOMAIN m.processes PROVE k[d].ask.task \in w
      BY <2>10 DEF HeldKnown
    <3>2. CASE d = c
      BY <2>14, <2>15, <3>2
    <3>3. CASE d # c
      BY <2>1, <2>14, <2>15, <3>1, <3>3 DEF HeldKnown
    <3> QED
      BY <3>2, <3>3
  <2> QED
    BY <2>8, <2>10, <2>16, <2>17, <2>18, <2>19, StepIInv
<1> QED
  BY <1>2, <1>3

LEMMA GotIInv ==
  ASSUME IInv, NEW s, Object(s), Lists(s), After(s, m), s.index = m.index, s.processes = m.processes, Types',
         NEW c \in Callers, m.spec.recycles => calls[c].status # "holding",
         NEW id, id = Undefined \/ id \in DOMAIN s.processes, NEW a \in m.spec.asks[c], Got(s, c, id, a)
  PROVE  IInv'
<1>1. NoCall.status = "none"
  BY DEF NoCall
<1>2. CASE id = Undefined
  <2>1. m' = s /\ calls' = [calls EXCEPT ![c] = NoCall] /\ workerTasks' = workerTasks
    BY <1>2 DEF Got, Refused
  <2> QED
    BY <1>1, <2>1, CallIInv
<1>3. CASE id # Undefined /\ s.processes[id] = "ready"
  <2>1. Resolve(s, c, id, a)
    BY <1>3 DEF Got
  <2> QED
    BY <1>3, <2>1, ResolveIInv
<1>4. CASE id # Undefined /\ s.processes[id] # "ready"
  <2>1. PICK e : e = [status |-> "waiting", node |-> id, ask |-> a]
    OBVIOUS
  <2>2. m' = s /\ calls' = [calls EXCEPT ![c] = e] /\ workerTasks' = workerTasks
    BY <1>4, <2>1 DEF Got
  <2>3. e.status = "waiting" /\ e.node \in 0..s.index - 1 /\ e.ask \in m.spec.asks[c]
    BY <1>4, <2>1 DEF Lists
  <2> QED
    BY <2>2, <2>3, CallIInv
<1> QED
  BY <1>2, <1>3, <1>4

(* A node that is found is in the list.                                    *)
LEMMA FindFacts ==
  ASSUME NEW s, NEW list \in Seq(Ids), NEW room
  PROVE  findIn(s, list, room) = Undefined \/ findIn(s, list, room) \in In(list)
<1>1. PICK I : I = {i \in 1..Len(list) : Serves(s, list[i], room)}
  OBVIOUS
<1>2. PICK k : k = SelectInSeq(list, LAMBDA id : Serves(s, id, room))
  OBVIOUS
<1>3. findIn(s, list, room) = IF k > 0 THEN list[k] ELSE Undefined
  BY <1>2 DEF findIn
<1>4. CASE I = {}
  <2>1. k = 0
    BY <1>1, <1>2, <1>4 DEF SelectInSeq
  <2> QED
    BY <1>3, <2>1
<1>5. CASE I # {}
  <2>1. I \in SUBSET Nat
    BY <1>1
  <2>2. PICK x \in I : \A y \in I : x <= y
    BY <1>5, <2>1, Least
  <2>3. k = Min(I)
    BY <1>1, <1>2, <1>5 DEF SelectInSeq
  <2>4. k \in I
    BY <2>2, <2>3 DEF Min
  <2>5. k \in DOMAIN list
    BY <1>1, <2>4
  <2> QED
    BY <1>3, <2>5 DEF In
<1> QED
  BY <1>4, <1>5

LEMMA UsedFacts ==
  ASSUME NEW s, Object(s), Lists(s), NEW room
  PROVE  findNodeUsedByRoom(s, room) = Undefined \/ findNodeUsedByRoom(s, room) \in DOMAIN s.processes
<1>1. findIn(s, s.nodes, room) = Undefined \/ findIn(s, s.nodes, room) \in In(s.nodes)
  BY FindFacts DEF Object
<1>2. findIn(s, s.idle, room) = Undefined \/ findIn(s, s.idle, room) \in In(s.idle)
  BY FindFacts DEF Object
<1> QED
  BY <1>1, <1>2 DEF findNodeUsedByRoom, Lists

-----------------------------------------------------------------------------
(* One step of the invariant for each action.                              *)
LEMMA GetNodeIInv ==
  ASSUME IInv, NEW c \in Callers, NEW a \in m.spec.asks[c], getNode(c, a)
  PROVE  IInv'
<1>1. PICK s : s = m
  OBVIOUS
<1>2. Object(s) /\ Lists(s) /\ After(s, m) /\ s.index = m.index /\ s.processes = m.processes /\ Object(m) /\ Lists(m)
  BY <1>1, AfterSame DEF IInv
<1>3. m.spec.recycles => calls[c].status # "holding"
  BY DEF getNode, MayAsk
<1>4. PICK used : used = IF m.spec.consumeNodeByRoom THEN findNodeUsedByRoom(m, a.room) ELSE Undefined
  OBVIOUS
<1>5. used = Undefined \/ used \in DOMAIN m.processes
  BY <1>2, <1>4, UsedFacts
<1>6. children' = children /\ watched' = watched /\ (fills' = fills \/ fills' = fills + 1)
  BY <1>4 DEF getNode
<1>7. Types'
  BY <1>6 DEF Types, IInv
<1>8. CASE used # Undefined
  <2>1. Got(s, c, used, a)
    BY <1>1, <1>4, <1>8 DEF getNode
  <2> QED
    BY <1>2, <1>3, <1>5, <1>7, <1>8, <2>1, GotIInv
<1>9. CASE used = Undefined /\ m.idle = <<>>
  <2>1. m' = s /\ calls' = [calls EXCEPT ![c] = NoCall] /\ workerTasks' = workerTasks
    BY <1>1, <1>4, <1>9 DEF getNode, Refused
  <2>2. NoCall.status = "none"
    BY DEF NoCall
  <2> QED
    BY <1>2, <1>3, <1>7, <2>1, <2>2, CallIInv
<1>10. CASE used = Undefined /\ m.idle # <<>>
  <2>1. PICK u : u = pickInIdle(m, a.room)
    OBVIOUS
  <2>2. PICK id : id = Head(m.idle)
    OBVIOUS
  <2>3. Got(u, c, id, a)
    BY <1>4, <1>10, <2>1, <2>2 DEF getNode
  <2>4. a.room \in Rooms
    BY <1>2, IndexFacts, AsksFacts
  <2>5. Object(u) /\ Lists(u) /\ After(u, m) /\ u.index = m.index /\ u.processes = m.processes
    BY <1>2, <1>10, <2>1, <2>4, PickFacts
  <2>6. id = Undefined \/ id \in DOMAIN m.processes
    <3>1. m.idle \in Seq(Ids) /\ Distinct(m.idle) /\ In(m.idle) \subseteq DOMAIN m.processes
      BY <1>2 DEF Object, Lists
    <3>2. PICK list : list = m.idle
      OBVIOUS
    <3>3. Head(list) # Undefined => Head(list) \in In(list)
      BY <1>10, <3>1, <3>2, TailFacts
    <3> QED
      BY <2>2, <3>1, <3>2, <3>3
  <2> QED
    BY <1>3, <1>7, <2>3, <2>5, <2>6, GotIInv
<1> QED
  BY <1>8, <1>9, <1>10

(* Processes that are killed keep an entry in the table of children.       *)
LEMMA KilledTypes ==
  ASSUME Types, NEW ids, Killed(ids)
  PROVE  /\ children' \in Partial(Nodes, {"running", "killed", "late"})
         /\ watched' \subseteq Nodes
<1>1. PICK k : k = [n \in DOMAIN children |->
                      IF n \notin ids THEN children[n]
                      ELSE IF m.processes[n] = "starting" THEN "late" ELSE "killed"]
  OBVIOUS
<1>2. children' = k /\ watched' = watched \ ids
  BY <1>1 DEF Killed
<1>3. PICK old : old = children
  OBVIOUS
<1>4. DOMAIN old \subseteq Nodes /\ \A n \in DOMAIN old : old[n] \in {"running", "killed", "late"}
  BY <1>3, PartialFacts DEF Types
<1>5. DOMAIN k = DOMAIN old /\ k = [n \in DOMAIN k |-> k[n]] /\ \A n \in DOMAIN k : k[n] \in {"running", "killed", "late"}
  BY <1>1, <1>3, <1>4
<1>6. k \in Partial(Nodes, {"running", "killed", "late"})
  BY <1>4, <1>5, PartialFacts
<1> QED
  BY <1>2, <1>6 DEF Types

LEMMA WaitOverIInv ==
  ASSUME IInv, NEW c \in Callers, WaitOver(c)
  PROVE  IInv'
<1>1. PICK s : s = m
  OBVIOUS
<1>2. Object(s) /\ Lists(s) /\ After(s, m) /\ s.index = m.index /\ s.processes = m.processes /\ Object(m) /\ Lists(m)
  BY <1>1, AfterSame DEF IInv
<1>3. PICK id : id = calls[c].node
  OBVIOUS
<1>4. calls[c].status = "waiting" /\ id \in 0..m.index - 1 /\ calls[c].ask \in m.spec.asks[c]
  BY <1>3 DEF WaitOver, IInv, CallsOK
<1>5. CASE id \in DOMAIN m.processes /\ m.processes[id] = "ready"
  <2>1. Resolve(s, c, id, calls[c].ask) /\ UNCHANGED <<children, watched, fills>>
    BY <1>1, <1>3, <1>5 DEF WaitOver
  <2>2. Types'
    BY <2>1 DEF Types, IInv
  <2> QED
    BY <1>2, <1>4, <1>5, <2>1, <2>2, ResolveIInv
<1>6. CASE ~(id \in DOMAIN m.processes /\ m.processes[id] = "ready")
  <2>1. PICK u : u = dropNode(m, id)
    OBVIOUS
  <2>2. Reject(u, c, id) /\ KillIf(m, id) /\ UNCHANGED fills
    BY <1>3, <1>6, <2>1 DEF WaitOver
  <2>3. Object(u) /\ Lists(u) /\ After(u, m) /\ u.index = m.index
    BY <1>2, <2>1, DropNodeFacts
  <2>4. Types'
    BY <2>2, KilledTypes DEF Types, IInv, KillIf
  <2> QED
    BY <1>4, <2>2, <2>3, <2>4, RejectIInv
<1> QED
  BY <1>5, <1>6

(* An entry of a task is taken out.                                        *)
LEMMA LeftFacts ==
  ASSUME NEW s, Object(s), Lists(s), NEW id \in 0..s.index - 1, NEW a, a.room \in Rooms, a.task \in TaskNames,
         Serves(s, id, a.room), NEW u, u = RoomLeft(s, id, a)
  PROVE  /\ Object(u) /\ Lists(u) /\ u.index = s.index /\ u.processes = s.processes /\ u.spec = s.spec
         /\ Entries(s, id, a.room, a.task) \in {0, 1} => Entries(u, id, a.room, a.task) = 0
         /\ \A i, r, t : t \in TaskNames /\ (i # id \/ r # a.room \/ t # a.task) => Entries(u, i, r, t) = Entries(s, i, r, t)
<1>1. PICK tab : tab = s.tasks[id]
  OBVIOUS
<1>2. id \in DOMAIN s.tasks /\ tab # NoRooms /\ a.room \in DOMAIN tab /\ IsTable(tab)
  BY <1>1 DEF Serves, Object
<1>3. PICK row : row = tab[a.room]
  OBVIOUS
<1>4. row \in [TaskNames -> Nat]
  BY <1>2, <1>3 DEF IsTable
<1>5. PICK left : left = [row EXCEPT ![a.task] = IF row[a.task] > 0 THEN row[a.task] - 1 ELSE 0]
  OBVIOUS
<1>6. /\ left \in [TaskNames -> Nat] /\ \A t \in TaskNames : t # a.task => left[t] = row[t]
      /\ row[a.task] \in {0, 1} => left[a.task] = 0
  <2>1. row[a.task] \in Nat
    BY <1>4
  <2>2. (IF row[a.task] > 0 THEN row[a.task] - 1 ELSE 0) \in Nat
    BY <2>1
  <2>3. left[a.task] = IF row[a.task] > 0 THEN row[a.task] - 1 ELSE 0
    BY <1>4, <1>5
  <2> QED
    BY <1>4, <1>5, <2>1, <2>2, <2>3
<1>7. tab = [r \in DOMAIN tab |-> tab[r]] /\ DOMAIN tab \subseteq Rooms /\ \A r \in DOMAIN tab : tab[r] \in [TaskNames -> Nat]
  BY <1>2 DEF IsTable
<1>8. PICK tab1 : tab1 = IF \A t \in TaskNames : left[t] = 0 THEN Drop(tab, a.room) ELSE [tab EXCEPT ![a.room] = left]
  OBVIOUS
<1>9. /\ tab1 = [r \in DOMAIN tab1 |-> tab1[r]] /\ DOMAIN tab1 \subseteq DOMAIN tab
      /\ \A r \in DOMAIN tab : r # a.room => r \in DOMAIN tab1 /\ tab1[r] = tab[r]
      /\ a.room \in DOMAIN tab1 => tab1[a.room] = left
      /\ a.room \notin DOMAIN tab1 => \A t \in TaskNames : left[t] = 0
  <2>1. CASE \A t \in TaskNames : left[t] = 0
    <3>1. tab1 = Drop(tab, a.room)
      BY <1>8, <2>1
    <3> QED
      BY <2>1, <3>1 DEF Drop
  <2>2. CASE ~(\A t \in TaskNames : left[t] = 0)
    <3>1. tab1 = [tab EXCEPT ![a.room] = left]
      BY <1>8, <2>2
    <3> QED
      BY <1>2, <1>7, <3>1
  <2> QED
    BY <2>1, <2>2
<1>10. IsTable(tab1)
  BY <1>6, <1>7, <1>9 DEF IsTable
<1>11. tab1 # NoRooms
  <2>1. \A r \in DOMAIN tab1 : tab1[r] \in [TaskNames -> Nat]
    BY <1>10 DEF IsTable
  <2>2. tab1 \in [DOMAIN tab1 -> [TaskNames -> Nat]]
    BY <1>9, <2>1
  <2>3. DOMAIN tab1 \in SUBSET Rooms
    BY <1>7, <1>9
  <2> QED
    BY <2>2, <2>3, NodeManagerAssumption
<1>12. PICK ts : ts = [s.tasks EXCEPT ![id] = tab1]
  OBVIOUS
<1>13. s.tasks = [i \in DOMAIN s.tasks |-> s.tasks[i]]
  BY DEF Object
<1>14. /\ ts = [i \in DOMAIN ts |-> ts[i]] /\ DOMAIN ts = DOMAIN s.tasks /\ ts[id] = tab1
       /\ \A i \in DOMAIN s.tasks : i # id => ts[i] = s.tasks[i]
  BY <1>2, <1>12, <1>13
<1>15. u = [s EXCEPT !.tasks = ts]
  <2>1. CASE \A t \in TaskNames : left[t] = 0
    <3>1. tab1 = Drop(tab, a.room)
      BY <1>8, <2>1
    <3>2. u = [s EXCEPT !.tasks[id] = Drop(s.tasks[id], a.room)]
      BY <1>1, <1>3, <1>5, <2>1 DEF RoomLeft
    <3> QED
      BY <1>1, <1>12, <3>1, <3>2
  <2>2. CASE ~(\A t \in TaskNames : left[t] = 0)
    <3>1. tab1 = [tab EXCEPT ![a.room] = left]
      BY <1>8, <2>2
    <3>2. u = [s EXCEPT !.tasks[id][a.room] = left]
      BY <1>1, <1>3, <1>5, <2>2 DEF RoomLeft
    <3> QED
      BY <1>1, <1>12, <3>1, <3>2
  <2> QED
    BY <2>1, <2>2
<1>16. DOMAIN ts = DOMAIN s.tasks \cup {id}
  BY <1>2, <1>14
<1>17. /\ Object(u) /\ Lists(u) /\ u.index = s.index /\ u.processes = s.processes /\ u.spec = s.spec /\ u.tasks = ts
       /\ \A i, r, t : i # id => Entries(u, i, r, t) = Entries(s, i, r, t)
  BY <1>10, <1>14, <1>15, <1>16, TasksFacts
<1>18. \A r : Serves(u, id, r) <=> r \in DOMAIN tab1
  BY <1>2, <1>11, <1>14, <1>17 DEF Serves
<1>19. \A r : Serves(s, id, r) <=> r \in DOMAIN tab
  BY <1>1, <1>2 DEF Serves
<1>20. \A r, t : Entries(u, id, r, t) = IF r \in DOMAIN tab1 THEN tab1[r][t] ELSE 0
  BY <1>14, <1>17, <1>18 DEF Entries
<1>21. \A r, t : Entries(s, id, r, t) = IF r \in DOMAIN tab THEN tab[r][t] ELSE 0
  BY <1>1, <1>19 DEF Entries
<1>22. Entries(s, id, a.room, a.task) \in {0, 1} => Entries(u, id, a.room, a.task) = 0
  BY <1>2, <1>3, <1>6, <1>9, <1>20, <1>21
<1>23. ASSUME NEW r, NEW t, t \in TaskNames, r # a.room \/ t # a.task PROVE Entries(u, id, r, t) = Entries(s, id, r, t)
  <2>1. CASE r # a.room
    <3>1. r \in DOMAIN tab1 <=> r \in DOMAIN tab
      BY <1>9, <2>1
    <3> QED
      BY <1>9, <1>20, <1>21, <2>1, <3>1
  <2>2. CASE r = a.room
    <3>1. Entries(s, id, r, t) = row[t] /\ left[t] = row[t]
      BY <1>2, <1>3, <1>6, <1>21, <1>23, <2>2
    <3>2. Entries(u, id, r, t) = left[t]
      BY <1>9, <1>20, <1>23, <2>2
    <3> QED
      BY <3>1, <3>2
  <2> QED
    BY <2>1, <2>2
<1> QED
  BY <1>17, <1>22, <1>23

(* A caller gives back what it holds.                                      *)
LEMMA GiveBackIInv ==
  ASSUME IInv, Types', m.spec.recycles, NEW c \in Callers, calls[c].status = "holding", calls' = [calls EXCEPT ![c] = NoCall],
         NEW v, m' = v, Object(v), Lists(v), After(v, m), v.index = m.index,
         calls[c].node \in DOMAIN v.processes => Entries(v, calls[c].node, calls[c].ask.room, calls[c].ask.task) = 0,
         NEW w, workerTasks' = w, w = workerTasks \/ w = workerTasks \ {calls[c].ask.task}
  PROVE  IInv'
<1>1. Object(m) /\ Lists(m) /\ CallsOK(m, calls) /\ EntriesKnown(m, workerTasks) /\ EntriesHeld(m, calls) /\ HeldKnown(m, calls, workerTasks)
  BY DEF IInv
<1>2. PICK a : a = calls[c].ask
  OBVIOUS
<1>3. a \in m.spec.asks[c]
  BY <1>1, <1>2 DEF CallsOK
<1>4. /\ a.room \in Rooms /\ a.task \in TaskNames
      /\ \A d \in Callers : \A b \in m.spec.asks[d] : b.task = a.task => d = c
  BY <1>1, <1>3, AsksFacts, IndexFacts
<1>5. ASSUME NEW d \in Callers, calls[d].status = "holding", calls[d].ask.task = a.task PROVE d = c
  BY <1>1, <1>4, <1>5 DEF CallsOK
<1>6. PICK k : k = [calls EXCEPT ![c] = NoCall]
  OBVIOUS
<1>7. calls' = k /\ k = [d \in Callers |-> k[d]] /\ k[c].status = "none" /\ \A d \in Callers : d # c => k[d] = calls[d]
  BY <1>1, <1>6 DEF CallsOK, NoCall
<1>8. /\ v.spec = m.spec /\ DOMAIN v.processes \subseteq DOMAIN m.processes
      /\ \A i \in DOMAIN v.processes, r \in Rooms, t \in TaskNames :
           Entries(v, i, r, t) = 0 \/ Entries(v, i, r, t) = Entries(m, i, r, t)
  <2>1. \A i \in DOMAIN v.processes : i < m.index /\ i \in Int
    BY IndexFacts
  <2>2. \A i \in DOMAIN v.processes : i \in DOMAIN m.processes \/ i >= m.index
    BY DEF After
  <2>3. m.index \in Int
    BY <1>1, IndexFacts
  <2>4. DOMAIN v.processes \subseteq DOMAIN m.processes
    BY <2>1, <2>2, <2>3
  <2> QED
    BY <2>4 DEF After
<1>9. CallsOK(v, k)
  BY <1>1, <1>7, <1>8 DEF CallsOK
<1>10. ASSUME NEW i \in DOMAIN v.processes, NEW r \in Rooms, NEW t \in TaskNames, Entries(v, i, r, t) > 0
       PROVE  Entries(v, i, r, t) = 1 /\ \E d \in Callers : d # c /\ Holds(calls, d, i, r, t)
  <2>1. Entries(v, i, r, t) = Entries(m, i, r, t) /\ i \in DOMAIN m.processes
    BY <1>8, <1>10
  <2>2. Entries(m, i, r, t) = 1
    BY <1>1, <1>10, <2>1 DEF EntriesHeld
  <2>3. PICK d \in Callers : Holds(calls, d, i, r, t)
    BY <1>1, <1>10, <2>1 DEF EntriesHeld
  <2>4. d # c
    <3>1. SUFFICES ASSUME d = c PROVE FALSE
      OBVIOUS
    <3>2. i = calls[c].node /\ r = a.room /\ t = a.task
      BY <1>2, <2>3, <3>1 DEF Holds
    <3> QED
      BY <1>2, <1>10, <3>2
  <2> QED
    BY <2>1, <2>2, <2>3, <2>4
<1>11. EntriesKnown(v, w)
  <2>1. SUFFICES ASSUME NEW i \in DOMAIN v.processes, NEW r \in Rooms, NEW t \in TaskNames, Entries(v, i, r, t) > 0 PROVE t \in w
    BY <1>1 DEF EntriesKnown
  <2>2. PICK d \in Callers : d # c /\ Holds(calls, d, i, r, t)
    BY <1>10, <2>1
  <2>3. t # a.task
    BY <1>5, <2>2 DEF Holds
  <2>4. t \in workerTasks
    <3>1. Entries(m, i, r, t) > 0 /\ i \in DOMAIN m.processes
      BY <1>8, <2>1
    <3> QED
      BY <1>1, <3>1 DEF EntriesKnown
  <2> QED
    BY <1>2, <2>3, <2>4
<1>12. EntriesHeld(v, k)
  <2>1. SUFFICES ASSUME NEW i \in DOMAIN v.processes, NEW r \in Rooms, NEW t \in TaskNames, Entries(v, i, r, t) > 0
                 PROVE  Entries(v, i, r, t) = 1 /\ \E d \in Callers : Holds(k, d, i, r, t)
    BY DEF EntriesHeld
  <2>2. PICK d \in Callers : d # c /\ Holds(calls, d, i, r, t)
    BY <1>10, <2>1
  <2>3. Holds(k, d, i, r, t)
    BY <1>7, <2>2 DEF Holds
  <2> QED
    BY <1>10, <2>1, <2>3
<1>13. HeldKnown(v, k, w)
  <2>1. SUFFICES ASSUME NEW d \in Callers, k[d].status = "holding", k[d].node \in DOMAIN v.processes PROVE k[d].ask.task \in w
    BY DEF HeldKnown
  <2>2. d # c /\ k[d] = calls[d]
    BY <1>7, <2>1
  <2>3. calls[d].ask.task \in workerTasks
    BY <1>1, <1>8, <2>1, <2>2 DEF HeldKnown
  <2>4. calls[d].ask.task # a.task
    BY <1>5, <2>1, <2>2
  <2> QED
    BY <1>2, <2>2, <2>3, <2>4
<1> QED
  BY <1>7, <1>9, <1>11, <1>12, <1>13, StepIInv

LEMMA RecycleIInv ==
  ASSUME IInv, NEW c \in Callers, recycleNode(c)
  PROVE  IInv'
<1>1. Object(m) /\ Lists(m) /\ EntriesHeld(m, calls) /\ CallsOK(m, calls)
  BY DEF IInv
<1>2. PICK id : id = calls[c].node
  OBVIOUS
<1>3. PICK a : a = calls[c].ask
  OBVIOUS
<1>4. calls[c].status = "holding" /\ m.spec.recycles /\ calls' = [calls EXCEPT ![c] = NoCall] /\ fills' = fills
  BY DEF recycleNode, Refused
<1>5. id \in 0..m.index - 1 /\ a \in m.spec.asks[c]
  BY <1>1, <1>2, <1>3, <1>4 DEF CallsOK
<1>6. a.room \in Rooms /\ a.task \in TaskNames
  BY <1>1, <1>5, AsksFacts, IndexFacts
<1>7. Entries(m, id, a.room, a.task) \in {0, 1} \/ id \notin DOMAIN m.processes
  <2>1. SUFFICES ASSUME id \in DOMAIN m.processes PROVE Entries(m, id, a.room, a.task) \in {0, 1}
    OBVIOUS
  <2>2. Entries(m, id, a.room, a.task) \in Nat
    BY <1>1, <1>6, IndexFacts
  <2>3. Entries(m, id, a.room, a.task) > 0 => Entries(m, id, a.room, a.task) = 1
    BY <1>1, <1>4, <1>6, <2>1 DEF EntriesHeld
  <2> QED
    BY <2>2, <2>3
<1>8. CASE Serves(m, id, a.room)
  <2>1. PICK left : left = RoomLeft(m, id, a)
    OBVIOUS
  <2>2. PICK v : v = IF left.tasks[id] = <<>> THEN dropNode(left, id) ELSE left
    OBVIOUS
  <2>3. PICK w : w = IF ~Serves(left, id, a.room) \/ left.tasks[id][a.room][a.task] = 0 THEN workerTasks \ {a.task} ELSE workerTasks
    OBVIOUS
  <2>4. m' = v /\ workerTasks' = w /\ (KillIf(m, id) \/ UNCHANGED <<children, watched>>)
    BY <1>2, <1>3, <1>8, <2>1, <2>2, <2>3 DEF recycleNode
  <2>5. w = workerTasks \/ w = workerTasks \ {a.task}
    BY <2>3
  <2>6. /\ Object(left) /\ Lists(left) /\ left.index = m.index /\ left.processes = m.processes /\ left.spec = m.spec
        /\ Entries(m, id, a.room, a.task) \in {0, 1} => Entries(left, id, a.room, a.task) = 0
        /\ \A i, r, t : t \in TaskNames /\ (i # id \/ r # a.room \/ t # a.task) => Entries(left, i, r, t) = Entries(m, i, r, t)
    BY <1>1, <1>5, <1>6, <1>8, <2>1, LeftFacts
  <2>7. id \in DOMAIN m.processes => Entries(left, id, a.room, a.task) = 0
    BY <1>7, <2>6
  <2>8. After(left, m)
    <3>1. \A i \in DOMAIN left.processes, r \in Rooms, t \in TaskNames :
            Entries(left, i, r, t) = 0 \/ Entries(left, i, r, t) = Entries(m, i, r, t)
      BY <2>6, <2>7
    <3>2. m.index <= left.index
      BY <1>1, <2>6, IndexFacts
    <3> QED
      BY <2>6, <3>1, <3>2 DEF After
  <2>9. Types'
    BY <1>4, <2>4, KilledTypes DEF Types, IInv, KillIf
  <2>10. CASE left.tasks[id] # <<>>
    <3>1. v = left
      BY <2>2, <2>10
    <3> QED
      BY <1>2, <1>3, <1>4, <2>4, <2>5, <2>6, <2>7, <2>8, <2>9, <3>1, GiveBackIInv
  <2>11. CASE left.tasks[id] = <<>>
    <3>1. v = dropNode(left, id)
      BY <2>2, <2>11
    <3>2. Object(v) /\ Lists(v) /\ After(v, left) /\ v.index = left.index /\ DOMAIN v.processes = DOMAIN left.processes \ {id}
      BY <2>6, <3>1, DropNodeFacts
    <3>3. After(v, m)
      BY <1>1, <2>6, <2>8, <3>2, AfterTrans, IndexFacts
    <3> QED
      BY <1>2, <1>3, <1>4, <2>4, <2>5, <2>6, <2>9, <3>2, <3>3, GiveBackIInv
  <2> QED
    BY <2>10, <2>11
<1>9. CASE ~Serves(m, id, a.room)
  <2>1. PICK s : s = m
    OBVIOUS
  <2>2. PICK w : w = workerTasks
    OBVIOUS
  <2>3. m' = s /\ workerTasks' = w /\ UNCHANGED <<children, watched>>
    BY <1>2, <1>3, <1>9, <2>1, <2>2 DEF recycleNode
  <2>4. Types'
    BY <1>4, <2>3 DEF Types, IInv
  <2>5. Entries(s, id, a.room, a.task) = 0
    BY <1>9, <2>1 DEF Entries
  <2>6. Object(s) /\ Lists(s) /\ After(s, m) /\ s.index = m.index
    BY <1>1, <2>1, AfterSame
  <2> QED
    BY <1>2, <1>3, <1>4, <2>2, <2>3, <2>4, <2>5, <2>6, GiveBackIInv
<1> QED
  BY <1>8, <1>9


LEMMA StartedTypes ==
  ASSUME Types, NEW s, Launched(s) \subseteq Nodes
  PROVE  StartAll(s) \in Partial(Nodes, {"running", "killed", "late"})
<1>1. PICK old : old = children
  OBVIOUS
<1>2. PICK born : born = Launched(s)
  OBVIOUS
<1>3. PICK k : k = [n \in DOMAIN old \cup born |-> IF n \in born THEN "running" ELSE old[n]]
  OBVIOUS
<1>4. DOMAIN old \subseteq Nodes /\ \A n \in DOMAIN old : old[n] \in {"running", "killed", "late"}
  BY <1>1, PartialFacts DEF Types
<1>5. DOMAIN k = DOMAIN old \cup born /\ k = [n \in DOMAIN k |-> k[n]] /\ \A n \in DOMAIN k : k[n] \in {"running", "killed", "late"}
  BY <1>3, <1>4
<1>6. k \in Partial(Nodes, {"running", "killed", "late"})
  BY <1>2, <1>4, <1>5, PartialFacts
<1> QED
  BY <1>1, <1>2, <1>3, <1>6 DEF StartAll

LEMMA DroppedTypes ==
  ASSUME NEW D, NEW R, NEW f \in Partial(D, R), NEW x
  PROVE  Drop(f, x) \in Partial(D, R)
<1>1. f = [y \in DOMAIN f |-> f[y]] /\ DOMAIN f \subseteq D /\ \A y \in DOMAIN f : f[y] \in R
  BY PartialFacts
<1>2. PICK k : k = Drop(f, x)
  OBVIOUS
<1>3. k = [y \in DOMAIN k |-> k[y]] /\ DOMAIN k = DOMAIN f \ {x} /\ \A y \in DOMAIN k : k[y] = f[y]
  BY <1>2 DEF Drop
<1>4. k \in Partial(D, R)
  BY <1>1, <1>3, PartialFacts
<1> QED
  BY <1>2, <1>4

LEMMA ChangedTypes ==
  ASSUME NEW D, NEW R, NEW f \in Partial(D, R), NEW x, NEW v \in R
  PROVE  [f EXCEPT ![x] = v] \in Partial(D, R)
<1>1. f = [y \in DOMAIN f |-> f[y]] /\ DOMAIN f \subseteq D /\ \A y \in DOMAIN f : f[y] \in R
  BY PartialFacts
<1>2. PICK k : k = [f EXCEPT ![x] = v]
  OBVIOUS
<1>3. k = [y \in DOMAIN k |-> k[y]] /\ DOMAIN k = DOMAIN f /\ \A y \in DOMAIN k : k[y] = f[y] \/ k[y] = v
  BY <1>2
<1>4. k \in Partial(D, R)
  BY <1>1, <1>3, PartialFacts
<1> QED
  BY <1>2, <1>4

LEMMA FillTimerIInv ==
  ASSUME IInv, FillTimer
  PROVE  IInv'
<1>1. Object(m) /\ Lists(m) /\ Types
  BY DEF IInv
<1>2. fills \in Nat /\ fills > 0 /\ fills' = fills - 1 /\ watched' = watched /\ UNCHANGED <<calls, workerTasks>>
  BY <1>1 DEF FillTimer, Types
<1>3. CASE m.spec.maxNodeNum < 0 \/ Len(m.nodes) + Len(m.idle) < m.spec.maxNodeNum
  <2>1. PICK u : u = fillNodes(m)
    OBVIOUS
  <2>2. Bounded(m) /\ m' = u /\ children' = StartAll(m)
    BY <1>3, <2>1 DEF FillTimer
  <2>3. Object(u) /\ Lists(u) /\ After(u, m) /\ Launched(m) \subseteq Nodes
    BY <1>1, <2>1, <2>2, FillFacts
  <2>4. Types'
    BY <1>1, <1>2, <2>2, <2>3, StartedTypes DEF Types
  <2> QED
    BY <1>2, <2>2, <2>3, <2>4, AfterIInv
<1>4. CASE ~(m.spec.maxNodeNum < 0 \/ Len(m.nodes) + Len(m.idle) < m.spec.maxNodeNum) /\ m.spec.reuseNode
  <2>1. PICK u : u = [m EXCEPT !.nodes = IF m.nodes = <<>> THEN m.nodes ELSE Tail(m.nodes),
                               !.idle = Append(m.idle, IF m.nodes = <<>> THEN Undefined ELSE Head(m.nodes))]
    OBVIOUS
  <2>2. m' = u /\ children' = children
    BY <1>4, <2>1 DEF FillTimer
  <2>3. Object(u) /\ Lists(u) /\ After(u, m)
    BY <1>1, <2>1, ReuseFacts
  <2>4. Types'
    BY <1>1, <1>2, <2>2 DEF Types
  <2> QED
    BY <1>2, <2>2, <2>3, <2>4, AfterIInv
<1>5. CASE ~(m.spec.maxNodeNum < 0 \/ Len(m.nodes) + Len(m.idle) < m.spec.maxNodeNum) /\ ~m.spec.reuseNode
  <2>1. PICK u : u = m
    OBVIOUS
  <2>2. m' = u /\ children' = children
    BY <1>5, <2>1 DEF FillTimer
  <2>3. Object(u) /\ Lists(u) /\ After(u, m)
    BY <1>1, <2>1, AfterSame
  <2>4. Types'
    BY <1>1, <1>2, <2>2 DEF Types
  <2> QED
    BY <1>2, <2>2, <2>3, <2>4, AfterIInv
<1> QED
  BY <1>3, <1>4, <1>5

LEMMA ReadyIInv ==
  ASSUME IInv, NEW n \in Nodes, Ready(n)
  PROVE  IInv'
<1>1. Object(m) /\ Lists(m) /\ Types
  BY DEF IInv
<1>2. watched' = watched \cup {n} /\ UNCHANGED <<fills, calls, workerTasks>>
  BY DEF Ready
<1>3. CASE n \in DOMAIN m.processes /\ m' = [m EXCEPT !.spawn_failed = FALSE, !.processes[n] = "ready"] /\ UNCHANGED children
  <2>1. PICK u : u = [m EXCEPT !.spawn_failed = FALSE, !.processes[n] = "ready"]
    OBVIOUS
  <2>2. "ready" \in States
    BY DEF States
  <2>3. Object(u) /\ Lists(u) /\ After(u, m)
    BY <1>1, <1>3, <2>1, <2>2, StateFacts
  <2>4. Types'
    BY <1>1, <1>2, <1>3 DEF Types
  <2> QED
    BY <1>2, <1>3, <2>1, <2>3, <2>4, AfterIInv
<1>4. CASE m' = [m EXCEPT !.spawn_failed = FALSE] /\ children' = [children EXCEPT ![n] = "killed"]
  <2>1. PICK u : u = [m EXCEPT !.spawn_failed = FALSE]
    OBVIOUS
  <2>2. Object(u) /\ Lists(u) /\ After(u, m)
    BY <1>1, <2>1, FlagFacts
  <2>3. [children EXCEPT ![n] = "killed"] \in Partial(Nodes, {"running", "killed", "late"})
    BY <1>1, ChangedTypes DEF Types
  <2>4. Types'
    BY <1>1, <1>2, <1>4, <2>3 DEF Types
  <2> QED
    BY <1>2, <1>4, <2>1, <2>2, <2>4, AfterIInv
<1> QED
  BY <1>3, <1>4 DEF Ready

LEMMA SpawnErrorIInv ==
  ASSUME IInv, NEW n \in Nodes, SpawnError(n)
  PROVE  IInv'
<1>1. Object(m) /\ Lists(m) /\ Types
  BY DEF IInv
<1>2. PICK u : u = [m EXCEPT !.spawn_failed = TRUE, !.processes[n] = "failed"]
  OBVIOUS
<1>3. n \in DOMAIN m.processes /\ m' = u /\ UNCHANGED <<children, watched, fills, calls, workerTasks>>
  <2>1. m' = [m EXCEPT !.processes[n] = "failed", !.spawn_failed = TRUE]
    BY DEF SpawnError
  <2>2. m = [spec |-> m.spec, index |-> m.index, idle |-> m.idle, nodes |-> m.nodes,
             processes |-> m.processes, tasks |-> m.tasks, spawn_failed |-> m.spawn_failed]
    BY <1>1 DEF Object
  <2>3. m' = u
    BY <1>2, <2>1, <2>2
  <2> QED
    BY <2>3 DEF SpawnError
<1>4. "failed" \in States
  BY DEF States
<1>5. Object(u) /\ Lists(u) /\ After(u, m)
  BY <1>1, <1>2, <1>3, <1>4, StateFacts
<1>6. Types'
  BY <1>1, <1>3 DEF Types
<1> QED
  BY <1>3, <1>5, <1>6, AfterIInv

LEMMA RetryTimerIInv ==
  ASSUME IInv, RetryTimer
  PROVE  IInv'
<1>1. PICK u : u = [m EXCEPT !.spawn_failed = FALSE]
  OBVIOUS
<1>2. m' = u /\ UNCHANGED <<children, watched, fills, calls, workerTasks>>
  BY <1>1 DEF RetryTimer
<1>3. Object(u) /\ Lists(u) /\ After(u, m)
  BY <1>1, FlagFacts DEF IInv
<1>4. Types'
  BY <1>2 DEF Types, IInv
<1> QED
  BY <1>2, <1>3, <1>4, AfterIInv

LEMMA NodeErrorIInv ==
  ASSUME IInv, NEW n \in Nodes, NodeError(n)
  PROVE  IInv'
<1>1. PICK u : u = cleanupNode(m, n)
  OBVIOUS
<1>2. /\ n \in DOMAIN m.processes /\ m' = u /\ children' = [children EXCEPT ![n] = "killed"] /\ watched' = watched \ {n}
      /\ UNCHANGED <<fills, calls, workerTasks>>
  BY <1>1 DEF NodeError
<1>3. Object(u) /\ Lists(u) /\ After(u, m)
  BY <1>1, <1>2, CleanupFacts DEF IInv
<1>4. [children EXCEPT ![n] = "killed"] \in Partial(Nodes, {"running", "killed", "late"})
  BY ChangedTypes DEF Types, IInv
<1>5. Types'
  BY <1>2, <1>4 DEF Types, IInv
<1> QED
  BY <1>2, <1>3, <1>5, AfterIInv

LEMMA CloseIInv ==
  ASSUME IInv, NEW n \in Nodes, Close(n)
  PROVE  IInv'
<1>1. Object(m) /\ Lists(m) /\ Types
  BY DEF IInv
<1>2. PICK s : s = dropNode(m, n)
  OBVIOUS
<1>3. watched' \subseteq Nodes /\ UNCHANGED <<fills, calls, workerTasks>>
  BY <1>1 DEF Close, Types
<1>4. Object(s) /\ Lists(s) /\ After(s, m)
  BY <1>1, <1>2, DropNodeFacts
<1>5. CASE m.spawn_failed
  <2>1. m' = s /\ children' = Drop(children, n)
    BY <1>2, <1>5 DEF Close
  <2>2. Drop(children, n) \in Partial(Nodes, {"running", "killed", "late"})
    BY <1>1, DroppedTypes DEF Types
  <2>3. Types'
    BY <1>1, <1>3, <2>1, <2>2 DEF Types
  <2> QED
    BY <1>3, <1>4, <2>1, <2>3, AfterIInv
<1>6. CASE ~m.spawn_failed
  <2>1. PICK u : u = fillNodes(s)
    OBVIOUS
  <2>2. Bounded(s) /\ m' = u /\ children' = Drop(StartAll(s), n)
    BY <1>2, <1>6, <2>1 DEF Close
  <2>3. Object(u) /\ Lists(u) /\ After(u, s) /\ Launched(s) \subseteq Nodes
    BY <1>4, <2>1, <2>2, FillFacts
  <2>4. After(u, m)
    BY <1>1, <1>4, <2>3, AfterTrans, IndexFacts
  <2>5. StartAll(s) \in Partial(Nodes, {"running", "killed", "late"})
    BY <1>1, <2>3, StartedTypes
  <2>6. Drop(StartAll(s), n) \in Partial(Nodes, {"running", "killed", "late"})
    BY <2>5, DroppedTypes
  <2>7. Types'
    BY <1>1, <1>3, <2>2, <2>6 DEF Types
  <2> QED
    BY <1>3, <2>2, <2>3, <2>4, <2>7, AfterIInv
<1> QED
  BY <1>5, <1>6

LEMMA NotResponsiveIInv ==
  ASSUME IInv, NEW n \in Nodes, NotResponsive(n)
  PROVE  IInv'
<1>1. PICK u : u = dropNode(m, n)
  OBVIOUS
<1>2. m' = u /\ Killed({n}) /\ UNCHANGED <<fills, calls, workerTasks>>
  BY <1>1 DEF NotResponsive
<1>3. Object(u) /\ Lists(u) /\ After(u, m)
  BY <1>1, DropNodeFacts DEF IInv
<1>4. Types'
  BY <1>2, KilledTypes DEF Types, IInv
<1> QED
  BY <1>2, <1>3, <1>4, AfterIInv

LEMMA OverloadIInv ==
  ASSUME IInv, Overload
  PROVE  IInv'
<1>1. PICK u : u = dropAllNodes(m)
  OBVIOUS
<1>2. m' = u /\ Killed(DOMAIN m.processes) /\ UNCHANGED <<fills, calls, workerTasks>>
  BY <1>1 DEF Overload
<1>3. Object(u) /\ Lists(u) /\ After(u, m)
  BY <1>1, DropAllFacts DEF IInv
<1>4. Types'
  BY <1>2, KilledTypes DEF Types, IInv
<1> QED
  BY <1>2, <1>3, <1>4, AfterIInv

(* The object starts over, with processes of which nothing is known.       *)
LEMMA RecoverFacts ==
  ASSUME NEW s, Object(s), Lists(s), Bounded(s), NEW u, u = recover(s)
  PROVE  /\ Object(u) /\ Lists(u) /\ After(u, s) /\ Launched(s) \subseteq Nodes
         /\ DOMAIN u.processes = DOMAIN s.processes \cup Launched(s)
<1>1. PICK v : v = [s EXCEPT !.spawn_failed = FALSE]
  OBVIOUS
<1>2. Object(v) /\ Lists(v) /\ After(v, s) /\ v.index = s.index /\ v.processes = s.processes
  BY <1>1, FlagFacts
<1>3. s = [spec |-> s.spec, index |-> s.index, idle |-> s.idle, nodes |-> s.nodes,
           processes |-> s.processes, tasks |-> s.tasks, spawn_failed |-> s.spawn_failed]
  BY DEF Object
<1>4. v.spec = s.spec /\ v.idle = s.idle /\ v.nodes = s.nodes
  BY <1>1, <1>3
<1>5. nodesToStart(v) = nodesToStart(s)
  BY <1>4 DEF nodesToStart
<1>6. Bounded(v) /\ Launched(v) = Launched(s)
  BY <1>2, <1>4, <1>5 DEF Bounded, Launched
<1>7. u = fillNodes(v)
  BY <1>1 DEF recover
<1>8. Object(u) /\ Lists(u) /\ After(u, v) /\ Launched(v) \subseteq Nodes /\ DOMAIN u.processes = DOMAIN v.processes \cup Launched(v)
  BY <1>2, <1>6, <1>7, FillFacts
<1>9. After(u, s)
  BY <1>2, <1>8, AfterTrans, IndexFacts
<1> QED
  BY <1>2, <1>6, <1>8, <1>9

LEMMA RecoveryIInv ==
  ASSUME IInv, Recovery
  PROVE  IInv'
<1>1. PICK u : u = recover(m)
  OBVIOUS
<1>2. Bounded(m) /\ m' = u /\ children' = StartAll(m) /\ UNCHANGED <<watched, fills, calls, workerTasks>>
  BY <1>1 DEF Recovery
<1>3. Object(u) /\ Lists(u) /\ After(u, m) /\ Launched(m) \subseteq Nodes
  BY <1>1, <1>2, RecoverFacts DEF IInv
<1>4. Types'
  BY <1>2, <1>3, StartedTypes DEF Types, IInv
<1> QED
  BY <1>2, <1>3, <1>4, AfterIInv

LEMMA LossIInv ==
  ASSUME IInv, LossAndRecovery
  PROVE  IInv'
<1>1. Object(m) /\ Lists(m) /\ Types /\ CallsOK(m, calls)
  BY DEF IInv
<1>2. PICK s : s = dropAllNodes(m)
  OBVIOUS
<1>3. PICK born : born = Launched(s)
  OBVIOUS
<1>4. PICK u : u = recover(s)
  OBVIOUS
<1>5. PICK k : k = calls
  OBVIOUS
<1>6. PICK w : w = {}
  OBVIOUS
<1>7. PICK ch : ch = [n \in DOMAIN children \cup born |->
                        IF n \in born THEN "running"
                        ELSE IF n \notin DOMAIN m.processes THEN children[n]
                        ELSE IF m.processes[n] = "starting" THEN "late" ELSE "killed"]
  OBVIOUS
<1>8. Bounded(s) /\ m' = u /\ children' = ch /\ watched' \subseteq watched /\ workerTasks' = w /\ calls' = k /\ fills' = fills
  BY <1>2, <1>3, <1>4, <1>5, <1>6, <1>7 DEF LossAndRecovery
<1>9. Object(s) /\ Lists(s) /\ s.index = m.index /\ DOMAIN s.processes = {} /\ s.spec = m.spec
  BY <1>1, <1>2, DropAllFacts DEF After
<1>10. Object(u) /\ Lists(u) /\ After(u, s) /\ born \subseteq Nodes
  BY <1>3, <1>4, <1>8, <1>9, RecoverFacts
<1>11. u.spec = m.spec /\ m.index <= u.index /\ m.index \in Nat /\ u.index \in Nat
  BY <1>1, <1>9, <1>10, IndexFacts DEF After
<1>12. \A i \in DOMAIN u.processes : i >= m.index
  BY <1>9, <1>10 DEF After
<1>13. \A i \in DOMAIN u.processes, r \in Rooms, t \in TaskNames : Entries(u, i, r, t) = 0
  BY <1>9, <1>10 DEF After
<1>14. Types'
  <2>1. PICK old : old = children
    OBVIOUS
  <2>2. DOMAIN old \subseteq Nodes /\ \A n \in DOMAIN old : old[n] \in {"running", "killed", "late"}
    BY <1>1, <2>1, PartialFacts DEF Types
  <2>3. DOMAIN ch = DOMAIN old \cup born /\ ch = [n \in DOMAIN ch |-> ch[n]] /\ \A n \in DOMAIN ch : ch[n] \in {"running", "killed", "late"}
    BY <1>7, <2>1, <2>2
  <2>4. ch \in Partial(Nodes, {"running", "killed", "late"})
    BY <1>10, <2>2, <2>3, PartialFacts
  <2> QED
    BY <1>1, <1>8, <2>4 DEF Types
<1>15. CallsOK(u, k)
  <2>1. 0..m.index - 1 \subseteq 0..u.index - 1
    BY <1>11
  <2> QED
    BY <1>1, <1>5, <1>11, <2>1 DEF CallsOK
<1>16. EntriesKnown(u, w)
  BY <1>6, <1>13 DEF EntriesKnown
<1>17. EntriesHeld(u, k)
  BY <1>13 DEF EntriesHeld
<1>18. HeldKnown(u, k, w)
  <2>1. SUFFICES ASSUME NEW c \in Callers, k[c].status = "holding", k[c].node \in DOMAIN u.processes PROVE FALSE
    BY DEF HeldKnown
  <2>2. k[c].node \in 0..m.index - 1
    BY <1>1, <1>5, <2>1 DEF CallsOK
  <2>3. k[c].node >= m.index
    BY <1>12, <2>1
  <2> QED
    BY <1>11, <2>2, <2>3
<1> QED
  BY <1>8, <1>10, <1>14, <1>15, <1>16, <1>17, <1>18, StepIInv

-----------------------------------------------------------------------------
LEMMA InitIInv ==
  ASSUME Init
  PROVE  IInv
<1>1. PICK a \in Agents : m = fillNodes(Start0(a)) /\ children = [n \in Launched(Start0(a)) |-> "running"]
  BY DEF Init
<1>2. PICK e : e = <<>>
  OBVIOUS
<1>3. DOMAIN e = {} /\ e = [x \in DOMAIN e |-> e[x]] /\ e \in Seq(Ids)
  BY <1>2
<1>4. PICK s : s = Start0(a)
  OBVIOUS
<1>5. Fields(s, a, 0, e, e, e, e, FALSE)
  BY <1>2, <1>4 DEF Fields, Start0
<1>6. /\ s.spec = a /\ s.index = 0 /\ s.idle = e /\ s.nodes = e /\ s.processes = e /\ s.tasks = e /\ s.spawn_failed = FALSE
      /\ s = [spec |-> s.spec, index |-> s.index, idle |-> s.idle, nodes |-> s.nodes,
              processes |-> s.processes, tasks |-> s.tasks, spawn_failed |-> s.spawn_failed]
  BY ONLY <1>5 DEF Fields
<1>7. a.nodes \in Nat /\ a.prerunNodeNum \in Nat /\ a.maxNodeNum \in Int /\ a.prerunNodeNum <= a.nodes
  BY NodeManagerAssumption
<1>8. e \in Partial(Nodes, States)
  BY <1>3, PartialFacts
<1>9. Object(s)
  <2>1. s.spec \in Agents /\ s.index \in 0..s.spec.nodes
    BY <1>6, <1>7
  <2>2. s.tasks = [id \in DOMAIN s.tasks |-> s.tasks[id]] /\ DOMAIN s.tasks = {}
    BY <1>3, <1>6
  <2>3. s.spawn_failed \in BOOLEAN
    BY <1>6
  <2>4. s.idle \in Seq(Ids) /\ s.nodes \in Seq(Ids) /\ s.processes \in Partial(Nodes, States)
    BY <1>3, <1>6, <1>8
  <2> QED
    BY <1>6, <2>1, <2>2, <2>3, <2>4 DEF Object
<1>10. Lists(s)
  BY <1>3, <1>6 DEF Lists, Distinct, In
<1>11. nodesToStart(s) <= a.prerunNodeNum
  <2>1. Len(e) = 0
    BY <1>2
  <2>2. PICK x : x = IF a.maxNodeNum < 0 THEN a.prerunNodeNum - 0 ELSE Min({a.prerunNodeNum - 0, a.maxNodeNum - (0 + 0)})
    OBVIOUS
  <2>3. nodesToStart(s) = Max({0, x})
    BY <1>6, <2>1, <2>2 DEF nodesToStart
  <2>4. \A i, j \in Int : Min({i, j}) \in Int /\ Min({i, j}) <= i
    BY DEF Min
  <2>5. x \in Int /\ x <= a.prerunNodeNum
    BY <1>7, <2>2, <2>4
  <2>6. \A i \in Int, j \in Nat : i <= j => Max({0, i}) <= j
    BY DEF Max
  <2> QED
    BY <1>7, <2>3, <2>5, <2>6
<1>12. Bounded(s)
  <2>1. nodesToStart(s) \in Nat
    BY <1>9, CountFacts
  <2> QED
    BY <1>6, <1>7, <1>11, <2>1 DEF Bounded
<1>13. PICK u : u = fillNodes(s)
  OBVIOUS
<1>14. Object(u) /\ Lists(u) /\ After(u, s) /\ Launched(s) \subseteq Nodes
  BY <1>9, <1>10, <1>12, <1>13, FillFacts
<1>15. m = u /\ \A i \in DOMAIN u.processes, r \in Rooms, t \in TaskNames : Entries(u, i, r, t) = 0
  BY <1>1, <1>3, <1>4, <1>6, <1>13, <1>14 DEF After
<1>16. watched = {} /\ fills = 0 /\ calls = [c \in Callers |-> NoCall] /\ workerTasks = {}
  BY DEF Init
<1>17. Types
  <2>1. PICK ch : ch = [n \in Launched(s) |-> "running"]
    OBVIOUS
  <2>2. ch = [n \in DOMAIN ch |-> ch[n]] /\ DOMAIN ch \subseteq Nodes /\ \A n \in DOMAIN ch : ch[n] \in {"running", "killed", "late"}
    BY <1>14, <2>1
  <2>3. ch \in Partial(Nodes, {"running", "killed", "late"})
    BY <2>2, PartialFacts
  <2> QED
    BY <1>1, <1>4, <1>16, <2>1, <2>3 DEF Types
<1>18. \A c \in Callers : calls[c].status = "none"
  BY <1>16 DEF NoCall
<1>19. CallsOK(m, calls)
  BY <1>16, <1>18 DEF CallsOK
<1>20. EntriesKnown(m, workerTasks) /\ EntriesHeld(m, calls)
  BY <1>15, <1>16 DEF EntriesKnown, EntriesHeld
<1>21. HeldKnown(m, calls, workerTasks)
  BY <1>18 DEF HeldKnown
<1> QED
  BY <1>14, <1>15, <1>17, <1>19, <1>20, <1>21 DEF IInv

LEMMA NextIInv ==
  ASSUME IInv, [Next]_vars
  PROVE  IInv'
<1>1. CASE \E c \in Callers : \E a \in m.spec.asks[c] : getNode(c, a)
  BY <1>1, GetNodeIInv
<1>2. CASE \E c \in Callers : WaitOver(c)
  BY <1>2, WaitOverIInv
<1>3. CASE \E c \in Callers : recycleNode(c)
  BY <1>3, RecycleIInv
<1>4. CASE \E n \in Nodes : Ready(n) \/ SpawnError(n) \/ NodeError(n) \/ Close(n) \/ NotResponsive(n)
  BY <1>4, ReadyIInv, SpawnErrorIInv, NodeErrorIInv, CloseIInv, NotResponsiveIInv
<1>5. CASE FillTimer \/ RetryTimer
  BY <1>5, FillTimerIInv, RetryTimerIInv
<1>6. CASE Recovery \/ LossAndRecovery \/ Overload
  BY <1>6, RecoveryIInv, LossIInv, OverloadIInv
<1>7. CASE UNCHANGED vars
  <2>1. m' = m /\ children' = children /\ watched' = watched /\ fills' = fills /\ calls' = calls /\ workerTasks' = workerTasks
    BY <1>7 DEF vars
  <2>2. Types'
    BY <2>1 DEF Types, IInv
  <2>3. PICK u : u = m
    OBVIOUS
  <2>4. Object(u) /\ Lists(u) /\ After(u, m)
    BY <2>3, AfterSame DEF IInv
  <2> QED
    BY <2>1, <2>2, <2>3, <2>4, AfterIInv
<1> QED
  BY <1>1, <1>2, <1>3, <1>4, <1>5, <1>6, <1>7 DEF Next

(* Every process of the node manager is in one of its lists, every list    *)
(* holds processes only, and what a node is said to execute is known to    *)
(* the cluster worker and held by one caller.                              *)
THEOREM NodeInvariant == Spec => []IInv
<1>1. Init => IInv
  BY InitIInv
<1>2. IInv /\ [Next]_vars => IInv'
  BY NextIInv
<1> QED
  BY <1>1, <1>2, PTL DEF Spec

LEMMA IInvNodes ==
  ASSUME IInv
  PROVE  NodesAgree
<1>1. Object(m) /\ Lists(m) /\ Types /\ HeldKnown(m, calls, workerTasks) /\ EntriesKnown(m, workerTasks) /\ CallsOK(m, calls)
  BY DEF IInv
<1>2. TypeOK
  <2>1. m.spec.nodes \in Nat
    BY <1>1, NodeManagerAssumption DEF Object
  <2>2. 0..m.index - 1 \subseteq Nodes
    <3>1. 0..m.index - 1 \subseteq 0..m.spec.nodes - 1
      BY <1>1, <2>1 DEF Object
    <3> QED
      BY <1>1, <3>1, NodesAreNumbers DEF Object
  <2>3. DOMAIN m.tasks \subseteq Ids
    BY <1>1, <2>2, NodesAreNumbers DEF Lists
  <2>4. m.processes \in Partial(Nodes, {"starting", "ready", "failed"})
    BY <1>1 DEF Object, States
  <2>5. workerTasks \subseteq TaskNames
    BY <1>1 DEF EntriesKnown
  <2> QED
    BY <1>1, <2>3, <2>4, <2>5 DEF TypeOK, Object, Types
<1>3. PICK p : p = m.idle
  OBVIOUS
<1>4. PICK q : q = m.nodes
  OBVIOUS
<1>5. p \in Seq(Ids) /\ q \in Seq(Ids) /\ Distinct(p) /\ Distinct(q) /\ In(p) \cap In(q) = {} /\ In(p) \cup In(q) = DOMAIN m.processes
  BY <1>1, <1>3, <1>4 DEF Object, Lists
<1>6. Distinct(p \o q) /\ In(p \o q) = DOMAIN m.processes
  BY <1>5, ConcatFacts
<1>7. TablesAgree
  BY <1>2, <1>3, <1>4, <1>6 DEF TablesAgree, Distinct, In
<1>8. HeldTasksKnown
  BY <1>1 DEF HeldKnown, HeldTasksKnown
<1> QED
  BY <1>7, <1>8 DEF NodesAgree

(* Every process is in exactly one place of the two lists and every id in  *)
(* them is a process, however calls, timers and processes interleave; and  *)
(* the task a caller holds a live node for is a task of the worker.        *)
THEOREM NodesTogether == Spec => []NodesAgree
<1>1. IInv => NodesAgree
  BY IInvNodes
<1> QED
  BY <1>1, NodeInvariant, PTL
=============================================================================
