------------------------- MODULE StreamServiceProofs ------------------------
(***************************************************************************)
(* Proofs about the stream service, for any number of participants,        *)
(* sessions, engines, failures and updates.                                *)
(***************************************************************************)
EXTENDS StreamService, TLAPS

-----------------------------------------------------------------------------
(* The parts of the inductive invariant.                                   *)

(* The variables are records with these fields.                            *)
Form ==
  /\ store = [users |-> store.users, pubs |-> store.pubs, tracks |-> store.tracks,
              subs |-> store.subs, listed |-> store.listed]
  /\ svc = [ongoing |-> svc.ongoing, ops |-> svc.ops, members |-> svc.members, from |-> svc.from,
            updating |-> svc.updating, next |-> svc.next, tasks |-> svc.tasks]
  /\ node = [dests |-> node.dests, links |-> node.links]
  /\ past = [joined |-> past.joined, left |-> past.left, requested |-> past.requested,
             established |-> past.established, want |-> past.want, updates |-> past.updates,
             faults |-> past.faults, mishaps |-> past.mishaps]

(* So are the tasks that go on.                                            *)
TaskForm(t) ==
  /\ t.do \in {"leave", "clean", "request", "add", "control", "update", "stop", "remove", "related"}
  /\ t.do = "leave" => t = [do |-> "leave", id |-> t.id, at |-> t.at, list |-> t.list]
  /\ t.do = "request" => t = [do |-> "request", id |-> t.id, at |-> t.at]
  /\ t.do \in {"add", "update", "remove"} => t = [do |-> t.do, id |-> t.id, at |-> t.at, from |-> t.from]
  /\ t.do \in {"request", "add", "stop", "remove"} => t.id \in Sessions

Tasks == \A t \in svc.tasks : TaskForm(t)

Tables ==
  /\ svc.ongoing \in [Sessions -> {"no", "yes", "aborted"}]
  /\ store.pubs \subseteq Pubs /\ DOMAIN store.subs \subseteq Subs
  /\ svc.ops \subseteq past.requested /\ past.established \subseteq past.requested

Domains ==
  /\ DOMAIN store.users \subseteq past.joined
  /\ DOMAIN svc.next \subseteq svc.updating
  /\ DOMAIN node.links \subseteq node.dests

Faults == bound \in Bounds /\ past.faults \in 0 .. bound.faults

(* A request is made once, and there is no operation before its answer.    *)
Requests ==
  \A t \in svc.tasks : t.do = "request" =>
    /\ t.id \in past.requested \ (svc.ops \cup past.established)
    /\ \A d \in svc.tasks : d.do = "request" /\ d.id = t.id => d = t

(* A session is set up once, and until it is stored nothing makes its      *)
(* engine forget it.                                                       *)
Setups ==
  \A t \in svc.tasks : t.do = "add" =>
    /\ t.id \in past.established
    /\ t.at # "check" => ~Stored(t.id) /\ svc.ongoing[t.id] # "no"
    /\ t.at = "create" => t.id \in store.listed /\ (t.id \in Pubs => t.id \in DOMAIN store.tracks)
    /\ \A d \in svc.tasks : d.do = "add" /\ d.id = t.id => d = t

(* A removal that has found its document comes after the setup.            *)
Removals ==
  \A t \in svc.tasks : t.do = "remove" /\ t.at # "read" =>
    /\ t.id \in past.established
    /\ t.at = "tracks" => ~Stored(t.id)
    /\ \A d \in svc.tasks : d.do = "add" /\ d.id = t.id => d.at = "check"

(* Something is under way that will remove session i.                      *)
Ending(i) ==
  \E t \in svc.tasks : /\ t.id = i
                       /\ \/ t.do = "stop" /\ i \in svc.ops
                          \/ t.do = "remove" /\ t.at \in {"read", "delete"}
                          \/ t.do = "add" /\ t.at = "check"

Cleaning(i) == \E t \in svc.tasks : t.do = "clean" /\ t.id = i

Creating(i) == \E t \in svc.tasks : t.do = "add" /\ t.id = i /\ t.at = "create"

Documents ==
  /\ store.listed \subseteq Sessions
  /\ \A i \in store.listed : Stored(i) \/ Creating(i)
  /\ store.pubs \subseteq DOMAIN store.tracks
  /\ \A i \in Sessions : Stored(i) =>
       i \in past.established /\ svc.ongoing[i] # "no" /\ i \in store.listed

Operations ==
  \A i \in Sessions :
    /\ svc.ongoing[i] = "yes" /\ i \in past.established => i \in svc.ops
    /\ svc.ongoing[i] = "aborted" /\ Stored(i) => Ending(i)

(* Whatever the nodes list, its owner lists it too, or is cleaning it.     *)
Owned ==
  \A i \in store.listed :
    \/ Owner(i) \in DOMAIN store.users /\ i \in store.users[Owner(i)]
    \/ <<"left_meanwhile", i>> \in past.mishaps
    \/ Cleaning(i)
    \/ svc.ongoing[i] = "aborted"

IInv ==
  Form /\ Tasks /\ Tables /\ Domains /\ Faults /\ Requests /\ Setups /\ Removals /\ Documents /\ Operations /\ Owned

-----------------------------------------------------------------------------
(* A dictionary with an entry more or less.                                *)
LEMMA PutDomain ==
  ASSUME NEW f, NEW e, NEW v
  PROVE  DOMAIN Put(f, e, v) = DOMAIN f \cup {e}
  BY DEF Put

LEMMA PutElsewhere ==
  ASSUME NEW f, NEW e, NEW v, NEW d \in DOMAIN f \ {e}
  PROVE  Put(f, e, v)[d] = f[d]
  BY DEF Put

LEMMA WithoutDomain ==
  ASSUME NEW f, NEW e
  PROVE  DOMAIN Without(f, e) = DOMAIN f \ {e}
  BY DEF Without, Restrict

LEMMA WithoutElsewhere ==
  ASSUME NEW f, NEW e, NEW d \in DOMAIN f \ {e}
  PROVE  Without(f, e)[d] = f[d]
  BY DEF Without, Restrict

(* The end of a link leaves all else as it is.                            *)
LEMMA CutKeeps ==
  ASSUME Form, NEW x, NEW s, NEW C, C = Cut(store, x, s)
  PROVE  /\ C = [users |-> store.users, pubs |-> store.pubs, tracks |-> C.tracks,
                 subs |-> store.subs, listed |-> store.listed]
         /\ DOMAIN C.tracks = DOMAIN store.tracks
  BY DEF Form, Cut

USE DEF Task, Done, Goes, At, Notes, Fail, Stored, Requested

(* Owned is kept where owners, lists, tasks that clean and aborted         *)
(* sessions are.                                                           *)
LEMMA OwnedStays ==
  ASSUME IInv, bound' = bound,
         store'.listed \subseteq store.listed,
         \A i \in store'.listed :
           Owner(i) \in DOMAIN store.users /\ i \in store.users[Owner(i)] =>
             Owner(i) \in DOMAIN store'.users /\ i \in store'.users[Owner(i)],
         past.mishaps \subseteq past'.mishaps,
         \A t \in svc.tasks : t.do = "clean" => t \in svc'.tasks,
         \A i \in store'.listed : svc.ongoing[i] = "aborted" => svc'.ongoing[i] = "aborted"
  PROVE  Owned'
<1> SUFFICES ASSUME NEW i \in store'.listed
             PROVE  \/ Owner(i) \in DOMAIN store'.users /\ i \in store'.users[Owner(i)]
                    \/ <<"left_meanwhile", i>> \in past'.mishaps
                    \/ Cleaning(i)'
                    \/ svc'.ongoing[i] = "aborted"
  BY DEF Owned, Owner
<1>1. \/ Owner(i) \in DOMAIN store.users /\ i \in store.users[Owner(i)]
      \/ <<"left_meanwhile", i>> \in past.mishaps
      \/ Cleaning(i)
      \/ svc.ongoing[i] = "aborted"
  BY DEF IInv, Owned
<1>2. Cleaning(i) => Cleaning(i)'
  BY DEF Cleaning
<1> QED
  BY <1>1, <1>2

-----------------------------------------------------------------------------
LEMMA JoinIInv ==
  ASSUME IInv, NEW u \in Users, Join(u)
  PROVE  IInv'
<1>1. Form'
  BY DEF IInv, Form, Join
<1>2. Tasks'
  BY DEF IInv, Tasks, Join
<1>3. Tables'
  BY DEF IInv, Tables, Join
<1>4. Domains'
  <2>1. /\ store'.users = Put(store.users, u, {}) /\ past'.joined = past.joined \cup {u}
        /\ node' = node
        /\ svc'.next = svc.next /\ svc'.updating = svc.updating
    BY DEF IInv, Form, Tables, Join
  <2>2. DOMAIN Put(store.users, u, {}) = DOMAIN store.users \cup {u}
    BY PutDomain
  <2>3. DOMAIN node'.links \subseteq node'.dests
    BY <2>1 DEF IInv, Domains
  <2>4. DOMAIN svc'.next \subseteq svc'.updating
    BY <2>1 DEF IInv, Domains
  <2>5. DOMAIN store'.users \subseteq past'.joined
    BY <2>1, <2>2 DEF IInv, Domains
  <2> QED
    BY <2>3, <2>4, <2>5 DEF Domains
<1>5. Faults'
  BY DEF IInv, Faults, Join
<1>6. Requests'
  BY DEF IInv, Requests, Join
<1>7. Setups'
  BY DEF IInv, Setups, Join
<1>8. Removals'
  BY DEF IInv, Removals, Join
<1>9. Documents'
  BY DEF IInv, Documents, Creating, Join
<1>10. Operations'
  BY DEF IInv, Operations, Ending, Join
<1>11. Owned'
  <2>1. /\ bound' = bound /\ store'.listed = store.listed /\ store'.users = Put(store.users, u, {})
        /\ past'.mishaps = past.mishaps /\ svc'.tasks = svc.tasks /\ svc'.ongoing = svc.ongoing
    BY DEF IInv, Form, Join
  <2>2. u \notin DOMAIN store.users
    BY DEF IInv, Domains, Join
  <2>3. DOMAIN Put(store.users, u, {}) = DOMAIN store.users \cup {u}
    BY PutDomain
  <2>4. \A v \in DOMAIN store.users : Put(store.users, u, {})[v] = store.users[v]
    BY <2>2, PutElsewhere
  <2> QED
    BY <2>1, <2>3, <2>4, OwnedStays
<1> QED
  BY <1>1, <1>2, <1>3, <1>4, <1>5, <1>6, <1>7, <1>8, <1>9, <1>10, <1>11 DEF IInv

LEMMA LeaveIInv ==
  ASSUME IInv, NEW u \in Users, Leave(u)
  PROVE  IInv'
<1>1. Form'
  BY DEF IInv, Form, Leave
<1>2. Tasks'
  BY DEF IInv, Tasks, TaskForm, Leave
<1>3. Tables'
  BY DEF IInv, Tables, Leave
<1>4. Domains'
  BY DEF IInv, Domains, Leave
<1>5. Faults'
  BY DEF IInv, Faults, Leave
<1>6. Requests'
  BY DEF IInv, Requests, Leave
<1>7. Setups'
  BY DEF IInv, Setups, Leave
<1>8. Removals'
  BY DEF IInv, Removals, Leave
<1>9. Documents'
  BY DEF IInv, Documents, Creating, Leave
<1>10. Operations'
  BY DEF IInv, Operations, Ending, Leave
<1>11. Owned'
  <2>1. /\ bound' = bound /\ store'.listed \subseteq store.listed
        /\ \A e \in store'.listed :
             Owner(e) \in DOMAIN store.users /\ e \in store.users[Owner(e)] =>
               Owner(e) \in DOMAIN store'.users /\ e \in store'.users[Owner(e)]
    BY DEF IInv, Form, Leave
  <2>2. past.mishaps \subseteq past'.mishaps
    BY DEF IInv, Form, Leave
  <2>3. \A c \in svc.tasks : c.do = "clean" => c \in svc'.tasks
    BY DEF IInv, Form, Leave
  <2>4. \A e \in store'.listed : svc.ongoing[e] = "aborted" => svc'.ongoing[e] = "aborted"
    BY DEF IInv, Form, Tables, Leave
  <2> QED
    BY <2>1, <2>2, <2>3, <2>4, OwnedStays
<1> QED
  BY <1>1, <1>2, <1>3, <1>4, <1>5, <1>6, <1>7, <1>8, <1>9, <1>10, <1>11 DEF IInv

LEMMA LeaveReadIInv ==
  ASSUME IInv, NEW t \in svc.tasks, LeaveRead(t)
  PROVE  IInv'
<1> DEFINE next == [do |-> "leave", id |-> t.id, at |-> "delete", list |-> store.users[t.id]]
<1>a. /\ t.do = "leave" /\ t.at = "read"
      /\ bound' = bound /\ node' = node /\ past' = past /\ store' = store
      /\ t = [do |-> "leave", id |-> t.id, at |-> t.at, list |-> t.list]
  BY DEF IInv, Tasks, TaskForm, LeaveRead
<1>c. svc' = [svc EXCEPT !.tasks = (@ \ {t}) \cup {next}]
  BY DEF LeaveRead, IInv, Form
<1>d. /\ svc'.tasks = (svc.tasks \ {t}) \cup {next}
      /\ svc'.ongoing = svc.ongoing /\ svc'.ops = svc.ops /\ svc'.updating = svc.updating /\ svc'.next = svc.next
  BY <1>c DEF IInv, Form
<1>e. next.do = "leave" /\ TaskForm(next)
  BY <1>a DEF TaskForm
<1> HIDE DEF next
<1>1. Form'
  BY <1>a, <1>c, <1>d, <1>e DEF IInv, Form
<1>2. Tasks'
  BY <1>a, <1>c, <1>d, <1>e DEF IInv, Tasks, TaskForm
<1>3. Tables'
  BY <1>a, <1>c, <1>d, <1>e DEF IInv, Tables, Sessions
<1>4. Domains'
  BY <1>a, <1>c, <1>d, <1>e DEF IInv, Domains
<1>5. Faults'
  BY <1>a, <1>c, <1>d, <1>e DEF IInv, Faults
<1>6. Requests'
  BY <1>a, <1>c, <1>d, <1>e DEF IInv, Requests, Tables, Sessions
<1>7. Setups'
  BY <1>a, <1>c, <1>d, <1>e DEF IInv, Setups, Removals, Tables
<1>8. Removals'
  BY <1>a, <1>c, <1>d, <1>e DEF IInv, Removals, Setups
<1>9. Documents'
  BY <1>a, <1>c, <1>d, <1>e DEF IInv, Documents, Creating, Setups, Removals, Sessions
<1>10. Operations'
  BY <1>a, <1>c, <1>d, <1>e DEF IInv, Operations, Ending, Tables
<1>11. Owned'
  BY <1>a, <1>c, <1>d, <1>e, OwnedStays DEF IInv, Tables
<1> QED
  BY <1>1, <1>2, <1>3, <1>4, <1>5, <1>6, <1>7, <1>8, <1>9, <1>10, <1>11 DEF IInv

LEMMA RemoveParticipantIInv ==
  ASSUME IInv, NEW t \in svc.tasks, RemoveParticipant(t)
  PROVE  IInv'
<1>1. Form'
  BY DEF IInv, Form, RemoveParticipant
<1>2. Tasks'
  BY DEF IInv, Tasks, TaskForm, RemoveParticipant
<1>3. Tables'
  BY DEF IInv, Tables, RemoveParticipant
<1>4. Domains'
  <2>1. DOMAIN store'.users \subseteq past'.joined
    BY WithoutDomain, CutKeeps DEF IInv, Form, Domains, RemoveParticipant
  <2>2. DOMAIN svc'.next \subseteq svc'.updating
    BY WithoutDomain DEF IInv, Form, Tables, Domains, RemoveParticipant
  <2>3. DOMAIN node'.links \subseteq node'.dests
    BY PutDomain, WithoutDomain DEF IInv, Form, Domains, RemoveParticipant
  <2> QED
    BY <2>1, <2>2, <2>3 DEF Domains
<1>5. Faults'
  BY DEF IInv, Faults, RemoveParticipant
<1>6. Requests'
  BY DEF IInv, Requests, RemoveParticipant
<1>7. Setups'
  BY DEF IInv, Setups, RemoveParticipant
<1>8. Removals'
  BY DEF IInv, Removals, RemoveParticipant
<1>9. Documents'
  BY DEF IInv, Documents, Creating, RemoveParticipant
<1>10. Operations'
  BY DEF IInv, Operations, Ending, RemoveParticipant
<1>11. Owned'
  <2>1. /\ t.do = "leave" /\ bound' = bound /\ store'.listed = store.listed /\ svc'.ongoing = svc.ongoing
        /\ store'.users = Without(store.users, t.id)
        /\ past'.mishaps = past.mishaps \cup {<<"left_meanwhile", e>> : e \in store.users[t.id] \ t.list}
        /\ svc'.tasks = (svc.tasks \ {t}) \cup {[do |-> "clean", id |-> e, at |-> "read"] : e \in t.list}
    BY DEF IInv, Form, RemoveParticipant
  <2>2. ASSUME NEW e \in store'.listed
        PROVE  \/ Owner(e) \in DOMAIN store'.users /\ e \in store'.users[Owner(e)]
               \/ <<"left_meanwhile", e>> \in past'.mishaps
               \/ Cleaning(e)'
               \/ svc'.ongoing[e] = "aborted"
    <3>1. CASE Owner(e) \in DOMAIN store.users /\ e \in store.users[Owner(e)] /\ Owner(e) # t.id
      <4>1. Owner(e) \in DOMAIN Without(store.users, t.id)
        BY <3>1, WithoutDomain
      <4>2. Without(store.users, t.id)[Owner(e)] = store.users[Owner(e)]
        BY <3>1, WithoutElsewhere
      <4> QED
        BY <2>1, <3>1, <4>1, <4>2
    <3>2. CASE e \in store.users[t.id]
      <4>1. CASE e \in t.list
        <5>1. [do |-> "clean", id |-> e, at |-> "read"] \in svc'.tasks
          BY <2>1, <4>1
        <5> QED
          BY <5>1 DEF Cleaning
      <4> QED
        BY <2>1, <3>2, <4>1
    <3>3. CASE Cleaning(e)
      BY <2>1, <3>3 DEF Cleaning
    <3> QED
      BY <2>1, <3>1, <3>2, <3>3 DEF IInv, Owned
  <2> QED
    BY <2>1, <2>2 DEF Owned, Owner
<1> QED
  BY <1>1, <1>2, <1>3, <1>4, <1>5, <1>6, <1>7, <1>8, <1>9, <1>10, <1>11 DEF IInv

LEMMA CleanIInv ==
  ASSUME IInv, NEW t \in svc.tasks, Clean(t)
  PROVE  IInv'
<1>1. Form'
  BY DEF IInv, Form, Clean, StopSession
<1>2. Tasks'
  BY DEF IInv, Tasks, TaskForm, Sessions, Tables, Clean, StopSession
<1>3. Tables'
  BY DEF IInv, Form, Tables, Clean, StopSession
<1>4. Domains'
  BY DEF IInv, Domains, Clean, StopSession
<1>5. Faults'
  BY DEF IInv, Faults, Clean
<1>6. Requests'
  BY DEF IInv, Requests, Clean, StopSession
<1>7. Setups'
  BY DEF IInv, Setups, Clean, StopSession
<1>8. Removals'
  BY DEF IInv, Removals, Clean, StopSession
<1>9. Documents'
  BY DEF IInv, Documents, Creating, Clean, StopSession
<1>10. Operations'
  <2>1. /\ store' = store /\ svc'.ops = svc.ops /\ past'.established = past.established
        /\ \A d \in svc.tasks : d.do \in {"stop", "remove", "add"} => d \in svc'.tasks
        /\ \/ svc'.ongoing = svc.ongoing
           \/ /\ Stored(t.id) /\ svc'.ongoing = [svc.ongoing EXCEPT ![t.id] = "aborted"]
              /\ t.id \in svc.ops => [do |-> "stop", id |-> t.id, at |-> "node"] \in svc'.tasks
    BY DEF IInv, Form, Clean, StopSession
  <2>2. \A e \in Sessions : svc'.ongoing[e] = "yes" /\ e \in past'.established => e \in svc'.ops
    BY <2>1 DEF IInv, Tables, Operations
  <2>3. ASSUME NEW e \in Sessions, svc'.ongoing[e] = "aborted", Stored(e)'
        PROVE  Ending(e)'
    <3>1. CASE svc.ongoing[e] = "aborted"
      <4>1. PICK d \in svc.tasks : /\ d.id = e
                                  /\ \/ d.do = "stop" /\ e \in svc.ops
                                     \/ d.do = "remove" /\ d.at \in {"read", "delete"}
                                     \/ d.do = "add" /\ d.at = "check"
        BY <2>1, <2>3, <3>1 DEF IInv, Operations, Ending
      <4> QED
        BY <2>1, <4>1 DEF Ending
    <3>2. CASE svc.ongoing[e] # "aborted"
      <4>1. e = t.id /\ [do |-> "stop", id |-> e, at |-> "node"] \in svc'.tasks /\ e \in svc'.ops
        BY <2>1, <2>3, <3>2 DEF IInv, Tables, Documents, Operations
      <4> QED
        BY <4>1 DEF Ending
    <3> QED
      BY <3>1, <3>2
  <2> QED
    BY <2>2, <2>3 DEF Operations
<1>11. Owned'
  <2>1. /\ t.do = "clean" /\ bound' = bound /\ store' = store
        /\ past.mishaps \subseteq past'.mishaps
        /\ ~Stored(t.id) => <<"left_meanwhile", t.id>> \in past'.mishaps /\ svc'.ongoing = svc.ongoing
        /\ \A c \in svc.tasks \ {t} : c \in svc'.tasks
    BY DEF IInv, Form, Clean, StopSession
  <2>2. /\ \A e \in Sessions : svc.ongoing[e] = "aborted" => svc'.ongoing[e] = "aborted"
        /\ Stored(t.id) => svc'.ongoing[t.id] = "aborted"
    <3>1. CASE Stored(t.id)
      <4>1. t.id \in Sessions /\ svc.ongoing[t.id] # "no" /\ svc.ongoing \in [Sessions -> {"no", "yes", "aborted"}]
        BY <3>1 DEF IInv, Tables, Documents, Sessions
      <4>2. svc'.ongoing = [svc.ongoing EXCEPT ![t.id] = "aborted"]
        BY <3>1, <4>1 DEF IInv, Form, Clean, StopSession
      <4> QED
        BY <3>1, <4>1, <4>2
    <3> QED
      BY <2>1, <3>1
  <2>3. ASSUME NEW e \in store'.listed
        PROVE  \/ Owner(e) \in DOMAIN store'.users /\ e \in store'.users[Owner(e)]
               \/ <<"left_meanwhile", e>> \in past'.mishaps
               \/ Cleaning(e)'
               \/ svc'.ongoing[e] = "aborted"
    <3>1. CASE Cleaning(e)
      BY <2>1, <2>2, <3>1 DEF Cleaning
    <3>2. CASE svc.ongoing[e] = "aborted"
      BY <2>1, <2>2, <3>2 DEF IInv, Documents
    <3> QED
      BY <2>1, <3>1, <3>2 DEF IInv, Owned
  <2> QED
    BY <2>1, <2>3 DEF Owned, Owner
<1> QED
  BY <1>1, <1>2, <1>3, <1>4, <1>5, <1>6, <1>7, <1>8, <1>9, <1>10, <1>11 DEF IInv

LEMMA RequestReadIInv ==
  ASSUME IInv, NEW t \in svc.tasks, RequestRead(t)
  PROVE  IInv'
<1>1. Form'
  BY DEF IInv, Form, RequestRead
<1>2. Tasks'
  BY DEF IInv, Tasks, TaskForm, RequestRead
<1>3. Tables'
  BY DEF IInv, Form, Tables, RequestRead
<1>4. Domains'
  BY DEF IInv, Domains, RequestRead
<1>5. Faults'
  BY DEF IInv, Faults, RequestRead
<1>6. Requests'
  BY DEF IInv, Tasks, TaskForm, Requests, RequestRead
<1>7. Setups'
  BY DEF IInv, Tasks, TaskForm, Setups, RequestRead
<1>8. Removals'
  BY DEF IInv, Tasks, TaskForm, Removals, RequestRead
<1>9. Documents'
  BY DEF IInv, Documents, Creating, RequestRead
<1>10. Operations'
  BY DEF IInv, Requests, Operations, Ending, RequestRead
<1>11. Owned'
  <2>1. /\ bound' = bound /\ store'.listed \subseteq store.listed
        /\ \A e \in store'.listed :
             Owner(e) \in DOMAIN store.users /\ e \in store.users[Owner(e)] =>
               Owner(e) \in DOMAIN store'.users /\ e \in store'.users[Owner(e)]
    BY DEF IInv, Form, RequestRead, Allowed
  <2>2. past.mishaps \subseteq past'.mishaps
    BY DEF IInv, Form, RequestRead, Allowed
  <2>3. \A c \in svc.tasks : c.do = "clean" => c \in svc'.tasks
    BY DEF IInv, Form, RequestRead, Allowed
  <2>4. \A e \in store'.listed : svc.ongoing[e] = "aborted" => svc'.ongoing[e] = "aborted"
    BY DEF IInv, Form, Tables, Requests, Setups, Documents, Creating, RequestRead, Allowed
  <2> QED
    BY <2>1, <2>2, <2>3, <2>4, OwnedStays
<1> QED
  BY <1>1, <1>2, <1>3, <1>4, <1>5, <1>6, <1>7, <1>8, <1>9, <1>10, <1>11 DEF IInv

LEMMA SessionCreatedIInv ==
  ASSUME IInv, NEW t \in svc.tasks, SessionCreated(t)
  PROVE  IInv'
<1>1. Form'
  BY DEF IInv, Form, SessionCreated
<1>2. Tasks'
  BY DEF IInv, Tasks, SessionCreated
<1>3. Tables'
  BY DEF IInv, Tasks, TaskForm, Tables, Requests, SessionCreated
<1>4. Domains'
  BY DEF IInv, Domains, SessionCreated
<1>5. Faults'
  BY DEF IInv, Faults, SessionCreated
<1>6. Requests'
  BY DEF IInv, Requests, SessionCreated
<1>7. Setups'
  BY DEF IInv, Setups, SessionCreated
<1>8. Removals'
  BY DEF IInv, Removals, SessionCreated
<1>9. Documents'
  BY DEF IInv, Documents, Creating, SessionCreated
<1>10. Operations'
  BY DEF IInv, Operations, Ending, SessionCreated
<1>11. Owned'
  <2>1. /\ bound' = bound /\ store'.listed \subseteq store.listed
        /\ \A e \in store'.listed :
             Owner(e) \in DOMAIN store.users /\ e \in store.users[Owner(e)] =>
               Owner(e) \in DOMAIN store'.users /\ e \in store'.users[Owner(e)]
    BY DEF IInv, Form, SessionCreated
  <2>2. past.mishaps \subseteq past'.mishaps
    BY DEF IInv, Form, SessionCreated
  <2>3. \A c \in svc.tasks : c.do = "clean" => c \in svc'.tasks
    BY DEF IInv, Form, SessionCreated
  <2>4. \A e \in store'.listed : svc.ongoing[e] = "aborted" => svc'.ongoing[e] = "aborted"
    BY DEF IInv, Form, Tables, Requests, Setups, Documents, Creating, SessionCreated
  <2> QED
    BY <2>1, <2>2, <2>3, <2>4, OwnedStays
<1> QED
  BY <1>1, <1>2, <1>3, <1>4, <1>5, <1>6, <1>7, <1>8, <1>9, <1>10, <1>11 DEF IInv

LEMMA SessionNotCreatedIInv ==
  ASSUME IInv, NEW t \in svc.tasks, SessionNotCreated(t)
  PROVE  IInv'
<1>1. Form'
  BY DEF IInv, Form, SessionNotCreated
<1>2. Tasks'
  BY DEF IInv, Tasks, SessionNotCreated
<1>3. Tables'
  BY DEF IInv, Tables, Requests, SessionNotCreated
<1>4. Domains'
  BY DEF IInv, Domains, SessionNotCreated
<1>5. Faults'
  BY BoundsAssumption DEF IInv, Faults, SessionNotCreated
<1>6. Requests'
  BY DEF IInv, Requests, SessionNotCreated
<1>7. Setups'
  BY DEF IInv, Setups, SessionNotCreated
<1>8. Removals'
  BY DEF IInv, Removals, SessionNotCreated
<1>9. Documents'
  BY DEF IInv, Documents, Creating, SessionNotCreated
<1>10. Operations'
  BY DEF IInv, Operations, Ending, SessionNotCreated
<1>11. Owned'
  <2>1. /\ bound' = bound /\ store'.listed \subseteq store.listed
        /\ \A e \in store'.listed :
             Owner(e) \in DOMAIN store.users /\ e \in store.users[Owner(e)] =>
               Owner(e) \in DOMAIN store'.users /\ e \in store'.users[Owner(e)]
    BY DEF IInv, Form, SessionNotCreated
  <2>2. past.mishaps \subseteq past'.mishaps
    BY DEF IInv, Form, SessionNotCreated
  <2>3. \A c \in svc.tasks : c.do = "clean" => c \in svc'.tasks
    BY DEF IInv, Form, SessionNotCreated
  <2>4. \A e \in store'.listed : svc.ongoing[e] = "aborted" => svc'.ongoing[e] = "aborted"
    BY DEF IInv, Form, Tables, SessionNotCreated
  <2> QED
    BY <2>1, <2>2, <2>3, <2>4, OwnedStays
<1> QED
  BY <1>1, <1>2, <1>3, <1>4, <1>5, <1>6, <1>7, <1>8, <1>9, <1>10, <1>11 DEF IInv

LEMMA AddUserIInv ==
  ASSUME IInv, NEW t \in svc.tasks, AddUser(t)
  PROVE  IInv'
<1>1. Form'
  BY DEF IInv, Form, AddUser, StopSession
<1>2. Tasks'
  BY DEF IInv, Tasks, TaskForm, AddUser, StopSession
<1>3. Tables'
  BY DEF IInv, Form, Tables, AddUser, StopSession
<1>4. Domains'
  BY DEF IInv, Domains, AddUser, StopSession
<1>5. Faults'
  BY DEF IInv, Faults, AddUser
<1>6. Requests'
  BY DEF IInv, Tasks, TaskForm, Requests, AddUser, StopSession
<1>7. Setups'
  BY DEF IInv, Tasks, TaskForm, Setups, AddUser, StopSession
<1>8. Removals'
  BY DEF IInv, Tasks, TaskForm, Removals, AddUser, StopSession
<1>9. Documents'
  BY DEF IInv, Documents, Creating, AddUser, StopSession
<1>10. Operations'
  BY DEF IInv, Setups, Operations, Ending, AddUser, StopSession
<1>11. Owned'
  <2>1. /\ bound' = bound /\ store'.listed \subseteq store.listed
        /\ \A e \in store'.listed :
             Owner(e) \in DOMAIN store.users /\ e \in store.users[Owner(e)] =>
               Owner(e) \in DOMAIN store'.users /\ e \in store'.users[Owner(e)]
    BY DEF IInv, Form, AddUser, StopSession
  <2>2. past.mishaps \subseteq past'.mishaps
    BY DEF IInv, Form, AddUser, StopSession
  <2>3. \A c \in svc.tasks : c.do = "clean" => c \in svc'.tasks
    BY DEF IInv, Form, AddUser, StopSession
  <2>4. \A e \in store'.listed : svc.ongoing[e] = "aborted" => svc'.ongoing[e] = "aborted"
    BY DEF IInv, Form, Tables, AddUser, StopSession
  <2> QED
    BY <2>1, <2>2, <2>3, <2>4, OwnedStays
<1> QED
  BY <1>1, <1>2, <1>3, <1>4, <1>5, <1>6, <1>7, <1>8, <1>9, <1>10, <1>11 DEF IInv

LEMMA NoInternalAddressIInv ==
  ASSUME IInv, NEW t \in svc.tasks, NoInternalAddress(t)
  PROVE  IInv'
<1>1. Form'
  BY DEF IInv, Form, NoInternalAddress, StopSession
<1>2. Tasks'
  BY DEF IInv, Tasks, TaskForm, NoInternalAddress, StopSession
<1>3. Tables'
  BY DEF IInv, Form, Tables, NoInternalAddress, StopSession
<1>4. Domains'
  BY DEF IInv, Domains, NoInternalAddress, StopSession
<1>5. Faults'
  BY BoundsAssumption DEF IInv, Faults, NoInternalAddress
<1>6. Requests'
  BY DEF IInv, Requests, NoInternalAddress, StopSession
<1>7. Setups'
  BY DEF IInv, Setups, NoInternalAddress, StopSession
<1>8. Removals'
  BY DEF IInv, Removals, NoInternalAddress, StopSession
<1>9. Documents'
  BY DEF IInv, Documents, Creating, NoInternalAddress, StopSession
<1>10. Operations'
  BY DEF IInv, Setups, Operations, Ending, NoInternalAddress, StopSession
<1>11. Owned'
  <2>1. /\ bound' = bound /\ store'.listed \subseteq store.listed
        /\ \A e \in store'.listed :
             Owner(e) \in DOMAIN store.users /\ e \in store.users[Owner(e)] =>
               Owner(e) \in DOMAIN store'.users /\ e \in store'.users[Owner(e)]
    BY DEF IInv, Form, NoInternalAddress, StopSession
  <2>2. past.mishaps \subseteq past'.mishaps
    BY DEF IInv, Form, NoInternalAddress, StopSession
  <2>3. \A c \in svc.tasks : c.do = "clean" => c \in svc'.tasks
    BY DEF IInv, Form, NoInternalAddress, StopSession
  <2>4. \A e \in store'.listed : svc.ongoing[e] = "aborted" => svc'.ongoing[e] = "aborted"
    BY DEF IInv, Form, Tables, NoInternalAddress, StopSession
  <2> QED
    BY <2>1, <2>2, <2>3, <2>4, OwnedStays
<1> QED
  BY <1>1, <1>2, <1>3, <1>4, <1>5, <1>6, <1>7, <1>8, <1>9, <1>10, <1>11 DEF IInv

LEMMA OwnIInv ==
  ASSUME IInv, NEW t \in svc.tasks, Own(t)
  PROVE  IInv'
<1> DEFINE next == [do |-> "add", id |-> t.id, at |-> "create", from |-> t.from]
<1>a. /\ t.do = "add" /\ t.at = "own" /\ t.id \in Sessions
      /\ t = [do |-> "add", id |-> t.id, at |-> t.at, from |-> t.from]
      /\ bound' = bound /\ node' = node
  BY DEF IInv, Tasks, TaskForm, Own
<1>b. /\ past'.joined = past.joined /\ past'.requested = past.requested /\ past'.established = past.established
      /\ past'.faults = past.faults /\ past.mishaps \subseteq past'.mishaps
      /\ past' = [past EXCEPT !.mishaps = past'.mishaps]
      /\ Owner(t.id) \notin DOMAIN store.users => <<"left_meanwhile", t.id>> \in past'.mishaps
  BY DEF Own, IInv, Form
<1>c. [t EXCEPT !.at = "create"] = next
  BY <1>a
<1>d. svc' = [svc EXCEPT !.tasks = (@ \ {t}) \cup {next}]
  BY <1>c DEF Own, IInv, Form
<1>e. /\ svc'.tasks = (svc.tasks \ {t}) \cup {next}
      /\ svc'.ongoing = svc.ongoing /\ svc'.ops = svc.ops /\ svc'.updating = svc.updating /\ svc'.next = svc.next
  BY <1>d DEF IInv, Form
<1> DEFINE u == Owner(t.id)
           L == [store EXCEPT !.listed = @ \cup {t.id}]
           listed == IF u \in DOMAIN store.users THEN [L EXCEPT !.users[u] = @ \cup {t.id}] ELSE L
<1>f. /\ listed = [users |-> listed.users, pubs |-> store.pubs, tracks |-> store.tracks,
                   subs |-> store.subs, listed |-> store.listed \cup {t.id}]
      /\ DOMAIN listed.users = DOMAIN store.users
      /\ \A v \in DOMAIN store.users : store.users[v] \subseteq listed.users[v]
      /\ u \in DOMAIN store.users => t.id \in listed.users[u]
  <2>1. L = [users |-> store.users, pubs |-> store.pubs, tracks |-> store.tracks,
             subs |-> store.subs, listed |-> store.listed \cup {t.id}]
    BY DEF IInv, Form
  <2> HIDE DEF L, u
  <2>2. CASE u \in DOMAIN store.users
    <3>1. listed = [L EXCEPT !.users[u] = L.users[u] \cup {t.id}]
      BY <2>2
    <3>2. listed.users = [store.users EXCEPT ![u] = store.users[u] \cup {t.id}]
      BY <2>1, <3>1
    <3>3. listed = [users |-> listed.users, pubs |-> store.pubs, tracks |-> store.tracks,
                   subs |-> store.subs, listed |-> store.listed \cup {t.id}]
      BY <2>1, <3>1
    <3> QED
      BY <2>2, <3>2, <3>3
  <2>3. CASE u \notin DOMAIN store.users
    BY <2>1, <2>3
  <2> QED
    BY <2>2, <2>3
<1>g. store' = IF t.id \in Pubs THEN [listed EXCEPT !.tracks = Put(@, t.id, {})] ELSE listed
  BY DEF Own
<1> HIDE DEF next, L, listed
<1>h. DOMAIN Put(store.tracks, t.id, {}) = DOMAIN store.tracks \cup {t.id}
  BY PutDomain
<1>i. /\ store' = [users |-> store'.users, pubs |-> store'.pubs, tracks |-> store'.tracks,
                   subs |-> store'.subs, listed |-> store'.listed]
      /\ store'.users = listed.users /\ store'.pubs = store.pubs /\ store'.subs = store.subs
      /\ store'.listed = store.listed \cup {t.id}
      /\ DOMAIN store.tracks \subseteq DOMAIN store'.tracks
      /\ t.id \in Pubs => t.id \in DOMAIN store'.tracks
  <2>1. CASE t.id \in Pubs
    BY <1>f, <1>g, <1>h, <2>1
  <2>2. CASE t.id \notin Pubs
    BY <1>f, <1>g, <2>2
  <2> QED
    BY <2>1, <2>2
<1>j. next.do = "add" /\ next.id = t.id /\ next.at = "create" /\ TaskForm(next)
  BY <1>a DEF next, TaskForm
<1>1. Form'
  BY <1>a, <1>b, <1>d, <1>e, <1>f, <1>i, <1>j DEF IInv, Form
<1>2. Tasks'
  BY <1>a, <1>b, <1>d, <1>e, <1>f, <1>i, <1>j DEF IInv, Tasks, TaskForm
<1>3. Tables'
  BY <1>a, <1>b, <1>d, <1>e, <1>f, <1>i, <1>j DEF IInv, Tables, Sessions
<1>4. Domains'
  BY <1>a, <1>b, <1>d, <1>e, <1>f, <1>i, <1>j DEF IInv, Domains
<1>5. Faults'
  BY <1>a, <1>b, <1>d, <1>e, <1>f, <1>i, <1>j DEF IInv, Faults
<1>6. Requests'
  BY <1>a, <1>b, <1>d, <1>e, <1>f, <1>i, <1>j DEF IInv, Requests, Tables, Sessions
<1>7. Setups'
  BY <1>a, <1>b, <1>d, <1>e, <1>f, <1>i, <1>j DEF IInv, Setups, Removals, Tables
<1>8. Removals'
  BY <1>a, <1>b, <1>d, <1>e, <1>f, <1>i, <1>j DEF IInv, Removals, Setups
<1>9. Documents'
  BY <1>a, <1>b, <1>d, <1>e, <1>f, <1>i, <1>j DEF IInv, Documents, Creating, Setups, Removals,
     Sessions
<1>10. Operations'
  BY <1>a, <1>b, <1>d, <1>e, <1>f, <1>i, <1>j DEF IInv, Operations, Ending, Tables
<1>11. Owned'
  <2> SUFFICES ASSUME NEW e \in store'.listed
               PROVE  \/ Owner(e) \in DOMAIN store'.users /\ e \in store'.users[Owner(e)]
                      \/ <<"left_meanwhile", e>> \in past'.mishaps
                      \/ Cleaning(e)'
                      \/ svc'.ongoing[e] = "aborted"
    BY <1>a DEF Owned, Owner
  <2>1. CASE e = t.id
    BY <1>b, <1>f, <1>i, <2>1 DEF u
  <2>2. CASE e # t.id
    <3>1. Cleaning(e) => Cleaning(e)'
      BY <1>a, <1>e DEF Cleaning
    <3>2. \/ Owner(e) \in DOMAIN store.users /\ e \in store.users[Owner(e)]
          \/ <<"left_meanwhile", e>> \in past.mishaps
          \/ Cleaning(e)
          \/ svc.ongoing[e] = "aborted"
      BY <1>i, <2>2 DEF IInv, Owned
    <3> QED
      BY <1>b, <1>e, <1>f, <1>i, <3>1, <3>2
  <2> QED
    BY <2>1, <2>2
<1> QED
  BY <1>1, <1>2, <1>3, <1>4, <1>5, <1>6, <1>7, <1>8, <1>9, <1>10, <1>11 DEF IInv

LEMMA CreateIInv ==
  ASSUME IInv, NEW t \in svc.tasks, Create(t)
  PROVE  IInv'
<1> DEFINE next == [do |-> "add", id |-> t.id, at |-> "check", from |-> t.from]
<1>a. /\ t.do = "add" /\ t.at = "create" /\ t.id \in Sessions
      /\ t = [do |-> "add", id |-> t.id, at |-> t.at, from |-> t.from]
      /\ bound' = bound /\ node' = node /\ past' = past
  BY DEF IInv, Tasks, TaskForm, Create
<1>b. [t EXCEPT !.at = "check"] = next
  BY <1>a
<1>c. svc' = [svc EXCEPT !.tasks = (@ \ {t}) \cup {next}]
  BY <1>b DEF Create, IInv, Form
<1>d. /\ svc'.tasks = (svc.tasks \ {t}) \cup {next}
      /\ svc'.ongoing = svc.ongoing /\ svc'.ops = svc.ops /\ svc'.updating = svc.updating /\ svc'.next = svc.next
  BY <1>c DEF IInv, Form
<1>e. DOMAIN Put(store.subs, t.id, t.from) = DOMAIN store.subs \cup {t.id}
  BY PutDomain
<1>f. /\ store' = [users |-> store.users, pubs |-> store'.pubs, tracks |-> store.tracks,
                   subs |-> store'.subs, listed |-> store.listed]
      /\ store'.users = store.users /\ store'.tracks = store.tracks /\ store'.listed = store.listed
      /\ store'.pubs = IF t.id \in Pubs THEN store.pubs \cup {t.id} ELSE store.pubs
      /\ DOMAIN store'.subs = IF t.id \in Pubs THEN DOMAIN store.subs ELSE DOMAIN store.subs \cup {t.id}
  <2>1. CASE t.id \in Pubs
    BY <2>1 DEF IInv, Form, Create
  <2>2. CASE t.id \notin Pubs
    BY <1>e, <2>2 DEF IInv, Form, Create
  <2> QED
    BY <2>1, <2>2
<1>g. \A e : Stored(e)' <=> Stored(e) \/ e = t.id
  BY <1>f
<1>h. /\ t.id \in past.established /\ svc.ongoing[t.id] # "no" /\ t.id \in store.listed
      /\ t.id \in Pubs => t.id \in DOMAIN store.tracks
      /\ \A c \in svc.tasks : c.do = "add" /\ c.id = t.id => c = t
      /\ \A c \in svc.tasks : c.do = "remove" /\ c.at # "read" => c.id # t.id
  BY <1>a DEF IInv, Setups, Removals
<1> HIDE DEF next
<1>i. next.do = "add" /\ next.id = t.id /\ next.at = "check" /\ TaskForm(next)
  BY <1>a DEF next, TaskForm
<1>1. Form'
  BY <1>a, <1>c, <1>d, <1>f, <1>g, <1>h, <1>i DEF IInv, Form
<1>2. Tasks'
  BY <1>a, <1>c, <1>d, <1>f, <1>g, <1>h, <1>i DEF IInv, Tasks, TaskForm
<1>3. Tables'
  BY <1>a, <1>c, <1>d, <1>f, <1>g, <1>h, <1>i DEF IInv, Tables, Sessions
<1>4. Domains'
  BY <1>a, <1>c, <1>d, <1>f, <1>g, <1>h, <1>i DEF IInv, Domains
<1>5. Faults'
  BY <1>a, <1>c, <1>d, <1>f, <1>g, <1>h, <1>i DEF IInv, Faults
<1>6. Requests'
  BY <1>a, <1>c, <1>d, <1>f, <1>g, <1>h, <1>i DEF IInv, Requests, Tables, Sessions
<1>7. Setups'
  BY <1>a, <1>c, <1>d, <1>f, <1>g, <1>h, <1>i DEF IInv, Setups, Removals, Tables
<1>8. Removals'
  BY <1>a, <1>c, <1>d, <1>f, <1>g, <1>h, <1>i DEF IInv, Removals, Setups
<1>9. Documents'
  BY <1>a, <1>c, <1>d, <1>f, <1>g, <1>h, <1>i DEF IInv, Documents, Creating, Setups, Removals,
     Sessions
<1>10. Operations'
  <2>1. \A e \in Sessions : svc'.ongoing[e] = "yes" /\ e \in past'.established => e \in svc'.ops
    BY <1>a, <1>d DEF IInv, Operations
  <2>2. ASSUME NEW e \in Sessions, svc'.ongoing[e] = "aborted", Stored(e)'
        PROVE  Ending(e)'
    <3>1. CASE e = t.id
      BY <1>d, <1>i, <3>1 DEF Ending
    <3>2. CASE e # t.id
      BY <1>a, <1>d, <1>g, <2>2, <3>2 DEF IInv, Operations, Ending
    <3> QED
      BY <3>1, <3>2
  <2> QED
    BY <2>1, <2>2 DEF Operations
<1>11. Owned'
  BY <1>a, <1>c, <1>d, <1>f, <1>g, <1>h, <1>i, OwnedStays DEF IInv, Tables
<1> QED
  BY <1>1, <1>2, <1>3, <1>4, <1>5, <1>6, <1>7, <1>8, <1>9, <1>10, <1>11 DEF IInv

LEMMA CheckAbortedIInv ==
  ASSUME IInv, NEW t \in svc.tasks, CheckAborted(t)
  PROVE  IInv'
<1>1. Form'
  BY DEF IInv, Form, CheckAborted, RemoveSession
<1>2. Tasks'
  BY DEF IInv, Tasks, TaskForm, CheckAborted, RemoveSession
<1>3. Tables'
  BY DEF IInv, Tables, CheckAborted, RemoveSession
<1>4. Domains'
  BY DEF IInv, Domains, CheckAborted, RemoveSession
<1>5. Faults'
  BY DEF IInv, Faults, CheckAborted
<1>6. Requests'
  BY DEF IInv, Requests, CheckAborted, RemoveSession
<1>7. Setups'
  BY DEF IInv, Setups, CheckAborted, RemoveSession
<1>8. Removals'
  BY DEF IInv, Removals, CheckAborted, RemoveSession
<1>9. Documents'
  BY DEF IInv, Documents, Creating, CheckAborted, RemoveSession
<1>10. Operations'
  <2>1. /\ store' = store /\ past'.established = past.established /\ svc'.ops = svc.ops
        /\ svc'.ongoing = svc.ongoing /\ svc.tasks \ {t} \subseteq svc'.tasks
        /\ svc.ongoing[t.id] = "aborted" => [do |-> "remove", id |-> t.id, at |-> "read", from |-> t.id] \in svc'.tasks
    BY DEF IInv, Form, CheckAborted, RemoveSession
  <2>2. \A e \in Sessions : svc'.ongoing[e] = "yes" /\ e \in past'.established => e \in svc'.ops
    BY <2>1 DEF IInv, Tables, Operations
  <2>3. ASSUME NEW e \in Sessions, svc'.ongoing[e] = "aborted", Stored(e)'
        PROVE  Ending(e)'
    <3>1. CASE e # t.id
      <4>1. PICK d \in svc.tasks : /\ d.id = e
                                  /\ \/ d.do = "stop" /\ e \in svc.ops
                                     \/ d.do = "remove" /\ d.at \in {"read", "delete"}
                                     \/ d.do = "add" /\ d.at = "check"
        BY <2>1, <2>3, <3>1 DEF IInv, Tables, Operations, Ending
      <4> QED
        BY <2>1, <3>1, <4>1 DEF Ending
    <3>2. CASE e = t.id
      BY <2>1, <2>3, <3>2 DEF Ending
    <3> QED
      BY <3>1, <3>2
  <2> QED
    BY <2>2, <2>3 DEF Operations
<1>11. Owned'
  <2>1. /\ bound' = bound /\ store'.listed \subseteq store.listed
        /\ \A e \in store'.listed :
             Owner(e) \in DOMAIN store.users /\ e \in store.users[Owner(e)] =>
               Owner(e) \in DOMAIN store'.users /\ e \in store'.users[Owner(e)]
    BY DEF IInv, Form, CheckAborted, RemoveSession
  <2>2. past.mishaps \subseteq past'.mishaps
    BY DEF IInv, Form, CheckAborted, RemoveSession
  <2>3. \A c \in svc.tasks : c.do = "clean" => c \in svc'.tasks
    BY DEF IInv, Form, CheckAborted, RemoveSession
  <2>4. \A e \in store'.listed : svc.ongoing[e] = "aborted" => svc'.ongoing[e] = "aborted"
    BY DEF IInv, Form, Tables, CheckAborted, RemoveSession
  <2> QED
    BY <2>1, <2>2, <2>3, <2>4, OwnedStays
<1> QED
  BY <1>1, <1>2, <1>3, <1>4, <1>5, <1>6, <1>7, <1>8, <1>9, <1>10, <1>11 DEF IInv

LEMMA FindSourceIInv ==
  ASSUME IInv, NEW t \in svc.tasks, FindSource(t)
  PROVE  IInv'
<1>1. Form'
  BY DEF IInv, Form, FindSource, LinkFailed
<1>2. Tasks'
  BY DEF IInv, Tasks, TaskForm, FindSource, Linking, LinkFailed
<1>3. Tables'
  BY DEF IInv, Tables, FindSource, LinkFailed
<1>4. Domains'
  BY DEF IInv, Domains, FindSource, LinkFailed
<1>5. Faults'
  BY DEF IInv, Faults, FindSource
<1>6. Requests'
  BY DEF IInv, Tasks, TaskForm, Requests, FindSource, Linking, LinkFailed
<1>7. Setups'
  BY DEF IInv, Tasks, TaskForm, Setups, FindSource, Linking, LinkFailed
<1>8. Removals'
  BY DEF IInv, Tasks, TaskForm, Removals, FindSource, Linking, LinkFailed
<1>9. Documents'
  BY DEF IInv, Documents, Creating, FindSource, Linking, LinkFailed
<1>10. Operations'
  BY DEF IInv, Operations, Ending, FindSource, Linking, LinkFailed
<1>11. Owned'
  <2>1. /\ bound' = bound /\ store'.listed \subseteq store.listed
        /\ \A e \in store'.listed :
             Owner(e) \in DOMAIN store.users /\ e \in store.users[Owner(e)] =>
               Owner(e) \in DOMAIN store'.users /\ e \in store'.users[Owner(e)]
    BY DEF IInv, Form, FindSource, Linking, LinkFailed, Failed
  <2>2. past.mishaps \subseteq past'.mishaps
    BY DEF IInv, Form, FindSource, Linking, LinkFailed, Failed
  <2>3. \A c \in svc.tasks : c.do = "clean" => c \in svc'.tasks
    BY DEF IInv, Form, FindSource, Linking, LinkFailed, Failed
  <2>4. \A e \in store'.listed : svc.ongoing[e] = "aborted" => svc'.ongoing[e] = "aborted"
    BY DEF IInv, Form, Tables, FindSource, Linking, LinkFailed, Failed
  <2> QED
    BY <2>1, <2>2, <2>3, <2>4, OwnedStays
<1> QED
  BY <1>1, <1>2, <1>3, <1>4, <1>5, <1>6, <1>7, <1>8, <1>9, <1>10, <1>11 DEF IInv

LEMMA LinkSourceIInv ==
  ASSUME IInv, NEW t \in svc.tasks, LinkSource(t)
  PROVE  IInv'
<1>1. Form'
  BY DEF IInv, Form, LinkSource
<1>2. Tasks'
  BY DEF IInv, Tasks, TaskForm, LinkSource, Linking
<1>3. Tables'
  BY DEF IInv, Tables, LinkSource
<1>4. Domains'
  BY DEF IInv, Domains, LinkSource
<1>5. Faults'
  BY DEF IInv, Faults, LinkSource
<1>6. Requests'
  BY DEF IInv, Tasks, TaskForm, Requests, LinkSource, Linking
<1>7. Setups'
  BY DEF IInv, Tasks, TaskForm, Setups, LinkSource, Linking
<1>8. Removals'
  BY DEF IInv, Tasks, TaskForm, Removals, LinkSource, Linking
<1>9. Documents'
  BY DEF IInv, Documents, Creating, LinkSource, Linking
<1>10. Operations'
  BY DEF IInv, Operations, Ending, LinkSource, Linking
<1>11. Owned'
  <2>1. /\ bound' = bound /\ store'.listed \subseteq store.listed
        /\ \A e \in store'.listed :
             Owner(e) \in DOMAIN store.users /\ e \in store.users[Owner(e)] =>
               Owner(e) \in DOMAIN store'.users /\ e \in store'.users[Owner(e)]
    BY DEF IInv, Form, LinkSource, Linking
  <2>2. past.mishaps \subseteq past'.mishaps
    BY DEF IInv, Form, LinkSource, Linking
  <2>3. \A c \in svc.tasks : c.do = "clean" => c \in svc'.tasks
    BY DEF IInv, Form, LinkSource, Linking
  <2>4. \A e \in store'.listed : svc.ongoing[e] = "aborted" => svc'.ongoing[e] = "aborted"
    BY DEF IInv, Form, Tables, LinkSource, Linking
  <2> QED
    BY <2>1, <2>2, <2>3, <2>4, OwnedStays
<1> QED
  BY <1>1, <1>2, <1>3, <1>4, <1>5, <1>6, <1>7, <1>8, <1>9, <1>10, <1>11 DEF IInv

LEMMA LinkupIInv ==
  ASSUME IInv, NEW t \in svc.tasks, Linkup(t)
  PROVE  IInv'
<1>1. Form'
  BY DEF IInv, Form, Linkup, LinkFailed
<1>2. Tasks'
  BY DEF IInv, Tasks, TaskForm, Linkup, Linking, LinkFailed
<1>3. Tables'
  BY DEF IInv, Tables, Linkup, LinkFailed
<1>4. Domains'
  <2>1. /\ t.id \in node.dests => node'.dests = node.dests /\ node'.links = Put(node.links, t.id, t.from)
        /\ t.id \notin node.dests => node' = node
        /\ store'.users = store.users
        /\ svc'.next = svc.next /\ svc'.updating = svc.updating
        /\ past'.joined = past.joined
    BY DEF IInv, Form, Tables, Linkup, Linking, LinkFailed, Failed
  <2>2. DOMAIN Put(node.links, t.id, t.from) = DOMAIN node.links \cup {t.id}
    BY PutDomain
  <2>3. DOMAIN node'.links \subseteq node'.dests
    BY <2>1, <2>2 DEF IInv, Domains
  <2>4. DOMAIN svc'.next \subseteq svc'.updating
    BY <2>1 DEF IInv, Domains
  <2>5. DOMAIN store'.users \subseteq past'.joined
    BY <2>1 DEF IInv, Domains
  <2> QED
    BY <2>3, <2>4, <2>5 DEF Domains
<1>5. Faults'
  BY DEF IInv, Faults, Linkup
<1>6. Requests'
  BY DEF IInv, Tasks, TaskForm, Requests, Linkup, Linking, LinkFailed
<1>7. Setups'
  BY DEF IInv, Tasks, TaskForm, Setups, Linkup, Linking, LinkFailed
<1>8. Removals'
  BY DEF IInv, Tasks, TaskForm, Removals, Linkup, Linking, LinkFailed
<1>9. Documents'
  BY DEF IInv, Documents, Creating, Linkup, Linking, LinkFailed
<1>10. Operations'
  BY DEF IInv, Operations, Ending, Linkup, Linking, LinkFailed
<1>11. Owned'
  <2>1. /\ bound' = bound /\ store'.listed \subseteq store.listed
        /\ \A e \in store'.listed :
             Owner(e) \in DOMAIN store.users /\ e \in store.users[Owner(e)] =>
               Owner(e) \in DOMAIN store'.users /\ e \in store'.users[Owner(e)]
    BY DEF IInv, Form, Linkup, Linking, LinkFailed, Failed
  <2>2. past.mishaps \subseteq past'.mishaps
    BY DEF IInv, Form, Linkup, Linking, LinkFailed, Failed
  <2>3. \A c \in svc.tasks : c.do = "clean" => c \in svc'.tasks
    BY DEF IInv, Form, Linkup, Linking, LinkFailed, Failed
  <2>4. \A e \in store'.listed : svc.ongoing[e] = "aborted" => svc'.ongoing[e] = "aborted"
    BY DEF IInv, Form, Tables, Linkup, Linking, LinkFailed, Failed
  <2> QED
    BY <2>1, <2>2, <2>3, <2>4, OwnedStays
<1> QED
  BY <1>1, <1>2, <1>3, <1>4, <1>5, <1>6, <1>7, <1>8, <1>9, <1>10, <1>11 DEF IInv

LEMMA LinkupFailsIInv ==
  ASSUME IInv, NEW t \in svc.tasks, LinkupFails(t)
  PROVE  IInv'
<1>1. Form'
  BY DEF IInv, Form, LinkupFails, LinkFailed
<1>2. Tasks'
  BY DEF IInv, Tasks, TaskForm, LinkupFails, LinkFailed
<1>3. Tables'
  BY DEF IInv, Tables, LinkupFails, LinkFailed
<1>4. Domains'
  BY DEF IInv, Domains, LinkupFails, LinkFailed
<1>5. Faults'
  BY BoundsAssumption DEF IInv, Faults, LinkupFails
<1>6. Requests'
  BY DEF IInv, Tasks, TaskForm, Requests, LinkupFails, LinkFailed
<1>7. Setups'
  BY DEF IInv, Tasks, TaskForm, Setups, LinkupFails, Linking, LinkFailed
<1>8. Removals'
  BY DEF IInv, Tasks, TaskForm, Removals, LinkupFails, Linking, LinkFailed
<1>9. Documents'
  BY DEF IInv, Documents, Creating, LinkupFails, Linking, LinkFailed
<1>10. Operations'
  BY DEF IInv, Operations, Ending, LinkupFails, Linking, LinkFailed
<1>11. Owned'
  <2>1. /\ bound' = bound /\ store'.listed \subseteq store.listed
        /\ \A e \in store'.listed :
             Owner(e) \in DOMAIN store.users /\ e \in store.users[Owner(e)] =>
               Owner(e) \in DOMAIN store'.users /\ e \in store'.users[Owner(e)]
    BY DEF IInv, Form, LinkupFails, Linking, Failed, LinkFailed
  <2>2. past.mishaps \subseteq past'.mishaps
    BY DEF IInv, Form, LinkupFails, Linking, Failed, LinkFailed
  <2>3. \A c \in svc.tasks : c.do = "clean" => c \in svc'.tasks
    BY DEF IInv, Form, LinkupFails, Linking, Failed, LinkFailed
  <2>4. \A e \in store'.listed : svc.ongoing[e] = "aborted" => svc'.ongoing[e] = "aborted"
    BY DEF IInv, Form, Tables, LinkupFails, Linking, Failed, LinkFailed
  <2> QED
    BY <2>1, <2>2, <2>3, <2>4, OwnedStays
<1> QED
  BY <1>1, <1>2, <1>3, <1>4, <1>5, <1>6, <1>7, <1>8, <1>9, <1>10, <1>11 DEF IInv

LEMMA CutSubscriptionIInv ==
  ASSUME IInv, NEW t \in svc.tasks, CutSubscription(t)
  PROVE  IInv'
<1>1. Form'
  BY DEF IInv, Form, CutSubscription, Cut, Cutoff, StopSession
<1>2. Tasks'
  BY DEF IInv, Tasks, TaskForm, CutSubscription, StopSession
<1>3. Tables'
  BY DEF IInv, Form, Tables, CutSubscription, Cut, StopSession
<1>4. Domains'
  <2>1. /\ node'.dests = node.dests /\ node'.links = Without(node.links, t.id)
        /\ store'.users = store.users
        /\ svc'.next = svc.next /\ svc'.updating = svc.updating
        /\ past'.joined = past.joined
    BY DEF IInv, Form, Tables, CutSubscription, Linking, Cut, Cutoff, StopSession
  <2>2. DOMAIN Without(node.links, t.id) = DOMAIN node.links \ {t.id}
    BY WithoutDomain
  <2>3. DOMAIN node'.links \subseteq node'.dests
    BY <2>1, <2>2 DEF IInv, Domains
  <2>4. DOMAIN svc'.next \subseteq svc'.updating
    BY <2>1 DEF IInv, Domains
  <2>5. DOMAIN store'.users \subseteq past'.joined
    BY <2>1 DEF IInv, Domains
  <2> QED
    BY <2>3, <2>4, <2>5 DEF Domains
<1>5. Faults'
  BY DEF IInv, Faults, CutSubscription
<1>6. Requests'
  BY DEF IInv, Requests, CutSubscription, StopSession
<1>7. Setups'
  BY DEF IInv, Setups, CutSubscription, Cut, StopSession
<1>8. Removals'
  BY DEF IInv, Removals, CutSubscription, Cut, StopSession
<1>9. Documents'
  BY DEF IInv, Documents, Creating, CutSubscription, Linking, Cut, StopSession
<1>10. Operations'
  BY DEF IInv, Setups, Operations, Ending, CutSubscription, Linking, Cut, StopSession
<1>11. Owned'
  <2>1. /\ bound' = bound /\ store'.listed \subseteq store.listed
        /\ \A e \in store'.listed :
             Owner(e) \in DOMAIN store.users /\ e \in store.users[Owner(e)] =>
               Owner(e) \in DOMAIN store'.users /\ e \in store'.users[Owner(e)]
    BY DEF IInv, Form, CutSubscription, Linking, Cut, Cutoff, StopSession
  <2>2. past.mishaps \subseteq past'.mishaps
    BY DEF IInv, Form, CutSubscription, Linking, Cut, Cutoff, StopSession
  <2>3. \A c \in svc.tasks : c.do = "clean" => c \in svc'.tasks
    BY DEF IInv, Form, CutSubscription, Linking, Cut, Cutoff, StopSession
  <2>4. \A e \in store'.listed : svc.ongoing[e] = "aborted" => svc'.ongoing[e] = "aborted"
    BY DEF IInv, Form, Tables, CutSubscription, Linking, Cut, Cutoff, StopSession
  <2> QED
    BY <2>1, <2>2, <2>3, <2>4, OwnedStays
<1> QED
  BY <1>1, <1>2, <1>3, <1>4, <1>5, <1>6, <1>7, <1>8, <1>9, <1>10, <1>11 DEF IInv

LEMMA ControlReadIInv ==
  ASSUME IInv, NEW t \in svc.tasks, ControlRead(t)
  PROVE  IInv'
<1>1. Form'
  BY DEF IInv, Form, ControlRead, UpdateSubscription
<1>2. Tasks'
  BY DEF IInv, Tasks, TaskForm, ControlRead, UpdateSubscription
<1>3. Tables'
  BY DEF IInv, Tables, ControlRead, UpdateSubscription
<1>4. Domains'
  <2>1. /\ \/ svc'.next = svc.next /\ svc.updating \subseteq svc'.updating
           \/ /\ svc'.updating = svc.updating /\ t.id \in svc.updating
              /\ svc'.next = Put(svc.next, t.id, t.from)
        /\ store'.users = store.users
        /\ node' = node
        /\ past'.joined = past.joined
    BY DEF IInv, Form, Tables, ControlRead, Allowed, UpdateSubscription
  <2>2. DOMAIN Put(svc.next, t.id, t.from) = DOMAIN svc.next \cup {t.id}
    BY PutDomain
  <2>3. DOMAIN node'.links \subseteq node'.dests
    BY <2>1 DEF IInv, Domains
  <2>4. DOMAIN svc'.next \subseteq svc'.updating
    BY <2>1, <2>2 DEF IInv, Domains
  <2>5. DOMAIN store'.users \subseteq past'.joined
    BY <2>1 DEF IInv, Domains
  <2> QED
    BY <2>3, <2>4, <2>5 DEF Domains
<1>5. Faults'
  BY DEF IInv, Faults, ControlRead
<1>6. Requests'
  BY DEF IInv, Requests, ControlRead, UpdateSubscription
<1>7. Setups'
  BY DEF IInv, Setups, ControlRead, UpdateSubscription
<1>8. Removals'
  BY DEF IInv, Removals, ControlRead, UpdateSubscription
<1>9. Documents'
  BY DEF IInv, Documents, Creating, ControlRead, UpdateSubscription
<1>10. Operations'
  BY DEF IInv, Operations, Ending, ControlRead, UpdateSubscription
<1>11. Owned'
  <2>1. /\ bound' = bound /\ store'.listed \subseteq store.listed
        /\ \A e \in store'.listed :
             Owner(e) \in DOMAIN store.users /\ e \in store.users[Owner(e)] =>
               Owner(e) \in DOMAIN store'.users /\ e \in store'.users[Owner(e)]
    BY DEF IInv, Form, ControlRead, Allowed, UpdateSubscription
  <2>2. past.mishaps \subseteq past'.mishaps
    BY DEF IInv, Form, ControlRead, Allowed, UpdateSubscription
  <2>3. \A c \in svc.tasks : c.do = "clean" => c \in svc'.tasks
    BY DEF IInv, Form, ControlRead, Allowed, UpdateSubscription
  <2>4. \A e \in store'.listed : svc.ongoing[e] = "aborted" => svc'.ongoing[e] = "aborted"
    BY DEF IInv, Form, Tables, ControlRead, Allowed, UpdateSubscription
  <2> QED
    BY <2>1, <2>2, <2>3, <2>4, OwnedStays
<1> QED
  BY <1>1, <1>2, <1>3, <1>4, <1>5, <1>6, <1>7, <1>8, <1>9, <1>10, <1>11 DEF IInv

LEMMA UpdateReadIInv ==
  ASSUME IInv, NEW t \in svc.tasks, UpdateRead(t)
  PROVE  IInv'
<1> DEFINE next == [do |-> "update", id |-> t.id, at |-> "source", from |-> t.from]
<1>a. /\ t.do = "update" /\ t.at = "read" /\ bound' = bound
      /\ t = [do |-> "update", id |-> t.id, at |-> t.at, from |-> t.from]
  BY DEF IInv, Tasks, TaskForm, UpdateRead
<1>b. /\ past'.joined = past.joined /\ past'.requested = past.requested /\ past'.established = past.established
      /\ past'.faults = past.faults /\ past.mishaps \subseteq past'.mishaps
      /\ past' = [past EXCEPT !.mishaps = past'.mishaps]
  BY DEF UpdateRead, IInv, Form
<1>c. CASE ~Stored(t.id)
  <2>1. /\ store' = store /\ node' = node /\ svc' = [svc EXCEPT !.tasks = @ \ {t}]
        /\ svc'.tasks = svc.tasks \ {t}
        /\ svc'.ongoing = svc.ongoing /\ svc'.ops = svc.ops /\ svc'.updating = svc.updating /\ svc'.next = svc.next
    BY <1>c DEF UpdateRead, IInv, Form
  <2>2. Form'
    BY <1>a, <1>b, <1>c, <2>1 DEF IInv, Form
  <2>3. Tasks'
    BY <1>a, <1>b, <1>c, <2>1 DEF IInv, Tasks, TaskForm
  <2>4. Tables'
    BY <1>a, <1>b, <1>c, <2>1 DEF IInv, Tables, Sessions
  <2>5. Domains'
    BY <1>a, <1>b, <1>c, <2>1 DEF IInv, Domains
  <2>6. Faults'
    BY <1>a, <1>b, <1>c, <2>1 DEF IInv, Faults
  <2>7. Requests'
    BY <1>a, <1>b, <1>c, <2>1 DEF IInv, Requests, Tables, Sessions
  <2>8. Setups'
    BY <1>a, <1>b, <1>c, <2>1 DEF IInv, Setups, Removals, Tables
  <2>9. Removals'
    BY <1>a, <1>b, <1>c, <2>1 DEF IInv, Removals, Setups
  <2>10. Documents'
    BY <1>a, <1>b, <1>c, <2>1 DEF IInv, Documents, Creating, Setups, Removals, Sessions
  <2>11. Operations'
    BY <1>a, <1>b, <1>c, <2>1 DEF IInv, Operations, Ending, Tables
  <2>12. Owned'
    BY <1>a, <1>b, <1>c, <2>1, OwnedStays DEF IInv, Tables
  <2> QED
    BY <2>2, <2>3, <2>4, <2>5, <2>6, <2>7, <2>8, <2>9, <2>10, <2>11, <2>12 DEF IInv
<1>d. CASE Stored(t.id)
  <2>1. [t EXCEPT !.at = "source"] = next
    BY <1>a
  <2>2. svc' = [svc EXCEPT !.tasks = (@ \ {t}) \cup {next}]
    BY <1>d, <2>1 DEF UpdateRead, IInv, Form
  <2>3. /\ svc'.tasks = (svc.tasks \ {t}) \cup {next}
        /\ svc'.ongoing = svc.ongoing /\ svc'.ops = svc.ops /\ svc'.updating = svc.updating /\ svc'.next = svc.next
    BY <2>2 DEF IInv, Form
  <2>4. /\ store'.users = store.users /\ store'.pubs = store.pubs /\ store'.subs = store.subs
        /\ store'.listed = store.listed /\ DOMAIN store'.tracks = DOMAIN store.tracks
        /\ store' = [users |-> store'.users, pubs |-> store'.pubs, tracks |-> store'.tracks,
                     subs |-> store'.subs, listed |-> store'.listed]
    BY <1>d, CutKeeps DEF UpdateRead, IInv
  <2>5. node' = [dests |-> node.dests, links |-> Without(node.links, t.id)]
    BY <1>d DEF UpdateRead, Cutoff, IInv, Form
  <2>6. node'.dests = node.dests /\ DOMAIN node'.links \subseteq DOMAIN node.links
    BY <2>5, WithoutDomain
  <2> HIDE DEF next
  <2>7. next.do = "update" /\ next.at = "source" /\ TaskForm(next)
    BY DEF next, TaskForm
  <2>8. Form'
    BY <1>a, <1>b, <1>d, <2>2, <2>3, <2>4, <2>5, <2>6, <2>7 DEF IInv, Form
  <2>9. Tasks'
    BY <1>a, <1>b, <1>d, <2>2, <2>3, <2>4, <2>5, <2>6, <2>7 DEF IInv, Tasks, TaskForm
  <2>10. Tables'
    BY <1>a, <1>b, <1>d, <2>2, <2>3, <2>4, <2>5, <2>6, <2>7 DEF IInv, Tables, Sessions
  <2>11. Domains'
    BY <1>a, <1>b, <1>d, <2>2, <2>3, <2>4, <2>5, <2>6, <2>7 DEF IInv, Domains
  <2>12. Faults'
    BY <1>a, <1>b, <1>d, <2>2, <2>3, <2>4, <2>5, <2>6, <2>7 DEF IInv, Faults
  <2>13. Requests'
    BY <1>a, <1>b, <1>d, <2>2, <2>3, <2>4, <2>5, <2>6, <2>7 DEF IInv, Requests, Tables, Sessions
  <2>14. Setups'
    BY <1>a, <1>b, <1>d, <2>2, <2>3, <2>4, <2>5, <2>6, <2>7 DEF IInv, Setups, Removals, Tables
  <2>15. Removals'
    BY <1>a, <1>b, <1>d, <2>2, <2>3, <2>4, <2>5, <2>6, <2>7 DEF IInv, Removals, Setups
  <2>16. Documents'
    BY <1>a, <1>b, <1>d, <2>2, <2>3, <2>4, <2>5, <2>6, <2>7 DEF IInv, Documents, Creating,
       Setups, Removals, Sessions
  <2>17. Operations'
    BY <1>a, <1>b, <1>d, <2>2, <2>3, <2>4, <2>5, <2>6, <2>7 DEF IInv, Operations, Ending, Tables
  <2>18. Owned'
    BY <1>a, <1>b, <1>d, <2>2, <2>3, <2>4, <2>5, <2>6, <2>7, OwnedStays DEF IInv, Tables
  <2> QED
    BY <2>8, <2>9, <2>10, <2>11, <2>12, <2>13, <2>14, <2>15, <2>16, <2>17, <2>18 DEF IInv
<1> QED
  BY <1>c, <1>d

LEMMA UpdateWriteIInv ==
  ASSUME IInv, NEW t \in svc.tasks, UpdateWrite(t)
  PROVE  IInv'
<1>1. Form'
  BY DEF IInv, Form, UpdateWrite, UpdateSubscription
<1>2. Tasks'
  BY DEF IInv, Tasks, TaskForm, UpdateWrite, UpdateSubscription
<1>3. Tables'
  BY DEF IInv, Tables, UpdateWrite, UpdateSubscription
<1>4. Domains'
  <2>1. /\ \/ svc'.next = svc.next /\ svc'.updating = svc.updating
           \/ /\ svc.updating \ {t.id} \subseteq svc'.updating
              /\ svc'.next = Without(svc.next, t.id)
        /\ store'.users = store.users
        /\ node' = node
        /\ past'.joined = past.joined
    BY DEF IInv, Form, Tables, UpdateWrite, UpdateSubscription
  <2>2. DOMAIN Without(svc.next, t.id) = DOMAIN svc.next \ {t.id}
    BY WithoutDomain
  <2>3. DOMAIN node'.links \subseteq node'.dests
    BY <2>1 DEF IInv, Domains
  <2>4. DOMAIN svc'.next \subseteq svc'.updating
    BY <2>1, <2>2 DEF IInv, Domains
  <2>5. DOMAIN store'.users \subseteq past'.joined
    BY <2>1 DEF IInv, Domains
  <2> QED
    BY <2>3, <2>4, <2>5 DEF Domains
<1>5. Faults'
  BY DEF IInv, Faults, UpdateWrite
<1>6. Requests'
  BY DEF IInv, Tasks, TaskForm, Requests, UpdateWrite, UpdateSubscription
<1>7. Setups'
  BY DEF IInv, Tasks, TaskForm, Setups, UpdateWrite, UpdateSubscription
<1>8. Removals'
  BY DEF IInv, Tasks, TaskForm, Removals, UpdateWrite, UpdateSubscription
<1>9. Documents'
  BY DEF IInv, Documents, Creating, UpdateWrite, UpdateSubscription
<1>10. Operations'
  BY DEF IInv, Operations, Ending, UpdateWrite, UpdateSubscription
<1>11. Owned'
  <2>1. /\ bound' = bound /\ store'.listed \subseteq store.listed
        /\ \A e \in store'.listed :
             Owner(e) \in DOMAIN store.users /\ e \in store.users[Owner(e)] =>
               Owner(e) \in DOMAIN store'.users /\ e \in store'.users[Owner(e)]
    BY DEF IInv, Form, UpdateWrite, UpdateSubscription
  <2>2. past.mishaps \subseteq past'.mishaps
    BY DEF IInv, Form, UpdateWrite, UpdateSubscription
  <2>3. \A c \in svc.tasks : c.do = "clean" => c \in svc'.tasks
    BY DEF IInv, Form, UpdateWrite, UpdateSubscription
  <2>4. \A e \in store'.listed : svc.ongoing[e] = "aborted" => svc'.ongoing[e] = "aborted"
    BY DEF IInv, Form, Tables, UpdateWrite, UpdateSubscription
  <2> QED
    BY <2>1, <2>2, <2>3, <2>4, OwnedStays
<1> QED
  BY <1>1, <1>2, <1>3, <1>4, <1>5, <1>6, <1>7, <1>8, <1>9, <1>10, <1>11 DEF IInv

LEMMA SessionStoppedIInv ==
  ASSUME IInv, NEW t \in svc.tasks, SessionStopped(t)
  PROVE  IInv'
<1>1. Form'
  BY DEF IInv, Form, SessionStopped, Stopped, OnSessionAborted, RemoveSession
<1>2. Tasks'
  BY DEF IInv, Tasks, TaskForm, SessionStopped, Stopped, OnSessionAborted, RemoveSession
<1>3. Tables'
  BY DEF IInv, Form, Tables, SessionStopped, Stopped, OnSessionAborted, RemoveSession
<1>4. Domains'
  <2>1. /\ node'.dests = node.dests \ {t.id} /\ node'.links = Without(node.links, t.id)
        /\ store'.users = store.users
        /\ svc'.next = svc.next /\ svc'.updating = svc.updating
        /\ past'.joined = past.joined
    BY DEF IInv, Form, Tables, SessionStopped, Stopped, OnSessionAborted, RemoveSession
  <2>2. DOMAIN Without(node.links, t.id) = DOMAIN node.links \ {t.id}
    BY WithoutDomain
  <2>3. DOMAIN node'.links \subseteq node'.dests
    BY <2>1, <2>2 DEF IInv, Domains
  <2>4. DOMAIN svc'.next \subseteq svc'.updating
    BY <2>1 DEF IInv, Domains
  <2>5. DOMAIN store'.users \subseteq past'.joined
    BY <2>1 DEF IInv, Domains
  <2> QED
    BY <2>3, <2>4, <2>5 DEF Domains
<1>5. Faults'
  BY DEF IInv, Faults, SessionStopped
<1>6. Requests'
  BY DEF IInv, Requests, SessionStopped, Stopped, OnSessionAborted, RemoveSession
<1>7. Setups'
  BY DEF IInv, Setups, SessionStopped, Stopped, OnSessionAborted, RemoveSession
<1>8. Removals'
  BY DEF IInv, Removals, SessionStopped, Stopped, OnSessionAborted, RemoveSession
<1>9. Documents'
  BY DEF IInv, Documents, Creating, SessionStopped, Stopped, OnSessionAborted, RemoveSession
<1>10. Operations'
  <2>a. t.id \notin svc.ops => svc' = [svc EXCEPT !.tasks = @ \ {t}]
    BY DEF SessionStopped, Stopped, OnSessionAborted, RemoveSession
  <2>b. t.id \in svc.ops /\ svc.ongoing[t.id] = "no" =>
          svc' = [svc EXCEPT !.tasks = @ \ {t}, !.ops = @ \ {t.id}]
    BY DEF SessionStopped, Stopped, OnSessionAborted, RemoveSession, IInv, Form
  <2>c. t.id \in svc.ops /\ svc.ongoing[t.id] # "no" =>
          svc' = [svc EXCEPT !.ops = @ \ {t.id}, !.ongoing[t.id] = "aborted",
                    !.tasks = (@ \ {t}) \cup {[do |-> "remove", id |-> t.id, at |-> "read", from |-> t.id]}]
    BY DEF SessionStopped, Stopped, OnSessionAborted, RemoveSession, IInv, Form
  <2>d. store' = store /\ past'.established = past.established /\ t.do = "stop"
    BY DEF SessionStopped
  <2>1. /\ svc.tasks \ {t} \subseteq svc'.tasks
        /\ t.id \notin svc.ops => svc'.ongoing = svc.ongoing /\ svc'.ops = svc.ops
    BY <2>a, <2>b, <2>c, <2>d DEF IInv, Form
  <2>e. t.id \in svc.ops /\ svc.ongoing[t.id] = "no" =>
          svc'.ops = svc.ops \ {t.id} /\ svc'.ongoing = svc.ongoing
    BY <2>b DEF IInv, Form
  <2>f. t.id \in svc.ops /\ svc.ongoing[t.id] # "no" =>
          /\ svc'.ops = svc.ops \ {t.id} /\ svc'.ongoing = [svc.ongoing EXCEPT ![t.id] = "aborted"]
          /\ [do |-> "remove", id |-> t.id, at |-> "read", from |-> t.id] \in svc'.tasks
    BY <2>c DEF IInv, Form
  <2>2. \A e \in Sessions : svc'.ongoing[e] = "yes" /\ e \in past'.established => e \in svc'.ops
    BY <2>1, <2>d, <2>e, <2>f DEF IInv, Tables, Operations
  <2>3. ASSUME NEW e \in Sessions, svc'.ongoing[e] = "aborted", Stored(e)'
        PROVE  Ending(e)'
    <3>1. CASE e # t.id
      <4>1. PICK d \in svc.tasks : /\ d.id = e
                                  /\ \/ d.do = "stop" /\ e \in svc.ops
                                     \/ d.do = "remove" /\ d.at \in {"read", "delete"}
                                     \/ d.do = "add" /\ d.at = "check"
        BY <2>1, <2>d, <2>e, <2>f, <2>3, <3>1 DEF IInv, Tables, Operations, Ending
      <4> QED
        BY <2>1, <2>d, <2>e, <2>f, <3>1, <4>1 DEF Ending
    <3>2. CASE e = t.id
      <4>1. CASE t.id \in svc.ops
        BY <2>1, <2>d, <2>e, <2>f, <2>3, <3>2, <4>1 DEF IInv, Documents, Ending
      <4>2. CASE t.id \notin svc.ops
        <5>1. PICK d \in svc.tasks : /\ d.id = e
                                    /\ \/ d.do = "remove" /\ d.at \in {"read", "delete"}
                                       \/ d.do = "add" /\ d.at = "check"
          BY <2>1, <2>d, <2>e, <2>f, <2>3, <3>2, <4>2 DEF IInv, Operations, Ending
        <5> QED
          BY <2>1, <2>d, <2>e, <2>f, <5>1 DEF Ending
      <4> QED
        BY <4>1, <4>2
    <3> QED
      BY <3>1, <3>2
  <2> QED
    BY <2>2, <2>3 DEF Operations
<1>11. Owned'
  <2>1. /\ bound' = bound /\ store'.listed \subseteq store.listed
        /\ \A e \in store'.listed :
             Owner(e) \in DOMAIN store.users /\ e \in store.users[Owner(e)] =>
               Owner(e) \in DOMAIN store'.users /\ e \in store'.users[Owner(e)]
    BY DEF IInv, Form, SessionStopped, Stopped, OnSessionAborted, RemoveSession
  <2>2. past.mishaps \subseteq past'.mishaps
    BY DEF IInv, Form, SessionStopped, Stopped, OnSessionAborted, RemoveSession
  <2>3. \A c \in svc.tasks : c.do = "clean" => c \in svc'.tasks
    BY DEF IInv, Form, SessionStopped, Stopped, OnSessionAborted, RemoveSession
  <2>4. \A e \in store'.listed : svc.ongoing[e] = "aborted" => svc'.ongoing[e] = "aborted"
    BY DEF IInv, Form, Tables, SessionStopped, Stopped, OnSessionAborted, RemoveSession
  <2> QED
    BY <2>1, <2>2, <2>3, <2>4, OwnedStays
<1> QED
  BY <1>1, <1>2, <1>3, <1>4, <1>5, <1>6, <1>7, <1>8, <1>9, <1>10, <1>11 DEF IInv

LEMMA SessionNotStoppedIInv ==
  ASSUME IInv, NEW t \in svc.tasks, SessionNotStopped(t)
  PROVE  IInv'
<1>1. Form'
  BY DEF IInv, Form, SessionNotStopped, Stopped, OnSessionAborted, RemoveSession
<1>2. Tasks'
  BY DEF IInv, Tasks, TaskForm, SessionNotStopped, Stopped, OnSessionAborted, RemoveSession
<1>3. Tables'
  BY DEF IInv, Form, Tables, SessionNotStopped, Stopped, OnSessionAborted, RemoveSession
<1>4. Domains'
  BY DEF IInv, Domains, SessionNotStopped, Stopped, OnSessionAborted, RemoveSession
<1>5. Faults'
  BY BoundsAssumption DEF IInv, Faults, SessionNotStopped
<1>6. Requests'
  BY DEF IInv, Requests, SessionNotStopped, Stopped, OnSessionAborted, RemoveSession
<1>7. Setups'
  BY DEF IInv, Setups, SessionNotStopped, Stopped, OnSessionAborted, RemoveSession
<1>8. Removals'
  BY DEF IInv, Removals, SessionNotStopped, Stopped, OnSessionAborted, RemoveSession
<1>9. Documents'
  BY DEF IInv, Documents, Creating, SessionNotStopped, Stopped, OnSessionAborted, RemoveSession
<1>10. Operations'
  <2>a. t.id \notin svc.ops => svc' = [svc EXCEPT !.tasks = @ \ {t}]
    BY DEF SessionNotStopped, Stopped, OnSessionAborted, RemoveSession
  <2>b. t.id \in svc.ops /\ svc.ongoing[t.id] = "no" =>
          svc' = [svc EXCEPT !.tasks = @ \ {t}, !.ops = @ \ {t.id}]
    BY DEF SessionNotStopped, Stopped, OnSessionAborted, RemoveSession, IInv, Form
  <2>c. t.id \in svc.ops /\ svc.ongoing[t.id] # "no" =>
          svc' = [svc EXCEPT !.ops = @ \ {t.id}, !.ongoing[t.id] = "aborted",
                    !.tasks = (@ \ {t}) \cup {[do |-> "remove", id |-> t.id, at |-> "read", from |-> t.id]}]
    BY DEF SessionNotStopped, Stopped, OnSessionAborted, RemoveSession, IInv, Form
  <2>d. store' = store /\ past'.established = past.established /\ t.do = "stop"
    BY DEF SessionNotStopped
  <2>1. /\ svc.tasks \ {t} \subseteq svc'.tasks
        /\ t.id \notin svc.ops => svc'.ongoing = svc.ongoing /\ svc'.ops = svc.ops
    BY <2>a, <2>b, <2>c, <2>d DEF IInv, Form
  <2>e. t.id \in svc.ops /\ svc.ongoing[t.id] = "no" =>
          svc'.ops = svc.ops \ {t.id} /\ svc'.ongoing = svc.ongoing
    BY <2>b DEF IInv, Form
  <2>f. t.id \in svc.ops /\ svc.ongoing[t.id] # "no" =>
          /\ svc'.ops = svc.ops \ {t.id} /\ svc'.ongoing = [svc.ongoing EXCEPT ![t.id] = "aborted"]
          /\ [do |-> "remove", id |-> t.id, at |-> "read", from |-> t.id] \in svc'.tasks
    BY <2>c DEF IInv, Form
  <2>2. \A e \in Sessions : svc'.ongoing[e] = "yes" /\ e \in past'.established => e \in svc'.ops
    BY <2>1, <2>d, <2>e, <2>f DEF IInv, Tables, Operations
  <2>3. ASSUME NEW e \in Sessions, svc'.ongoing[e] = "aborted", Stored(e)'
        PROVE  Ending(e)'
    <3>1. CASE e # t.id
      <4>1. PICK d \in svc.tasks : /\ d.id = e
                                  /\ \/ d.do = "stop" /\ e \in svc.ops
                                     \/ d.do = "remove" /\ d.at \in {"read", "delete"}
                                     \/ d.do = "add" /\ d.at = "check"
        BY <2>1, <2>d, <2>e, <2>f, <2>3, <3>1 DEF IInv, Tables, Operations, Ending
      <4> QED
        BY <2>1, <2>d, <2>e, <2>f, <3>1, <4>1 DEF Ending
    <3>2. CASE e = t.id
      <4>1. CASE t.id \in svc.ops
        BY <2>1, <2>d, <2>e, <2>f, <2>3, <3>2, <4>1 DEF IInv, Documents, Ending
      <4>2. CASE t.id \notin svc.ops
        <5>1. PICK d \in svc.tasks : /\ d.id = e
                                    /\ \/ d.do = "remove" /\ d.at \in {"read", "delete"}
                                       \/ d.do = "add" /\ d.at = "check"
          BY <2>1, <2>d, <2>e, <2>f, <2>3, <3>2, <4>2 DEF IInv, Operations, Ending
        <5> QED
          BY <2>1, <2>d, <2>e, <2>f, <5>1 DEF Ending
      <4> QED
        BY <4>1, <4>2
    <3> QED
      BY <3>1, <3>2
  <2> QED
    BY <2>2, <2>3 DEF Operations
<1>11. Owned'
  <2>1. /\ bound' = bound /\ store'.listed \subseteq store.listed
        /\ \A e \in store'.listed :
             Owner(e) \in DOMAIN store.users /\ e \in store.users[Owner(e)] =>
               Owner(e) \in DOMAIN store'.users /\ e \in store'.users[Owner(e)]
    BY DEF IInv, Form, SessionNotStopped, Stopped, OnSessionAborted, RemoveSession
  <2>2. past.mishaps \subseteq past'.mishaps
    BY DEF IInv, Form, SessionNotStopped, Stopped, OnSessionAborted, RemoveSession
  <2>3. \A c \in svc.tasks : c.do = "clean" => c \in svc'.tasks
    BY DEF IInv, Form, SessionNotStopped, Stopped, OnSessionAborted, RemoveSession
  <2>4. \A e \in store'.listed : svc.ongoing[e] = "aborted" => svc'.ongoing[e] = "aborted"
    BY DEF IInv, Form, Tables, SessionNotStopped, Stopped, OnSessionAborted, RemoveSession
  <2> QED
    BY <2>1, <2>2, <2>3, <2>4, OwnedStays
<1> QED
  BY <1>1, <1>2, <1>3, <1>4, <1>5, <1>6, <1>7, <1>8, <1>9, <1>10, <1>11 DEF IInv

LEMMA RemoveReadIInv ==
  ASSUME IInv, NEW t \in svc.tasks, RemoveRead(t)
  PROVE  IInv'
<1> DEFINE next == [do |-> "remove", id |-> t.id, at |-> "delete",
                    from |-> IF t.id \in Pubs THEN t.from ELSE store.subs[t.id]]
<1>a. /\ t.do = "remove" /\ t.at = "read" /\ t.id \in Sessions
      /\ bound' = bound /\ node' = node /\ past' = past /\ store' = store
      /\ t = [do |-> "remove", id |-> t.id, at |-> t.at, from |-> t.from]
  BY DEF IInv, Tasks, TaskForm, RemoveRead
<1>c. /\ ~Stored(t.id) => svc' = [svc EXCEPT !.tasks = @ \ {t}]
      /\ Stored(t.id) => svc' = [svc EXCEPT !.tasks = (@ \ {t}) \cup {next}]
  BY DEF RemoveRead, IInv, Form
<1>d. /\ ~Stored(t.id) => svc'.tasks = svc.tasks \ {t}
      /\ Stored(t.id) => svc'.tasks = (svc.tasks \ {t}) \cup {next}
      /\ svc'.ongoing = svc.ongoing /\ svc'.ops = svc.ops /\ svc'.updating = svc.updating /\ svc'.next = svc.next
  BY <1>c DEF IInv, Form
<1>e. next.do = "remove" /\ next.id = t.id /\ next.at = "delete" /\ TaskForm(next)
  BY <1>a DEF TaskForm
<1> HIDE DEF next
<1>1. Form'
  BY <1>a, <1>c, <1>d, <1>e DEF IInv, Form
<1>2. Tasks'
  BY <1>a, <1>c, <1>d, <1>e DEF IInv, Tasks, TaskForm
<1>3. Tables'
  BY <1>a, <1>c, <1>d, <1>e DEF IInv, Tables, Sessions
<1>4. Domains'
  BY <1>a, <1>c, <1>d, <1>e DEF IInv, Domains
<1>5. Faults'
  BY <1>a, <1>c, <1>d, <1>e DEF IInv, Faults
<1>6. Requests'
  BY <1>a, <1>c, <1>d, <1>e DEF IInv, Requests, Tables, Sessions
<1>7. Setups'
  BY <1>a, <1>c, <1>d, <1>e DEF IInv, Setups, Removals, Tables
<1>8. Removals'
  BY <1>a, <1>c, <1>d, <1>e DEF IInv, Removals, Setups, Documents
<1>9. Documents'
  BY <1>a, <1>c, <1>d, <1>e DEF IInv, Documents, Creating, Setups, Removals, Sessions
<1>10. Operations'
  BY <1>a, <1>c, <1>d, <1>e DEF IInv, Operations, Ending, Tables
<1>11. Owned'
  BY <1>a, <1>c, <1>d, <1>e, OwnedStays DEF IInv, Tables
<1> QED
  BY <1>1, <1>2, <1>3, <1>4, <1>5, <1>6, <1>7, <1>8, <1>9, <1>10, <1>11 DEF IInv

LEMMA RemoveDeleteIInv ==
  ASSUME IInv, NEW t \in svc.tasks, RemoveDelete(t)
  PROVE  IInv'
<1> DEFINE next == [do |-> "remove", id |-> t.id, at |-> IF t.id \in Pubs THEN "tracks" ELSE "cut", from |-> t.from]
<1>a. /\ t.do = "remove" /\ t.at = "delete" /\ t.id \in Sessions
      /\ bound' = bound /\ node' = node /\ past' = past
      /\ t = [do |-> "remove", id |-> t.id, at |-> t.at, from |-> t.from]
  BY DEF IInv, Tasks, TaskForm, RemoveDelete
<1>b. ~Stored(t.id) => store' = store /\ svc' = [svc EXCEPT !.tasks = @ \ {t}]
  BY DEF RemoveDelete
<1>c. [t EXCEPT !.at = IF t.id \in Pubs THEN "tracks" ELSE "cut"] = next
  BY <1>a
<1>d. Stored(t.id) =>
        /\ store' = [store EXCEPT !.pubs = @ \ {t.id}, !.subs = Without(@, t.id), !.listed = @ \ {t.id}]
        /\ svc' = [svc EXCEPT !.tasks = (@ \ {t}) \cup {next}, !.ongoing[t.id] = "no"]
  BY <1>c DEF RemoveDelete, IInv, Form
<1>e. /\ next.do = "remove" /\ next.id = t.id /\ next.at \in {"tracks", "cut"} /\ TaskForm(next)
      /\ next.at # "read" /\ next.at # "delete"
  BY <1>a DEF TaskForm
<1> HIDE DEF next
<1>f. CASE ~Stored(t.id)
  <2>1. /\ store' = store /\ svc'.ongoing = svc.ongoing /\ svc'.ops = svc.ops /\ svc'.updating = svc.updating
        /\ svc'.next = svc.next /\ svc'.tasks = svc.tasks \ {t}
    BY <1>b, <1>f DEF IInv, Form
  <2>2. Form'
    BY <1>a, <1>b, <1>f, <2>1 DEF IInv, Form
  <2>3. Tasks'
    BY <1>a, <1>b, <1>f, <2>1 DEF IInv, Tasks, TaskForm
  <2>4. Tables'
    BY <1>a, <1>b, <1>f, <2>1 DEF IInv, Tables
  <2>5. Domains'
    BY <1>a, <1>b, <1>f, <2>1 DEF IInv, Domains
  <2>6. Faults'
    BY <1>a, <1>b, <1>f, <2>1 DEF IInv, Faults
  <2>7. Requests'
    BY <1>a, <1>b, <1>f, <2>1 DEF IInv, Requests
  <2>8. Setups'
    BY <1>a, <1>b, <1>f, <2>1 DEF IInv, Setups
  <2>9. Removals'
    BY <1>a, <1>b, <1>f, <2>1 DEF IInv, Removals
  <2>10. Documents'
    BY <1>a, <1>b, <1>f, <2>1 DEF IInv, Documents, Creating
  <2>11. Operations'
    BY <1>a, <1>b, <1>f, <2>1 DEF IInv, Operations, Ending
  <2>12. Owned'
    BY <1>a, <2>1, OwnedStays DEF IInv
  <2> QED
    BY <2>2, <2>3, <2>4, <2>5, <2>6, <2>7, <2>8, <2>9, <2>10, <2>11, <2>12 DEF IInv
<1>g. CASE Stored(t.id)
  <2>1. /\ svc'.ongoing = [svc.ongoing EXCEPT ![t.id] = "no"] /\ svc'.ops = svc.ops /\ svc'.updating = svc.updating
        /\ svc'.next = svc.next /\ svc'.tasks = (svc.tasks \ {t}) \cup {next}
        /\ store'.users = store.users /\ store'.pubs = store.pubs \ {t.id} /\ store'.tracks = store.tracks
        /\ store'.subs = Without(store.subs, t.id) /\ store'.listed = store.listed \ {t.id}
    BY <1>d, <1>g DEF IInv, Form
  <2>s. store'.subs = Without(store.subs, t.id)
    BY ONLY <2>1
  <2>w. DOMAIN Without(store.subs, t.id) = DOMAIN store.subs \ {t.id}
    BY ONLY WithoutDomain
  <2> DOMAIN store'.subs = DOMAIN store.subs \ {t.id}
    BY ONLY <2>s, <2>w
  <2>2. Form'
    BY <1>a, <1>d, <1>e, <1>g, <2>1 DEF IInv, Form
  <2>3. Tasks'
    BY <1>a, <1>d, <1>e, <1>g, <2>1 DEF IInv, Tasks, TaskForm
  <2>4. Tables'
    BY <1>a, <1>d, <1>e, <1>g, <2>1 DEF IInv, Tables, Sessions
  <2>5. Domains'
    BY <1>a, <1>d, <1>e, <1>g, <2>1 DEF IInv, Domains
  <2>6. Faults'
    BY <1>a, <1>d, <1>e, <1>g, <2>1 DEF IInv, Faults
  <2>7. Requests'
    BY <1>a, <1>d, <1>e, <1>g, <2>1 DEF IInv, Requests, Tables, Sessions
  <2>8. Setups'
    BY <1>a, <1>d, <1>e, <1>g, <2>1 DEF IInv, Setups, Removals, Tables
  <2>9. Removals'
    BY <1>a, <1>d, <1>e, <1>g, <2>1 DEF IInv, Removals, Setups
  <2>10. Documents'
    BY <1>a, <1>d, <1>e, <1>g, <2>1 DEF IInv, Documents, Creating, Setups, Removals, Sessions
  <2>11. Operations'
    BY <1>a, <1>d, <1>e, <1>g, <2>1 DEF IInv, Operations, Ending, Tables
  <2>12. Owned'
    BY <1>a, <1>e, <2>1, OwnedStays DEF IInv, Tables
  <2> QED
    BY <2>2, <2>3, <2>4, <2>5, <2>6, <2>7, <2>8, <2>9, <2>10, <2>11, <2>12 DEF IInv
<1> QED
  BY <1>f, <1>g

LEMMA CleanTracksIInv ==
  ASSUME IInv, NEW t \in svc.tasks, CleanTracks(t)
  PROVE  IInv'
<1>a. /\ t.do = "remove" /\ t.at = "tracks"
      /\ bound' = bound /\ node' = node
      /\ t = [do |-> "remove", id |-> t.id, at |-> t.at, from |-> t.from]
      /\ ~Stored(t.id)
  BY DEF IInv, Tasks, TaskForm, Removals, CleanTracks
<1>b. /\ past'.joined = past.joined /\ past'.requested = past.requested /\ past'.established = past.established
      /\ past'.faults = past.faults /\ past.mishaps \subseteq past'.mishaps
      /\ past' = [past EXCEPT !.mishaps = past'.mishaps]
  BY DEF CleanTracks, IInv, Form
<1>c. /\ store' = [store EXCEPT !.tracks = Without(store.tracks, t.id)]
      /\ store'.users = store.users /\ store'.pubs = store.pubs /\ store'.subs = store.subs
      /\ store'.listed = store.listed /\ store'.tracks = Without(store.tracks, t.id)
  BY DEF CleanTracks, IInv, Form
<1>d. DOMAIN store'.tracks = DOMAIN store.tracks \ {t.id}
  BY <1>c, WithoutDomain
<1> DEFINE new == svc'.tasks \ (svc.tasks \ {t})
<1>e. svc' = [svc EXCEPT !.tasks = (svc.tasks \ {t}) \cup new] /\ \A d \in new : d.do = "related"
  <2>1. CASE svc' = Done(t)
    BY <2>1 DEF IInv, Form
  <2>2. CASE svc' = [Done(t) EXCEPT !.tasks = @ \cup Related(t.id, store.tracks[t.id])]
    <3> DEFINE more == Related(t.id, store.tracks[t.id])
    <3>1. \A d \in more : d.do = "related"
      BY DEF Related
    <3> HIDE DEF more
    <3>2. svc'.tasks = (svc.tasks \ {t}) \cup more /\ svc' = [svc EXCEPT !.tasks = (svc.tasks \ {t}) \cup more]
      BY <2>2 DEF IInv, Form, more
    <3> QED
      BY <3>1, <3>2
  <2> QED
    BY <2>1, <2>2 DEF CleanTracks
<1> HIDE DEF new
<1>f. /\ svc'.tasks = (svc.tasks \ {t}) \cup new
      /\ svc'.ongoing = svc.ongoing /\ svc'.ops = svc.ops /\ svc'.updating = svc.updating /\ svc'.next = svc.next
  BY <1>e DEF IInv, Form
<1>g. \A d \in new : TaskForm(d)
  BY <1>e DEF TaskForm
<1>1. Form'
  BY <1>a, <1>b, <1>c, <1>d, <1>e, <1>f, <1>g DEF IInv, Form
<1>2. Tasks'
  BY <1>a, <1>b, <1>c, <1>d, <1>e, <1>f, <1>g DEF IInv, Tasks, TaskForm
<1>3. Tables'
  BY <1>a, <1>b, <1>c, <1>d, <1>e, <1>f, <1>g DEF IInv, Tables, Sessions
<1>4. Domains'
  BY <1>a, <1>b, <1>c, <1>d, <1>e, <1>f, <1>g DEF IInv, Domains
<1>5. Faults'
  BY <1>a, <1>b, <1>c, <1>d, <1>e, <1>f, <1>g DEF IInv, Faults
<1>6. Requests'
  BY <1>a, <1>b, <1>c, <1>d, <1>e, <1>f, <1>g DEF IInv, Requests, Tables, Sessions
<1>7. Setups'
  BY <1>a, <1>b, <1>c, <1>d, <1>e, <1>f, <1>g DEF IInv, Setups, Removals, Tables
<1>8. Removals'
  BY <1>a, <1>b, <1>c, <1>d, <1>e, <1>f, <1>g DEF IInv, Removals, Setups
<1>9. Documents'
  BY <1>a, <1>b, <1>c, <1>d, <1>e, <1>f, <1>g DEF IInv, Documents, Creating, Setups, Removals,
     Sessions
<1>10. Operations'
  BY <1>a, <1>b, <1>c, <1>d, <1>e, <1>f, <1>g DEF IInv, Operations, Ending, Tables
<1>11. Owned'
  BY <1>a, <1>b, <1>c, <1>d, <1>e, <1>f, <1>g, OwnedStays DEF IInv, Tables
<1> QED
  BY <1>1, <1>2, <1>3, <1>4, <1>5, <1>6, <1>7, <1>8, <1>9, <1>10, <1>11 DEF IInv

LEMMA StopRelatedIInv ==
  ASSUME IInv, NEW t \in svc.tasks, StopRelated(t)
  PROVE  IInv'
<1>1. Form'
  BY DEF IInv, Form, StopRelated, StopSession
<1>2. Tasks'
  BY DEF IInv, Tasks, TaskForm, Sessions, Tables, StopRelated, StopSession
<1>3. Tables'
  BY DEF IInv, Form, Tables, StopRelated, StopSession
<1>4. Domains'
  BY DEF IInv, Domains, StopRelated, StopSession
<1>5. Faults'
  BY DEF IInv, Faults, StopRelated
<1>6. Requests'
  BY DEF IInv, Requests, StopRelated, StopSession
<1>7. Setups'
  BY DEF IInv, Setups, StopRelated, StopSession
<1>8. Removals'
  BY DEF IInv, Removals, StopRelated, StopSession
<1>9. Documents'
  BY DEF IInv, Documents, Creating, StopRelated, StopSession
<1>10. Operations'
  <2>1. /\ store' = store /\ svc'.ops = svc.ops /\ past'.established = past.established
        /\ \A d \in svc.tasks : d.do \in {"stop", "remove", "add"} => d \in svc'.tasks
        /\ \/ svc'.ongoing = svc.ongoing
           \/ /\ Stored(t.id) /\ svc'.ongoing = [svc.ongoing EXCEPT ![t.id] = "aborted"]
              /\ t.id \in svc.ops => [do |-> "stop", id |-> t.id, at |-> "node"] \in svc'.tasks
    BY DEF IInv, Form, StopRelated, StopSession
  <2>2. \A e \in Sessions : svc'.ongoing[e] = "yes" /\ e \in past'.established => e \in svc'.ops
    BY <2>1 DEF IInv, Tables, Operations
  <2>3. ASSUME NEW e \in Sessions, svc'.ongoing[e] = "aborted", Stored(e)'
        PROVE  Ending(e)'
    <3>1. CASE svc.ongoing[e] = "aborted"
      <4>1. PICK d \in svc.tasks : /\ d.id = e
                                  /\ \/ d.do = "stop" /\ e \in svc.ops
                                     \/ d.do = "remove" /\ d.at \in {"read", "delete"}
                                     \/ d.do = "add" /\ d.at = "check"
        BY <2>1, <2>3, <3>1 DEF IInv, Operations, Ending
      <4> QED
        BY <2>1, <4>1 DEF Ending
    <3>2. CASE svc.ongoing[e] # "aborted"
      <4>1. e = t.id /\ [do |-> "stop", id |-> e, at |-> "node"] \in svc'.tasks /\ e \in svc'.ops
        BY <2>1, <2>3, <3>2 DEF IInv, Tables, Documents, Operations
      <4> QED
        BY <4>1 DEF Ending
    <3> QED
      BY <3>1, <3>2
  <2> QED
    BY <2>2, <2>3 DEF Operations
<1>11. Owned'
  <2>1. /\ bound' = bound /\ store'.listed \subseteq store.listed
        /\ \A e \in store'.listed :
             Owner(e) \in DOMAIN store.users /\ e \in store.users[Owner(e)] =>
               Owner(e) \in DOMAIN store'.users /\ e \in store'.users[Owner(e)]
    BY DEF IInv, Form, StopRelated, StopSession
  <2>2. past.mishaps \subseteq past'.mishaps
    BY DEF IInv, Form, StopRelated, StopSession
  <2>3. \A c \in svc.tasks : c.do = "clean" => c \in svc'.tasks
    BY DEF IInv, Form, StopRelated, StopSession
  <2>4. \A e \in store'.listed : svc.ongoing[e] = "aborted" => svc'.ongoing[e] = "aborted"
    BY DEF IInv, Form, Tables, StopRelated, StopSession
  <2> QED
    BY <2>1, <2>2, <2>3, <2>4, OwnedStays
<1> QED
  BY <1>1, <1>2, <1>3, <1>4, <1>5, <1>6, <1>7, <1>8, <1>9, <1>10, <1>11 DEF IInv

LEMMA CutRemovedIInv ==
  ASSUME IInv, NEW t \in svc.tasks, CutRemoved(t)
  PROVE  IInv'
<1>1. Form'
  BY DEF IInv, Form, CutRemoved, Cut, Cutoff
<1>2. Tasks'
  BY DEF IInv, Tasks, CutRemoved
<1>3. Tables'
  BY DEF IInv, Tables, CutRemoved, Cut
<1>4. Domains'
  <2>1. /\ node'.dests = node.dests /\ node'.links = Without(node.links, t.id)
        /\ store'.users = store.users
        /\ svc'.next = svc.next /\ svc'.updating = svc.updating
        /\ past'.joined = past.joined
    BY DEF IInv, Form, Tables, CutRemoved, Cut, Cutoff
  <2>2. DOMAIN Without(node.links, t.id) = DOMAIN node.links \ {t.id}
    BY WithoutDomain
  <2>3. DOMAIN node'.links \subseteq node'.dests
    BY <2>1, <2>2 DEF IInv, Domains
  <2>4. DOMAIN svc'.next \subseteq svc'.updating
    BY <2>1 DEF IInv, Domains
  <2>5. DOMAIN store'.users \subseteq past'.joined
    BY <2>1 DEF IInv, Domains
  <2> QED
    BY <2>3, <2>4, <2>5 DEF Domains
<1>5. Faults'
  BY DEF IInv, Faults, CutRemoved
<1>6. Requests'
  BY DEF IInv, Requests, CutRemoved
<1>7. Setups'
  BY DEF IInv, Setups, CutRemoved, Cut
<1>8. Removals'
  BY DEF IInv, Removals, CutRemoved, Cut
<1>9. Documents'
  BY DEF IInv, Documents, Creating, CutRemoved, Cut
<1>10. Operations'
  BY DEF IInv, Operations, Ending, CutRemoved, Cut
<1>11. Owned'
  <2>1. /\ bound' = bound /\ store'.listed \subseteq store.listed
        /\ \A e \in store'.listed :
             Owner(e) \in DOMAIN store.users /\ e \in store.users[Owner(e)] =>
               Owner(e) \in DOMAIN store'.users /\ e \in store'.users[Owner(e)]
    BY DEF IInv, Form, CutRemoved, Cut, Cutoff
  <2>2. past.mishaps \subseteq past'.mishaps
    BY DEF IInv, Form, CutRemoved, Cut, Cutoff
  <2>3. \A c \in svc.tasks : c.do = "clean" => c \in svc'.tasks
    BY DEF IInv, Form, CutRemoved, Cut, Cutoff
  <2>4. \A e \in store'.listed : svc.ongoing[e] = "aborted" => svc'.ongoing[e] = "aborted"
    BY DEF IInv, Form, Tables, CutRemoved, Cut, Cutoff
  <2> QED
    BY <2>1, <2>2, <2>3, <2>4, OwnedStays
<1> QED
  BY <1>1, <1>2, <1>3, <1>4, <1>5, <1>6, <1>7, <1>8, <1>9, <1>10, <1>11 DEF IInv

LEMMA RequestIInv ==
  ASSUME IInv, NEW i \in Sessions, Request(i)
  PROVE  IInv'
<1>1. Form'
  BY DEF IInv, Form, Request
<1>2. Tasks'
  BY DEF IInv, Tasks, TaskForm, Request
<1>3. Tables'
  BY DEF IInv, Tables, Request
<1>4. Domains'
  BY DEF IInv, Domains, Request
<1>5. Faults'
  BY DEF IInv, Faults, Request
<1>6. Requests'
  BY DEF IInv, Requests, Tables, Request
<1>7. Setups'
  BY DEF IInv, Setups, Request
<1>8. Removals'
  BY DEF IInv, Removals, Request
<1>9. Documents'
  BY DEF IInv, Documents, Creating, Request
<1>10. Operations'
  BY DEF IInv, Operations, Ending, Request
<1>11. Owned'
  <2>1. /\ bound' = bound /\ store'.listed \subseteq store.listed
        /\ \A e \in store'.listed :
             Owner(e) \in DOMAIN store.users /\ e \in store.users[Owner(e)] =>
               Owner(e) \in DOMAIN store'.users /\ e \in store'.users[Owner(e)]
    BY DEF IInv, Form, Request
  <2>2. past.mishaps \subseteq past'.mishaps
    BY DEF IInv, Form, Request
  <2>3. \A c \in svc.tasks : c.do = "clean" => c \in svc'.tasks
    BY DEF IInv, Form, Request
  <2>4. \A e \in store'.listed : svc.ongoing[e] = "aborted" => svc'.ongoing[e] = "aborted"
    BY DEF IInv, Form, Tables, Request
  <2> QED
    BY <2>1, <2>2, <2>3, <2>4, OwnedStays
<1> QED
  BY <1>1, <1>2, <1>3, <1>4, <1>5, <1>6, <1>7, <1>8, <1>9, <1>10, <1>11 DEF IInv

LEMMA EstablishedIInv ==
  ASSUME IInv, NEW i \in Sessions, Established(i)
  PROVE  IInv'
<1>1. Form'
  BY DEF IInv, Form, Established
<1>2. Tasks'
  BY DEF IInv, Tasks, TaskForm, Established
<1>3. Tables'
  BY DEF IInv, Tables, Established
<1>4. Domains'
  BY DEF IInv, Domains, Established
<1>5. Faults'
  BY DEF IInv, Faults, Established
<1>6. Requests'
  BY DEF IInv, Requests, Established
<1>7. Setups'
  BY DEF IInv, Setups, Documents, Established
<1>8. Removals'
  BY DEF IInv, Removals, Established
<1>9. Documents'
  BY DEF IInv, Documents, Creating, Established
<1>10. Operations'
  BY DEF IInv, Operations, Ending, Established
<1>11. Owned'
  <2>1. /\ bound' = bound /\ store'.listed \subseteq store.listed
        /\ \A e \in store'.listed :
             Owner(e) \in DOMAIN store.users /\ e \in store.users[Owner(e)] =>
               Owner(e) \in DOMAIN store'.users /\ e \in store'.users[Owner(e)]
    BY DEF IInv, Form, Established
  <2>2. past.mishaps \subseteq past'.mishaps
    BY DEF IInv, Form, Established
  <2>3. \A c \in svc.tasks : c.do = "clean" => c \in svc'.tasks
    BY DEF IInv, Form, Established
  <2>4. \A e \in store'.listed : svc.ongoing[e] = "aborted" => svc'.ongoing[e] = "aborted"
    BY DEF IInv, Form, Tables, Established
  <2> QED
    BY <2>1, <2>2, <2>3, <2>4, OwnedStays
<1> QED
  BY <1>1, <1>2, <1>3, <1>4, <1>5, <1>6, <1>7, <1>8, <1>9, <1>10, <1>11 DEF IInv

LEMMA TransportFailedIInv ==
  ASSUME IInv, NEW i \in Sessions, TransportFailed(i)
  PROVE  IInv'
<1>1. Form'
  BY DEF IInv, Form, TransportFailed
<1>2. Tasks'
  BY DEF IInv, Tasks, TransportFailed
<1>3. Tables'
  BY DEF IInv, Tables, TransportFailed
<1>4. Domains'
  <2>1. /\ node'.dests = node.dests \ {i} /\ node'.links = Without(node.links, i)
        /\ store'.users = store.users
        /\ svc'.next = svc.next /\ svc'.updating = svc.updating
        /\ past'.joined = past.joined
    BY DEF IInv, Form, Tables, TransportFailed
  <2>2. DOMAIN Without(node.links, i) = DOMAIN node.links \ {i}
    BY WithoutDomain
  <2>3. DOMAIN node'.links \subseteq node'.dests
    BY <2>1, <2>2 DEF IInv, Domains
  <2>4. DOMAIN svc'.next \subseteq svc'.updating
    BY <2>1 DEF IInv, Domains
  <2>5. DOMAIN store'.users \subseteq past'.joined
    BY <2>1 DEF IInv, Domains
  <2> QED
    BY <2>3, <2>4, <2>5 DEF Domains
<1>5. Faults'
  BY BoundsAssumption DEF IInv, Faults, TransportFailed
<1>6. Requests'
  BY DEF IInv, Requests, TransportFailed
<1>7. Setups'
  BY DEF IInv, Setups, TransportFailed
<1>8. Removals'
  BY DEF IInv, Removals, TransportFailed
<1>9. Documents'
  BY DEF IInv, Documents, Creating, TransportFailed
<1>10. Operations'
  BY DEF IInv, Operations, Ending, TransportFailed
<1>11. Owned'
  <2>1. /\ bound' = bound /\ store'.listed \subseteq store.listed
        /\ \A e \in store'.listed :
             Owner(e) \in DOMAIN store.users /\ e \in store.users[Owner(e)] =>
               Owner(e) \in DOMAIN store'.users /\ e \in store'.users[Owner(e)]
    BY DEF IInv, Form, TransportFailed
  <2>2. past.mishaps \subseteq past'.mishaps
    BY DEF IInv, Form, TransportFailed
  <2>3. \A c \in svc.tasks : c.do = "clean" => c \in svc'.tasks
    BY DEF IInv, Form, TransportFailed
  <2>4. \A e \in store'.listed : svc.ongoing[e] = "aborted" => svc'.ongoing[e] = "aborted"
    BY DEF IInv, Form, Tables, TransportFailed
  <2> QED
    BY <2>1, <2>2, <2>3, <2>4, OwnedStays
<1> QED
  BY <1>1, <1>2, <1>3, <1>4, <1>5, <1>6, <1>7, <1>8, <1>9, <1>10, <1>11 DEF IInv

LEMMA EndIInv ==
  ASSUME IInv, NEW i \in Sessions, End(i)
  PROVE  IInv'
<1>1. Form'
  BY DEF IInv, Form, End, StopSession
<1>2. Tasks'
  BY DEF IInv, Tasks, TaskForm, End, StopSession
<1>3. Tables'
  BY DEF IInv, Tables, End, StopSession
<1>4. Domains'
  BY DEF IInv, Domains, End, StopSession
<1>5. Faults'
  BY DEF IInv, Faults, End
<1>6. Requests'
  BY DEF IInv, Requests, End, StopSession
<1>7. Setups'
  BY DEF IInv, Setups, End, StopSession
<1>8. Removals'
  BY DEF IInv, Removals, End, StopSession
<1>9. Documents'
  BY DEF IInv, Documents, Creating, End, StopSession
<1>10. Operations'
  <2>1. /\ store' = store /\ svc'.ops = svc.ops /\ past'.established = past.established
        /\ \A d \in svc.tasks : d.do \in {"stop", "remove", "add"} => d \in svc'.tasks
        /\ \/ svc'.ongoing = svc.ongoing
           \/ /\ Stored(i) /\ svc'.ongoing = [svc.ongoing EXCEPT ![i] = "aborted"]
              /\ i \in svc.ops => [do |-> "stop", id |-> i, at |-> "node"] \in svc'.tasks
    BY DEF IInv, Form, End, StopSession
  <2>2. \A e \in Sessions : svc'.ongoing[e] = "yes" /\ e \in past'.established => e \in svc'.ops
    BY <2>1 DEF IInv, Tables, Operations
  <2>3. ASSUME NEW e \in Sessions, svc'.ongoing[e] = "aborted", Stored(e)'
        PROVE  Ending(e)'
    <3>1. CASE svc.ongoing[e] = "aborted"
      <4>1. PICK d \in svc.tasks : /\ d.id = e
                                  /\ \/ d.do = "stop" /\ e \in svc.ops
                                     \/ d.do = "remove" /\ d.at \in {"read", "delete"}
                                     \/ d.do = "add" /\ d.at = "check"
        BY <2>1, <2>3, <3>1 DEF IInv, Operations, Ending
      <4> QED
        BY <2>1, <4>1 DEF Ending
    <3>2. CASE svc.ongoing[e] # "aborted"
      <4>1. e = i /\ [do |-> "stop", id |-> e, at |-> "node"] \in svc'.tasks /\ e \in svc'.ops
        BY <2>1, <2>3, <3>2 DEF IInv, Tables, Documents, Operations
      <4> QED
        BY <4>1 DEF Ending
    <3> QED
      BY <3>1, <3>2
  <2> QED
    BY <2>2, <2>3 DEF Operations
<1>11. Owned'
  <2>1. /\ bound' = bound /\ store'.listed \subseteq store.listed
        /\ \A e \in store'.listed :
             Owner(e) \in DOMAIN store.users /\ e \in store.users[Owner(e)] =>
               Owner(e) \in DOMAIN store'.users /\ e \in store'.users[Owner(e)]
    BY DEF IInv, Form, End, StopSession
  <2>2. past.mishaps \subseteq past'.mishaps
    BY DEF IInv, Form, End, StopSession
  <2>3. \A c \in svc.tasks : c.do = "clean" => c \in svc'.tasks
    BY DEF IInv, Form, End, StopSession
  <2>4. \A e \in store'.listed : svc.ongoing[e] = "aborted" => svc'.ongoing[e] = "aborted"
    BY DEF IInv, Form, Tables, End, StopSession
  <2> QED
    BY <2>1, <2>2, <2>3, <2>4, OwnedStays
<1> QED
  BY <1>1, <1>2, <1>3, <1>4, <1>5, <1>6, <1>7, <1>8, <1>9, <1>10, <1>11 DEF IInv

LEMMA ControlIInv ==
  ASSUME IInv, NEW x \in Subs, NEW s \in Pubs, Control(x, s)
  PROVE  IInv'
<1>1. Form'
  BY DEF IInv, Form, Control
<1>2. Tasks'
  BY DEF IInv, Tasks, TaskForm, Control
<1>3. Tables'
  BY DEF IInv, Tables, Control
<1>4. Domains'
  BY DEF IInv, Domains, Control
<1>5. Faults'
  BY DEF IInv, Faults, Control
<1>6. Requests'
  BY DEF IInv, Requests, Control
<1>7. Setups'
  BY DEF IInv, Setups, Control
<1>8. Removals'
  BY DEF IInv, Removals, Control
<1>9. Documents'
  BY DEF IInv, Documents, Creating, Control
<1>10. Operations'
  BY DEF IInv, Operations, Ending, Control
<1>11. Owned'
  <2>1. /\ bound' = bound /\ store'.listed \subseteq store.listed
        /\ \A e \in store'.listed :
             Owner(e) \in DOMAIN store.users /\ e \in store.users[Owner(e)] =>
               Owner(e) \in DOMAIN store'.users /\ e \in store'.users[Owner(e)]
    BY DEF IInv, Form, Control
  <2>2. past.mishaps \subseteq past'.mishaps
    BY DEF IInv, Form, Control
  <2>3. \A c \in svc.tasks : c.do = "clean" => c \in svc'.tasks
    BY DEF IInv, Form, Control
  <2>4. \A e \in store'.listed : svc.ongoing[e] = "aborted" => svc'.ongoing[e] = "aborted"
    BY DEF IInv, Form, Tables, Control
  <2> QED
    BY <2>1, <2>2, <2>3, <2>4, OwnedStays
<1> QED
  BY <1>1, <1>2, <1>3, <1>4, <1>5, <1>6, <1>7, <1>8, <1>9, <1>10, <1>11 DEF IInv

-----------------------------------------------------------------------------
LEMMA InitIInv ==
  ASSUME Init
  PROVE  IInv
<1>1. /\ store = [users |-> <<>>, pubs |-> {}, tracks |-> <<>>, subs |-> <<>>, listed |-> {}]
      /\ svc.ongoing = [i \in Sessions |-> "no"] /\ svc.ops = {} /\ svc.updating = {}
      /\ svc.next = <<>> /\ svc.tasks = {}
      /\ node = [dests |-> {}, links |-> <<>>]
      /\ past.joined = {} /\ past.requested = {} /\ past.established = {} /\ past.faults = 0
      /\ bound \in Bounds
  BY DEF Init, Nothing
<1>2. DOMAIN <<>> = {}
  OBVIOUS
<1>3. Form
  BY DEF Init, Form
<1>4. Tasks
  BY <1>1 DEF Tasks
<1>5. Tables
  BY <1>1, <1>2 DEF Tables
<1>6. Domains
  BY <1>1, <1>2 DEF Domains
<1>7. Faults
  BY <1>1, BoundsAssumption DEF Faults
<1>8. Requests /\ Setups /\ Removals
  BY <1>1 DEF Requests, Setups, Removals
<1>9. Documents
  BY <1>1, <1>2 DEF Documents
<1>10. Operations
  BY <1>1 DEF Operations
<1>11. Owned
  BY <1>1 DEF Owned
<1> QED
  BY <1>3, <1>4, <1>5, <1>6, <1>7, <1>8, <1>9, <1>10, <1>11 DEF IInv

LEMMA GoesOnIInv ==
  ASSUME IInv, NEW t \in svc.tasks, GoesOn(t)
  PROVE  IInv'
<1>1. CASE LeaveRead(t)
  BY <1>1, LeaveReadIInv
<1>2. CASE RemoveParticipant(t)
  BY <1>2, RemoveParticipantIInv
<1>3. CASE Clean(t)
  BY <1>3, CleanIInv
<1>4. CASE RequestRead(t)
  BY <1>4, RequestReadIInv
<1>5. CASE SessionCreated(t)
  BY <1>5, SessionCreatedIInv
<1>6. CASE SessionNotCreated(t)
  BY <1>6, SessionNotCreatedIInv
<1>7. CASE AddUser(t)
  BY <1>7, AddUserIInv
<1>8. CASE NoInternalAddress(t)
  BY <1>8, NoInternalAddressIInv
<1>9. CASE Own(t)
  BY <1>9, OwnIInv
<1>10. CASE Create(t)
  BY <1>10, CreateIInv
<1>11. CASE CheckAborted(t)
  BY <1>11, CheckAbortedIInv
<1>12. CASE FindSource(t)
  BY <1>12, FindSourceIInv
<1>13. CASE LinkSource(t)
  BY <1>13, LinkSourceIInv
<1>14. CASE Linkup(t)
  BY <1>14, LinkupIInv
<1>15. CASE LinkupFails(t)
  BY <1>15, LinkupFailsIInv
<1>16. CASE CutSubscription(t)
  BY <1>16, CutSubscriptionIInv
<1>17. CASE ControlRead(t)
  BY <1>17, ControlReadIInv
<1>18. CASE UpdateRead(t)
  BY <1>18, UpdateReadIInv
<1>19. CASE UpdateWrite(t)
  BY <1>19, UpdateWriteIInv
<1>20. CASE SessionStopped(t)
  BY <1>20, SessionStoppedIInv
<1>21. CASE SessionNotStopped(t)
  BY <1>21, SessionNotStoppedIInv
<1>22. CASE RemoveRead(t)
  BY <1>22, RemoveReadIInv
<1>23. CASE RemoveDelete(t)
  BY <1>23, RemoveDeleteIInv
<1>24. CASE CleanTracks(t)
  BY <1>24, CleanTracksIInv
<1>25. CASE StopRelated(t)
  BY <1>25, StopRelatedIInv
<1>26. CASE CutRemoved(t)
  BY <1>26, CutRemovedIInv
<1> QED
  BY <1>1, <1>2, <1>3, <1>4, <1>5, <1>6, <1>7, <1>8, <1>9, <1>10, <1>11, <1>12, <1>13, <1>14,
     <1>15, <1>16, <1>17, <1>18, <1>19, <1>20, <1>21, <1>22, <1>23, <1>24, <1>25, <1>26 DEF GoesOn

LEMMA NextIInv ==
  ASSUME IInv, [Next]_vars
  PROVE  IInv'
<1>1. CASE \E u \in Users : Join(u) \/ Leave(u)
  BY <1>1, JoinIInv, LeaveIInv
<1>2. CASE \E i \in Sessions : Request(i) \/ Established(i) \/ TransportFailed(i) \/ End(i)
  BY <1>2, RequestIInv, EstablishedIInv, TransportFailedIInv, EndIInv
<1>3. CASE \E x \in Subs, s \in Pubs : Control(x, s)
  BY <1>3, ControlIInv
<1>4. CASE \E t \in svc.tasks : GoesOn(t)
  BY <1>4, GoesOnIInv
<1>5. CASE UNCHANGED vars
  BY <1>5 DEF vars, IInv, Form, Tasks, TaskForm, Tables, Domains, Faults, Requests, Setups,
     Removals, Documents,
         Creating, Operations, Ending, Owned, Cleaning, Owner
<1> QED
  BY <1>1, <1>2, <1>3, <1>4, <1>5 DEF Next

LEMMA Invariant == Spec => []IInv
<1>1. Init => IInv
  BY InitIInv
<1>2. IInv /\ [Next]_vars => IInv'
  BY NextIInv
<1> QED
  BY <1>1, <1>2, PTL DEF Spec

-----------------------------------------------------------------------------
(* The documents and the tables of the engines fit together, whatever      *)
(* calls fail and in whatever order the answers come: what is stored is    *)
(* known to its engine, a publication has its tracks, an update waits only *)
(* for another one, and the nodes link only destinations that are there.   *)
THEOREM TypeInvariant == Spec => []TypeOK
<1>1. IInv => TypeOK
  <2> SUFFICES ASSUME IInv
               PROVE  TypeOK
    OBVIOUS
  <2>1. /\ DOMAIN store.users \subseteq past.joined /\ DOMAIN svc.next \subseteq svc.updating
        /\ DOMAIN node.links \subseteq node.dests
    BY DEF IInv, Domains
  <2>2. store.pubs \subseteq Pubs /\ DOMAIN store.subs \subseteq Subs /\ svc.ops \subseteq past.requested
    BY DEF IInv, Tables
  <2>3. store.pubs \subseteq DOMAIN store.tracks /\ \A i \in Sessions : Stored(i) => svc.ongoing[i] # "no"
    BY DEF IInv, Documents
  <2>4. past.faults \in 0 .. bound.faults
    BY DEF IInv, Faults
  <2> QED
    BY <2>1, <2>2, <2>3, <2>4 DEF TypeOK
<1> QED
  BY Invariant, <1>1, PTL

(* When nothing is under way, whatever was stopped, aborted or refused     *)
(* before is gone: each publication and subscription in the database has   *)
(* an operation that runs (`stopSession', `onSessionAborted' and the check *)
(* at the end of the setup miss none), and the nodes list just those.      *)
THEOREM EndedSessionsAreGone == Spec => []EndedIsGone
<1>1. IInv => EndedIsGone
  <2> SUFFICES ASSUME IInv, AtRest
               PROVE  /\ \A i \in Sessions : Stored(i) => i \in svc.ops /\ svc.ongoing[i] = "yes"
                      /\ store.listed = store.pubs \cup DOMAIN store.subs
    BY DEF EndedIsGone
  <2>1. \A i : ~Ending(i) /\ ~Creating(i)
    BY DEF AtRest, Ending, Creating
  <2>2. ASSUME NEW i \in Sessions, Stored(i)
        PROVE  i \in svc.ops /\ svc.ongoing[i] = "yes"
    <3>1. svc.ongoing[i] \in {"no", "yes", "aborted"}
      BY DEF IInv, Tables
    <3>2. i \in past.established /\ svc.ongoing[i] # "no"
      BY <2>2 DEF IInv, Documents
    <3>3. svc.ongoing[i] # "aborted"
      BY <2>1, <2>2 DEF IInv, Operations
    <3> QED
      BY <3>1, <3>2, <3>3 DEF IInv, Operations
  <2>3. store.listed = store.pubs \cup DOMAIN store.subs
    <3>1. \A i \in store.listed : Stored(i)
      BY <2>1 DEF IInv, Documents
    <3>2. \A i \in Sessions : Stored(i) => i \in store.listed
      BY DEF IInv, Documents
    <3>3. store.pubs \subseteq Sessions /\ DOMAIN store.subs \subseteq Sessions
      BY DEF IInv, Tables, Sessions
    <3> QED
      BY <3>1, <3>2, <3>3
  <2> QED
    BY <2>2, <2>3
<1> QED
  BY Invariant, <1>1, PTL

(* When nothing is under way, what is stored is listed by an owner that is *)
(* there, so that its leave will end it; the one exception is an owner     *)
(* that left between the steps of the setup, which `leave' cannot notice.  *)
THEOREM OwnersAreStored == Spec => []OwnersStored
<1>1. IInv => OwnersStored
  <2> SUFFICES ASSUME IInv, AtRest, NEW i \in Sessions, Stored(i)
               PROVE  \/ Owner(i) \in DOMAIN store.users /\ i \in store.users[Owner(i)]
                      \/ Excused({"left_meanwhile"}, i)
    BY DEF OwnersStored
  <2>1. ~Ending(i) /\ ~Cleaning(i)
    BY DEF AtRest, Ending, Cleaning
  <2>2. i \in store.listed /\ svc.ongoing[i] # "aborted"
    BY <2>1 DEF IInv, Documents, Operations
  <2>3. \/ Owner(i) \in DOMAIN store.users /\ i \in store.users[Owner(i)]
        \/ <<"left_meanwhile", i>> \in past.mishaps
    BY <2>1, <2>2 DEF IInv, Owned
  <2> QED
    BY <2>3 DEF Excused
<1> QED
  BY Invariant, <1>1, PTL
=============================================================================
