--------------------------- MODULE StreamLinksProofs --------------------------
(***************************************************************************)
(* Proofs about the links between publications and subscriptions, for any  *)
(* number of them, whatever ends, fails or is updated.                     *)
(***************************************************************************)
EXTENDS StreamServiceProofs

-----------------------------------------------------------------------------
(* The parts of the inductive invariant, for a subscription x.             *)

TasksOf(x, do) == {t \in svc.tasks : t.do = do /\ t.id = x}

(* A subscription that has been set up, or whose setup has failed.         *)
Settled(x) == x \in past.established /\ \A t \in TasksOf(x, "add") : t.at = "check"

(* The steps at which tasks are.                                           *)
Steps ==
  \A t \in svc.tasks :
    /\ t.do = "add" => t.at \in {"user", "own", "source", "link", "linkup", "create", "check", "cut"}
    /\ t.do = "add" /\ t.at \in {"source", "link", "linkup", "cut"} => t.id \in Subs
    /\ t.do = "update" => t.id \in Subs /\ t.at \in {"read", "source", "link", "linkup", "write", "cut"}
    /\ t.do = "control" => t.id \in Subs \cap past.requested
    /\ t.do = "remove" => t.at \in {"read", "delete"} \/ t.at = (IF t.id \in Pubs THEN "tracks" ELSE "cut")

(* The tracks of a publication come with it, once, and go with it.         *)
Tracks ==
  /\ \A s \in DOMAIN store.tracks :
       /\ s \in Pubs /\ s \in past.established
       /\ \A t \in TasksOf(s, "add") : t.at \notin {"user", "own"}
       /\ \/ s \in store.pubs \/ Creating(s)
          \/ \E t \in TasksOf(s, "remove") : t.at = "tracks"
       /\ store.tracks[s] \subseteq Subs

(* There is one update at a time, and it goes on with what was set up.     *)
Updates(x) ==
  /\ \A t \in TasksOf(x, "update") :
       /\ x \in svc.updating /\ TasksOf(x, "update") = {t}
       /\ t.at # "read" => Settled(x)
       /\ t.at = "cut" => <<"update_same", x>> \in past.mishaps

(* A session that is stopped is not going on.                              *)
Stops(x) ==
  TasksOf(x, "stop") # {} => x \in past.requested /\ TasksOf(x, "request") = {} /\ svc.ongoing[x] # "yes"

(* What is cut after its removal is not stored again.                      *)
Removed(x) ==
  /\ \A t \in TasksOf(x, "remove") : t.at = "cut" => ~Stored(x)
  /\ <<"stale_cut", x>> \in past.mishaps => ~Stored(x) /\ Settled(x)

Busy(x) == \E t \in TasksOf(x, "update") : t.at # "read"

(* The publication that x takes, or will take: of a document that is not   *)
(* being updated, of a setup, and of an update.                            *)
Takes(x, s, ats) ==
  \/ x \in DOMAIN store.subs /\ store.subs[x] = s /\ ~Busy(x)
  \/ \E t \in TasksOf(x, "add") : t.from = s /\ t.at \in ats
  \/ x \in DOMAIN store.subs /\ \E t \in TasksOf(x, "update") : t.from = s /\ t.at \in ats

(* The tracks of a publication have been made, and may be gone again.      *)
Made(s) == s \in Pubs /\ s \in past.established /\ \A t \in TasksOf(s, "add") : t.at \notin {"user", "own"}

(* The tracks of a publication have what takes it.                         *)
Linked(x) ==
  \A s : Takes(x, s, {"linkup", "own", "create", "write"}) =>
    \/ Made(s) /\ (s \in DOMAIN store.tracks => x \in store.tracks[s])
    \/ Excused(LostLinks, x)

(* Who takes a publication that is gone will be stopped.                   *)
Told(x) ==
  \A s : Takes(x, s, {"linkup", "own", "create", "write"}) =>
    \/ s \in DOMAIN store.tracks
    \/ TasksOf(x, "related") # {} \/ svc.ongoing[x] = "aborted"
    \/ Excused(LostLinks \cup {"linking", "overtaken", "other_engine"}, x)

(* The node of x is linked to what x takes.                                *)
Sent(x) ==
  \A s : Takes(x, s, {"own", "create", "write"}) =>
    \/ x \in DOMAIN node.links /\ node.links[x] = s
    \/ svc.ongoing[x] = "aborted"
    \/ Excused(LostLinks \cup {"transport_failed"}, x)

(* A link is that of a document, or will be made one or cut.               *)
LinkKnown(x) ==
  x \in DOMAIN node.links =>
    \/ x \in DOMAIN store.subs
    \/ \E t \in TasksOf(x, "add") : t.at \in {"own", "create"}
    \/ \E t \in TasksOf(x, "update") : t.at \in {"write", "cut"}
    \/ \E t \in TasksOf(x, "remove") : t.at = "cut"

(* So is a track.                                                          *)
TrackKnown(x) ==
  \A s \in DOMAIN store.tracks : x \in store.tracks[s] =>
    \/ x \in DOMAIN store.subs /\ store.subs[x] = s /\ ~Busy(x)
    \/ \E t \in TasksOf(x, "add") : t.from = s /\ t.at \in {"linkup", "own", "create", "cut"}
    \/ \E t \in TasksOf(x, "update") : t.from = s /\ t.at \in {"linkup", "write", "cut"}
    \/ \E t \in TasksOf(x, "remove") : t.at = "cut"
    \/ Excused({"stale_cut", "update_failed"}, x)

(* The last update asked for is under way or waits; with none of them, x   *)
(* takes what was asked for, or its setup will make it.                    *)
Wanted(x) ==
  /\ x \notin past.requested => x \notin svc.updating
  /\ x \in past.requested =>
       /\ x \in DOMAIN past.want /\ x \in DOMAIN svc.from
       /\ \/ Excused({"update_early", "update_failed", "update_same"}, x)
          \/ /\ x \in svc.updating
             /\ \E t \in TasksOf(x, "update") :
                  past.want[x] = IF x \in DOMAIN svc.next THEN svc.next[x] ELSE t.from
          \/ /\ x \notin svc.updating
             /\ x \in DOMAIN store.subs => store.subs[x] = past.want[x]
             /\ \A t \in TasksOf(x, "add") : t.at # "check" => t.from = past.want[x]
             /\ x \notin past.established => svc.from[x] = past.want[x]

Known(x) ==
  /\ Updates(x) /\ Stops(x) /\ Removed(x)
  /\ Linked(x) /\ Told(x) /\ Sent(x) /\ LinkKnown(x) /\ TrackKnown(x) /\ Wanted(x)

JInv == IInv /\ Steps /\ Tracks /\ \A x \in Subs : Known(x)

-----------------------------------------------------------------------------
USE SessionsAssumption DEF Task, Done, Goes, At, Notes, Fail, Stored, Requested

(* A step that leaves the documents, the links and what was asked for of a *)
(* subscription as they are; one that leaves its tasks too, but may stop   *)
(* it; and one whose setups and updates take and change nothing.           *)
Outside(x) ==
  /\ x \in DOMAIN store'.subs <=> x \in DOMAIN store.subs
  /\ x \in DOMAIN store.subs => store'.subs[x] = store.subs[x]
  /\ DOMAIN store'.tracks = DOMAIN store.tracks
  /\ \A s \in DOMAIN store.tracks : x \in store'.tracks[s] <=> x \in store.tracks[s]
  /\ x \in DOMAIN node'.links <=> x \in DOMAIN node.links
  /\ x \in DOMAIN node.links => node'.links[x] = node.links[x]
  /\ past.mishaps \subseteq past'.mishaps
  /\ <<"stale_cut", x>> \in past'.mishaps => <<"stale_cut", x>> \in past.mishaps
  /\ x \in past'.requested <=> x \in past.requested
  /\ x \in past'.established <=> x \in past.established
  /\ x \in past.requested => /\ past'.want[x] = past.want[x]
                             /\ x \in DOMAIN past.want => x \in DOMAIN past'.want

Calm(x) ==
  /\ Outside(x)
  /\ \A t : t.at = "cut" => (t \in TasksOf(x, "remove")' <=> t \in TasksOf(x, "remove"))
  /\ TasksOf(x, "related") # {} =>
       \/ TasksOf(x, "related")' # {} \/ svc'.ongoing[x] = "aborted"
       \/ <<"linking", x>> \in past'.mishaps \/ <<"other_engine", x>> \in past'.mishaps
  /\ x \in past.established /\ svc.ongoing[x] = "aborted" => svc'.ongoing[x] = "aborted"
  /\ x \in svc'.updating <=> x \in svc.updating
  /\ x \in DOMAIN svc'.next <=> x \in DOMAIN svc.next
  /\ x \in DOMAIN svc.next => svc'.next[x] = svc.next[x]
  /\ x \in past.requested => /\ svc'.from[x] = svc.from[x]
                             /\ x \in DOMAIN svc.from => x \in DOMAIN svc'.from

Quiet(x) ==
  Calm(x) /\ TasksOf(x, "add")' = TasksOf(x, "add") /\ TasksOf(x, "update")' = TasksOf(x, "update")

Steady(x) ==
  /\ Calm(x) /\ Updates(x)' /\ (Settled(x) => Settled(x)') /\ (Busy(x)' <=> Busy(x))
  /\ \A t : t.at \in {"linkup", "own", "create", "write"} =>
       (t \in TasksOf(x, "add")' <=> t \in TasksOf(x, "add"))
  /\ \A t : t.at \in {"linkup", "own", "create", "write"} =>
       (t \in TasksOf(x, "update")' <=> t \in TasksOf(x, "update"))
  /\ \A t \in TasksOf(x, "add") : t.at = "cut" => t \in TasksOf(x, "add")'
  /\ \A t \in TasksOf(x, "update") : t.at = "cut" => t \in TasksOf(x, "update")'
  /\ \A t \in TasksOf(x, "add")' : t.at # "check" =>
       \E d \in TasksOf(x, "add") : d.from = t.from /\ d.at # "check"
  /\ \A t \in TasksOf(x, "update") : \E d \in TasksOf(x, "update")' : d.from = t.from

(* Only subscriptions that are set up take anything.                       *)
LEMMA TakesEstablished ==
  ASSUME JInv, NEW x \in Subs, NEW s, NEW ats, Takes(x, s, ats)
  PROVE  x \in past.established
<1>1. x \in Sessions
  BY DEF Sessions
<1> QED
  BY <1>1 DEF Takes, TasksOf, JInv, IInv, Setups, Documents

LEMMA StoredSubscription ==
  ASSUME IInv, NEW x \in Subs
  PROVE  Stored(x) <=> x \in DOMAIN store.subs
  BY DEF IInv, Tables

LEMMA SteadyTakes ==
  ASSUME JInv, NEW x \in Subs, Steady(x), NEW s,
         NEW ats \in {{"linkup", "own", "create", "write"}, {"own", "create", "write"}}, Takes(x, s, ats)'
  PROVE  Takes(x, s, ats)
<1>1. \A t : t.at \in ats =>
        /\ t \in TasksOf(x, "add")' => t \in TasksOf(x, "add")
        /\ t \in TasksOf(x, "update")' => t \in TasksOf(x, "update")
  BY DEF Steady
<1>2. /\ Busy(x)' <=> Busy(x)
      /\ x \in DOMAIN store'.subs <=> x \in DOMAIN store.subs
      /\ x \in DOMAIN store.subs => store'.subs[x] = store.subs[x]
  BY DEF Steady, Calm, Outside
<1> QED
  BY ONLY <1>1, <1>2, Takes(x, s, ats)' DEF Takes

(* What has been made stays made.                                          *)
Lasting == \A s : Made(s) => Made(s)'

LEMMA SteadyKnown ==
  ASSUME JInv, IInv', Lasting, NEW x \in Subs, Steady(x), Stops(x)'
  PROVE  Known(x)'
<1>0. Known(x) /\ (Busy(x)' <=> Busy(x)) /\ (Settled(x) => Settled(x)')
  BY DEF JInv, Steady
<1>1. (Stored(x) <=> x \in DOMAIN store.subs) /\ (Stored(x)' <=> x \in DOMAIN store'.subs)
  BY StoredSubscription DEF JInv, IInv, Tables
<1>a. \A K : Excused(K, x) => Excused(K, x)'
  BY DEF Steady, Calm, Outside, Excused
<1>2. Updates(x)'
  BY DEF Steady
<1>3. Removed(x)'
  BY <1>0, <1>1 DEF Known, Removed, Steady, Calm, Outside
<1>4. Linked(x)'
  BY <1>0, <1>a, SteadyTakes DEF Lasting, Known, Linked, Steady, Calm, Outside
<1>5. Told(x)'
  <2> SUFFICES ASSUME NEW s, Takes(x, s, {"linkup", "own", "create", "write"})'
               PROVE  \/ s \in DOMAIN store'.tracks
                      \/ TasksOf(x, "related")' # {} \/ svc'.ongoing[x] = "aborted"
                      \/ Excused(LostLinks \cup {"linking", "overtaken", "other_engine"}, x)'
    BY DEF Told, LostLinks
  <2>1. /\ Takes(x, s, {"linkup", "own", "create", "write"})
        /\ x \in past.established
    BY SteadyTakes, TakesEstablished
  <2>2. \/ s \in DOMAIN store.tracks
        \/ TasksOf(x, "related") # {} \/ svc.ongoing[x] = "aborted"
        \/ Excused(LostLinks \cup {"linking", "overtaken", "other_engine"}, x)
    BY <1>0, <2>1 DEF Known, Told
  <2>3. \A k \in {"linking", "other_engine"} : <<k, x>> \in past'.mishaps =>
          Excused(LostLinks \cup {"linking", "overtaken", "other_engine"}, x)'
    BY DEF Excused
  <2> QED
    BY <1>a, <2>1, <2>2, <2>3 DEF Steady, Calm, Outside
<1>6. Sent(x)'
  <2> SUFFICES ASSUME NEW s, Takes(x, s, {"own", "create", "write"})'
               PROVE  \/ x \in DOMAIN node'.links /\ node'.links[x] = s
                      \/ svc'.ongoing[x] = "aborted"
                      \/ Excused(LostLinks \cup {"transport_failed"}, x)'
    BY DEF Sent, LostLinks
  <2>1. Takes(x, s, {"own", "create", "write"}) /\ x \in past.established
    BY SteadyTakes, TakesEstablished
  <2>2. \/ x \in DOMAIN node.links /\ node.links[x] = s
        \/ svc.ongoing[x] = "aborted"
        \/ Excused(LostLinks \cup {"transport_failed"}, x)
    BY <1>0, <2>1 DEF Known, Sent
  <2> QED
    BY <1>a, <2>1, <2>2 DEF Steady, Calm, Outside
<1>7. LinkKnown(x)'
  BY <1>0 DEF Known, LinkKnown, Steady, Calm, Outside
<1>8. TrackKnown(x)'
  BY <1>0, <1>a DEF Known, TrackKnown, Steady, Calm, Outside
<1>9. Wanted(x)'
  <2>1. Wanted(x)
    BY <1>0 DEF Known
  <2>2. CASE x \notin past.requested
    BY <2>1, <2>2 DEF Wanted, Steady, Calm, Outside
  <2>3. CASE x \in past.requested
    BY <1>a, <2>1, <2>3 DEF Wanted, Steady, Calm, Outside
  <2> QED
    BY <2>2, <2>3
<1> QED
  BY <1>2, <1>3, <1>4, <1>5, <1>6, <1>7, <1>8, <1>9 DEF Known

LEMMA QuietKnown ==
  ASSUME JInv, IInv', Lasting, NEW x \in Subs, Quiet(x), Stops(x)'
  PROVE  Known(x)'
<1>1. Updates(x) /\ (Settled(x) => Settled(x)') /\ (Busy(x)' <=> Busy(x))
  BY DEF JInv, Known, Quiet, Calm, Outside, Settled, Busy
<1>2. Updates(x)'
  BY <1>1 DEF Quiet, Calm, Outside, Updates
<1> QED
  BY <1>1, <1>2, SteadyKnown DEF Quiet, Steady

(* Once an update has failed or changed nothing, the links are not what    *)
(* they should be.                                                         *)
LEMMA LostKnown ==
  ASSUME JInv, NEW x \in Subs, NEW k \in {"update_failed", "update_same"}, <<k, x>> \in past'.mishaps,
         x \in past'.requested, x \in DOMAIN past'.want, x \in DOMAIN svc'.from,
         Updates(x)', Stops(x)', Removed(x)', LinkKnown(x)', k = "update_same" => TrackKnown(x)'
  PROVE  Known(x)'
<1>1. Linked(x)' /\ Told(x)' /\ Sent(x)'
  BY DEF Linked, Told, Sent, Excused, LostLinks
<1>2. Wanted(x)'
  BY DEF Wanted, Excused
<1>3. TrackKnown(x)'
  BY DEF TrackKnown, Excused
<1> QED
  BY <1>1, <1>2, <1>3 DEF Known

(* A task that goes on with others, or ends.                               *)
Moves(t, N) == svc' = [svc EXCEPT !.tasks = (svc.tasks \ {t}) \cup N]

Engine ==
  /\ svc'.ongoing = svc.ongoing /\ svc'.ops = svc.ops /\ svc'.members = svc.members
  /\ svc'.from = svc.from /\ svc'.updating = svc.updating /\ svc'.next = svc.next

LEMMA MovesEngine ==
  ASSUME IInv, NEW t, NEW N, Moves(t, N)
  PROVE  Engine /\ svc'.tasks = (svc.tasks \ {t}) \cup N
  BY DEF IInv, Form, Moves, Engine

LEMMA MovesElsewhere ==
  ASSUME JInv, NEW t \in svc.tasks, NEW N, Moves(t, N), \A n \in N : n.id = t.id,
         NEW x \in Subs, x # t.id, Outside(x)
  PROVE  Quiet(x) /\ Stops(x)'
<1>1. Engine /\ svc'.tasks = (svc.tasks \ {t}) \cup N
  BY MovesEngine DEF JInv
<1>2. \A do : TasksOf(x, do)' = TasksOf(x, do)
  BY <1>1 DEF TasksOf
<1>3. Quiet(x)
  BY <1>1, <1>2 DEF Quiet, Calm, Engine
<1>4. Stops(x)'
  BY <1>1, <1>2 DEF JInv, Known, Stops, Engine, Outside
<1> QED
  BY <1>3, <1>4

(* A step that leaves every subscription as it is.                         *)
Quieted == \A x \in Subs : Quiet(x) /\ Stops(x)'

LEMMA QuietedJInv ==
  ASSUME JInv, IInv', Lasting, Steps', Tracks', Quieted
  PROVE  JInv'
  BY QuietKnown DEF JInv, Quieted

LEMMA JoinJInv ==
  ASSUME JInv, IInv', Lasting, NEW u \in Users, Join(u)
  PROVE  JInv'
<1>1. Steps'
  BY DEF JInv, Steps, Join
<1>2. Tracks'
  BY DEF JInv, Tracks, TasksOf, Creating, Join
<1>3. Quieted
  BY DEF JInv, Known, Stops, Quieted, Quiet, Calm, Outside, TasksOf, Join
<1> QED
  BY <1>1, <1>2, <1>3, QuietedJInv

LEMMA LeaveJInv ==
  ASSUME JInv, IInv', Lasting, NEW u \in Users, Leave(u)
  PROVE  JInv'
<1>1. Steps'
  BY DEF JInv, IInv, Form, Steps, Leave
<1>2. Tracks'
  BY DEF JInv, IInv, Form, Tracks, TasksOf, Creating, Leave
<1>3. Quieted
  BY DEF JInv, IInv, Form, Known, Stops, Quieted, Quiet, Calm, Outside, TasksOf, Leave
<1> QED
  BY <1>1, <1>2, <1>3, QuietedJInv

LEMMA LeaveReadJInv ==
  ASSUME JInv, IInv', Lasting, NEW t \in svc.tasks, LeaveRead(t)
  PROVE  JInv'
<1>1. Steps'
  BY DEF JInv, IInv, Form, Steps, LeaveRead
<1>2. Tracks'
  BY DEF JInv, IInv, Form, Tracks, TasksOf, Creating, LeaveRead
<1>3. Quieted
  BY DEF JInv, IInv, Form, Known, Stops, Quieted, Quiet, Calm, Outside, TasksOf, LeaveRead
<1> QED
  BY <1>1, <1>2, <1>3, QuietedJInv

LEMMA RemoveParticipantJInv ==
  ASSUME JInv, IInv', Lasting, NEW t \in svc.tasks, RemoveParticipant(t)
  PROVE  JInv'
<1>1. Steps'
  BY DEF JInv, IInv, Form, Steps, RemoveParticipant
<1>2. Tracks'
  BY DEF JInv, IInv, Form, Tracks, TasksOf, Creating, RemoveParticipant
<1>3. Quieted
  BY DEF JInv, IInv, Form, Known, Stops, Quieted, Quiet, Calm, Outside, TasksOf, RemoveParticipant
<1> QED
  BY <1>1, <1>2, <1>3, QuietedJInv

(* What the stop of session i does to an engine's memory.                  *)
StopsFrom(T, e, i) == StopSession([svc EXCEPT !.tasks = T], e, i)

StopEffect(S, T, e, i, x) ==
  /\ S.ops = svc.ops /\ S.from = svc.from /\ S.updating = svc.updating /\ S.next = svc.next
  /\ T \subseteq S.tasks /\ \A d \in S.tasks : d \in T \/ d = [do |-> "stop", id |-> i, at |-> "node"]
  /\ x # i => S.ongoing[x] = svc.ongoing[x]
  /\ S.ongoing[x] = svc.ongoing[x] \/ S.ongoing[x] = "aborted"
  /\ e = Home(i) /\ svc.ongoing[x] # "no" /\ x = i => S.ongoing[x] = "aborted"
  /\ x = i /\ S.tasks # T => x \in svc.ops /\ S.ongoing[x] = "aborted"

LEMMA Stopping ==
  ASSUME IInv, NEW T, NEW e, NEW i, NEW x \in Subs
  PROVE  StopEffect(StopsFrom(T, e, i), T, e, i, x)
<1>1. x \in Sessions /\ Form /\ svc.ongoing \in [Sessions -> {"no", "yes", "aborted"}]
  BY DEF IInv, Tables, Sessions
<1> QED
  BY <1>1 DEF StopEffect, StopsFrom, StopSession, Form

(* A session that is stopped was asked for, and its request is over.       *)
LEMMA StoppingStops ==
  ASSUME JInv, NEW T, NEW e, NEW i, svc' = StopsFrom(T, e, i), NEW x \in Subs,
         past'.requested = past.requested, TasksOf(x, "request")' \subseteq TasksOf(x, "request"),
         {t \in T : t.do = "stop"} \subseteq svc.tasks
  PROVE  Stops(x)'
<1>1. x \in Sessions /\ IInv /\ Stops(x)
  BY DEF JInv, Known, Sessions
<1>2. x \in svc.ops => x \in past.requested /\ TasksOf(x, "request") = {}
  BY <1>1 DEF IInv, Tables, Requests, TasksOf
<1>3. /\ T \subseteq svc'.tasks /\ \A d \in svc'.tasks : d \in T \/ d = [do |-> "stop", id |-> i, at |-> "node"]
      /\ svc'.ongoing[x] = svc.ongoing[x] \/ svc'.ongoing[x] = "aborted"
      /\ x = i /\ svc'.tasks # T => x \in svc.ops /\ svc'.ongoing[x] = "aborted"
  <2>1. StopEffect(svc', T, e, i, x)
    BY <1>1, Stopping
  <2> QED
    BY ONLY <2>1 DEF StopEffect
<1>4. ASSUME TasksOf(x, "stop")' # {}
      PROVE  TasksOf(x, "stop") # {} \/ (x = i /\ svc'.tasks # T)
  <2>1. PICK d \in svc'.tasks : d.do = "stop" /\ d.id = x
    BY <1>4 DEF TasksOf
  <2>2. CASE d \in T
    BY <2>1, <2>2 DEF TasksOf
  <2>3. CASE d \notin T
    <3>1. d = [do |-> "stop", id |-> i, at |-> "node"]
      BY ONLY <1>3, <2>1, <2>3
    <3>2. svc'.tasks # T
      BY ONLY <2>1, <2>3
    <3> QED
      BY ONLY <2>1, <3>1, <3>2
  <2> QED
    BY <2>2, <2>3
<1>5. TasksOf(x, "stop") # {} => svc'.ongoing[x] # "yes"
  BY <1>1, <1>3 DEF Stops
<1> QED
  BY <1>1, <1>2, <1>3, <1>4, <1>5 DEF Stops

LEMMA CleanJInv ==
  ASSUME JInv, IInv', Lasting, NEW t \in svc.tasks, Clean(t)
  PROVE  JInv'
<1>1. Steps'
  BY DEF JInv, IInv, Form, Steps, Clean, StopSession
<1>2. Tracks'
  BY DEF JInv, IInv, Form, Tracks, TasksOf, Creating, Clean, StopSession
<1>3. Quieted
  <2> SUFFICES ASSUME NEW x \in Subs
               PROVE  Quiet(x) /\ Stops(x)'
    BY DEF Quieted
  <2>1. svc' = StopsFrom(svc.tasks \ {t}, Home(t.id), t.id) \/ svc' = [svc EXCEPT !.tasks = svc.tasks \ {t}]
    BY DEF Clean, StopsFrom
  <2>2. /\ t.do = "clean" /\ store' = store /\ node' = node
        /\ past'.requested = past.requested /\ past'.established = past.established
        /\ past'.want = past.want /\ past.mishaps \subseteq past'.mishaps
        /\ past'.mishaps \subseteq past.mishaps \cup {<<"left_meanwhile", t.id>>}
    BY DEF JInv, IInv, Form, Clean
  <2>3. CASE svc' = [svc EXCEPT !.tasks = svc.tasks \ {t}]
    <3>1. /\ svc'.ops = svc.ops /\ svc'.from = svc.from /\ svc'.updating = svc.updating /\ svc'.next = svc.next
          /\ svc'.tasks = svc.tasks \ {t} /\ svc'.ongoing = svc.ongoing
      BY <2>3 DEF JInv, IInv, Form
    <3>2. Quiet(x)
      BY <2>2, <3>1 DEF Quiet, Calm, Outside, TasksOf
    <3>3. Stops(x)'
      BY <2>2, <3>1 DEF JInv, Known, Stops, TasksOf
    <3> QED
      BY <3>2, <3>3
  <2>4. CASE svc' = StopsFrom(svc.tasks \ {t}, Home(t.id), t.id)
    <3>1. /\ svc'.ops = svc.ops /\ svc'.from = svc.from /\ svc'.updating = svc.updating /\ svc'.next = svc.next
          /\ svc'.tasks \subseteq (svc.tasks \ {t}) \cup {[do |-> "stop", id |-> t.id, at |-> "node"]}
          /\ svc.tasks \ {t} \subseteq svc'.tasks
          /\ svc'.ongoing[x] = svc.ongoing[x] \/ svc'.ongoing[x] = "aborted"
      <4>1. StopEffect(svc', svc.tasks \ {t}, Home(t.id), t.id, x)
        BY <2>4, Stopping DEF JInv
      <4> QED
        BY <4>1 DEF StopEffect
    <3>2. Quiet(x)
      BY <2>2, <3>1 DEF Quiet, Calm, Outside, TasksOf
    <3>3. Stops(x)'
      <4>1. TasksOf(x, "request")' \subseteq TasksOf(x, "request")
        BY <2>2, <3>1 DEF TasksOf
      <4> QED
        BY <2>2, <2>4, <4>1, StoppingStops
    <3> QED
      BY <3>2, <3>3
  <2> QED
    BY <2>1, <2>3, <2>4
<1> QED
  BY <1>1, <1>2, <1>3, QuietedJInv

LEMMA EndJInv ==
  ASSUME JInv, IInv', Lasting, NEW i \in Sessions, End(i)
  PROVE  JInv'
<1>1. Steps'
  BY DEF JInv, IInv, Form, Steps, End, StopSession
<1>2. Tracks'
  BY DEF JInv, IInv, Form, Tracks, TasksOf, Creating, End, StopSession
<1>3. Quieted
  <2> SUFFICES ASSUME NEW x \in Subs
               PROVE  Quiet(x) /\ Stops(x)'
    BY DEF Quieted
  <2>1. svc' = StopsFrom(svc.tasks, Home(i), i)
    BY DEF JInv, IInv, Form, End, StopsFrom
  <2>2. /\ store' = store /\ node' = node /\ past' = past
    BY DEF JInv, IInv, Form, End
  <2>4. CASE svc' = StopsFrom(svc.tasks, Home(i), i)
    <3>1. /\ svc'.ops = svc.ops /\ svc'.from = svc.from /\ svc'.updating = svc.updating /\ svc'.next = svc.next
          /\ \A d \in svc'.tasks : d \in svc.tasks \/ d = [do |-> "stop", id |-> i, at |-> "node"]
          /\ svc.tasks \subseteq svc'.tasks
          /\ svc'.ongoing[x] = svc.ongoing[x] \/ svc'.ongoing[x] = "aborted"
          /\ Home(i) = Home(i) /\ svc.ongoing[x] # "no" /\ x = i => svc'.ongoing[x] = "aborted"
      <4>1. StopEffect(svc', svc.tasks, Home(i), i, x)
        BY <2>4, Stopping DEF JInv
      <4> QED
        BY <4>1 DEF StopEffect
    <3>2. Quiet(x)
      BY <2>2, <3>1 DEF Quiet, Calm, Outside, TasksOf
    <3>3. Stops(x)'
      <4>1. TasksOf(x, "request")' \subseteq TasksOf(x, "request")
        BY <2>2, <3>1 DEF TasksOf
      <4> QED
        BY <2>2, <2>4, <4>1, StoppingStops
    <3> QED
      BY <3>2, <3>3
  <2> QED
    BY <2>1, <2>4
<1> QED
  BY <1>1, <1>2, <1>3, QuietedJInv

LEMMA StopRelatedJInv ==
  ASSUME JInv, IInv', Lasting, NEW t \in svc.tasks, StopRelated(t)
  PROVE  JInv'
<1>1. Steps'
  BY DEF JInv, IInv, Form, Steps, StopRelated, StopSession
<1>2. Tracks'
  BY DEF JInv, IInv, Form, Tracks, TasksOf, Creating, StopRelated, StopSession
<1>3. Quieted
  <2> SUFFICES ASSUME NEW x \in Subs
               PROVE  Quiet(x) /\ Stops(x)'
    BY DEF Quieted
  <2>1. IF Stored(t.id) THEN svc' = StopsFrom(svc.tasks \ {t}, t.engine, t.id)
                        ELSE svc' = [svc EXCEPT !.tasks = svc.tasks \ {t}]
    BY DEF StopRelated, StopsFrom
  <2>2. /\ t.do = "related" /\ store' = store /\ node' = node
        /\ past'.requested = past.requested /\ past'.established = past.established
        /\ past'.want = past.want /\ past.mishaps \subseteq past'.mishaps
        /\ past'.mishaps \subseteq past.mishaps \cup {<<k, t.id>> : k \in {"linking", "other_engine"}}
        /\ ~Stored(t.id) => <<"linking", t.id>> \in past'.mishaps
        /\ t.engine # Home(t.id) => <<"linking", t.id>> \in past'.mishaps \/ <<"other_engine", t.id>> \in past'.mishaps
    BY DEF JInv, IInv, Form, StopRelated
  <2>3. CASE ~Stored(t.id)
    <3>1. /\ svc'.ops = svc.ops /\ svc'.from = svc.from /\ svc'.updating = svc.updating /\ svc'.next = svc.next
          /\ svc'.tasks = svc.tasks \ {t} /\ svc'.ongoing = svc.ongoing
      BY <2>1, <2>3 DEF JInv, IInv, Form
    <3>2. Quiet(x)
      BY <2>2, <2>3, <3>1 DEF Quiet, Calm, Outside, TasksOf
    <3>3. Stops(x)'
      BY <2>2, <3>1 DEF JInv, Known, Stops, TasksOf
    <3> QED
      BY <3>2, <3>3
  <2>4. CASE Stored(t.id)
    <3>0. svc' = StopsFrom(svc.tasks \ {t}, t.engine, t.id) /\ (x = t.id => svc.ongoing[x] # "no")
      BY <2>1, <2>4 DEF JInv, IInv, Documents, Sessions
    <3>1. /\ svc'.ops = svc.ops /\ svc'.from = svc.from /\ svc'.updating = svc.updating /\ svc'.next = svc.next
          /\ \A d \in svc'.tasks : d \in svc.tasks \ {t} \/ d = [do |-> "stop", id |-> t.id, at |-> "node"]
          /\ svc.tasks \ {t} \subseteq svc'.tasks
          /\ svc'.ongoing[x] = svc.ongoing[x] \/ svc'.ongoing[x] = "aborted"
          /\ t.engine = Home(t.id) /\ svc.ongoing[x] # "no" /\ x = t.id => svc'.ongoing[x] = "aborted"
      <4>1. StopEffect(svc', svc.tasks \ {t}, t.engine, t.id, x)
        BY <3>0, Stopping DEF JInv
      <4> QED
        BY <4>1 DEF StopEffect
    <3>2. Quiet(x)
      <4>1. TasksOf(x, "related") # {} =>
              \/ TasksOf(x, "related")' # {} \/ svc'.ongoing[x] = "aborted"
              \/ <<"linking", x>> \in past'.mishaps \/ <<"other_engine", x>> \in past'.mishaps
        <5>1. CASE x = t.id
          BY <2>2, <2>4, <3>0, <3>1, <5>1
        <5>2. CASE x # t.id
          BY <2>2, <3>1, <5>2 DEF TasksOf
        <5> QED
          BY <5>1, <5>2
      <4> QED
        BY <2>2, <3>1, <4>1 DEF Quiet, Calm, Outside, TasksOf
    <3>3. Stops(x)'
      <4>1. TasksOf(x, "request")' \subseteq TasksOf(x, "request")
        BY <2>2, <3>1 DEF TasksOf
      <4> QED
        BY <2>2, <3>0, <4>1, StoppingStops
    <3> QED
      BY <3>2, <3>3
  <2> QED
    BY <2>1, <2>3, <2>4
<1> QED
  BY <1>1, <1>2, <1>3, QuietedJInv

LEMMA NoInternalAddressJInv ==
  ASSUME JInv, IInv', Lasting, NEW t \in svc.tasks, NoInternalAddress(t)
  PROVE  JInv'
<1>1. Steps'
  BY DEF JInv, IInv, Form, Steps, NoInternalAddress, StopSession
<1>2. Tracks'
  BY DEF JInv, IInv, Form, Tracks, TasksOf, Creating, NoInternalAddress, StopSession
<1>3. Quieted
  <2> SUFFICES ASSUME NEW x \in Subs
               PROVE  Quiet(x) /\ Stops(x)'
    BY DEF Quieted
  <2>1. svc' = StopsFrom(svc.tasks \ {t}, Home(t.id), t.id)
    BY DEF NoInternalAddress, StopsFrom
  <2>2. /\ t.do = "add" /\ t.at = "own" /\ t.id \in Pubs /\ store' = store /\ node' = node
        /\ past'.requested = past.requested /\ past'.established = past.established
        /\ past'.want = past.want /\ past.mishaps \subseteq past'.mishaps
        /\ past'.mishaps = past.mishaps
    BY DEF JInv, IInv, Form, NoInternalAddress
  <2>4. CASE svc' = StopsFrom(svc.tasks \ {t}, Home(t.id), t.id)
    <3>1. /\ svc'.ops = svc.ops /\ svc'.from = svc.from /\ svc'.updating = svc.updating /\ svc'.next = svc.next
          /\ \A d \in svc'.tasks : d \in svc.tasks \ {t} \/ d = [do |-> "stop", id |-> t.id, at |-> "node"]
          /\ svc.tasks \ {t} \subseteq svc'.tasks
          /\ svc'.ongoing[x] = svc.ongoing[x] \/ svc'.ongoing[x] = "aborted"
          /\ Home(t.id) = Home(t.id) /\ svc.ongoing[x] # "no" /\ x = t.id => svc'.ongoing[x] = "aborted"
      <4>1. StopEffect(svc', svc.tasks \ {t}, Home(t.id), t.id, x)
        BY <2>4, Stopping DEF JInv
      <4> QED
        BY <4>1 DEF StopEffect
    <3>2. Quiet(x)
      BY <2>2, <3>1 DEF Quiet, Calm, Outside, TasksOf
    <3>3. Stops(x)'
      <4>1. TasksOf(x, "request")' \subseteq TasksOf(x, "request")
        BY <2>2, <3>1 DEF TasksOf
      <4> QED
        BY <2>2, <2>4, <4>1, StoppingStops
    <3> QED
      BY <3>2, <3>3
  <2> QED
    BY <2>1, <2>4
<1> QED
  BY <1>1, <1>2, <1>3, QuietedJInv

LEMMA RequestReadJInv ==
  ASSUME JInv, IInv', Lasting, NEW t \in svc.tasks, RequestRead(t)
  PROVE  JInv'
<1>a. \A d \in svc'.tasks : d \in svc.tasks \/ d.do = "request"
  <2>1. t = [do |-> "request", id |-> t.id, at |-> t.at]
    BY DEF JInv, IInv, Tasks, TaskForm, RequestRead
  <2>2. \/ svc'.tasks = svc.tasks \ {t}
        \/ svc'.tasks = (svc.tasks \ {t}) \cup {[t EXCEPT !.at = "node"]}
    BY DEF JInv, IInv, Form, RequestRead
  <2>3. [t EXCEPT !.at = "node"] = [do |-> "request", id |-> t.id, at |-> "node"]
    BY <2>1
  <2> QED
    BY <2>2, <2>3
<1>b. /\ t.do = "request" /\ svc.tasks \ {t} \subseteq svc'.tasks
      /\ store' = store /\ past' = past
  BY DEF JInv, IInv, Form, RequestRead
<1>1. Steps'
  BY <1>a, <1>b DEF JInv, Steps
<1>2. Tracks'
  BY <1>a, <1>b DEF JInv, Tracks, TasksOf, Creating
<1>3. Quieted
  <2> SUFFICES ASSUME NEW x \in Subs
               PROVE  Quiet(x) /\ Stops(x)'
    BY DEF Quieted
  <2>0. x \in Sessions
    BY DEF Sessions
  <2>1. Quiet(x)
    BY <2>0 DEF JInv, IInv, Form, Tasks, TaskForm, Tables, Quiet, Calm, Outside, TasksOf, RequestRead, Requests
  <2>2. Stops(x)'
    BY <2>0 DEF JInv, IInv, Form, Tasks, TaskForm, Tables, Known, Stops, TasksOf, RequestRead
  <2> QED
    BY <2>1, <2>2
<1> QED
  BY <1>1, <1>2, <1>3, QuietedJInv

LEMMA SessionCreatedJInv ==
  ASSUME JInv, IInv', Lasting, NEW t \in svc.tasks, SessionCreated(t)
  PROVE  JInv'
<1>1. Steps'
  BY DEF JInv, IInv, Form, Tasks, TaskForm, Steps, SessionCreated
<1>2. Tracks'
  BY DEF JInv, IInv, Form, Tracks, TasksOf, Creating, SessionCreated
<1>3. Quieted
  <2> SUFFICES ASSUME NEW x \in Subs
               PROVE  Quiet(x) /\ Stops(x)'
    BY DEF Quieted
  <2>0. x \in Sessions
    BY DEF Sessions
  <2>1. Quiet(x)
    BY <2>0 DEF JInv, IInv, Form, Tasks, TaskForm, Tables, Quiet, Calm, Outside, TasksOf, SessionCreated, Requests
  <2>2. Stops(x)'
    BY <2>0 DEF JInv, IInv, Form, Tasks, TaskForm, Tables, Known, Stops, TasksOf, SessionCreated
  <2> QED
    BY <2>1, <2>2
<1> QED
  BY <1>1, <1>2, <1>3, QuietedJInv

LEMMA SessionNotCreatedJInv ==
  ASSUME JInv, IInv', Lasting, NEW t \in svc.tasks, SessionNotCreated(t)
  PROVE  JInv'
<1>1. Steps'
  BY DEF JInv, IInv, Form, Tasks, TaskForm, Steps, SessionNotCreated
<1>2. Tracks'
  BY DEF JInv, IInv, Form, Tracks, TasksOf, Creating, SessionNotCreated
<1>3. Quieted
  <2> SUFFICES ASSUME NEW x \in Subs
               PROVE  Quiet(x) /\ Stops(x)'
    BY DEF Quieted
  <2>0. x \in Sessions
    BY DEF Sessions
  <2>1. Quiet(x)
    BY <2>0 DEF JInv, IInv, Form, Tasks, TaskForm, Tables, Quiet, Calm, Outside, TasksOf, SessionNotCreated
  <2>2. Stops(x)'
    BY <2>0 DEF JInv, IInv, Form, Tasks, TaskForm, Tables, Known, Stops, TasksOf, SessionNotCreated
  <2> QED
    BY <2>1, <2>2
<1> QED
  BY <1>1, <1>2, <1>3, QuietedJInv

LEMMA RemoveReadJInv ==
  ASSUME JInv, IInv', Lasting, NEW t \in svc.tasks, RemoveRead(t)
  PROVE  JInv'
<1>1. Steps'
  BY DEF JInv, IInv, Form, Tasks, TaskForm, Steps, RemoveRead
<1>2. Tracks'
  BY DEF JInv, IInv, Form, Tracks, TasksOf, Creating, RemoveRead
<1>3. Quieted
  <2> SUFFICES ASSUME NEW x \in Subs
               PROVE  Quiet(x) /\ Stops(x)'
    BY DEF Quieted
  <2>0. x \in Sessions
    BY DEF Sessions
  <2>1. Quiet(x)
    BY <2>0 DEF JInv, IInv, Form, Tasks, TaskForm, Tables, Quiet, Calm, Outside, TasksOf, RemoveRead
  <2>2. Stops(x)'
    BY <2>0 DEF JInv, IInv, Form, Tasks, TaskForm, Tables, Known, Stops, TasksOf, RemoveRead
  <2> QED
    BY <2>1, <2>2
<1> QED
  BY <1>1, <1>2, <1>3, QuietedJInv

LEMMA SessionNotStoppedJInv ==
  ASSUME JInv, IInv', Lasting, NEW t \in svc.tasks, SessionNotStopped(t)
  PROVE  JInv'
<1>1. Steps'
  BY DEF JInv, IInv, Form, Tasks, TaskForm, Steps, SessionNotStopped, Stopped, OnSessionAborted, RemoveSession
<1>2. Tracks'
  BY DEF JInv, IInv, Form, Tracks, TasksOf, Creating, SessionNotStopped, Stopped, OnSessionAborted, RemoveSession
<1>3. Quieted
  <2> SUFFICES ASSUME NEW x \in Subs
               PROVE  Quiet(x) /\ Stops(x)'
    BY DEF Quieted
  <2>0. x \in Sessions
    BY DEF Sessions
  <2>1. Quiet(x)
    BY <2>0 DEF JInv, IInv, Form, Tasks, TaskForm, Tables, Quiet, Calm, Outside, TasksOf, SessionNotStopped, Stopped, OnSessionAborted, RemoveSession
  <2>2. Stops(x)'
    BY <2>0 DEF JInv, IInv, Form, Tasks, TaskForm, Tables, Known, Stops, TasksOf, SessionNotStopped, Stopped, OnSessionAborted, RemoveSession
  <2> QED
    BY <2>1, <2>2
<1> QED
  BY <1>1, <1>2, <1>3, QuietedJInv

LEMMA ControlJInv ==
  ASSUME JInv, IInv', Lasting, NEW z \in Subs, NEW s \in Pubs, Control(z, s)
  PROVE  JInv'
<1>1. Steps'
  BY DEF JInv, IInv, Form, Tasks, TaskForm, Steps, Control
<1>2. Tracks'
  BY DEF JInv, IInv, Form, Tracks, TasksOf, Creating, Control
<1>3. Quieted
  <2> SUFFICES ASSUME NEW x \in Subs
               PROVE  Quiet(x) /\ Stops(x)'
    BY DEF Quieted
  <2>0. x \in Sessions
    BY DEF Sessions
  <2>1. Quiet(x)
    BY <2>0 DEF JInv, IInv, Form, Tasks, TaskForm, Tables, Quiet, Calm, Outside, TasksOf, Control
  <2>2. Stops(x)'
    BY <2>0 DEF JInv, IInv, Form, Tasks, TaskForm, Tables, Known, Stops, TasksOf, Control
  <2> QED
    BY <2>1, <2>2
<1> QED
  BY <1>1, <1>2, <1>3, QuietedJInv

(* A step of session i only.                                               *)
LEMMA OneJInv ==
  ASSUME JInv, IInv', Lasting, Steps', Tracks', NEW i,
         \A x \in Subs : x # i => Quiet(x) /\ Stops(x)',
         i \in Subs => Known(i)'
  PROVE  JInv'
  BY QuietKnown DEF JInv

LEMMA AddUserJInv ==
  ASSUME JInv, IInv', Lasting, NEW t \in svc.tasks, AddUser(t)
  PROVE  JInv'
<1> DEFINE next == [do |-> "add", id |-> t.id, at |-> IF t.id \in Pubs THEN "own" ELSE "source", from |-> t.from]
<1>a. /\ t.do = "add" /\ t.at = "user" /\ t.id \in Sessions
      /\ t = [do |-> "add", id |-> t.id, at |-> "user", from |-> t.from]
  BY DEF JInv, IInv, Tasks, TaskForm, AddUser
<1>b. /\ store' = store /\ node' = node /\ past' = past
      /\ TasksOf(t.id, "add") = {t}
  BY <1>a DEF JInv, IInv, Setups, TasksOf, AddUser
<1>c. \/ svc' = [svc EXCEPT !.tasks = (svc.tasks \ {t}) \cup {next}]
      \/ svc' = StopsFrom(svc.tasks \ {t}, Home(t.id), t.id)
  <2>1. [t EXCEPT !.at = IF t.id \in Pubs THEN "own" ELSE "source"] = next
    BY <1>a
  <2>2. CASE Owner(t.id) \in DOMAIN store.users
    <3>1. svc' = Goes(t, IF t.id \in Pubs THEN "own" ELSE "source")
      BY <2>2 DEF AddUser
    <3> QED
      BY <2>1, <3>1 DEF JInv, IInv, Form
  <2>3. CASE Owner(t.id) \notin DOMAIN store.users
    BY <2>3 DEF AddUser, StopsFrom
  <2> QED
    BY <2>2, <2>3
<1>1. CASE svc' = [svc EXCEPT !.tasks = (svc.tasks \ {t}) \cup {next}]
  <2>1. /\ svc'.ops = svc.ops /\ svc'.from = svc.from /\ svc'.updating = svc.updating /\ svc'.next = svc.next
        /\ svc'.ongoing = svc.ongoing /\ svc'.tasks = (svc.tasks \ {t}) \cup {next}
    BY <1>1 DEF JInv, IInv, Form
  <2>2. Steps'
    BY <1>a, <1>b, <2>1 DEF JInv, Steps, Sessions
  <2>3. Tracks'
    BY <1>a, <1>b, <2>1 DEF JInv, Tracks, TasksOf, Creating
  <2>4. ASSUME NEW x \in Subs
        PROVE  Calm(x) /\ Stops(x)'
    BY <1>a, <1>b, <2>1 DEF JInv, Known, Stops, Calm, Outside, TasksOf
  <2>5. ASSUME NEW x \in Subs, x # t.id
        PROVE  Quiet(x)
    BY <1>a, <1>b, <2>1, <2>4, <2>5 DEF Quiet, TasksOf
  <2>6. ASSUME t.id \in Subs
        PROVE  Known(t.id)'
    <3>1. TasksOf(t.id, "add")' = {next} /\ TasksOf(t.id, "update")' = TasksOf(t.id, "update")
      BY <1>a, <1>b, <2>1, <2>6 DEF TasksOf
    <3>2. ~Settled(t.id) /\ Updates(t.id)
      BY <1>a, <1>b, <2>6 DEF JInv, Known, Settled
    <3>3. Updates(t.id)' /\ (Busy(t.id)' <=> Busy(t.id))
      BY <1>b, <2>1, <3>1, <3>2 DEF Updates, Busy
    <3>4. Steady(t.id)
      BY <1>a, <1>b, <2>4, <2>6, <3>1, <3>2, <3>3 DEF Steady
    <3> QED
      BY <2>4, <2>6, <3>4, SteadyKnown
  <2> QED
    BY <2>2, <2>3, <2>4, <2>5, <2>6, OneJInv
<1>2. CASE svc' = StopsFrom(svc.tasks \ {t}, Home(t.id), t.id)
  <2>1. /\ svc'.ops = svc.ops /\ svc'.from = svc.from /\ svc'.updating = svc.updating /\ svc'.next = svc.next
        /\ \A d \in svc'.tasks : d \in svc.tasks \ {t} \/ d.do = "stop"
        /\ svc.tasks \ {t} \subseteq svc'.tasks
    BY <1>2, JInv DEF JInv, IInv, Form, StopsFrom, StopSession
  <2>2. Steps'
    BY <1>a, <1>b, <2>1 DEF JInv, Steps, Sessions
  <2>3. Tracks'
    BY <1>a, <1>b, <2>1 DEF JInv, Tracks, TasksOf, Creating
  <2>4. ASSUME NEW x \in Subs
        PROVE  Calm(x) /\ Stops(x)'
    <3>1. svc'.ongoing[x] = svc.ongoing[x] \/ svc'.ongoing[x] = "aborted"
      <4>1. StopEffect(svc', svc.tasks \ {t}, Home(t.id), t.id, x)
        BY <1>2, Stopping DEF JInv
      <4> QED
        BY <4>1 DEF StopEffect
    <3>2. Calm(x)
      BY <1>a, <1>b, <2>1, <3>1 DEF Calm, Outside, TasksOf
    <3>3. TasksOf(x, "request")' \subseteq TasksOf(x, "request")
      BY <2>1 DEF TasksOf
    <3> QED
      BY <1>2, <1>b, <3>2, <3>3, StoppingStops
  <2>5. ASSUME NEW x \in Subs, x # t.id
        PROVE  Quiet(x)
    BY <1>a, <1>b, <2>1, <2>4, <2>5 DEF Quiet, TasksOf
  <2>6. ASSUME t.id \in Subs
        PROVE  Known(t.id)'
    <3>1. TasksOf(t.id, "add")' = {} /\ TasksOf(t.id, "update")' = TasksOf(t.id, "update")
      BY <1>a, <1>b, <2>1, <2>6 DEF TasksOf
    <3>2. ~Settled(t.id) /\ Updates(t.id)
      BY <1>a, <1>b, <2>6 DEF JInv, Known, Settled
    <3>3. Updates(t.id)' /\ (Busy(t.id)' <=> Busy(t.id))
      BY <1>b, <2>1, <3>1, <3>2 DEF Updates, Busy
    <3>4. Steady(t.id)
      BY <1>a, <1>b, <2>4, <2>6, <3>1, <3>2, <3>3 DEF Steady
    <3> QED
      BY <2>4, <2>6, <3>4, SteadyKnown
  <2> QED
    BY <2>2, <2>3, <2>4, <2>5, <2>6, OneJInv
<1> QED
  BY <1>c, <1>1, <1>2

LEMMA CheckAbortedJInv ==
  ASSUME JInv, IInv', Lasting, NEW t \in svc.tasks, CheckAborted(t)
  PROVE  JInv'
<1> DEFINE next == [do |-> "remove", id |-> t.id, at |-> "read", from |-> t.id]
<1>a. /\ t.do = "add" /\ t.at = "check" /\ t.id \in Sessions /\ TasksOf(t.id, "add") = {t}
      /\ store' = store /\ node' = node /\ past' = past
  BY DEF JInv, IInv, Tasks, TaskForm, Setups, TasksOf, CheckAborted
<1>b. PICK N \in {{}, {next}} : Moves(t, N)
  BY DEF JInv, IInv, Form, CheckAborted, RemoveSession, Moves
<1>c. Engine /\ svc'.tasks = (svc.tasks \ {t}) \cup N
  BY <1>b, MovesEngine DEF JInv
<1>1. Steps'
  BY <1>a, <1>c DEF JInv, Steps, Sessions
<1>2. Tracks'
  BY <1>a, <1>c DEF JInv, Tracks, TasksOf, Creating
<1>3. ASSUME NEW x \in Subs
      PROVE  Outside(x)
  BY <1>a DEF Outside
<1>4. ASSUME NEW x \in Subs, x # t.id
      PROVE  Quiet(x) /\ Stops(x)'
  BY <1>b, <1>3, <1>4, MovesElsewhere
<1>5. ASSUME t.id \in Subs
      PROVE  Known(t.id)'
  <2>1. /\ TasksOf(t.id, "add")' = {} /\ TasksOf(t.id, "update")' = TasksOf(t.id, "update")
        /\ TasksOf(t.id, "stop")' = TasksOf(t.id, "stop") /\ TasksOf(t.id, "request")' = TasksOf(t.id, "request")
        /\ TasksOf(t.id, "related")' = TasksOf(t.id, "related")
        /\ \A d : d.at = "cut" => (d \in TasksOf(t.id, "remove")' <=> d \in TasksOf(t.id, "remove"))
    BY <1>a, <1>c DEF TasksOf
  <2>2. Calm(t.id)
    BY <1>3, <1>5, <1>c, <2>1 DEF Calm, Engine
  <2>3. Stops(t.id)' /\ Updates(t.id) /\ (Settled(t.id) => Settled(t.id)')
    BY <1>a, <1>5, <1>c, <2>1 DEF JInv, Known, Stops, Settled, Engine
  <2>4. Updates(t.id)' /\ (Busy(t.id)' <=> Busy(t.id))
    BY <1>a, <1>c, <2>1, <2>3 DEF Updates, Busy, Engine
  <2>5. Steady(t.id)
    BY <1>a, <2>1, <2>2, <2>3, <2>4 DEF Steady
  <2> QED
    BY <1>5, <2>3, <2>5, SteadyKnown
<1> QED
  BY <1>1, <1>2, <1>4, <1>5, OneJInv

(* What is known of a subscription that is being linked.                   *)
LinkingOf(x, t) ==
  /\ t.id = x /\ x \in Subs /\ x \in past.requested /\ x \in past.established
  /\ t.do \in {"add", "update"}
  /\ t = [do |-> t.do, id |-> x, at |-> t.at, from |-> t.from]
  /\ TasksOf(x, t.do) = {t} /\ Known(x)
  /\ t.do = "add" => ~Settled(x) /\ x \notin DOMAIN store.subs /\ (\A d \in TasksOf(x, "update") : d.at = "read")
  /\ t.do = "update" => Settled(x) /\ (\A d \in TasksOf(x, "add") : d.at = "check")

LEMMA TaskLinking ==
  ASSUME JInv, NEW t \in svc.tasks, t.do \in {"add", "update"}, t.id \in Subs,
         t.at \in {"source", "link", "linkup", "write", "cut", "own", "create"}
  PROVE  LinkingOf(t.id, t)
<1>1. t = [do |-> t.do, id |-> t.id, at |-> t.at, from |-> t.from] /\ Known(t.id) /\ t \in TasksOf(t.id, t.do)
  BY DEF JInv, IInv, Tasks, TaskForm, TasksOf
<1>2. CASE t.do = "add"
  <2>1. t.id \in past.established /\ TasksOf(t.id, "add") = {t} /\ ~Stored(t.id)
    BY <1>1, <1>2 DEF JInv, IInv, Setups, TasksOf
  <2>2. ~Settled(t.id) /\ t.id \in past.requested
    BY <1>2, <2>1 DEF Settled, JInv, IInv, Tables
  <2> QED
    BY <1>1, <1>2, <2>1, <2>2 DEF LinkingOf, Known, Updates
<1>3. CASE t.do = "update"
  <2>1. TasksOf(t.id, "update") = {t} /\ Settled(t.id) /\ t.id \in past.requested
    BY <1>1, <1>3 DEF Known, Updates, Wanted
  <2> QED
    BY <1>1, <1>3, <2>1 DEF LinkingOf, Settled
<1> QED
  BY <1>2, <1>3

(* What leaves the tasks of publications leaves their tracks.              *)
LEMMA TracksKept ==
  ASSUME Tracks, DOMAIN store'.tracks = DOMAIN store.tracks, store.pubs \subseteq store'.pubs,
         past.established \subseteq past'.established,
         \A s \in DOMAIN store.tracks : store'.tracks[s] \subseteq store.tracks[s] \cup Subs,
         \A s \in Pubs, do \in {"add", "remove"} : TasksOf(s, do)' = TasksOf(s, do)
  PROVE  Tracks'
<1>1. \A s \in Pubs : Creating(s) <=> (\E t \in TasksOf(s, "add") : t.at = "create")
  BY DEF Creating, TasksOf
<1>2. \A s \in Pubs : Creating(s)' <=> (\E t \in TasksOf(s, "add")' : t.at = "create")
  BY DEF Creating, TasksOf
<1> QED
  BY <1>1, <1>2 DEF Tracks

LEMMA LinkSourceJInv ==
  ASSUME JInv, IInv', Lasting, NEW t \in svc.tasks, LinkSource(t)
  PROVE  JInv'
<1> DEFINE x == t.id
           next == [do |-> t.do, id |-> t.id, at |-> "linkup", from |-> t.from]
<1>a. /\ t.do \in {"add", "update"} /\ t.at = "link" /\ x \in Subs /\ LinkingOf(x, t)
      /\ node' = node
  BY TaskLinking DEF JInv, Steps, LinkSource, Linking
<1>b. Moves(t, {next})
  <2>1. [t EXCEPT !.at = "linkup"] = next
    BY <1>a DEF LinkingOf
  <2> QED
    BY <2>1 DEF LinkSource, Moves
<1>c. Engine /\ svc'.tasks = (svc.tasks \ {t}) \cup {next}
  BY <1>b, MovesEngine DEF JInv
<1>d. /\ store'.subs = store.subs /\ store'.pubs = store.pubs /\ DOMAIN store'.tracks = DOMAIN store.tracks
      /\ \A s \in DOMAIN store.tracks : store'.tracks[s] = IF s = t.from THEN store.tracks[s] \cup {x} ELSE store.tracks[s]
  BY DEF JInv, IInv, Form, LinkSource
<1>e. /\ past.mishaps \subseteq past'.mishaps /\ past'.mishaps \subseteq past.mishaps \cup {<<"source_gone", x>>}
      /\ t.from \notin DOMAIN store.tracks => <<"source_gone", x>> \in past'.mishaps
      /\ past'.requested = past.requested /\ past'.established = past.established /\ past'.want = past.want
  BY DEF JInv, IInv, Form, LinkSource
<1>f. next.do = t.do /\ next.id = x /\ next.at = "linkup" /\ next.from = t.from
  OBVIOUS
<1> HIDE DEF next
<1>1. Steps'
  BY <1>a, <1>c, <1>e, <1>f DEF JInv, Steps, Sessions
<1>2. Tracks'
  <2>1. \A s \in Pubs, do \in {"add", "remove"} : TasksOf(s, do)' = TasksOf(s, do)
    BY <1>a, <1>c, <1>f DEF TasksOf
  <2> QED
    BY <1>a, <1>d, <1>e, <2>1, TracksKept DEF JInv
<1>3. ASSUME NEW y \in Subs, y # x
      PROVE  Quiet(y) /\ Stops(y)'
  <2>1. Outside(y)
    BY <1>a, <1>d, <1>e, <1>3 DEF Outside
  <2> QED
    BY <1>b, <1>f, <1>3, <2>1, MovesElsewhere
<1>4. /\ TasksOf(x, t.do)' = {next}
      /\ \A do \in {"add", "update", "related", "stop", "request", "remove"} :
           do # t.do => TasksOf(x, do)' = TasksOf(x, do)
  BY <1>a, <1>c, <1>f DEF TasksOf, LinkingOf
<1>5. /\ Stops(x)' /\ Removed(x)' /\ LinkKnown(x)'
      /\ (Settled(x)' <=> Settled(x)) /\ (Busy(x)' <=> Busy(x))
  <2>1. Stops(x)'
    BY <1>a, <1>c, <1>e, <1>4 DEF LinkingOf, Known, Stops, Engine
  <2>2. CASE t.do = "add"
    <3>1. TasksOf(x, "add")' = {next} /\ TasksOf(x, "update")' = TasksOf(x, "update") /\ TasksOf(x, "add") = {t}
      BY <1>a, <1>4, <2>2 DEF LinkingOf
    <3>2. (Settled(x)' <=> Settled(x)) /\ (Busy(x)' <=> Busy(x))
      BY ONLY <1>a, <1>e, <1>f, <3>1 DEF Settled, Busy
    <3> QED
      BY <1>a, <1>d, <1>e, <1>f, <1>4, <2>1, <3>1, <3>2 DEF LinkingOf, Known, Removed, LinkKnown
  <2>3. CASE t.do = "update"
    <3>1. TasksOf(x, "update")' = {next} /\ TasksOf(x, "add")' = TasksOf(x, "add") /\ TasksOf(x, "update") = {t}
      BY <1>a, <1>4, <2>3 DEF LinkingOf
    <3>2. (Settled(x)' <=> Settled(x)) /\ (Busy(x)' <=> Busy(x))
      BY ONLY <1>a, <1>e, <1>f, <3>1 DEF Settled, Busy
    <3> QED
      BY <1>a, <1>d, <1>e, <1>f, <1>4, <2>1, <3>1, <3>2 DEF LinkingOf, Known, Removed, LinkKnown
  <2> QED
    BY <1>a, <2>2, <2>3
<1>6. Updates(x)'
  BY <1>a, <1>c, <1>e, <1>f, <1>4, <1>5 DEF LinkingOf, Known, Updates, Engine
<1>7. ASSUME NEW s, NEW ats \in {{"linkup", "own", "create", "write"}, {"own", "create", "write"}}, Takes(x, s, ats)'
      PROVE  s = t.from /\ "linkup" \in ats
  BY <1>a, <1>4, <1>5, <1>7, <1>d, <1>f DEF LinkingOf, Takes, Settled, Busy
<1>8. Linked(x)' /\ Told(x)' /\ Sent(x)'
  <2>1. t.from \in DOMAIN store.tracks => Made(t.from)'
    BY DEF JInv, Tracks, Made, Lasting
  <2> QED
    BY <1>d, <1>e, <1>7, <2>1 DEF Linked, Told, Sent, Excused, LostLinks
<1>9. TrackKnown(x)'
  <2> SUFFICES ASSUME NEW s \in DOMAIN store.tracks, x \in store'.tracks[s], s # t.from
               PROVE  \/ \E d \in TasksOf(x, "remove")' : d.at = "cut"
                      \/ Excused({"stale_cut", "update_failed"}, x)'
    <3>1. next \in TasksOf(x, t.do)' /\ next.from = t.from /\ next.at = "linkup"
      BY <1>4, <1>f
    <3>2. t.do = "add" \/ t.do = "update"
      BY <1>a
    <3> QED
      BY <1>d, <3>1, <3>2 DEF TrackKnown
  <2>1. x \in store.tracks[s]
    BY <1>d
  <2> QED
    BY <1>a, <1>e, <1>4, <1>5, <2>1 DEF LinkingOf, Known, TrackKnown, Excused, Settled, Busy
<1>10. Wanted(x)'
  <2>1. CASE t.do = "add"
    BY <1>a, <1>c, <1>d, <1>e, <1>f, <1>4, <2>1 DEF LinkingOf, Known, Wanted, Excused, Engine
  <2>2. CASE t.do = "update"
    <3>1. /\ TasksOf(x, "update")' = {next} /\ TasksOf(x, "add")' = TasksOf(x, "add") /\ TasksOf(x, "update") = {t}
          /\ Wanted(x) /\ x \in past.requested
      BY <1>a, <1>4, <2>2 DEF LinkingOf, Known
    <3> QED
      BY ONLY <1>c, <1>d, <1>e, <1>f, <3>1 DEF Wanted, Excused, Engine
  <2> QED
    BY <1>a, <2>1, <2>2
<1>11. Known(x)'
  BY <1>5, <1>6, <1>8, <1>9, <1>10 DEF Known
<1> QED
  BY <1>1, <1>2, <1>3, <1>11, OneJInv

(* A link that fails.                                                      *)
LEMMA LinkFailedKnown ==
  ASSUME JInv, NEW t \in svc.tasks, t.do \in {"add", "update"}, t.id \in Subs, t.at \in {"source", "linkup"},
         store' = store, node' = node, svc' = LinkFailed(t),
         past'.requested = past.requested, past'.established = past.established, past'.want = past.want,
         past'.mishaps = past.mishaps \cup Failed(t)
  PROVE  /\ Steps' /\ Tracks' /\ Known(t.id)'
         /\ \A y \in Subs : y # t.id => Quiet(y) /\ Stops(y)'
<1> DEFINE x == t.id
           cut == [do |-> "add", id |-> t.id, at |-> "cut", from |-> t.from]
           N == IF t.do = "add" THEN {cut} ELSE {}
<1>a. LinkingOf(x, t)
  BY TaskLinking
<1>b. Moves(t, N) /\ (\A n \in N : n.id = x)
  <2>1. CASE t.do = "add"
    <3>1. [t EXCEPT !.at = "cut"] = cut
      BY <1>a, <2>1 DEF LinkingOf
    <3> QED
      BY <2>1, <3>1 DEF LinkFailed, Moves
  <2>2. CASE t.do = "update"
    BY <2>2 DEF LinkFailed, Moves
  <2> QED
    BY <2>1, <2>2
<1>c. Engine /\ svc'.tasks = (svc.tasks \ {t}) \cup N
  BY <1>b, MovesEngine DEF JInv
<1>d. /\ past.mishaps \subseteq past'.mishaps /\ past'.mishaps \subseteq past.mishaps \cup {<<"update_failed", x>>}
      /\ t.do = "update" => <<"update_failed", x>> \in past'.mishaps
  BY DEF Failed
<1>1. Steps'
  BY <1>c DEF JInv, Steps, Sessions
<1>2. Tracks'
  <2>1. \A s \in Pubs, do \in {"add", "remove"} : TasksOf(s, do)' = TasksOf(s, do)
    BY <1>c DEF TasksOf
  <2> QED
    BY <1>d, <2>1, TracksKept DEF JInv
<1>3. ASSUME NEW y \in Subs, y # x
      PROVE  Quiet(y) /\ Stops(y)'
  <2>1. Outside(y)
    BY <1>d, <1>3 DEF Outside
  <2> QED
    BY <1>b, <1>3, <2>1, MovesElsewhere
<1>4. \A do \in {"add", "update", "related", "stop", "request", "remove"} :
           do # t.do => TasksOf(x, do)' = TasksOf(x, do)
  BY <1>a, <1>c DEF TasksOf, LinkingOf
<1>5. Stops(x)'
  BY <1>a, <1>c, <1>4 DEF LinkingOf, Known, Stops, Engine
<1>6. CASE t.do = "add"
  <2>1. /\ TasksOf(x, "add")' = {cut} /\ TasksOf(x, "update")' = TasksOf(x, "update") /\ TasksOf(x, "add") = {t}
        /\ TasksOf(x, "remove")' = TasksOf(x, "remove") /\ TasksOf(x, "related")' = TasksOf(x, "related")
        /\ cut.at = "cut" /\ cut.from = t.from /\ past'.mishaps = past.mishaps
        /\ ~Settled(x) /\ x \notin DOMAIN store.subs /\ Known(x)
        /\ \A d \in TasksOf(x, "update") : d.at = "read"
    BY <1>a, <1>c, <1>4, <1>6 DEF LinkingOf, TasksOf, Failed
  <2> HIDE DEF cut
  <2>2. Updates(x)' /\ Removed(x)'
    BY <1>c, <2>1 DEF Known, Updates, Removed, Engine
  <2>3. ASSUME NEW s, NEW ats \in {{"linkup", "own", "create", "write"}, {"own", "create", "write"}}, Takes(x, s, ats)'
        PROVE  FALSE
    BY <2>1, <2>3 DEF Takes
  <2>4. Linked(x)' /\ Told(x)' /\ Sent(x)'
    BY <2>3 DEF Linked, Told, Sent
  <2>5. LinkKnown(x)'
    BY <2>1 DEF Known, LinkKnown
  <2>6. TrackKnown(x)'
    BY <2>1 DEF Known, TrackKnown, Excused, Busy
  <2>7. Wanted(x)'
    BY <1>c, <2>1 DEF Known, Wanted, Excused, Engine
  <2>8. Known(x)'
    BY <1>5, <2>2, <2>4, <2>5, <2>6, <2>7 DEF Known
  <2> QED
    BY <1>1, <1>2, <1>3, <2>8
<1>7. CASE t.do = "update"
  <2>1. /\ TasksOf(x, "update")' = {} /\ TasksOf(x, "add")' = TasksOf(x, "add")
        /\ TasksOf(x, "remove")' = TasksOf(x, "remove") /\ TasksOf(x, "update") = {t}
        /\ Known(x) /\ x \in past.requested
    BY <1>a, <1>c, <1>4, <1>7 DEF LinkingOf, TasksOf
  <2>2. Updates(x)' /\ LinkKnown(x)'
    BY <2>1 DEF Known, Updates, LinkKnown
  <2>3. Removed(x)'
    BY <1>d, <2>1 DEF Known, Removed, Settled
  <2>4. x \in past'.requested /\ x \in DOMAIN past'.want /\ x \in DOMAIN svc'.from
    BY <1>c, <2>1 DEF Known, Wanted, Engine
  <2>5. Known(x)'
    BY <1>d, <1>5, <1>7, <2>2, <2>3, <2>4, LostKnown
  <2> QED
    BY <1>1, <1>2, <1>3, <2>5
<1> QED
  BY <1>6, <1>7

LEMMA LinkupFailsJInv ==
  ASSUME JInv, IInv', Lasting, NEW t \in svc.tasks, LinkupFails(t)
  PROVE  JInv'
<1>1. t.do \in {"add", "update"} /\ t.at = "linkup" /\ t.id \in Subs
  BY DEF JInv, Steps, LinkupFails, Linking
<1>2. /\ store' = store /\ node' = node /\ svc' = LinkFailed(t)
      /\ past'.requested = past.requested /\ past'.established = past.established /\ past'.want = past.want
      /\ past'.mishaps = past.mishaps \cup Failed(t)
  BY DEF JInv, IInv, Form, LinkupFails
<1> QED
  BY <1>1, <1>2, LinkFailedKnown, OneJInv

LEMMA FindSourceJInv ==
  ASSUME JInv, IInv', Lasting, NEW t \in svc.tasks, FindSource(t)
  PROVE  JInv'
<1> DEFINE x == t.id
           next == [do |-> t.do, id |-> t.id, at |-> "link", from |-> t.from]
<1>a. /\ t.do \in {"add", "update"} /\ t.at = "source" /\ t.id \in Subs /\ LinkingOf(x, t)
      /\ store' = store /\ node' = node
  BY TaskLinking DEF JInv, Steps, FindSource, Linking
<1>1. CASE ~(t.from \in store.pubs /\ t.from \in DOMAIN store.tracks)
  <2>1. /\ svc' = LinkFailed(t)
        /\ past'.requested = past.requested /\ past'.established = past.established /\ past'.want = past.want
        /\ past'.mishaps = past.mishaps \cup Failed(t)
    BY <1>1 DEF JInv, IInv, Form, FindSource
  <2> QED
    BY <1>a, <2>1, LinkFailedKnown, OneJInv
<1>2. CASE t.from \in store.pubs /\ t.from \in DOMAIN store.tracks
  <2>1. [t EXCEPT !.at = "link"] = next
    BY <1>a DEF LinkingOf
  <2>2. Moves(t, {next}) /\ past' = past
    <3>1. Moves(t, {next}) /\ past' = [past EXCEPT !.mishaps = @ \cup {}]
      BY <1>2, <2>1 DEF FindSource, Moves
    <3>2. past = [past EXCEPT !.mishaps = @ \cup {}]
      BY DEF JInv, IInv, Form
    <3> QED
      BY ONLY <3>1, <3>2
  <2>3. Engine /\ svc'.tasks = (svc.tasks \ {t}) \cup {next}
    BY <2>2, MovesEngine DEF JInv
  <2>f. next.do = t.do /\ next.id = x /\ next.at = "link" /\ next.from = t.from
    OBVIOUS
  <2> HIDE DEF next
  <2>4. Steps'
    BY <1>a, <2>2, <2>3, <2>f DEF JInv, Steps, Sessions
  <2>5. Tracks'
    <3>1. \A s \in Pubs, do \in {"add", "remove"} : TasksOf(s, do)' = TasksOf(s, do)
      BY <1>a, <2>3, <2>f DEF TasksOf
    <3> QED
      BY <1>a, <2>2, <3>1, TracksKept DEF JInv
  <2>6. ASSUME NEW y \in Subs
        PROVE  Outside(y)
    BY <1>a, <2>2 DEF Outside
  <2>7. ASSUME NEW y \in Subs, y # x
        PROVE  Quiet(y) /\ Stops(y)'
    BY <2>2, <2>6, <2>7, <2>f, MovesElsewhere
  <2>8. \A do \in {"add", "update", "related", "stop", "request", "remove"} :
             do # t.do => TasksOf(x, do)' = TasksOf(x, do)
    BY <1>a, <2>3, <2>f DEF TasksOf
  <2>9. Calm(x)
    BY <1>a, <2>3, <2>6, <2>8 DEF Calm, Engine
  <2>10. Stops(x)'
    BY <1>a, <2>2, <2>3, <2>8 DEF LinkingOf, Known, Stops, Engine
  <2>11. TasksOf(x, t.do)' = {next} /\ TasksOf(x, t.do) = {t} /\ Updates(x)
    BY <1>a, <2>3, <2>f DEF LinkingOf, Known, TasksOf
  <2>12. /\ (Settled(x) => Settled(x)') /\ (Busy(x)' <=> Busy(x))
         /\ \A d \in TasksOf(x, "add")' : d.at # "check" =>
              \E e \in TasksOf(x, "add") : e.from = d.from /\ e.at # "check"
         /\ \A d \in TasksOf(x, "update") : \E e \in TasksOf(x, "update")' : e.from = d.from
    <3>1. CASE t.do = "add"
      BY ONLY <1>a, <2>2, <2>8, <2>11, <2>f, <3>1 DEF Settled, Busy
    <3>2. CASE t.do = "update"
      BY ONLY <1>a, <2>2, <2>8, <2>11, <2>f, <3>2 DEF Settled, Busy
    <3> QED
      BY <1>a, <3>1, <3>2
  <2>13. Updates(x)'
    BY <1>a, <2>2, <2>3, <2>8, <2>11, <2>12, <2>f DEF Updates, Engine
  <2>14. Steady(x)
    <3>1. CASE t.do = "add"
      BY ONLY <1>a, <2>8, <2>9, <2>11, <2>12, <2>13, <2>f, <3>1 DEF Steady
    <3>2. CASE t.do = "update"
      BY ONLY <1>a, <2>8, <2>9, <2>11, <2>12, <2>13, <2>f, <3>2 DEF Steady
    <3> QED
      BY <1>a, <3>1, <3>2
  <2>15. Known(x)'
    BY <1>a, <2>10, <2>14, SteadyKnown
  <2> QED
    BY <2>4, <2>5, <2>7, <2>15, OneJInv
<1> QED
  BY <1>1, <1>2

LEMMA LinkupJInv ==
  ASSUME JInv, IInv', Lasting, NEW t \in svc.tasks, Linkup(t)
  PROVE  JInv'
<1> DEFINE x == t.id
           next == [do |-> t.do, id |-> t.id, at |-> IF t.do = "add" THEN "own" ELSE "write", from |-> t.from]
<1>a. /\ t.do \in {"add", "update"} /\ t.at = "linkup" /\ t.id \in Subs /\ LinkingOf(x, t)
      /\ store' = store
  BY TaskLinking DEF JInv, Steps, Linkup, Linking
<1>1. CASE x \notin node.dests
  <2>1. /\ svc' = LinkFailed(t) /\ node' = node
        /\ past'.requested = past.requested /\ past'.established = past.established /\ past'.want = past.want
        /\ past'.mishaps = past.mishaps \cup Failed(t)
    BY <1>1 DEF JInv, IInv, Form, Linkup
  <2> QED
    BY <1>a, <2>1, LinkFailedKnown, OneJInv
<1>2. CASE x \in node.dests
  <2>1. [t EXCEPT !.at = IF t.do = "add" THEN "own" ELSE "write"] = next
    BY <1>a DEF LinkingOf
  <2>2. Moves(t, {next}) /\ past' = past /\ node'.links = Put(node.links, x, t.from)
    BY <1>2, <2>1 DEF Linkup, Moves, JInv, IInv, Form
  <2>a. /\ DOMAIN node'.links = DOMAIN node.links \cup {x} /\ node'.links[x] = t.from
        /\ \A y \in DOMAIN node.links : y # x => node'.links[y] = node.links[y]
    BY <2>2 DEF Put
  <2>3. Engine /\ svc'.tasks = (svc.tasks \ {t}) \cup {next}
    BY <2>2, MovesEngine DEF JInv
  <2>f. /\ next.do = t.do /\ next.id = x /\ next.from = t.from
        /\ t.do = "add" => next.at = "own"
        /\ t.do = "update" => next.at = "write"
    OBVIOUS
  <2> HIDE DEF next
  <2>4. Steps'
    BY <1>a, <2>2, <2>3, <2>f DEF JInv, Steps, Sessions
  <2>5. Tracks'
    <3>1. \A s \in Pubs, do \in {"add", "remove"} : TasksOf(s, do)' = TasksOf(s, do)
      BY <1>a, <2>3, <2>f DEF TasksOf
    <3> QED
      BY <1>a, <2>2, <3>1, TracksKept DEF JInv
  <2>7. ASSUME NEW y \in Subs, y # x
        PROVE  Quiet(y) /\ Stops(y)'
    <3>1. Outside(y)
      BY <1>a, <2>2, <2>a, <2>7 DEF Outside
    <3> QED
      BY <2>2, <2>7, <2>f, <3>1, MovesElsewhere
  <2>8. \A do \in {"add", "update", "related", "stop", "request", "remove"} :
             do # t.do => TasksOf(x, do)' = TasksOf(x, do)
    BY <1>a, <2>3, <2>f DEF TasksOf
  <2>10. Stops(x)'
    BY <1>a, <2>2, <2>3, <2>8 DEF LinkingOf, Known, Stops, Engine
  <2>11. TasksOf(x, t.do)' = {next} /\ TasksOf(x, t.do) = {t} /\ Known(x)
    BY <1>a, <2>3, <2>f DEF LinkingOf, TasksOf
  <2>12. /\ (Settled(x)' <=> Settled(x)) /\ (Busy(x)' <=> Busy(x))
         /\ \A s, ats : s = t.from /\ "linkup" \in ats /\ (t.do = "update" => x \in DOMAIN store.subs) => Takes(x, s, ats)
         /\ \A s : \A ats \in {{"linkup", "own", "create", "write"}, {"own", "create", "write"}} :
              Takes(x, s, ats)' => s = t.from /\ (t.do = "update" => x \in DOMAIN store.subs)
    <3>1. CASE t.do = "add"
      <4>1. /\ TasksOf(x, "add")' = {next} /\ TasksOf(x, "add") = {t}
            /\ TasksOf(x, "update")' = TasksOf(x, "update")
            /\ x \notin DOMAIN store.subs /\ (\A d \in TasksOf(x, "update") : d.at = "read")
            /\ next.at = "own"
        BY <1>a, <2>8, <2>11, <2>f, <3>1 DEF LinkingOf
      <4> QED
        BY ONLY <1>a, <2>2, <2>f, <4>1, <3>1 DEF Settled, Busy, Takes
    <3>2. CASE t.do = "update"
      <4>1. /\ TasksOf(x, "update")' = {next} /\ TasksOf(x, "update") = {t}
            /\ TasksOf(x, "add")' = TasksOf(x, "add") /\ (\A d \in TasksOf(x, "add") : d.at = "check")
            /\ next.at = "write"
        BY <1>a, <2>8, <2>11, <2>f, <3>2 DEF LinkingOf
      <4> QED
        BY ONLY <1>a, <2>2, <2>f, <4>1, <3>2 DEF Settled, Busy, Takes
    <3> QED
      BY <1>a, <3>1, <3>2
  <2>13. Updates(x)'
    BY <1>a, <2>2, <2>3, <2>8, <2>11, <2>12, <2>f DEF Known, Updates, Engine
  <2>14. Removed(x)'
    BY <1>a, <2>2, <2>8, <2>11, <2>12 DEF Known, Removed
  <2>15. Linked(x)'
    BY <1>a, <2>2, <2>11, <2>12 DEF Lasting, Known, Linked, Excused
  <2>16. Told(x)'
    BY <1>a, <2>2, <2>3, <2>8, <2>11, <2>12 DEF Known, Told, Excused, Engine
  <2>17. Sent(x)'
    BY <2>a, <2>12 DEF Sent
  <2>18. LinkKnown(x)'
    <3>1. CASE t.do = "add"
      BY <2>f, <2>11, <3>1 DEF LinkKnown
    <3>2. CASE t.do = "update"
      BY <2>f, <2>11, <3>2 DEF LinkKnown
    <3> QED
      BY <1>a, <3>1, <3>2
  <2>19. TrackKnown(x)'
    <3>1. CASE t.do = "add"
      BY ONLY <1>a, <2>2, <2>8, <2>11, <2>12, <2>f, <3>1 DEF Known, TrackKnown, Excused
    <3>2. CASE t.do = "update"
      BY ONLY <1>a, <2>2, <2>8, <2>11, <2>12, <2>f, <3>2 DEF Known, TrackKnown, Excused
    <3> QED
      BY <1>a, <3>1, <3>2
  <2>20. Wanted(x)'
    <3>0. Wanted(x) /\ x \in past.requested
      BY <1>a, <2>11 DEF LinkingOf, Known
    <3>1. CASE t.do = "add"
      BY ONLY <1>a, <2>2, <2>3, <2>8, <2>11, <2>f, <3>0, <3>1 DEF Wanted, Excused, Engine
    <3>2. CASE t.do = "update"
      BY ONLY <1>a, <2>2, <2>3, <2>8, <2>11, <2>f, <3>0, <3>2 DEF Wanted, Excused, Engine
    <3> QED
      BY <1>a, <3>1, <3>2
  <2>21. Known(x)'
    BY <2>10, <2>13, <2>14, <2>15, <2>16, <2>17, <2>18, <2>19, <2>20 DEF Known
  <2> QED
    BY <2>4, <2>5, <2>7, <2>21, OneJInv
<1> QED
  BY <1>1, <1>2

LEMMA OwnSubscription ==
  ASSUME JInv, IInv', Lasting, NEW t \in svc.tasks, Own(t), t.id \in Subs
  PROVE  JInv'
<1> DEFINE x == t.id
           next == [do |-> "add", id |-> t.id, at |-> "create", from |-> t.from]
<1>a. /\ t.do = "add" /\ t.at = "own" /\ x \notin Pubs /\ LinkingOf(x, t) /\ node' = node
  BY TaskLinking DEF Own
<1>b. Moves(t, {next})
  <2>1. [t EXCEPT !.at = "create"] = next
    BY <1>a DEF LinkingOf
  <2> QED
    BY <2>1 DEF Own, Moves
<1>c. Engine /\ svc'.tasks = (svc.tasks \ {t}) \cup {next}
  BY <1>b, MovesEngine DEF JInv
<1>d. /\ store'.subs = store.subs /\ store'.pubs = store.pubs /\ store'.tracks = store.tracks
  BY <1>a DEF JInv, IInv, Form, Own
<1>e. /\ past.mishaps \subseteq past'.mishaps /\ past'.mishaps \subseteq past.mishaps \cup {<<"left_meanwhile", x>>}
      /\ past'.requested = past.requested /\ past'.established = past.established /\ past'.want = past.want
  BY DEF JInv, IInv, Form, Own
<1>f. next.do = "add" /\ next.id = x /\ next.from = t.from /\ next.at = "create"
  OBVIOUS
<1> HIDE DEF next
<1>1. Steps'
  BY <1>a, <1>c, <1>e, <1>f DEF JInv, Steps, Sessions
<1>2. Tracks'
  <2>1. \A s \in Pubs, do \in {"add", "remove"} : TasksOf(s, do)' = TasksOf(s, do)
    BY <1>a, <1>c, <1>f DEF TasksOf
  <2>2. \A s \in DOMAIN store.tracks : store'.tracks[s] \subseteq store.tracks[s] \cup Subs
    BY <1>d
  <2> QED
    BY <1>d, <1>e, <2>1, <2>2, TracksKept DEF JInv
<1>3. ASSUME NEW y \in Subs, y # x
      PROVE  Quiet(y) /\ Stops(y)'
  <2>1. Outside(y)
    BY <1>a, <1>d, <1>e, <1>3 DEF Outside
  <2> QED
    BY <1>b, <1>3, <1>f, <2>1, MovesElsewhere
<1>4. /\ \A do \in {"update", "related", "stop", "request", "remove"} : TasksOf(x, do)' = TasksOf(x, do)
      /\ TasksOf(x, "add")' = {next} /\ TasksOf(x, "add") = {t} /\ Known(x)
  BY <1>a, <1>c, <1>f DEF TasksOf, LinkingOf
<1>5. Stops(x)' /\ (Settled(x)' <=> Settled(x)) /\ (Busy(x)' <=> Busy(x))
  BY <1>a, <1>c, <1>e, <1>f, <1>4 DEF Known, Stops, Settled, Busy, Engine
<1>6. \A s : \A ats \in {{"linkup", "own", "create", "write"}, {"own", "create", "write"}} :
        Takes(x, s, ats)' => Takes(x, s, ats)
  <2>1. \A ats \in {{"linkup", "own", "create", "write"}, {"own", "create", "write"}} : "own" \in ats
    OBVIOUS
  <2> QED
    BY <1>a, <1>d, <1>f, <1>4, <1>5, <2>1 DEF Takes
<1>7. Updates(x)' /\ Removed(x)'
  BY <1>a, <1>c, <1>d, <1>e, <1>4, <1>5 DEF Known, Updates, Removed, Engine
<1>8. \A K : Excused(K, x) => Excused(K, x)'
  BY <1>e DEF Excused
<1>9. Linked(x)' /\ Told(x)' /\ Sent(x)'
  BY <1>a, <1>c, <1>d, <1>4, <1>6, <1>8 DEF Lasting, Known, Linked, Told, Sent, Engine
<1>10. LinkKnown(x)' /\ TrackKnown(x)'
  BY <1>a, <1>d, <1>e, <1>f, <1>4, <1>5, <1>8 DEF Known, LinkKnown, TrackKnown
<1>11. Wanted(x)'
  BY <1>a, <1>c, <1>d, <1>e, <1>f, <1>4, <1>8 DEF Known, Wanted, Engine
<1>12. Known(x)'
  BY <1>5, <1>7, <1>9, <1>10, <1>11 DEF Known
<1> QED
  BY <1>1, <1>2, <1>3, <1>12, OneJInv

LEMMA OwnPublication ==
  ASSUME JInv, IInv', Lasting, NEW t \in svc.tasks, Own(t), t.id \in Pubs
  PROVE  JInv'
<1> DEFINE i == t.id
           next == [do |-> "add", id |-> t.id, at |-> "create", from |-> t.from]
<1>a. /\ t.do = "add" /\ t.at = "own" /\ i \in Sessions /\ node' = node
      /\ t = [do |-> "add", id |-> t.id, at |-> "own", from |-> t.from]
      /\ t \in TasksOf(i, "add") /\ TasksOf(i, "add") = {t} /\ i \in past.established
  BY DEF JInv, IInv, Tasks, TaskForm, Setups, TasksOf, Own
<1>b. Moves(t, {next})
  <2>1. [t EXCEPT !.at = "create"] = next
    BY <1>a
  <2> QED
    BY <2>1 DEF Own, Moves
<1>c. Engine /\ svc'.tasks = (svc.tasks \ {t}) \cup {next}
  BY <1>b, MovesEngine DEF JInv
<1>d. /\ store'.subs = store.subs /\ store'.pubs = store.pubs /\ store'.tracks = Put(store.tracks, i, {})
  BY <1>a DEF JInv, IInv, Form, Own
<1>e. /\ past.mishaps \subseteq past'.mishaps /\ past'.mishaps \subseteq past.mishaps \cup {<<"left_meanwhile", i>>}
      /\ past'.requested = past.requested /\ past'.established = past.established /\ past'.want = past.want
  BY DEF JInv, IInv, Form, Own
<1>f. next.do = "add" /\ next.id = i /\ next.from = t.from /\ next.at = "create"
  OBVIOUS
<1> HIDE DEF next
<1>g. /\ i \notin DOMAIN store.tracks /\ ~Made(i)
      /\ DOMAIN store'.tracks = DOMAIN store.tracks \cup {i} /\ store'.tracks[i] = {}
      /\ \A s \in DOMAIN store.tracks : store'.tracks[s] = store.tracks[s]
  <2>1. i \notin DOMAIN store.tracks
    BY <1>a DEF JInv, Tracks
  <2> QED
    BY <1>a, <1>d, <2>1 DEF Put, Made
<1>1. Steps'
  BY <1>a, <1>c, <1>e, <1>f DEF JInv, Steps
<1>2. Tracks'
  <2>1. TasksOf(i, "add")' = {next}
    BY <1>a, <1>c, <1>f DEF TasksOf
  <2>2. Creating(i)'
    BY <1>c, <1>f DEF Creating
  <2>3. \A s : s # i => /\ TasksOf(s, "add")' = TasksOf(s, "add") /\ TasksOf(s, "remove")' = TasksOf(s, "remove")
                        /\ Creating(s)' <=> Creating(s)
    BY <1>a, <1>c, <1>f DEF TasksOf, Creating
  <2> QED
    BY <1>a, <1>d, <1>e, <1>f, <1>g, <2>1, <2>2, <2>3 DEF JInv, Tracks
<1>3. ASSUME NEW x \in Subs
      PROVE  Known(x)'
  <2>1. /\ \A do : TasksOf(x, do)' = TasksOf(x, do)
        /\ Known(x)
    BY <1>a, <1>c, <1>f DEF JInv, TasksOf
  <2>2. /\ (Settled(x)' <=> Settled(x)) /\ (Busy(x)' <=> Busy(x))
    BY <1>e, <2>1 DEF Settled, Busy
  <2>3. \A s, ats : Takes(x, s, ats)' => Takes(x, s, ats)
    BY <1>d, <2>1, <2>2 DEF Takes
  <2>4. Updates(x)' /\ Stops(x)'
    BY <1>c, <1>e, <2>1, <2>2 DEF Known, Updates, Stops, Engine
  <2>5. Removed(x)'
    BY <1>d, <1>e, <2>1, <2>2 DEF Known, Removed
  <2>6. \A K : Excused(K, x) => Excused(K, x)'
    BY <1>e DEF Excused
  <2>7. Linked(x)' /\ Told(x)' /\ Sent(x)'
    BY <1>a, <1>c, <1>g, <2>1, <2>3, <2>6 DEF Lasting, Known, Linked, Told, Sent, Engine
  <2>8. LinkKnown(x)'
    BY <1>a, <1>d, <2>1 DEF Known, LinkKnown
  <2>9. TrackKnown(x)'
    BY <1>a, <1>d, <1>g, <2>1, <2>2, <2>6 DEF Known, TrackKnown
  <2>10. Wanted(x)'
    BY <1>c, <1>d, <1>e, <2>1, <2>6 DEF Known, Wanted, Engine
  <2> QED
    BY <2>4, <2>5, <2>7, <2>8, <2>9, <2>10 DEF Known
<1> QED
  BY <1>1, <1>2, <1>3 DEF JInv

LEMMA CreateSubscription ==
  ASSUME JInv, IInv', Lasting, NEW t \in svc.tasks, Create(t), t.id \in Subs
  PROVE  JInv'
<1> DEFINE x == t.id
           next == [do |-> "add", id |-> t.id, at |-> "check", from |-> t.from]
<1>a. /\ t.do = "add" /\ t.at = "create" /\ x \notin Pubs /\ LinkingOf(x, t) /\ node' = node /\ past' = past
  BY TaskLinking DEF Create
<1>b. Moves(t, {next})
  <2>1. [t EXCEPT !.at = "check"] = next
    BY <1>a DEF LinkingOf
  <2> QED
    BY <2>1 DEF Create, Moves
<1>c. Engine /\ svc'.tasks = (svc.tasks \ {t}) \cup {next}
  BY <1>b, MovesEngine DEF JInv
<1>d. /\ store'.subs = Put(store.subs, x, t.from) /\ store'.pubs = store.pubs /\ store'.tracks = store.tracks
  BY <1>a DEF JInv, IInv, Form, Create
<1>e. /\ DOMAIN store'.subs = DOMAIN store.subs \cup {x} /\ store'.subs[x] = t.from
      /\ \A y \in DOMAIN store.subs : y # x => store'.subs[y] = store.subs[y]
  BY <1>d DEF Put
<1>f. next.do = "add" /\ next.id = x /\ next.from = t.from /\ next.at = "check"
  OBVIOUS
<1> HIDE DEF next
<1>1. Steps'
  BY <1>a, <1>c, <1>f DEF JInv, Steps, Sessions
<1>2. Tracks'
  <2>1. \A s \in Pubs, do \in {"add", "remove"} : TasksOf(s, do)' = TasksOf(s, do)
    BY <1>a, <1>c, <1>f DEF TasksOf
  <2>2. \A s \in DOMAIN store.tracks : store'.tracks[s] \subseteq store.tracks[s] \cup Subs
    BY <1>d
  <2> QED
    BY <1>a, <1>d, <2>1, <2>2, TracksKept DEF JInv
<1>3. ASSUME NEW y \in Subs, y # x
      PROVE  Quiet(y) /\ Stops(y)'
  <2>1. Outside(y)
    BY <1>a, <1>d, <1>e, <1>3 DEF Outside
  <2> QED
    BY <1>b, <1>3, <1>f, <2>1, MovesElsewhere
<1>4. /\ \A do \in {"update", "related", "stop", "request", "remove"} : TasksOf(x, do)' = TasksOf(x, do)
      /\ TasksOf(x, "add")' = {next} /\ TasksOf(x, "add") = {t} /\ Known(x) /\ ~Settled(x)
      /\ \A d \in TasksOf(x, "update") : d.at = "read"
  BY <1>a, <1>c, <1>f DEF TasksOf, LinkingOf
<1>5. Stops(x)' /\ ~Busy(x)'
  BY <1>a, <1>c, <1>4 DEF Known, Stops, Busy, Engine
<1>6. \A s : \A ats \in {{"linkup", "own", "create", "write"}, {"own", "create", "write"}} :
        Takes(x, s, ats)' => Takes(x, s, ats)
  <2>1. \A ats \in {{"linkup", "own", "create", "write"}, {"own", "create", "write"}} : "create" \in ats /\ "check" \notin ats /\ "read" \notin ats
    OBVIOUS
  <2> QED
    BY <1>a, <1>e, <1>f, <1>4, <2>1 DEF Takes
<1>7. Updates(x)'
  BY <1>a, <1>c, <1>4 DEF Known, Updates, Engine
<1>8. Removed(x)'
  <2>1. \A d \in TasksOf(x, "remove") : d.at # "cut"
    BY <1>a DEF JInv, IInv, Removals, TasksOf
  <2> QED
    BY <1>a, <1>4, <2>1 DEF Known, Removed
<1>9. Linked(x)' /\ Told(x)' /\ Sent(x)'
  BY <1>a, <1>c, <1>d, <1>4, <1>6 DEF Lasting, Known, Linked, Told, Sent, Excused, Engine
<1>10. LinkKnown(x)'
  BY <1>e DEF LinkKnown
<1>11. TrackKnown(x)'
  <2> SUFFICES ASSUME NEW s \in DOMAIN store.tracks, x \in store.tracks[s], s # t.from
               PROVE  \/ \E d \in TasksOf(x, "remove")' : d.at = "cut"
                      \/ Excused({"stale_cut", "update_failed"}, x)'
    BY <1>d, <1>e, <1>5 DEF TrackKnown
  <2>1. x \notin DOMAIN store.subs /\ TrackKnown(x)
    BY <1>a, <1>4 DEF LinkingOf, Known
  <2> QED
    BY ONLY <1>a, <1>4, <2>1, s \in DOMAIN store.tracks, x \in store.tracks[s], s # t.from DEF TrackKnown, Excused
<1>12. Wanted(x)'
  BY <1>a, <1>c, <1>d, <1>e, <1>f, <1>4 DEF Known, Wanted, Excused, Engine
<1>13. Known(x)'
  BY <1>5, <1>7, <1>8, <1>9, <1>10, <1>11, <1>12 DEF Known
<1> QED
  BY <1>1, <1>2, <1>3, <1>13, OneJInv

LEMMA CreatePublication ==
  ASSUME JInv, IInv', Lasting, NEW t \in svc.tasks, Create(t), t.id \in Pubs
  PROVE  JInv'
<1> DEFINE i == t.id
           next == [do |-> "add", id |-> t.id, at |-> "check", from |-> t.from]
<1>a. /\ t.do = "add" /\ t.at = "create" /\ node' = node /\ past' = past
      /\ t = [do |-> "add", id |-> t.id, at |-> "create", from |-> t.from]
  BY DEF JInv, IInv, Tasks, TaskForm, Create
<1>b. Moves(t, {next})
  <2>1. [t EXCEPT !.at = "check"] = next
    BY <1>a
  <2> QED
    BY <2>1 DEF Create, Moves
<1>c. Engine /\ svc'.tasks = (svc.tasks \ {t}) \cup {next}
  BY <1>b, MovesEngine DEF JInv
<1>d. store'.subs = store.subs /\ store'.pubs = store.pubs \cup {i} /\ store'.tracks = store.tracks
  BY <1>a DEF JInv, IInv, Form, Create
<1>f. next.do = "add" /\ next.id = i /\ next.from = t.from /\ next.at = "check"
  OBVIOUS
<1> HIDE DEF next
<1>1. Steps'
  BY <1>a, <1>c, <1>f DEF JInv, Steps
<1>2. Tracks'
  <2>1. ASSUME NEW s \in DOMAIN store.tracks
        PROVE  /\ \A d \in TasksOf(s, "add")' : d.at \notin {"user", "own"}
               /\ \/ s \in store'.pubs \/ Creating(s)'
                  \/ \E d \in TasksOf(s, "remove")' : d.at = "tracks"
    <3>1. CASE s = i
      BY <1>a, <1>c, <1>d, <1>f, <3>1 DEF JInv, Tracks, TasksOf
    <3>2. CASE s # i
      <4>1. /\ TasksOf(s, "add")' = TasksOf(s, "add") /\ TasksOf(s, "remove")' = TasksOf(s, "remove")
            /\ Creating(s)' <=> Creating(s)
        BY <1>a, <1>c, <1>f, <3>2 DEF TasksOf, Creating
      <4> QED
        BY <1>d, <4>1 DEF JInv, Tracks
    <3> QED
      BY <3>1, <3>2
  <2> QED
    BY <1>a, <1>d, <2>1 DEF JInv, Tracks
<1>3. ASSUME NEW x \in Subs
      PROVE  Quiet(x) /\ Stops(x)'
  <2>1. x # i
    OBVIOUS
  <2>2. Outside(x)
    BY <1>a, <1>d DEF Outside
  <2> QED
    BY <1>b, <1>f, <2>1, <2>2, MovesElsewhere
<1> QED
  BY <1>1, <1>2, <1>3, QuietedJInv DEF Quieted

LEMMA RequestJInv ==
  ASSUME JInv, IInv', Lasting, NEW i \in Sessions, Request(i)
  PROVE  JInv'
<1> DEFINE next == [do |-> "request", id |-> i, at |-> "read"]
<1>0. PICK s \in Pubs : /\ svc' = Task([svc EXCEPT !.from = Put(@, i, s)], [do |-> "request", id |-> i, at |-> "read"])
                        /\ past' = [past EXCEPT !.requested = @ \cup {i}, !.want = Put(@, i, s)]
  BY DEF Request
<1>a. /\ store' = store /\ node' = node /\ i \notin past.requested
      /\ svc'.ongoing = svc.ongoing /\ svc'.ops = svc.ops /\ svc'.updating = svc.updating /\ svc'.next = svc.next
      /\ svc'.tasks = svc.tasks \cup {next} /\ svc'.from = Put(svc.from, i, s)
      /\ past'.requested = past.requested \cup {i} /\ past'.established = past.established
      /\ past'.mishaps = past.mishaps /\ past'.want = Put(past.want, i, s)
  BY <1>0 DEF JInv, IInv, Form, Request
<1>b. /\ i \in DOMAIN past'.want /\ past'.want[i] = s /\ i \in DOMAIN svc'.from /\ svc'.from[i] = s
      /\ \A x : x # i => /\ x \in DOMAIN past.want => x \in DOMAIN past'.want /\ past'.want[x] = past.want[x]
                         /\ x \in DOMAIN svc.from => x \in DOMAIN svc'.from /\ svc'.from[x] = svc.from[x]
  BY <1>a DEF Put
<1>f. next.do = "request" /\ next.id = i
  OBVIOUS
<1> HIDE DEF next
<1>1. Steps'
  BY <1>a, <1>f DEF JInv, Steps
<1>2. \A x, do : (x = i /\ do = "request") \/ TasksOf(x, do)' = TasksOf(x, do)
  BY <1>a, <1>f DEF TasksOf
<1>3. Tracks'
  BY <1>a, <1>2, TracksKept DEF JInv, Tracks
<1>4. ASSUME NEW x \in Subs, x # i
      PROVE  Quiet(x) /\ Stops(x)'
  <2>1. \A do : TasksOf(x, do)' = TasksOf(x, do)
    BY <1>2, <1>4
  <2>2. Known(x)
    BY DEF JInv
  <2>3. Quiet(x)
    BY <1>a, <1>b, <1>4, <2>1, <2>2 DEF Known, Wanted, Quiet, Calm, Outside
  <2>4. Stops(x)'
    BY <1>a, <2>1, <2>2 DEF Known, Stops
  <2> QED
    BY <2>3, <2>4
<1>5. ASSUME i \in Subs
      PROVE  Known(i)'
  <2>0. Known(i) /\ i \notin past.established
    BY <1>a, <1>5 DEF JInv, IInv, Tables
  <2>1. /\ \A do \in {"add", "update", "remove", "related", "stop"} : TasksOf(i, do)' = TasksOf(i, do)
        /\ TasksOf(i, "add") = {} /\ i \notin DOMAIN store.subs /\ TasksOf(i, "stop") = {} /\ ~Settled(i)
    BY <1>2, <1>5, <1>a, <2>0 DEF JInv, IInv, Setups, Documents, TasksOf, Known, Stops, Settled
  <2>2. TasksOf(i, "update") = {}
    BY <1>a, <2>0 DEF Known, Wanted, Updates
  <2>3. \A z, ats : ~Takes(i, z, ats)'
    BY <1>a, <2>1, <2>2 DEF Takes
  <2>4. Updates(i)' /\ Stops(i)'
    BY <2>1, <2>2 DEF Updates, Stops
  <2>5. Removed(i)'
    BY <1>a, <2>0, <2>1 DEF Known, Removed
  <2>6. Linked(i)' /\ Told(i)' /\ Sent(i)'
    BY <2>3 DEF Linked, Told, Sent
  <2>7. LinkKnown(i)'
    BY <1>a, <2>0, <2>1 DEF Known, LinkKnown
  <2>8. TrackKnown(i)'
    BY <1>a, <2>0, <2>1 DEF Known, TrackKnown, Excused
  <2>9. Wanted(i)'
    BY <1>a, <1>b, <2>0, <2>1 DEF Known, Wanted
  <2> QED
    BY <2>4, <2>5, <2>6, <2>7, <2>8, <2>9 DEF Known
<1> QED
  BY <1>1, <1>3, <1>4, <1>5, OneJInv

LEMMA EstablishedJInv ==
  ASSUME JInv, IInv', Lasting, NEW i \in Sessions, Established(i)
  PROVE  JInv'
<1> DEFINE next == [do |-> "add", id |-> i, at |-> "user", from |-> svc.from[i]]
<1>a. /\ store' = store /\ node'.links = node.links /\ i \in past.requested /\ i \notin past.established
      /\ svc'.ongoing = svc.ongoing /\ svc'.ops = svc.ops /\ svc'.updating = svc.updating /\ svc'.next = svc.next
      /\ svc'.from = svc.from /\ svc.tasks \subseteq svc'.tasks /\ svc'.tasks \subseteq svc.tasks \cup {next}
      /\ past'.requested = past.requested /\ past'.established = past.established \cup {i}
      /\ past'.mishaps = past.mishaps /\ past'.want = past.want
  BY DEF JInv, IInv, Form, Tables, Established
<1>f. next.do = "add" /\ next.id = i /\ next.at = "user" /\ next.from = svc.from[i]
  OBVIOUS
<1> HIDE DEF next
<1>1. Steps'
  BY <1>a, <1>f DEF JInv, Steps
<1>2. /\ \A x, do : (x = i /\ do = "add") \/ TasksOf(x, do)' = TasksOf(x, do)
      /\ \A d \in TasksOf(i, "add")' : d \in TasksOf(i, "add") \/ d = next
  BY <1>a, <1>f DEF TasksOf
<1>3. Tracks'
  <2>1. i \notin DOMAIN store.tracks
    BY <1>a DEF JInv, Tracks
  <2>2. \A s : s # i => (Creating(s)' <=> Creating(s))
    BY <1>a, <1>f DEF Creating
  <2> QED
    BY <1>a, <1>2, <2>1, <2>2 DEF JInv, Tracks
<1>4. ASSUME NEW x \in Subs, x # i
      PROVE  Quiet(x) /\ Stops(x)'
  <2>1. \A do : TasksOf(x, do)' = TasksOf(x, do)
    BY <1>2, <1>4
  <2>2. Known(x)
    BY DEF JInv
  <2>3. Quiet(x)
    BY <1>a, <1>4, <2>1, <2>2 DEF Quiet, Calm, Outside
  <2>4. Stops(x)'
    BY <1>a, <2>1, <2>2 DEF Known, Stops
  <2> QED
    BY <2>3, <2>4
<1>5. ASSUME i \in Subs
      PROVE  Known(i)'
  <2>1. /\ \A do \in {"update", "remove", "related", "stop", "request"} : TasksOf(i, do)' = TasksOf(i, do)
        /\ TasksOf(i, "add") = {} /\ i \notin DOMAIN store.subs /\ ~Settled(i) /\ Known(i)
    <3>1. \A do \in {"update", "remove", "related", "stop", "request"} : TasksOf(i, do)' = TasksOf(i, do)
      BY <1>2
    <3>2. TasksOf(i, "add") = {}
      BY <1>a DEF JInv, IInv, Setups, TasksOf
    <3>3. i \notin DOMAIN store.subs
      BY <1>a DEF JInv, IInv, Documents
    <3>4. ~Settled(i) /\ Known(i)
      BY <1>a, <1>5 DEF JInv, Settled
    <3> QED
      BY <3>1, <3>2, <3>3, <3>4
  <2>2. \A d \in TasksOf(i, "update") : d.at = "read"
    BY <2>1 DEF Known, Updates
  <2>3. \A d \in TasksOf(i, "add")' : d = next
    BY <1>2, <2>1
  <2>4. ASSUME NEW z, NEW ats \in {{"linkup", "own", "create", "write"}, {"own", "create", "write"}}, Takes(i, z, ats)'
        PROVE  FALSE
    BY <1>a, <1>f, <2>1, <2>2, <2>3, <2>4 DEF Takes
  <2>5. Updates(i)' /\ Stops(i)'
    BY <1>a, <2>1, <2>2 DEF Known, Updates, Stops
  <2>6. Removed(i)'
    BY <1>a, <2>1 DEF Known, Removed
  <2>7. Linked(i)' /\ Told(i)' /\ Sent(i)'
    BY <2>4 DEF Linked, Told, Sent
  <2>8. LinkKnown(i)' /\ TrackKnown(i)'
    BY <1>a, <2>1, <2>2 DEF Known, LinkKnown, TrackKnown, Excused
  <2>9. Wanted(i)'
    BY <1>a, <1>f, <2>1, <2>3 DEF Known, Wanted, Excused
  <2> QED
    BY <2>5, <2>6, <2>7, <2>8, <2>9 DEF Known
<1> QED
  BY <1>1, <1>3, <1>4, <1>5, OneJInv

LEMMA TransportFailedJInv ==
  ASSUME JInv, IInv', Lasting, NEW i \in Sessions, TransportFailed(i)
  PROVE  JInv'
<1>a. /\ store' = store /\ svc' = svc /\ node'.links = Without(node.links, i)
      /\ past'.requested = past.requested /\ past'.established = past.established
      /\ past'.mishaps = past.mishaps \cup {<<"transport_failed", i>>} /\ past'.want = past.want
  BY DEF JInv, IInv, Form, TransportFailed
<1>b. /\ DOMAIN node'.links = DOMAIN node.links \ {i}
      /\ \A x \in DOMAIN node.links : x # i => node'.links[x] = node.links[x]
  <2>1. node'.links = Without(node.links, i)
    BY <1>a
  <2> QED
    BY ONLY <2>1, WithoutDomain, WithoutElsewhere
<1>1. Steps' /\ (\A x, do : TasksOf(x, do)' = TasksOf(x, do))
  BY <1>a DEF JInv, Steps, TasksOf
<1>2. Tracks'
  BY <1>a, <1>1, TracksKept DEF JInv
<1>3. ASSUME NEW x \in Subs, x # i
      PROVE  Quiet(x) /\ Stops(x)'
  BY <1>a, <1>b, <1>1, <1>3 DEF JInv, Known, Stops, Quiet, Calm, Outside
<1>4. ASSUME i \in Subs
      PROVE  Known(i)'
  <2>1. Known(i) /\ (\A K : Excused(K, i) => Excused(K, i)') /\ <<"transport_failed", i>> \in past'.mishaps
    BY <1>a, <1>4 DEF JInv, Excused
  <2>2. (Settled(i)' <=> Settled(i)) /\ (Busy(i)' <=> Busy(i))
    BY <1>a, <1>1 DEF Settled, Busy
  <2>3. \A s, ats : Takes(i, s, ats)' <=> Takes(i, s, ats)
    BY <1>a, <1>1, <2>2 DEF Takes
  <2>4. Updates(i)' /\ Stops(i)' /\ Removed(i)'
    BY <1>a, <1>1, <2>1, <2>2 DEF Known, Updates, Stops, Removed
  <2>5. Linked(i)' /\ Told(i)'
    BY <1>a, <1>1, <2>1, <2>3 DEF Lasting, Known, Linked, Told
  <2>6. Sent(i)' /\ LinkKnown(i)'
    BY <1>b, <2>1 DEF Sent, LinkKnown, Excused
  <2>7. TrackKnown(i)'
    BY <1>a, <1>1, <2>1, <2>2 DEF Known, TrackKnown
  <2>8. Wanted(i)'
    BY <1>a, <1>1, <2>1 DEF Known, Wanted
  <2> QED
    BY <2>4, <2>5, <2>6, <2>7, <2>8 DEF Known
<1> QED
  BY <1>1, <1>2, <1>3, <1>4, OneJInv

(* A track less.                                                           *)
LEMMA CutTracks ==
  ASSUME Form, NEW x, NEW s, store' = Cut(store, x, s)
  PROVE  /\ store'.subs = store.subs /\ store'.pubs = store.pubs /\ DOMAIN store'.tracks = DOMAIN store.tracks
         /\ \A z \in DOMAIN store.tracks : store'.tracks[z] = IF z = s THEN store.tracks[z] \ {x} ELSE store.tracks[z]
  BY DEF Form, Cut

LEMMA CutLinks ==
  ASSUME Form, NEW x, Cutoff(x)
  PROVE  /\ DOMAIN node'.links = DOMAIN node.links \ {x}
         /\ \A y \in DOMAIN node.links : y # x => node'.links[y] = node.links[y]
<1>1. node'.links = Without(node.links, x)
  BY DEF Form, Cutoff
<1> QED
  BY <1>1, WithoutDomain, WithoutElsewhere

LEMMA CutOutside ==
  ASSUME Form, NEW x, NEW s, store' = Cut(store, x, s), Cutoff(x), NEW y, y # x,
         past.mishaps \subseteq past'.mishaps,
         <<"stale_cut", y>> \in past'.mishaps => <<"stale_cut", y>> \in past.mishaps,
         past'.requested = past.requested, past'.established = past.established, past'.want = past.want
  PROVE  Outside(y)
<1>1. /\ store'.subs = store.subs /\ DOMAIN store'.tracks = DOMAIN store.tracks
      /\ \A z \in DOMAIN store.tracks : store'.tracks[z] = IF z = s THEN store.tracks[z] \ {x} ELSE store.tracks[z]
  BY CutTracks
<1>2. /\ DOMAIN node'.links = DOMAIN node.links \ {x}
      /\ \A z \in DOMAIN node.links : z # x => node'.links[z] = node.links[z]
  BY CutLinks
<1> QED
  BY <1>1, <1>2 DEF Outside

LEMMA CutSubscriptionJInv ==
  ASSUME JInv, IInv', Lasting, NEW t \in svc.tasks, CutSubscription(t)
  PROVE  JInv'
<1> DEFINE x == t.id
<1>0. Form
  BY DEF JInv, IInv
<1>a. /\ t.do \in {"add", "update"} /\ t.at = "cut" /\ x \in Subs /\ LinkingOf(x, t)
      /\ store' = Cut(store, x, t.from) /\ Cutoff(x) /\ past' = past
  BY TaskLinking DEF JInv, Steps, CutSubscription, Linking
<1>b. /\ store'.subs = store.subs /\ store'.pubs = store.pubs /\ DOMAIN store'.tracks = DOMAIN store.tracks
      /\ \A s \in DOMAIN store.tracks : store'.tracks[s] = IF s = t.from THEN store.tracks[s] \ {x} ELSE store.tracks[s]
  BY <1>0, <1>a, CutTracks
<1>c. x \notin DOMAIN node'.links
  BY <1>0, <1>a, CutLinks
<1>d. ASSUME NEW y \in Subs, y # x
      PROVE  Outside(y)
  BY <1>0, <1>a, <1>d, CutOutside
<1>1. CASE t.do = "add"
  <2>0. svc' = StopsFrom(svc.tasks \ {t}, Home(x), x)
    BY <1>1 DEF CutSubscription, StopsFrom
  <2>1. /\ svc'.ops = svc.ops /\ svc'.from = svc.from /\ svc'.updating = svc.updating /\ svc'.next = svc.next
        /\ \A d \in svc'.tasks : d \in svc.tasks \ {t} \/ d = [do |-> "stop", id |-> x, at |-> "node"]
        /\ svc.tasks \ {t} \subseteq svc'.tasks
    <3>1. StopEffect(svc', svc.tasks \ {t}, Home(x), x, x)
      BY <1>a, <2>0, Stopping DEF JInv
    <3> QED
      BY <3>1 DEF StopEffect
  <2>2. /\ \A y, do : (y = x /\ do \in {"add", "stop"}) \/ TasksOf(y, do)' = TasksOf(y, do)
        /\ TasksOf(x, "add")' = {}
    BY <1>a, <1>1, <2>1 DEF LinkingOf, TasksOf
  <2>3. Steps'
    BY <1>a, <2>1 DEF JInv, Steps
  <2>4. Tracks'
    <3>1. \A s \in Pubs, do \in {"add", "remove"} : TasksOf(s, do)' = TasksOf(s, do)
      BY <1>a, <2>2
    <3> QED
      BY <1>a, <1>b, <3>1, TracksKept DEF JInv
  <2>5. ASSUME NEW y \in Subs, y # x
        PROVE  Quiet(y) /\ Stops(y)'
    <3>1. svc'.ongoing[y] = svc.ongoing[y]
      <4>1. StopEffect(svc', svc.tasks \ {t}, Home(x), x, y)
        BY <2>0, Stopping DEF JInv
      <4> QED
        BY <2>5, <4>1 DEF StopEffect
    <3>2. \A do : TasksOf(y, do)' = TasksOf(y, do)
      BY <2>2, <2>5
    <3>3. Quiet(y)
      BY <1>d, <2>1, <2>5, <3>1, <3>2 DEF Quiet, Calm
    <3>4. Stops(y)'
      BY <1>a, <3>1, <3>2 DEF JInv, Known, Stops
    <3> QED
      BY <3>3, <3>4
  <2>6. Known(x)'
    <3>1. /\ TasksOf(x, "update")' = TasksOf(x, "update") /\ TasksOf(x, "remove")' = TasksOf(x, "remove")
          /\ TasksOf(x, "related")' = TasksOf(x, "related") /\ TasksOf(x, "request")' = TasksOf(x, "request")
          /\ TasksOf(x, "add")' = {} /\ TasksOf(x, "add") = {t}
          /\ x \notin DOMAIN store.subs /\ ~Settled(x) /\ Known(x) /\ x \in past.requested
          /\ \A d \in TasksOf(x, "update") : d.at = "read"
      BY <1>a, <1>1, <2>2 DEF LinkingOf
    <3>2. Stops(x)'
      BY <1>a, <2>0, <3>1, StoppingStops DEF JInv
    <3>3. Updates(x)'
      BY <1>a, <2>1, <3>1 DEF Known, Updates
    <3>4. Removed(x)'
      BY <1>a, <1>b, <3>1 DEF Known, Removed
    <3>5. ASSUME NEW s, NEW ats \in {{"linkup", "own", "create", "write"}, {"own", "create", "write"}}, Takes(x, s, ats)'
          PROVE  FALSE
      BY <1>b, <3>1, <3>5 DEF Takes
    <3>6. Linked(x)' /\ Told(x)' /\ Sent(x)'
      BY <3>5 DEF Linked, Told, Sent
    <3>7. LinkKnown(x)'
      BY <1>c DEF LinkKnown
    <3>8. TrackKnown(x)'
      <4> SUFFICES ASSUME NEW s \in DOMAIN store.tracks, x \in store'.tracks[s]
                   PROVE  \/ \E d \in TasksOf(x, "remove")' : d.at = "cut"
                          \/ Excused({"stale_cut", "update_failed"}, x)'
        BY <1>b DEF TrackKnown
      <4>1. s # t.from /\ x \in store.tracks[s] /\ TrackKnown(x)
        BY <1>b, <3>1 DEF Known
      <4> QED
        BY ONLY <1>a, <3>1, <4>1, s \in DOMAIN store.tracks DEF TrackKnown, Excused
    <3>9. Wanted(x)'
      BY <1>a, <1>b, <2>1, <3>1 DEF Known, Wanted, Excused
    <3> QED
      BY <3>2, <3>3, <3>4, <3>6, <3>7, <3>8, <3>9 DEF Known
  <2> QED
    BY <2>3, <2>4, <2>5, <2>6, OneJInv
<1>2. CASE t.do = "update"
  <2>0. Moves(t, {})
    BY <1>2 DEF CutSubscription, Moves
  <2>1. Engine /\ svc'.tasks = svc.tasks \ {t}
    BY <2>0, MovesEngine DEF JInv
  <2>2. /\ \A y, do : (y = x /\ do = "update") \/ TasksOf(y, do)' = TasksOf(y, do)
        /\ TasksOf(x, "update")' = {}
    BY <1>a, <1>2, <2>1 DEF LinkingOf, TasksOf
  <2>3. Steps'
    BY <1>a, <2>1 DEF JInv, Steps
  <2>4. Tracks'
    <3>1. \A s \in Pubs, do \in {"add", "remove"} : TasksOf(s, do)' = TasksOf(s, do)
      BY <1>a, <2>2
    <3> QED
      BY <1>a, <1>b, <3>1, TracksKept DEF JInv
  <2>5. ASSUME NEW y \in Subs, y # x
        PROVE  Quiet(y) /\ Stops(y)'
    BY <1>d, <2>0, <2>5, MovesElsewhere
  <2>6. Known(x)'
    <3>1. /\ TasksOf(x, "remove")' = TasksOf(x, "remove") /\ TasksOf(x, "add")' = TasksOf(x, "add")
          /\ TasksOf(x, "stop")' = TasksOf(x, "stop") /\ TasksOf(x, "request")' = TasksOf(x, "request")
          /\ TasksOf(x, "update") = {t} /\ TasksOf(x, "update")' = {} /\ Known(x) /\ x \in past.requested
          /\ \A d \in TasksOf(x, "add") : d.at = "check"
      BY <1>a, <1>2, <2>2 DEF LinkingOf
    <3>2. <<"update_same", x>> \in past'.mishaps
      BY <1>a, <3>1 DEF Known, Updates
    <3>3. Stops(x)' /\ Updates(x)' /\ LinkKnown(x)'
      BY <1>a, <1>c, <2>1, <3>1 DEF Known, Stops, Updates, LinkKnown, Engine
    <3>4. Removed(x)'
      BY <1>a, <1>b, <3>1 DEF Known, Removed, Settled
    <3>5. TrackKnown(x)'
      <4> SUFFICES ASSUME NEW s \in DOMAIN store.tracks, x \in store'.tracks[s]
                   PROVE  \/ \E d \in TasksOf(x, "remove")' : d.at = "cut"
                          \/ Excused({"stale_cut", "update_failed"}, x)'
        BY <1>b DEF TrackKnown
      <4>1. s # t.from /\ x \in store.tracks[s] /\ TrackKnown(x)
        BY <1>b, <3>1 DEF Known
      <4> QED
        BY ONLY <1>a, <3>1, <4>1, s \in DOMAIN store.tracks DEF TrackKnown, Busy, Excused
    <3>6. x \in past'.requested /\ x \in DOMAIN past'.want /\ x \in DOMAIN svc'.from
      BY <1>a, <2>1, <3>1 DEF Known, Wanted, Engine
    <3> QED
      BY <1>a, <3>2, <3>3, <3>4, <3>5, <3>6, LostKnown
  <2> QED
    BY <2>3, <2>4, <2>5, <2>6, OneJInv
<1> QED
  BY <1>a, <1>1, <1>2

LEMMA UpdateReadJInv ==
  ASSUME JInv, IInv', Lasting, NEW t \in svc.tasks, UpdateRead(t)
  PROVE  JInv'
<1> DEFINE x == t.id
           next == [do |-> "update", id |-> t.id, at |-> "source", from |-> t.from]
<1>0. Form
  BY DEF JInv, IInv
<1>a. /\ t.do = "update" /\ t.at = "read" /\ x \in Subs /\ x \in Sessions /\ Known(x)
      /\ t = [do |-> "update", id |-> t.id, at |-> "read", from |-> t.from]
      /\ TasksOf(x, "update") = {t} /\ x \in past.requested /\ (Stored(x) <=> x \in DOMAIN store.subs)
  <2>1. /\ t.do = "update" /\ t.at = "read" /\ x \in Subs /\ x \in Sessions /\ Known(x)
        /\ t = [do |-> "update", id |-> t.id, at |-> "read", from |-> t.from]
    BY DEF JInv, IInv, Tasks, TaskForm, Steps, Sessions, UpdateRead
  <2>2. t \in TasksOf(x, "update")
    BY <2>1 DEF TasksOf
  <2> QED
    BY <2>1, <2>2, StoredSubscription DEF JInv, Known, Updates, Wanted
<1>f. next.do = "update" /\ next.id = x /\ next.at = "source" /\ next.from = t.from
  OBVIOUS
<1>1. CASE Stored(x)
  <2>0. Moves(t, {next}) /\ store' = Cut(store, x, store.subs[x]) /\ Cutoff(x)
    <3>1. [t EXCEPT !.at = "source"] = next
      BY <1>a
    <3> QED
      BY <1>1, <3>1 DEF UpdateRead, Moves
  <2> HIDE DEF next
  <2>1. Engine /\ svc'.tasks = (svc.tasks \ {t}) \cup {next}
    BY <2>0, MovesEngine DEF JInv
  <2>a. past' = past
    BY <1>0, <1>1 DEF UpdateRead, Form
  <2>b. /\ store'.subs = store.subs /\ store'.pubs = store.pubs /\ DOMAIN store'.tracks = DOMAIN store.tracks
        /\ \A s \in DOMAIN store.tracks : store'.tracks[s] = IF s = store.subs[x] THEN store.tracks[s] \ {x} ELSE store.tracks[s]
    BY <1>0, <2>0, CutTracks
  <2>c. x \notin DOMAIN node'.links
    BY <1>0, <2>0, CutLinks
  <2>d. ASSUME NEW y \in Subs, y # x
        PROVE  Outside(y)
    BY <1>0, <2>0, <2>a, <2>d, CutOutside
  <2>2. /\ \A y, do : (y = x /\ do = "update") \/ TasksOf(y, do)' = TasksOf(y, do)
        /\ TasksOf(x, "update")' = {next}
    BY <1>a, <1>f, <2>1 DEF TasksOf
  <2>3. Steps'
    BY <1>a, <1>f, <2>1, <2>a DEF JInv, Steps
  <2>4. Tracks'
    <3>1. \A s \in Pubs, do \in {"add", "remove"} : TasksOf(s, do)' = TasksOf(s, do)
      BY <1>a, <2>2
    <3> QED
      BY <2>a, <2>b, <3>1, TracksKept DEF JInv
  <2>5. ASSUME NEW y \in Subs, y # x
        PROVE  Quiet(y) /\ Stops(y)'
    BY <1>f, <2>d, <2>0, <2>5, MovesElsewhere
  <2>6. Known(x)'
    <3>1. /\ TasksOf(x, "remove")' = TasksOf(x, "remove") /\ TasksOf(x, "add")' = TasksOf(x, "add")
          /\ TasksOf(x, "stop")' = TasksOf(x, "stop") /\ TasksOf(x, "request")' = TasksOf(x, "request")
          /\ TasksOf(x, "related")' = TasksOf(x, "related")
          /\ \A d \in TasksOf(x, "add") : d.at = "check"
          /\ x \in past.established
      <4>1. \A d \in TasksOf(x, "add") : d.at = "check"
        BY <1>1 DEF JInv, IInv, Setups, TasksOf
      <4>2. x \in past.established
        BY <1>a, <1>1 DEF JInv, IInv, Documents
      <4> QED
        BY <2>2, <4>1, <4>2
    <3>2. Settled(x) /\ Settled(x)' /\ Busy(x)' /\ ~Busy(x)
      BY <1>a, <1>f, <2>2, <2>a, <3>1 DEF Settled, Busy
    <3>3. Stops(x)' /\ LinkKnown(x)'
      BY <1>a, <2>a, <2>c, <2>1, <3>1 DEF Known, Stops, LinkKnown, Engine
    <3>4. Updates(x)'
      BY <1>a, <1>f, <2>1, <2>2, <3>2 DEF Known, Updates, Engine
    <3>5. Removed(x)'
      BY <1>a, <2>a, <2>b, <3>1, <3>2 DEF Known, Removed
    <3>6. ASSUME NEW s, NEW ats \in {{"linkup", "own", "create", "write"}, {"own", "create", "write"}}, Takes(x, s, ats)'
          PROVE  FALSE
      BY <1>f, <2>2, <3>1, <3>2, <3>6 DEF Takes
    <3>7. Linked(x)' /\ Told(x)' /\ Sent(x)'
      BY <3>6 DEF Linked, Told, Sent
    <3>8. TrackKnown(x)'
      BY <1>a, <2>a, <2>b, <3>1 DEF Known, TrackKnown, Excused
    <3>9. Wanted(x)'
      BY <1>a, <1>f, <2>a, <2>b, <2>1, <2>2, <3>1 DEF Known, Wanted, Excused, Engine
    <3> QED
      BY <3>3, <3>4, <3>5, <3>7, <3>8, <3>9 DEF Known
  <2> QED
    BY <2>3, <2>4, <2>5, <2>6, OneJInv
<1>2. CASE ~Stored(x)
  <2>0. Moves(t, {}) /\ store' = store /\ node' = node
    BY <1>2 DEF UpdateRead, Moves
  <2>1. Engine /\ svc'.tasks = svc.tasks \ {t}
    BY <2>0, MovesEngine DEF JInv
  <2>a. /\ past.mishaps \subseteq past'.mishaps /\ past'.mishaps \subseteq past.mishaps \cup {<<"update_early", x>>}
        /\ <<"update_early", x>> \in past'.mishaps
        /\ past'.requested = past.requested /\ past'.established = past.established /\ past'.want = past.want
    BY <1>0, <1>2 DEF UpdateRead, Form
  <2>2. /\ \A y, do : (y = x /\ do = "update") \/ TasksOf(y, do)' = TasksOf(y, do)
        /\ TasksOf(x, "update")' = {}
    BY <1>a, <2>1 DEF TasksOf
  <2>3. Steps'
    BY <1>a, <2>1, <2>a DEF JInv, Steps
  <2>4. Tracks'
    <3>1. \A s \in Pubs, do \in {"add", "remove"} : TasksOf(s, do)' = TasksOf(s, do)
      BY <1>a, <2>2
    <3> QED
      BY <2>a, <2>0, <3>1, TracksKept DEF JInv
  <2>d. ASSUME NEW y \in Subs
        PROVE  Outside(y)
    BY <2>0, <2>a, <2>d DEF Outside
  <2>5. ASSUME NEW y \in Subs, y # x
        PROVE  Quiet(y) /\ Stops(y)'
    BY <2>d, <2>0, <2>5, MovesElsewhere
  <2>6. Known(x)'
    <3>1. /\ TasksOf(x, "remove")' = TasksOf(x, "remove") /\ TasksOf(x, "add")' = TasksOf(x, "add")
          /\ TasksOf(x, "stop")' = TasksOf(x, "stop") /\ TasksOf(x, "request")' = TasksOf(x, "request")
          /\ TasksOf(x, "related")' = TasksOf(x, "related") /\ x \notin DOMAIN store.subs
      BY <1>a, <1>2, <2>2
    <3>2. /\ (Settled(x)' <=> Settled(x)) /\ ~Busy(x) /\ ~Busy(x)'
          /\ \A K : Excused(K, x) => Excused(K, x)'
      BY <1>a, <2>2, <2>a, <3>1 DEF Settled, Busy, Excused
    <3>3. Stops(x)' /\ LinkKnown(x)'
      BY <1>a, <2>a, <2>0, <2>1, <2>2, <3>1 DEF Known, Stops, LinkKnown, Engine
    <3>4. Updates(x)'
      BY <2>2 DEF Updates
    <3>5. Removed(x)'
      BY <1>a, <2>a, <2>0, <3>1, <3>2 DEF Known, Removed
    <3>6. \A s, ats : Takes(x, s, ats)' => Takes(x, s, ats)
      BY <2>0, <2>2, <3>1, <3>2 DEF Takes
    <3>7. Linked(x)' /\ Told(x)' /\ Sent(x)'
      BY <1>a, <2>0, <2>1, <3>1, <3>2, <3>6 DEF Lasting, Known, Linked, Told, Sent, Engine
    <3>8. TrackKnown(x)'
      BY <1>a, <2>a, <2>0, <2>2, <3>1, <3>2 DEF Known, TrackKnown
    <3>9. Wanted(x)'
      BY <1>a, <2>a, <2>1 DEF Known, Wanted, Excused, Engine
    <3> QED
      BY <3>3, <3>4, <3>5, <3>7, <3>8, <3>9 DEF Known
  <2> QED
    BY <2>3, <2>4, <2>5, <2>6, OneJInv
<1> QED
  BY <1>1, <1>2

LEMMA UpdateWriteJInv ==
  ASSUME JInv, IInv', Lasting, NEW t \in svc.tasks, UpdateWrite(t)
  PROVE  JInv'
<1> DEFINE x == t.id
           modified == x \in DOMAIN store.subs /\ store.subs[x] # t.from
           cut == [do |-> "update", id |-> t.id, at |-> "cut", from |-> t.from]
           next == [do |-> "update", id |-> t.id, at |-> "read", from |-> svc.next[x]]
<1>0. Form
  BY DEF JInv, IInv
<1>a. /\ t.do = "update" /\ t.at = "write" /\ x \in Subs /\ x \in Sessions /\ LinkingOf(x, t) /\ node' = node
  BY TaskLinking DEF JInv, Steps, Sessions, UpdateWrite
<1>f. /\ next.do = "update" /\ next.id = x /\ next.at = "read" /\ next.from = svc.next[x]
      /\ cut.do = "update" /\ cut.id = x /\ cut.at = "cut" /\ cut.from = t.from
  OBVIOUS
<1>1. CASE modified
  <2>a. past' = past /\ store'.subs = [store.subs EXCEPT ![x] = t.from] /\ store'.pubs = store.pubs /\ store'.tracks = store.tracks
    BY <1>0, <1>1 DEF UpdateWrite, Form
  <2>b. /\ DOMAIN store'.subs = DOMAIN store.subs /\ store'.subs[x] = t.from
        /\ \A y \in DOMAIN store.subs : y # x => store'.subs[y] = store.subs[y]
    BY <1>1, <2>a
  <2>c. svc.ongoing[x] # "no"
    BY <1>1, <1>a DEF JInv, IInv, Documents
  <2>1. PICK N \in {{}, {next}} :
          /\ svc'.tasks = (svc.tasks \ {t}) \cup N
          /\ svc'.ongoing = svc.ongoing /\ svc'.ops = svc.ops /\ svc'.from = svc.from
          /\ svc'.next = Without(svc.next, x)
          /\ x \in DOMAIN svc.next => N = {next} /\ svc'.updating = (svc.updating \ {x}) \cup {x}
          /\ x \notin DOMAIN svc.next => N = {} /\ svc'.updating = svc.updating \ {x}
    <3> DEFINE R == [Done(t) EXCEPT !.updating = @ \ {x}, !.next = Without(@, x)]
    <3>0. /\ R.tasks = svc.tasks \ {t} /\ R.ongoing = svc.ongoing /\ R.ops = svc.ops /\ R.from = svc.from
          /\ R.next = Without(svc.next, x) /\ R.updating = svc.updating \ {x} /\ R.members = svc.members
          /\ R = [ongoing |-> R.ongoing, ops |-> R.ops, members |-> R.members, from |-> R.from,
                  updating |-> R.updating, next |-> R.next, tasks |-> R.tasks]
      <4>1. Done(t) = [ongoing |-> svc.ongoing, ops |-> svc.ops, members |-> svc.members, from |-> svc.from,
                       updating |-> svc.updating, next |-> svc.next, tasks |-> svc.tasks \ {t}]
        <5>1. svc = [ongoing |-> svc.ongoing, ops |-> svc.ops, members |-> svc.members, from |-> svc.from,
                     updating |-> svc.updating, next |-> svc.next, tasks |-> svc.tasks]
          BY <1>0 DEF Form
        <5> QED
          BY ONLY <5>1
      <4> HIDE DEF Done, Without
      <4>2. R = [ongoing |-> svc.ongoing, ops |-> svc.ops, members |-> svc.members, from |-> svc.from,
                 updating |-> svc.updating \ {x}, next |-> Without(svc.next, x), tasks |-> svc.tasks \ {t}]
        <5>1. [Done(t) EXCEPT !.updating = @ \ {x}] =
                [ongoing |-> svc.ongoing, ops |-> svc.ops, members |-> svc.members, from |-> svc.from,
                 updating |-> svc.updating \ {x}, next |-> svc.next, tasks |-> svc.tasks \ {t}]
          BY ONLY <4>1
        <5>2. R = [[Done(t) EXCEPT !.updating = @ \ {x}] EXCEPT !.next = Without(svc.next, x)]
          BY ONLY <4>1
        <5>3. PICK I : I = [Done(t) EXCEPT !.updating = @ \ {x}]
          OBVIOUS
        <5>4. R = [I EXCEPT !.next = Without(svc.next, x)]
          BY ONLY <5>2, <5>3
        <5>5. I = [ongoing |-> svc.ongoing, ops |-> svc.ops, members |-> svc.members, from |-> svc.from,
                 updating |-> svc.updating \ {x}, next |-> svc.next, tasks |-> svc.tasks \ {t}]
          BY ONLY <5>1, <5>3
        <5> HIDE DEF R
        <5> QED
          BY ONLY <5>4, <5>5
      <4> HIDE DEF R
      <4> QED
        BY ONLY <4>2
    <3>1. svc' = IF x \in DOMAIN svc.next THEN UpdateSubscription(R, x, svc.next[x]) ELSE R
      BY <1>1 DEF UpdateWrite
    <3> HIDE DEF R
    <3>2. CASE x \notin DOMAIN svc.next
      BY <3>0, <3>1, <3>2
    <3>3. CASE x \in DOMAIN svc.next
      <4>1. svc' = [R EXCEPT !.updating = @ \cup {x}, !.tasks = @ \cup {next}]
        BY <2>c, <3>0, <3>1, <3>3 DEF UpdateSubscription
      <4>2. /\ svc'.tasks = R.tasks \cup {next} /\ svc'.updating = R.updating \cup {x}
            /\ svc'.ongoing = R.ongoing /\ svc'.ops = R.ops /\ svc'.from = R.from /\ svc'.next = R.next
        BY <3>0, <4>1
      <4> QED
        BY <3>0, <3>3, <4>2
    <3> QED
      BY <3>2, <3>3
  <2>2. /\ DOMAIN svc'.next = DOMAIN svc.next \ {x}
        /\ \A y \in DOMAIN svc.next : y # x => svc'.next[y] = svc.next[y]
    <3>1. svc'.next = Without(svc.next, x)
      BY <2>1
    <3> QED
      BY ONLY <3>1 DEF Without, Restrict
  <2> HIDE DEF next
  <2>3. /\ \A y, do : (y = x /\ do = "update") \/ TasksOf(y, do)' = TasksOf(y, do)
        /\ TasksOf(x, "update")' = N /\ TasksOf(x, "update") = {t}
    BY <1>a, <1>f, <2>1 DEF LinkingOf, TasksOf
  <2>4. Steps'
    BY <1>a, <1>f, <2>a, <2>1 DEF JInv, Steps
  <2>5. Tracks'
    <3>1. \A s \in Pubs, do \in {"add", "remove"} : TasksOf(s, do)' = TasksOf(s, do)
      BY <1>a, <2>3
    <3> QED
      BY <2>a, <3>1, TracksKept DEF JInv
  <2>6. ASSUME NEW y \in Subs, y # x
        PROVE  Quiet(y) /\ Stops(y)'
    <3>1. \A do : TasksOf(y, do)' = TasksOf(y, do)
      BY <2>3, <2>6
    <3>2. Outside(y)
      BY <1>a, <2>a, <2>b, <2>6 DEF Outside
    <3>3. y \in svc'.updating <=> y \in svc.updating
      BY <2>1, <2>6
    <3>4. Quiet(y)
      BY <2>1, <2>2, <2>6, <3>1, <3>2, <3>3 DEF Quiet, Calm
    <3>5. Stops(y)'
      BY <2>a, <2>1, <3>1 DEF JInv, Known, Stops
    <3> QED
      BY <3>4, <3>5
  <2>7. Known(x)'
    <3>1. /\ TasksOf(x, "remove")' = TasksOf(x, "remove") /\ TasksOf(x, "add")' = TasksOf(x, "add")
          /\ TasksOf(x, "stop")' = TasksOf(x, "stop") /\ TasksOf(x, "request")' = TasksOf(x, "request")
          /\ TasksOf(x, "related")' = TasksOf(x, "related")
          /\ \A d \in TasksOf(x, "add") : d.at = "check"
          /\ x \in past.established /\ x \in past.requested /\ Known(x)
      BY <1>a, <2>3 DEF LinkingOf
    <3>2. /\ (Settled(x)' <=> Settled(x)) /\ ~Busy(x)'
          /\ \A K : Excused(K, x)' <=> Excused(K, x)
      BY <1>f, <2>a, <2>3, <3>1 DEF Settled, Busy, Excused
    <3>3. Stops(x)' /\ LinkKnown(x)'
      BY <1>1, <2>a, <2>b, <2>1, <3>1 DEF Known, Stops, LinkKnown
    <3>4. Updates(x)'
      BY <1>f, <2>1, <2>3 DEF Updates
    <3>5. Removed(x)'
      BY <2>a, <2>b, <3>1, <3>2 DEF Known, Removed
    <3>6. ASSUME NEW s, NEW ats \in {{"linkup", "own", "create", "write"}, {"own", "create", "write"}}, Takes(x, s, ats)'
          PROVE  Takes(x, s, ats)
      <4>1. "check" \notin ats /\ "read" \notin ats /\ "write" \in ats
        OBVIOUS
      <4> QED
        BY <1>a, <1>1, <1>f, <2>b, <2>3, <3>1, <3>6, <4>1 DEF Takes
    <3>7. Linked(x)' /\ Told(x)' /\ Sent(x)'
      BY <1>a, <2>a, <2>1, <3>1, <3>2, <3>6 DEF Lasting, Known, Linked, Told, Sent
    <3>8. TrackKnown(x)'
      <4> SUFFICES ASSUME NEW s \in DOMAIN store.tracks, x \in store.tracks[s], s # t.from
                   PROVE  \/ \E d \in TasksOf(x, "remove")' : d.at = "cut"
                          \/ Excused({"stale_cut", "update_failed"}, x)'
        BY <1>1, <2>a, <2>b, <3>2 DEF TrackKnown
      <4>1. Busy(x) /\ TrackKnown(x)
        BY <1>a, <2>3, <3>1 DEF Known, Busy
      <4> QED
        BY ONLY <1>a, <2>3, <3>1, <3>2, <4>1, s \in DOMAIN store.tracks, x \in store.tracks[s], s # t.from DEF TrackKnown
    <3>9. Wanted(x)'
      <4>1. x \in svc.updating /\ Wanted(x)
        BY <2>3, <3>1 DEF Known, Updates
      <4>2. CASE Excused({"update_early", "update_failed", "update_same"}, x)
        BY <2>a, <2>1, <3>1, <3>2, <4>1, <4>2 DEF Wanted
      <4>3. CASE ~Excused({"update_early", "update_failed", "update_same"}, x)
        <5>1. past.want[x] = IF x \in DOMAIN svc.next THEN svc.next[x] ELSE t.from
          BY <2>3, <3>1, <4>1, <4>3 DEF Wanted
        <5>2. x \in DOMAIN past.want /\ x \in DOMAIN svc.from
          BY <3>1, <4>1 DEF Wanted
        <5>3. CASE x \in DOMAIN svc.next
          <6>1. x \in svc'.updating /\ TasksOf(x, "update")' = {next} /\ past'.want[x] = next.from /\ x \notin DOMAIN svc'.next
            BY <1>f, <2>a, <2>1, <2>2, <2>3, <5>1, <5>3
          <6> QED
            BY <2>a, <2>1, <3>1, <5>2, <6>1 DEF Wanted
        <5>4. CASE x \notin DOMAIN svc.next
          <6>1. x \notin svc'.updating /\ store'.subs[x] = past'.want[x]
            BY <2>a, <2>b, <2>1, <5>1, <5>4
          <6> QED
            BY <2>a, <2>1, <3>1, <5>2, <6>1 DEF Wanted
        <5> QED
          BY <5>3, <5>4
      <4> QED
        BY <4>2, <4>3
    <3> QED
      BY <3>3, <3>4, <3>5, <3>7, <3>8, <3>9 DEF Known
  <2> QED
    BY <2>4, <2>5, <2>6, <2>7, OneJInv
<1>2. CASE ~modified
  <2>0. Moves(t, {cut}) /\ store' = store
    <3>1. [t EXCEPT !.at = "cut"] = cut
      BY <1>a DEF LinkingOf
    <3>2. svc' = Goes(t, "cut") /\ store' = store
      BY <1>2 DEF UpdateWrite
    <3> QED
      BY <3>1, <3>2 DEF Moves
  <2>a. /\ past.mishaps \subseteq past'.mishaps /\ past'.mishaps \subseteq past.mishaps \cup {<<"update_same", x>>}
        /\ <<"update_same", x>> \in past'.mishaps
        /\ past'.requested = past.requested /\ past'.established = past.established /\ past'.want = past.want
    BY <1>0, <1>2 DEF UpdateWrite, Form
  <2> HIDE DEF cut
  <2>1. Engine /\ svc'.tasks = (svc.tasks \ {t}) \cup {cut}
    BY <2>0, MovesEngine DEF JInv
  <2>2. /\ \A y, do : (y = x /\ do = "update") \/ TasksOf(y, do)' = TasksOf(y, do)
        /\ TasksOf(x, "update")' = {cut} /\ TasksOf(x, "update") = {t}
    BY <1>a, <1>f, <2>1 DEF LinkingOf, TasksOf
  <2>3. Steps'
    BY <1>a, <1>f, <2>1, <2>a DEF JInv, Steps
  <2>4. Tracks'
    <3>1. \A s \in Pubs, do \in {"add", "remove"} : TasksOf(s, do)' = TasksOf(s, do)
      BY <1>a, <2>2
    <3> QED
      BY <2>a, <2>0, <3>1, TracksKept DEF JInv
  <2>d. ASSUME NEW y \in Subs
        PROVE  Outside(y)
    BY <1>a, <2>0, <2>a, <2>d DEF Outside
  <2>5. ASSUME NEW y \in Subs, y # x
        PROVE  Quiet(y) /\ Stops(y)'
    BY <1>f, <2>d, <2>0, <2>5, MovesElsewhere
  <2>6. Known(x)'
    <3>1. /\ TasksOf(x, "remove")' = TasksOf(x, "remove") /\ TasksOf(x, "add")' = TasksOf(x, "add")
          /\ TasksOf(x, "stop")' = TasksOf(x, "stop") /\ TasksOf(x, "request")' = TasksOf(x, "request")
          /\ x \in past.requested /\ Known(x)
      BY <1>a, <2>2 DEF LinkingOf
    <3>2. Settled(x) /\ Settled(x)' /\ Busy(x)
      BY <1>a, <2>a, <2>2, <3>1 DEF LinkingOf, Settled, Busy
    <3>3. Stops(x)'
      BY <2>a, <2>1, <3>1 DEF Known, Stops, Engine
    <3>4. LinkKnown(x)'
      BY <1>f, <2>2 DEF LinkKnown
    <3>5. Updates(x)'
      BY <1>f, <2>a, <2>1, <2>2, <3>1, <3>2 DEF Known, Updates, Engine
    <3>6. Removed(x)'
      BY <2>0, <2>a, <3>1, <3>2 DEF Known, Removed
    <3>7. TrackKnown(x)'
      <4>1. \A K : Excused(K, x) => Excused(K, x)'
        BY <2>a DEF Excused
      <4> QED
        BY <1>a, <1>f, <2>0, <2>2, <3>1, <3>2, <4>1 DEF Known, TrackKnown
    <3>8. x \in past'.requested /\ x \in DOMAIN past'.want /\ x \in DOMAIN svc'.from
      BY <2>a, <2>1, <3>1 DEF Known, Wanted, Engine
    <3> QED
      BY <1>a, <2>a, <3>3, <3>4, <3>5, <3>6, <3>7, <3>8, LostKnown
  <2> QED
    BY <2>3, <2>4, <2>5, <2>6, OneJInv
<1> QED
  BY <1>1, <1>2

LEMMA ControlReadJInv ==
  ASSUME JInv, IInv', Lasting, NEW t \in svc.tasks, ControlRead(t)
  PROVE  JInv'
<1> DEFINE x == t.id
           next == [do |-> "update", id |-> x, at |-> "read", from |-> t.from]
           ok == Allowed(Owner(t.id)) /\ svc.ongoing[t.id] # "no"
<1>0. Form
  BY DEF JInv, IInv
<1>a. /\ t.do = "control" /\ x \in Subs /\ x \in past.requested /\ Known(x)
      /\ store' = store /\ node' = node
  BY DEF JInv, Steps, ControlRead
<1>b. x \in DOMAIN past.want /\ x \in DOMAIN svc.from
  BY <1>a DEF Known, Wanted
<1>f. next.do = "update" /\ next.id = x /\ next.at = "read" /\ next.from = t.from
  OBVIOUS
<1>1. CASE ~ok
  <2>0. Moves(t, {}) /\ past' = past
    BY <1>1 DEF ControlRead, Moves
  <2>1. Engine /\ svc'.tasks = svc.tasks \ {t}
    BY <2>0, MovesEngine DEF JInv
  <2>2. \A y : \A do \in {"add", "update", "related", "stop", "request", "remove"} : TasksOf(y, do)' = TasksOf(y, do)
    BY <1>a, <2>1 DEF TasksOf
  <2>3. Steps'
    BY <2>0, <2>1 DEF JInv, Steps
  <2>4. Tracks'
    BY <1>a, <2>0, <2>2, TracksKept DEF JInv
  <2>5. ASSUME NEW y \in Subs
        PROVE  Quiet(y) /\ Stops(y)'
    BY <1>a, <2>0, <2>1, <2>2 DEF JInv, Known, Stops, Quiet, Calm, Outside, Engine
  <2> QED
    BY <2>3, <2>4, <2>5, QuietedJInv DEF Quieted
<1>2. CASE ok
  <2>a. /\ past'.requested = past.requested /\ past'.established = past.established /\ past'.mishaps = past.mishaps
        /\ past'.want = [past.want EXCEPT ![x] = t.from]
    BY <1>0, <1>2 DEF ControlRead, Form
  <2>b. /\ DOMAIN past'.want = DOMAIN past.want /\ past'.want[x] = t.from
        /\ \A y \in DOMAIN past.want : y # x => past'.want[y] = past.want[y]
    BY <1>b, <2>a
  <2>c. svc' = IF x \in svc.updating THEN [Done(t) EXCEPT !.next = Put(@, x, t.from)]
               ELSE Task([Done(t) EXCEPT !.updating = @ \cup {x}], next)
    BY <1>2 DEF ControlRead, UpdateSubscription
  <2>1. /\ svc'.ongoing = svc.ongoing /\ svc'.ops = svc.ops /\ svc'.from = svc.from
        /\ x \in svc.updating => /\ svc'.tasks = svc.tasks \ {t} /\ svc'.updating = svc.updating
                                 /\ svc'.next = Put(svc.next, x, t.from)
        /\ x \notin svc.updating => /\ svc'.tasks = (svc.tasks \ {t}) \cup {next} /\ svc'.updating = svc.updating \cup {x}
                                    /\ svc'.next = svc.next
    <3> HIDE DEF next
    <3>1. CASE x \in svc.updating
      BY <1>0, <2>c, <3>1 DEF Form
    <3>2. CASE x \notin svc.updating
      BY <1>0, <2>c, <3>2 DEF Form
    <3> QED
      BY <3>1, <3>2
  <2> HIDE DEF next
  <2>2. /\ \A y : \A do \in {"add", "related", "stop", "request", "remove"} : TasksOf(y, do)' = TasksOf(y, do)
        /\ \A y : y # x => TasksOf(y, "update")' = TasksOf(y, "update")
        /\ x \in svc.updating => TasksOf(x, "update")' = TasksOf(x, "update")
        /\ x \notin svc.updating => TasksOf(x, "update")' = TasksOf(x, "update") \cup {next}
    <3>1. CASE x \in svc.updating
      BY <1>a, <1>f, <2>1, <3>1 DEF TasksOf
    <3>2. CASE x \notin svc.updating
      BY <1>a, <1>f, <2>1, <3>2 DEF TasksOf
    <3> QED
      BY <3>1, <3>2
  <2>3. Steps'
    <3>1. \A d \in svc'.tasks : d \in svc.tasks \/ d = next
      BY <2>1
    <3> QED
      BY <1>a, <1>f, <2>a, <3>1 DEF JInv, Steps
  <2>4. Tracks'
    <3>1. \A s \in Pubs, do \in {"add", "remove"} : TasksOf(s, do)' = TasksOf(s, do)
      BY <2>2
    <3> QED
      BY <1>a, <2>a, <3>1, TracksKept DEF JInv
  <2>5. ASSUME NEW y \in Subs, y # x
        PROVE  Quiet(y) /\ Stops(y)'
    <3>1. \A do \in {"add", "update", "related", "stop", "request", "remove"} : TasksOf(y, do)' = TasksOf(y, do)
      BY <2>2, <2>5
    <3>2. Known(y)
      BY DEF JInv
    <3>3. Outside(y)
      BY <1>a, <2>a, <2>b, <2>5, <3>2 DEF Outside, Known, Wanted
    <3>4. y \in svc'.updating <=> y \in svc.updating
      BY <2>1, <2>5
    <3>5. /\ y \in DOMAIN svc'.next <=> y \in DOMAIN svc.next
          /\ y \in DOMAIN svc.next => svc'.next[y] = svc.next[y]
      BY <2>1, <2>5 DEF Put
    <3>6. Quiet(y)
      BY <2>1, <3>1, <3>3, <3>4, <3>5 DEF Quiet, Calm
    <3>7. Stops(y)'
      BY <2>a, <2>1, <3>1, <3>2 DEF Known, Stops
    <3> QED
      BY <3>6, <3>7
  <2>6. Known(x)'
    <3>0. x \notin svc.updating => TasksOf(x, "update") = {}
      BY <1>a DEF Known, Updates
    <3>1. /\ \A do \in {"add", "related", "stop", "request", "remove"} : TasksOf(x, do)' = TasksOf(x, do)
          /\ \A K : Excused(K, x)' <=> Excused(K, x)
          /\ \A d : d.at # "read" => (d \in TasksOf(x, "update")' <=> d \in TasksOf(x, "update"))
      BY <1>f, <2>a, <2>2 DEF Excused
    <3>2. /\ (Settled(x)' <=> Settled(x)) /\ (Busy(x)' <=> Busy(x))
      BY <2>a, <3>1 DEF Settled, Busy
    <3>3. Stops(x)' /\ LinkKnown(x)'
      BY <1>a, <2>a, <2>1, <3>1 DEF Known, Stops, LinkKnown
    <3>4. Updates(x)'
      <4>1. CASE x \in svc.updating
        BY <1>a, <2>a, <2>1, <2>2, <3>2, <4>1 DEF Known, Updates
      <4>2. CASE x \notin svc.updating
        BY <1>f, <2>1, <2>2, <3>0, <4>2 DEF Updates
      <4> QED
        BY <4>1, <4>2
    <3>5. Removed(x)'
      BY <1>a, <2>a, <3>1, <3>2 DEF Known, Removed
    <3>6. ASSUME NEW s, NEW ats \in {{"linkup", "own", "create", "write"}, {"own", "create", "write"}}, Takes(x, s, ats)'
          PROVE  Takes(x, s, ats)
      <4>1. "read" \notin ats
        OBVIOUS
      <4> QED
        BY <1>a, <3>1, <3>2, <3>6, <4>1 DEF Takes
    <3>7. Linked(x)' /\ Told(x)' /\ Sent(x)'
      BY <1>a, <2>1, <3>1, <3>6 DEF Lasting, Known, Linked, Told, Sent
    <3>8. TrackKnown(x)'
      BY <1>a, <3>1, <3>2 DEF Known, TrackKnown
    <3>9. Wanted(x)'
      <4>1. Wanted(x) /\ x \in DOMAIN past'.want /\ x \in DOMAIN svc'.from /\ x \in past'.requested /\ x \in svc'.updating
        BY <1>a, <1>b, <2>a, <2>b, <2>1 DEF Known
      <4>2. CASE Excused({"update_early", "update_failed", "update_same"}, x)
        BY <3>1, <4>1, <4>2 DEF Wanted
      <4>3. CASE ~Excused({"update_early", "update_failed", "update_same"}, x) /\ x \in svc.updating
        <5>1. PICK d \in TasksOf(x, "update") : TRUE
          BY <1>a, <4>1, <4>3 DEF Wanted
        <5>2. d \in TasksOf(x, "update")'
          BY <2>2, <4>3
        <5>3. x \in DOMAIN svc'.next /\ svc'.next[x] = t.from
          BY <2>1, <4>3 DEF Put
        <5> QED
          BY <2>b, <4>1, <5>2, <5>3 DEF Wanted
      <4>4. CASE x \notin svc.updating
        <5>1. next \in TasksOf(x, "update")'
          BY <2>2, <4>4
        <5>2. x \notin DOMAIN svc'.next
          BY <2>1, <4>4 DEF JInv, IInv, Domains
        <5> QED
          BY <1>f, <2>b, <4>1, <5>1, <5>2 DEF Wanted
      <4> QED
        BY <4>2, <4>3, <4>4
    <3> QED
      BY <3>3, <3>4, <3>5, <3>7, <3>8, <3>9 DEF Known
  <2> QED
    BY <2>3, <2>4, <2>5, <2>6, OneJInv
<1> QED
  BY <1>1, <1>2

LEMMA SessionStoppedJInv ==
  ASSUME JInv, IInv', Lasting, NEW t \in svc.tasks, SessionStopped(t)
  PROVE  JInv'
<1> DEFINE i == t.id
           next == [do |-> "remove", id |-> i, at |-> "read", from |-> i]
<1>0. Form
  BY DEF JInv, IInv
<1>a. /\ t.do = "stop" /\ i \in Sessions /\ store' = store /\ past' = past /\ node'.links = Without(node.links, i)
      /\ svc' = Stopped(t)
  BY <1>0 DEF JInv, IInv, Tasks, TaskForm, SessionStopped
<1>b. /\ DOMAIN node'.links = DOMAIN node.links \ {i}
      /\ \A x \in DOMAIN node.links : x # i => node'.links[x] = node.links[x]
  BY ONLY <1>a DEF Without, Restrict
<1>f. next.do = "remove" /\ next.id = i /\ next.at = "read"
  OBVIOUS
<1>1. /\ svc'.from = svc.from /\ svc'.updating = svc.updating /\ svc'.next = svc.next
      /\ svc.tasks \ {t} \subseteq svc'.tasks /\ svc'.tasks \subseteq (svc.tasks \ {t}) \cup {next}
      /\ svc'.ongoing = svc.ongoing \/ svc'.ongoing = [svc.ongoing EXCEPT ![i] = "aborted"]
  BY <1>0, <1>a DEF Form, Stopped, OnSessionAborted, RemoveSession
<1>2. \A x \in Subs : svc'.ongoing[x] = svc.ongoing[x] \/ svc'.ongoing[x] = "aborted"
  BY <1>1, <1>a DEF JInv, IInv, Tables, Sessions
<1> HIDE DEF next
<1>3. Steps'
  BY <1>a, <1>f, <1>1 DEF JInv, Steps
<1>4. /\ \A x : \A do \in {"add", "update", "related", "request"} : TasksOf(x, do)' = TasksOf(x, do)
      /\ \A x : TasksOf(x, "stop")' \subseteq TasksOf(x, "stop")
      /\ \A x, d : d.at # "read" => (d \in TasksOf(x, "remove")' <=> d \in TasksOf(x, "remove"))
  BY <1>a, <1>f, <1>1 DEF TasksOf
<1>5. Tracks'
  <2>1. \A s : Creating(s)' <=> Creating(s)
    BY <1>a, <1>f, <1>1 DEF Creating
  <2> QED
    BY <1>a, <1>4, <2>1 DEF JInv, Tracks
<1>6. ASSUME NEW x \in Subs
      PROVE  Stops(x)'
  BY <1>a, <1>2, <1>4 DEF JInv, Known, Stops
<1>7. ASSUME NEW x \in Subs, x # i
      PROVE  Quiet(x)
  <2>1. Outside(x)
    BY <1>a, <1>b, <1>7 DEF Outside
  <2> QED
    BY <1>1, <1>2, <1>4, <2>1 DEF Quiet, Calm
<1>8. ASSUME i \in Subs
      PROVE  Known(i)'
  <2>1. Known(i)
    BY <1>8 DEF JInv
  <2>2. Stops(i)'
    BY <1>8, <1>6
  <2>3. i \in past.requested /\ svc.ongoing[i] # "yes"
    BY <1>a, <2>1 DEF Known, Stops, TasksOf
  <2>4. /\ (Settled(i)' <=> Settled(i)) /\ (Busy(i)' <=> Busy(i)) /\ (\A K : Excused(K, i)' <=> Excused(K, i))
    BY <1>a, <1>4 DEF Settled, Busy, Excused
  <2>5. \A s, ats : Takes(i, s, ats)' => Takes(i, s, ats)
    BY <1>a, <1>4, <2>4 DEF Takes
  <2>6. ASSUME NEW s, NEW ats \in {{"linkup", "own", "create", "write"}, {"own", "create", "write"}}, Takes(i, s, ats)
        PROVE  svc'.ongoing[i] = "aborted"
    <3>1. i \in store.pubs \/ i \in DOMAIN store.subs \/ \E d \in TasksOf(i, "add") : d.at # "check"
      <4>1. "check" \notin ats
        OBVIOUS
      <4> QED
        BY <2>6, <4>1 DEF Takes
    <3>2. svc.ongoing[i] # "no"
      <4>1. CASE i \in store.pubs \/ i \in DOMAIN store.subs
        BY <1>a, <4>1 DEF JInv, IInv, Documents
      <4>2. CASE \E d \in TasksOf(i, "add") : d.at # "check"
        BY <4>2 DEF JInv, IInv, Setups, TasksOf
      <4> QED
        BY <3>1, <4>1, <4>2
    <3>3. svc.ongoing[i] \in {"no", "yes", "aborted"}
      BY <1>a DEF JInv, IInv, Tables
    <3> QED
      BY <1>2, <1>8, <2>3, <3>2, <3>3
  <2>7. Updates(i)'
    BY <1>1, <1>4, <2>1, <2>4, <1>a DEF Known, Updates
  <2>8. Removed(i)'
    BY <1>a, <1>4, <2>1, <2>4 DEF Known, Removed
  <2>9. Linked(i)'
    BY <1>a, <2>1, <2>4, <2>5 DEF Lasting, Known, Linked
  <2>10. Told(i)' /\ Sent(i)'
    BY <2>5, <2>6 DEF Told, Sent
  <2>11. LinkKnown(i)'
    BY <1>b DEF LinkKnown
  <2>12. TrackKnown(i)'
    BY <1>a, <1>4, <2>1, <2>4 DEF Known, TrackKnown
  <2>13. Wanted(i)'
    BY <1>a, <1>1, <1>4, <2>1, <2>4 DEF Known, Wanted
  <2> QED
    BY <2>2, <2>7, <2>8, <2>9, <2>10, <2>11, <2>12, <2>13 DEF Known
<1> QED
  BY <1>3, <1>5, <1>6, <1>7, <1>8, OneJInv

LEMMA RemoveDeleteJInv ==
  ASSUME JInv, IInv', Lasting, NEW t \in svc.tasks, RemoveDelete(t)
  PROVE  JInv'
<1> DEFINE i == t.id
           next == [do |-> "remove", id |-> i, at |-> IF i \in Pubs THEN "tracks" ELSE "cut", from |-> t.from]
<1>0. Form
  BY DEF JInv, IInv
<1>a. /\ t.do = "remove" /\ t.at = "delete" /\ i \in Sessions /\ node' = node /\ past' = past
      /\ t = [do |-> "remove", id |-> i, at |-> "delete", from |-> t.from]
  BY DEF JInv, IInv, Tasks, TaskForm, RemoveDelete
<1>1. CASE ~Stored(i)
  <2>0. Moves(t, {}) /\ store' = store
    BY <1>1 DEF RemoveDelete, Moves
  <2>1. Engine /\ svc'.tasks = svc.tasks \ {t}
    BY <2>0, MovesEngine DEF JInv
  <2>2. /\ \A y : \A do \in {"add", "update", "related", "stop", "request"} : TasksOf(y, do)' = TasksOf(y, do)
        /\ \A y, d : d.at # "delete" => (d \in TasksOf(y, "remove")' <=> d \in TasksOf(y, "remove"))
    BY <1>a, <2>1 DEF TasksOf
  <2>3. Steps'
    BY <1>a, <2>1 DEF JInv, Steps
  <2>4. Tracks'
    <3>1. \A s : Creating(s)' <=> Creating(s)
      BY <1>a, <2>1 DEF Creating
    <3> QED
      BY <1>a, <2>0, <2>2, <3>1 DEF JInv, Tracks
  <2>5. ASSUME NEW y \in Subs
        PROVE  Quiet(y) /\ Stops(y)'
    BY <1>a, <2>0, <2>1, <2>2 DEF JInv, Known, Stops, Quiet, Calm, Outside, Engine
  <2> QED
    BY <2>3, <2>4, <2>5, QuietedJInv DEF Quieted
<1>2. CASE Stored(i)
  <2>a. store'.pubs = store.pubs \ {i} /\ store'.subs = Without(store.subs, i) /\ store'.tracks = store.tracks
    BY <1>0, <1>2 DEF RemoveDelete, Form
  <2>b. /\ DOMAIN store'.subs = DOMAIN store.subs \ {i}
        /\ \A y \in DOMAIN store.subs : y # i => store'.subs[y] = store.subs[y]
    BY ONLY <2>a DEF Without, Restrict
  <2>1. /\ svc'.from = svc.from /\ svc'.updating = svc.updating /\ svc'.next = svc.next
        /\ svc'.tasks = (svc.tasks \ {t}) \cup {next} /\ svc'.ongoing = [svc.ongoing EXCEPT ![i] = "no"]
    <3>1. [t EXCEPT !.at = IF i \in Pubs THEN "tracks" ELSE "cut"] = next
      BY <1>a
    <3> HIDE DEF next
    <3> QED
      BY <1>0, <1>2, <3>1 DEF RemoveDelete, Form
  <2>f. next.do = "remove" /\ next.id = i /\ next.at = IF i \in Pubs THEN "tracks" ELSE "cut"
    OBVIOUS
  <2> HIDE DEF next
  <2>c. /\ svc.ongoing \in [Sessions -> {"no", "yes", "aborted"}]
        /\ svc'.ongoing[i] = "no" /\ \A y \in Subs : y # i => svc'.ongoing[y] = svc.ongoing[y]
    <3>1. svc.ongoing \in [Sessions -> {"no", "yes", "aborted"}]
      BY DEF JInv, IInv, Tables
    <3> QED
      BY <1>a, <2>1, <3>1 DEF Sessions
  <2>2. /\ \A y : \A do \in {"add", "update", "related", "stop", "request"} : TasksOf(y, do)' = TasksOf(y, do)
        /\ \A y, d : y # i /\ d.at # "delete" => (d \in TasksOf(y, "remove")' <=> d \in TasksOf(y, "remove"))
        /\ \A d : d.at # "delete" => (d \in TasksOf(i, "remove")' <=> d = next \/ d \in TasksOf(i, "remove"))
        /\ next \in TasksOf(i, "remove")'
    BY <1>a, <2>1, <2>f DEF TasksOf
  <2>3. Steps'
    <3>1. \A d \in svc'.tasks : d \in svc.tasks \/ d = next
      BY <2>1
    <3> QED
      BY <1>a, <2>f, <3>1 DEF JInv, Steps
  <2>4. Tracks'
    <3>1. \A s : Creating(s)' <=> Creating(s)
      BY <1>a, <2>1, <2>f DEF Creating
    <3> SUFFICES ASSUME NEW s \in DOMAIN store.tracks
                 PROVE  /\ s \in Pubs /\ s \in past.established
                        /\ \A d \in TasksOf(s, "add")' : d.at \notin {"user", "own"}
                        /\ \/ s \in store'.pubs \/ Creating(s)'
                           \/ \E d \in TasksOf(s, "remove")' : d.at = "tracks"
                        /\ store.tracks[s] \subseteq Subs
      BY <1>a, <2>a DEF Tracks
    <3>2. /\ s \in Pubs /\ s \in past.established
          /\ \A d \in TasksOf(s, "add") : d.at \notin {"user", "own"}
          /\ \/ s \in store.pubs \/ Creating(s)
             \/ \E d \in TasksOf(s, "remove") : d.at = "tracks"
          /\ store.tracks[s] \subseteq Subs
      BY DEF JInv, Tracks
    <3>3. CASE s = i
      BY <2>2, <2>f, <3>2, <3>3
    <3>4. CASE s # i
      BY <2>a, <2>2, <3>1, <3>2, <3>4
    <3> QED
      BY <3>3, <3>4
  <2>5. ASSUME NEW y \in Subs, y # i
        PROVE  Quiet(y) /\ Stops(y)'
    <3>1. Outside(y)
      BY <1>a, <2>a, <2>b, <2>5 DEF Outside
    <3>2. Quiet(y)
      BY <2>1, <2>2, <2>c, <2>5, <3>1 DEF Quiet, Calm
    <3>3. Stops(y)'
      BY <1>a, <2>2, <2>c, <2>5 DEF JInv, Known, Stops
    <3> QED
      BY <3>2, <3>3
  <2>6. ASSUME i \in Subs
        PROVE  Known(i)'
    <3>1. Known(i) /\ i \notin Pubs /\ i \notin store.pubs /\ i \in DOMAIN store.subs
      BY <1>2, <2>6 DEF JInv, IInv, Tables
    <3>2. /\ (Settled(i)' <=> Settled(i)) /\ (\A K : Excused(K, i)' <=> Excused(K, i))
      BY <1>a, <2>2 DEF Settled, Excused
    <3>3. \A d \in TasksOf(i, "add") : d.at = "check"
      BY <1>a DEF JInv, IInv, Removals, TasksOf
    <3>4. next.at = "cut" /\ next \in TasksOf(i, "remove")'
      BY <2>f, <2>2, <3>1
    <3>5. Updates(i)'
      BY <1>a, <2>1, <2>2, <3>1, <3>2 DEF Known, Updates
    <3>6. Stops(i)'
      BY <1>a, <2>2, <2>c, <3>1 DEF Known, Stops
    <3>7. Removed(i)'
      BY <1>a, <1>2, <2>a, <2>b, <3>1 DEF Known, Removed
    <3>8. ASSUME NEW s, NEW ats \in {{"linkup", "own", "create", "write"}, {"own", "create", "write"}}, Takes(i, s, ats)'
          PROVE  FALSE
      BY <2>b, <2>2, <3>3, <3>8 DEF Takes
    <3>9. Linked(i)' /\ Told(i)' /\ Sent(i)'
      BY <3>8 DEF Linked, Told, Sent
    <3>10. LinkKnown(i)' /\ TrackKnown(i)'
      BY <3>4 DEF LinkKnown, TrackKnown
    <3>11. Wanted(i)'
      BY <1>a, <2>b, <2>1, <2>2, <3>1, <3>2 DEF Known, Wanted
    <3> QED
      BY <3>5, <3>6, <3>7, <3>9, <3>10, <3>11 DEF Known
  <2> QED
    BY <2>3, <2>4, <2>5, <2>6, OneJInv
<1> QED
  BY <1>1, <1>2

(* The end of a publication's tracks is told to what it is linked to.      *)
LEMMA CleanTracksJInv ==
  ASSUME JInv, IInv', Lasting, NEW t \in svc.tasks, CleanTracks(t)
  PROVE  JInv'
<1> DEFINE i == t.id
<1>0. Form
  BY DEF JInv, IInv
<1>a. t.do = "remove" /\ t.at = "tracks" /\ i \in Pubs /\ node' = node
  BY DEF JInv, Steps, CleanTracks
<1>b. /\ store'.pubs = store.pubs /\ store'.subs = store.subs /\ store'.tracks = Without(store.tracks, i)
  BY <1>0 DEF CleanTracks, Form
<1>c. /\ DOMAIN store'.tracks = DOMAIN store.tracks \ {i}
      /\ \A s \in DOMAIN store.tracks : s # i => store'.tracks[s] = store.tracks[s]
  BY ONLY <1>b DEF Without, Restrict
<1>1. /\ past'.requested = past.requested /\ past'.established = past.established /\ past'.want = past.want
      /\ past.mishaps \subseteq past'.mishaps
      /\ \A k, x : <<k, x>> \in past'.mishaps => k = "overtaken" \/ <<k, x>> \in past.mishaps
  BY <1>0 DEF CleanTracks, Form
<1>2. PICK N : /\ svc' = [svc EXCEPT !.tasks = (svc.tasks \ {t}) \cup N]
               /\ \A n \in N : n.do = "related"
               /\ \A x \in store.tracks[i] :
                    (\E n \in N : n.do = "related" /\ n.id = x) \/ <<"overtaken", x>> \in past'.mishaps
  <2>1. CASE svc' = [Done(t) EXCEPT !.tasks = @ \cup Related(i, store.tracks[i])]
    <3>1. svc' = [svc EXCEPT !.tasks = (svc.tasks \ {t}) \cup Related(i, store.tracks[i])]
      <4>1. PICK N : N = Related(i, store.tracks[i])
        OBVIOUS
      <4> QED
        BY <1>0, <2>1, <4>1 DEF Form
    <3>2. \A n \in Related(i, store.tracks[i]) : n.do = "related"
      BY DEF Related
    <3>3. \A x \in store.tracks[i] : \E n \in Related(i, store.tracks[i]) : n.do = "related" /\ n.id = x
      <4> SUFFICES ASSUME NEW x \in store.tracks[i]
                   PROVE  \E n \in Related(i, store.tracks[i]) : n.do = "related" /\ n.id = x
        OBVIOUS
      <4> DEFINE n == [do |-> "related", id |-> x, engine |-> Home(i)]
      <4>1. n \in Related(i, store.tracks[i])
        BY DEF Related
      <4>2. n.do = "related" /\ n.id = x
        OBVIOUS
      <4> QED
        BY ONLY <4>1, <4>2
    <3> QED
      BY <3>1, <3>2, <3>3
  <2>2. CASE svc' = Done(t) /\ past' = [past EXCEPT !.mishaps = @ \cup {<<"overtaken", x>> : x \in store.tracks[i]}]
    <3>1. svc' = [svc EXCEPT !.tasks = (svc.tasks \ {t}) \cup {}]
      BY <2>2
    <3>2. \A x \in store.tracks[i] : <<"overtaken", x>> \in past'.mishaps
      BY <1>0, <2>2 DEF Form
    <3> QED
      BY <3>1, <3>2
  <2> QED
    BY <2>1, <2>2 DEF CleanTracks
<1>3. /\ svc'.ongoing = svc.ongoing /\ svc'.from = svc.from /\ svc'.updating = svc.updating /\ svc'.next = svc.next
      /\ svc'.tasks = (svc.tasks \ {t}) \cup N
  BY <1>0, <1>2 DEF Form
<1>4. /\ \A y : \A do \in {"add", "update", "stop", "request"} : TasksOf(y, do)' = TasksOf(y, do)
      /\ \A y : y # i => TasksOf(y, "remove")' = TasksOf(y, "remove")
      /\ \A y : TasksOf(y, "related") \subseteq TasksOf(y, "related")'
      /\ \A n \in N : n \in TasksOf(n.id, "related")'
  BY <1>a, <1>2, <1>3 DEF TasksOf
<1>5. Steps'
  <2>1. \A d \in svc'.tasks : d \in svc.tasks \/ d.do = "related"
    BY <1>2, <1>3
  <2> QED
    BY <1>1, <2>1 DEF JInv, Steps
<1>6. Tracks'
  <2>1. \A s : Creating(s) => Creating(s)'
    BY <1>a, <1>3 DEF Creating
  <2> QED
    BY <1>1, <1>b, <1>c, <1>4, <2>1 DEF JInv, Tracks
<1>7. ASSUME NEW x \in Subs
      PROVE  Known(x)'
  <2>1. /\ Known(x) /\ x # i
        /\ \A do \in {"add", "update", "stop", "request", "remove"} : TasksOf(x, do)' = TasksOf(x, do)
    BY <1>a, <1>4, <1>7 DEF JInv
  <2>2. /\ (Settled(x)' <=> Settled(x)) /\ (Busy(x)' <=> Busy(x)) /\ (\A K : Excused(K, x) => Excused(K, x)')
    BY <1>1, <2>1 DEF Settled, Busy, Excused
  <2>3. \A s, ats : Takes(x, s, ats)' => Takes(x, s, ats)
    BY <1>b, <2>1, <2>2 DEF Takes
  <2>4. Updates(x)'
    BY <1>1, <1>3, <2>1, <2>2 DEF Known, Updates
  <2>5. Stops(x)'
    BY <1>1, <1>3, <2>1 DEF Known, Stops
  <2>6. Removed(x)'
    BY <1>1, <1>b, <2>1, <2>2 DEF Known, Removed
  <2>7. Linked(x)'
    BY <1>c, <2>1, <2>2, <2>3 DEF Lasting, Known, Linked
  <2>8. Told(x)'
    <3> SUFFICES ASSUME NEW s, Takes(x, s, {"linkup", "own", "create", "write"})'
                 PROVE  \/ s \in DOMAIN store'.tracks
                        \/ TasksOf(x, "related")' # {} \/ svc'.ongoing[x] = "aborted"
                        \/ Excused(LostLinks \cup {"linking", "overtaken", "other_engine"}, x)'
      BY DEF Told, LostLinks
    <3>1. CASE s = i /\ i \in DOMAIN store.tracks
      <4>1. x \in store.tracks[i] \/ Excused(LostLinks, x)
        BY <2>1, <2>3, <3>1 DEF Known, Linked
      <4>2. CASE x \in store.tracks[i]
        <5>1. CASE <<"overtaken", x>> \in past'.mishaps
          BY <5>1 DEF Excused
        <5>2. CASE \E n \in N : n.do = "related" /\ n.id = x
          BY <1>4, <5>2
        <5> QED
          BY <1>2, <4>2, <5>1, <5>2
      <4>3. CASE Excused(LostLinks, x)
        BY <2>2, <4>3 DEF Excused
      <4> QED
        BY <4>1, <4>2, <4>3
    <3>2. CASE ~(s = i /\ i \in DOMAIN store.tracks)
      <4>1. \/ s \in DOMAIN store.tracks
            \/ TasksOf(x, "related") # {} \/ svc.ongoing[x] = "aborted"
            \/ Excused(LostLinks \cup {"linking", "overtaken", "other_engine"}, x)
        BY <2>1, <2>3 DEF Known, Told
      <4> QED
        BY <1>c, <1>3, <1>4, <2>2, <3>2, <4>1
    <3> QED
      BY <3>1, <3>2
  <2>9. Sent(x)'
    BY <1>a, <1>3, <2>1, <2>2, <2>3 DEF Known, Sent
  <2>10. LinkKnown(x)'
    BY <1>a, <1>b, <2>1 DEF Known, LinkKnown
  <2>11. TrackKnown(x)'
    BY <1>b, <1>c, <2>1, <2>2 DEF Known, TrackKnown
  <2>12. Wanted(x)'
    BY <1>1, <1>b, <1>3, <2>1, <2>2 DEF Known, Wanted
  <2> QED
    BY <2>4, <2>5, <2>6, <2>7, <2>8, <2>9, <2>10, <2>11, <2>12 DEF Known
<1> QED
  BY <1>5, <1>6, <1>7 DEF JInv

LEMMA CutRemovedJInv ==
  ASSUME JInv, IInv', Lasting, NEW t \in svc.tasks, CutRemoved(t)
  PROVE  JInv'
<1> DEFINE i == t.id
<1>0. Form
  BY DEF JInv, IInv
<1>a. /\ t.do = "remove" /\ t.at = "cut" /\ i \in Subs /\ Known(i) /\ t \in TasksOf(i, "remove")
      /\ store' = Cut(store, i, t.from) /\ Cutoff(i) /\ Moves(t, {})
  <2>1. t.do = "remove" /\ t.at = "cut" /\ i \in Sessions /\ i \notin Pubs
    BY DEF JInv, IInv, Tasks, TaskForm, Steps, CutRemoved
  <2>2. Moves(t, {})
    BY DEF CutRemoved, Moves
  <2> QED
    BY <2>1, <2>2 DEF JInv, Sessions, TasksOf, CutRemoved
<1>b. /\ ~Stored(i) /\ Stored(i) = (i \in DOMAIN store.subs) /\ i \in past.established
      /\ \A d \in TasksOf(i, "add") : d.at = "check"
  <2>1. ~Stored(i)
    BY <1>a DEF Known, Removed
  <2>2. i \in past.established /\ \A d \in TasksOf(i, "add") : d.at = "check"
    BY <1>a DEF JInv, IInv, Removals, TasksOf
  <2> QED
    BY <1>a, <2>1, <2>2
<1>c. /\ store'.subs = store.subs /\ store'.pubs = store.pubs /\ DOMAIN store'.tracks = DOMAIN store.tracks
      /\ \A s \in DOMAIN store.tracks : store'.tracks[s] = IF s = t.from THEN store.tracks[s] \ {i} ELSE store.tracks[s]
  BY <1>0, <1>a, CutTracks
<1>d. i \notin DOMAIN node'.links
  BY <1>0, <1>a, CutLinks
<1>1. /\ past'.requested = past.requested /\ past'.established = past.established /\ past'.want = past.want
      /\ past.mishaps \subseteq past'.mishaps /\ past'.mishaps \subseteq past.mishaps \cup {<<"stale_cut", i>>}
      /\ \A s \in DOMAIN store.tracks : s # t.from /\ i \in store.tracks[s] => <<"stale_cut", i>> \in past'.mishaps
  <2>1. past' = [past EXCEPT !.mishaps = @ \cup
                   {<<"stale_cut", i>> : s \in {s \in DOMAIN store.tracks \ {t.from} : i \in store.tracks[s]}}]
    BY DEF CutRemoved
  <2>2. /\ past'.requested = past.requested /\ past'.established = past.established /\ past'.want = past.want
        /\ past'.mishaps = past.mishaps \cup
                   {<<"stale_cut", i>> : s \in {s \in DOMAIN store.tracks \ {t.from} : i \in store.tracks[s]}}
    BY <1>0, <2>1 DEF Form
  <2> QED
    BY <2>2
<1>2. Engine /\ svc'.tasks = svc.tasks \ {t}
  BY <1>a, MovesEngine DEF JInv
<1>3. \A y, do : (y = i /\ do = "remove") \/ TasksOf(y, do)' = TasksOf(y, do)
  BY <1>a, <1>2 DEF TasksOf
<1>4. Steps'
  BY <1>1, <1>2 DEF JInv, Steps
<1>5. Tracks'
  <2>1. \A s \in Pubs, do \in {"add", "remove"} : TasksOf(s, do)' = TasksOf(s, do)
    BY <1>a, <1>3
  <2> QED
    BY <1>1, <1>c, <2>1, TracksKept DEF JInv
<1>6. ASSUME NEW y \in Subs, y # i
      PROVE  Quiet(y) /\ Stops(y)'
  <2>1. Outside(y)
    BY <1>0, <1>a, <1>1, <1>6, CutOutside
  <2> QED
    BY <1>a, <1>6, <2>1, MovesElsewhere
<1>7. Known(i)'
  <2>1. \A do \in {"add", "update", "related", "stop", "request"} : TasksOf(i, do)' = TasksOf(i, do)
    BY <1>3
  <2>2. /\ Settled(i) /\ Settled(i)' /\ (\A K : Excused(K, i) => Excused(K, i)')
    BY <1>b, <1>1, <2>1 DEF Settled, Excused
  <2>3. i \notin store'.pubs /\ i \notin DOMAIN store'.subs
    BY <1>b, <1>c
  <2>4. Updates(i)'
    BY <1>a, <1>1, <1>2, <2>1, <2>2 DEF Known, Updates, Engine
  <2>5. Stops(i)' /\ Removed(i)' /\ LinkKnown(i)'
    BY <1>a, <1>d, <1>1, <1>2, <2>1, <2>2, <2>3 DEF Known, Stops, Removed, LinkKnown, Engine
  <2>6. ASSUME NEW s, NEW ats \in {{"linkup", "own", "create", "write"}, {"own", "create", "write"}}, Takes(i, s, ats)'
        PROVE  FALSE
    BY <1>b, <2>1, <2>3, <2>6 DEF Takes
  <2>7. Linked(i)' /\ Told(i)' /\ Sent(i)'
    BY <2>6 DEF Linked, Told, Sent
  <2>8. TrackKnown(i)'
    BY <1>c, <1>1 DEF TrackKnown, Excused
  <2>9. Wanted(i)'
    BY <1>a, <1>b, <1>1, <1>2, <2>1, <2>2, <2>3 DEF Known, Wanted, Engine
  <2> QED
    BY <2>4, <2>5, <2>7, <2>8, <2>9 DEF Known
<1> QED
  BY <1>4, <1>5, <1>6, <1>7, OneJInv

(* What makes the tracks of a publication begins when it is established.   *)
Progress ==
  /\ past.established \subseteq past'.established
  /\ \A d \in svc'.tasks : d.do = "add" /\ d.at \in {"user", "own"} =>
       \/ d \in svc.tasks
       \/ d.id \in Subs
       \/ d.id \notin past.established
       \/ \E e \in svc.tasks : e.do = "add" /\ e.id = d.id /\ e.at = "user"

LEMMA ProgressLasting ==
  ASSUME Progress
  PROVE  Lasting
<1> SUFFICES ASSUME NEW s, Made(s)
             PROVE  Made(s)'
  BY DEF Lasting
<1>1. s \in Pubs /\ s \in past'.established
  BY DEF Made, Progress
<1>2. ASSUME NEW d \in TasksOf(s, "add")', d.at \in {"user", "own"}
      PROVE  FALSE
  <2>1. d \in svc'.tasks /\ d.do = "add" /\ d.id = s
    BY DEF TasksOf
  <2>2. \A e \in svc.tasks : e.do = "add" /\ e.id = s => e.at \notin {"user", "own"}
    BY DEF Made, TasksOf
  <2> QED
    BY <1>1, <1>2, <2>1, <2>2 DEF Progress, Made
<1> QED
  BY <1>1, <1>2 DEF Made

LEMMA GoesTask ==
  ASSUME Form, NEW t, TaskForm(t), t.do \in {"add", "update", "remove"}, NEW at, NEW R, R.tasks = Goes(t, at).tasks
  PROVE  \A d \in R.tasks : d \in svc.tasks \/ (d.do = t.do /\ d.id = t.id /\ d.at = at)
<1> DEFINE next == [t EXCEPT !.at = at]
<1>1. next.do = t.do /\ next.id = t.id /\ next.at = at
  <2>1. t = [do |-> t.do, id |-> t.id, at |-> t.at, from |-> t.from]
    BY DEF TaskForm
  <2> QED
    BY ONLY <2>1
<1> HIDE DEF next
<1>2. R.tasks = (svc.tasks \ {t}) \cup {next}
  BY DEF Form, next
<1> QED
  BY <1>1, <1>2

LEMMA GoesOnLasting ==
  ASSUME JInv, NEW t \in svc.tasks, GoesOn(t)
  PROVE  Lasting
<1>0. Form /\ TaskForm(t)
  BY DEF JInv, IInv, Tasks
<1> SUFFICES Progress
  BY ProgressLasting
<1>1. CASE LeaveRead(t)
  BY <1>0, <1>1 DEF Progress, LeaveRead, Form
<1>2. CASE RemoveParticipant(t)
  BY <1>0, <1>2 DEF Progress, RemoveParticipant, Form
<1>3. CASE Clean(t)
  BY <1>0, <1>3 DEF Progress, Clean, StopSession, Form
<1>4. CASE RequestRead(t)
  BY <1>0, <1>4 DEF Progress, RequestRead, Form, TaskForm
<1>5. CASE SessionCreated(t) \/ SessionNotCreated(t)
  BY <1>0, <1>5 DEF Progress, SessionCreated, SessionNotCreated, Form
<1>6. CASE AddUser(t)
  <2> DEFINE next == [t EXCEPT !.at = IF t.id \in Pubs THEN "own" ELSE "source"]
  <2>1. t.do = "add" /\ t.at = "user" /\ next.id = t.id
    BY <1>0, <1>6 DEF AddUser, TaskForm
  <2> HIDE DEF next
  <2>2. past' = past /\ (svc' = [Done(t) EXCEPT !.tasks = @ \cup {next}] \/ svc' = StopSession(Done(t), Home(t.id), t.id))
    BY <1>6 DEF AddUser, next
  <2>3. \A d \in svc'.tasks : d \in svc.tasks \/ d = next \/ d.do = "stop"
    <3>1. CASE svc' = [Done(t) EXCEPT !.tasks = @ \cup {next}]
      BY <1>0, <3>1 DEF Form
    <3>2. CASE svc' = StopSession(Done(t), Home(t.id), t.id)
      BY <1>0, <3>2 DEF StopSession, Form
    <3> QED
      BY <2>2, <3>1, <3>2
  <2> QED
    BY <2>1, <2>2, <2>3 DEF Progress
<1>7. CASE NoInternalAddress(t)
  BY <1>0, <1>7 DEF Progress, NoInternalAddress, StopSession, Form
<1>8. CASE Own(t) \/ Create(t)
  <2>1. past'.established = past.established
    BY <1>0, <1>8 DEF Own, Create, Form
  <2>2. svc' = Goes(t, "create") \/ svc' = Goes(t, "check")
    BY <1>8 DEF Own, Create
  <2>3. t.do = "add"
    BY <1>8 DEF Own, Create
  <2>4. PICK at \in {"create", "check"} : svc' = Goes(t, at)
    BY <2>2
  <2>5. \A d \in svc'.tasks : d \in svc.tasks \/ d.at = at
    BY <1>0, <2>3, <2>4, GoesTask
  <2> QED
    BY <2>1, <2>5 DEF Progress
<1>9. CASE CheckAborted(t)
  BY <1>0, <1>9 DEF Progress, CheckAborted, RemoveSession, Form
<1>10. CASE FindSource(t) \/ LinkSource(t) \/ LinkupFails(t)
  <2>1. past'.established = past.established
    BY <1>0, <1>10 DEF FindSource, LinkSource, LinkupFails, Form
  <2>2. /\ t.do \in {"add", "update"}
        /\ (\E at \in {"link", "linkup", "cut"} : svc' = Goes(t, at)) \/ svc' = Done(t)
    BY <1>10 DEF FindSource, LinkSource, LinkupFails, LinkFailed, Linking
  <2>3. CASE svc' = Done(t)
    BY <1>0, <2>1, <2>3 DEF Progress, Form
  <2>4. ASSUME NEW at \in {"link", "linkup", "cut"}, svc' = Goes(t, at)
        PROVE  Progress
    <3>1. \A d \in svc'.tasks : d \in svc.tasks \/ d.at = at
      BY <1>0, <2>2, <2>4, GoesTask
    <3> QED
      BY <2>1, <3>1 DEF Progress
  <2> QED
    BY <2>2, <2>3, <2>4
<1>11. CASE Linkup(t)
  <2> DEFINE next == [t EXCEPT !.at = IF t.do = "add" THEN "own" ELSE "write"]
             cut == [t EXCEPT !.at = "cut"]
  <2>1. /\ past'.established = past.established /\ t.do \in {"add", "update"} /\ t.id \in Subs
        /\ next.id = t.id /\ cut.at = "cut"
    BY <1>0, <1>11 DEF JInv, Steps, Linkup, Linking, Form, TaskForm
  <2>2. svc' = [Done(t) EXCEPT !.tasks = @ \cup {next}] \/ svc' = [Done(t) EXCEPT !.tasks = @ \cup {cut}] \/ svc' = Done(t)
    BY <1>11 DEF Linkup, LinkFailed
  <2> HIDE DEF next, cut
  <2>3. \A d \in svc'.tasks : d \in svc.tasks \/ d = next \/ d = cut
    <3>1. svc'.tasks \subseteq (svc.tasks \ {t}) \cup {next, cut}
      <4>1. CASE svc' = [Done(t) EXCEPT !.tasks = @ \cup {next}]
        BY <1>0, <4>1 DEF Form
      <4>2. CASE svc' = [Done(t) EXCEPT !.tasks = @ \cup {cut}]
        BY <1>0, <4>2 DEF Form
      <4>3. CASE svc' = Done(t)
        BY <1>0, <4>3 DEF Form
      <4> QED
        BY <2>2, <4>1, <4>2, <4>3
    <3> QED
      BY <3>1
  <2> QED
    BY <2>1, <2>3 DEF Progress
<1>12. CASE CutSubscription(t)
  BY <1>0, <1>12 DEF Progress, CutSubscription, StopSession, Form
<1>13. CASE ControlRead(t)
  <2>1. past'.established = past.established
    BY <1>0, <1>13 DEF ControlRead, Form
  <2>2. \A d \in svc'.tasks : d \in svc.tasks \/ d.do = "update"
    BY <1>0, <1>13 DEF ControlRead, UpdateSubscription, Form
  <2> QED
    BY <2>1, <2>2 DEF Progress
<1>14. CASE UpdateRead(t)
  <2>1. past'.established = past.established /\ t.do = "update" /\ (svc' = Goes(t, "source") \/ svc' = Done(t))
    BY <1>0, <1>14 DEF UpdateRead, Form
  <2>2. CASE svc' = Done(t)
    BY <1>0, <2>1, <2>2 DEF Progress, Form
  <2>3. CASE svc' = Goes(t, "source")
    <3>0. t.do \in {"add", "update", "remove"}
      BY <2>1
    <3>1. PICK at \in {"source"} : svc' = Goes(t, at)
      BY <2>3
    <3>2. \A d \in svc'.tasks : d \in svc.tasks \/ (d.do = t.do /\ d.id = t.id /\ d.at = at)
      BY <1>0, <3>0, <3>1, GoesTask
    <3>3. \A d \in svc'.tasks : d \in svc.tasks \/ d.at = "source"
      BY <3>1, <3>2
    <3> QED
      BY <2>1, <3>3 DEF Progress
  <2> QED
    BY <2>1, <2>2, <2>3
<1>15. CASE UpdateWrite(t)
  <2>1. past'.established = past.established
    BY <1>0, <1>15 DEF UpdateWrite, Form
  <2>2. \A d \in svc'.tasks : d \in svc.tasks \/ d.do = "update"
    BY <1>0, <1>15 DEF UpdateWrite, UpdateSubscription, Form, TaskForm
  <2> QED
    BY <2>1, <2>2 DEF Progress
<1>16. CASE SessionStopped(t) \/ SessionNotStopped(t)
  <2>1. past'.established = past.established /\ svc' = Stopped(t)
    BY <1>0, <1>16 DEF SessionStopped, SessionNotStopped, Form
  <2>2. \A d \in svc'.tasks : d \in svc.tasks \/ d.do = "remove"
    BY <1>0, <2>1 DEF Stopped, OnSessionAborted, RemoveSession, Form
  <2> QED
    BY <2>1, <2>2 DEF Progress
<1>17. CASE RemoveRead(t)
  BY <1>0, <1>17 DEF Progress, RemoveRead, Form
<1>18. CASE RemoveDelete(t)
  <2>1. past'.established = past.established /\ t.do = "remove"
    BY <1>18 DEF RemoveDelete
  <2>2. CASE svc' = Done(t)
    BY <1>0, <2>1, <2>2 DEF Progress, Form
  <2>3. CASE svc' # Done(t)
    <3>1. PICK at : svc' = [Goes(t, at) EXCEPT !.ongoing[t.id] = "no"]
      BY <1>18, <2>3 DEF RemoveDelete
    <3>2. svc'.tasks = Goes(t, at).tasks
      BY <1>0, <3>1 DEF Form
    <3>3. \A d \in svc'.tasks : d \in svc.tasks \/ d.do = "remove"
      BY <1>0, <2>1, <3>2, GoesTask
    <3> QED
      BY <2>1, <3>3 DEF Progress
  <2> QED
    BY <2>2, <2>3
<1>19. CASE CleanTracks(t)
  <2>1. past'.established = past.established
    BY <1>0, <1>19 DEF CleanTracks, Form
  <2>2. \A d \in svc'.tasks : d \in svc.tasks \/ d.do = "related"
    <3>1. \A n \in Related(t.id, store.tracks[t.id]) : n.do = "related"
      BY DEF Related
    <3>2. PICK N : N = Related(t.id, store.tracks[t.id])
      OBVIOUS
    <3>3. svc'.tasks \subseteq svc.tasks \cup N
      BY <1>0, <1>19, <3>2 DEF CleanTracks, Form
    <3> QED
      BY <3>1, <3>2, <3>3
  <2> QED
    BY <2>1, <2>2 DEF Progress
<1>20. CASE StopRelated(t)
  BY <1>0, <1>20 DEF Progress, StopRelated, StopSession, Form
<1>21. CASE CutRemoved(t)
  BY <1>0, <1>21 DEF Progress, CutRemoved, Form
<1> QED
  BY <1>1, <1>2, <1>3, <1>4, <1>5, <1>6, <1>7, <1>8, <1>9, <1>10, <1>11, <1>12, <1>13, <1>14,
     <1>15, <1>16, <1>17, <1>18, <1>19, <1>20, <1>21 DEF GoesOn

LEMMA NextLasting ==
  ASSUME JInv, [Next]_vars
  PROVE  Lasting
<1>0. Form
  BY DEF JInv, IInv
<1>1. CASE \E u \in Users : Join(u) \/ Leave(u)
  <2>1. Progress
    BY <1>0, <1>1 DEF Progress, Join, Leave, Form
  <2> QED
    BY <2>1, ProgressLasting
<1>2. CASE \E i \in Sessions : Request(i) \/ Established(i) \/ TransportFailed(i) \/ End(i)
  <2> PICK i \in Sessions : Request(i) \/ Established(i) \/ TransportFailed(i) \/ End(i)
    BY <1>2
  <2>1. CASE Request(i)
    <3>1. past'.established = past.established
      BY <1>0, <2>1 DEF Request, Form
    <3>2. \A d \in svc'.tasks : d \in svc.tasks \/ d.do = "request"
      <4> DEFINE r == [do |-> "request", id |-> i, at |-> "read"]
      <4>1. r.do = "request"
        OBVIOUS
      <4>2. PICK s \in Pubs : svc' = [[svc EXCEPT !.from = Put(svc.from, i, s)] EXCEPT !.tasks = @ \cup {r}]
        BY <1>0, <2>1 DEF Request, Form
      <4> HIDE DEF r
      <4>3. svc'.tasks = svc.tasks \cup {r}
        BY <1>0, <4>2 DEF Form
      <4> QED
        BY <4>1, <4>3
    <3> QED
      BY <3>1, <3>2, ProgressLasting DEF Progress
  <2>2. CASE Established(i)
    BY <1>0, <2>2, ProgressLasting DEF Progress, Established, Form
  <2>3. CASE TransportFailed(i)
    BY <1>0, <2>3, ProgressLasting DEF Progress, TransportFailed, Form
  <2>4. CASE End(i)
    BY <1>0, <2>4, ProgressLasting DEF Progress, End, StopSession, Form
  <2> QED
    BY <2>1, <2>2, <2>3, <2>4
<1>3. CASE \E x \in Subs, s \in Pubs : Control(x, s)
  <2>1. Progress
    BY <1>0, <1>3 DEF Progress, Control, Form
  <2> QED
    BY <2>1, ProgressLasting
<1>4. CASE \E t \in svc.tasks : GoesOn(t)
  BY <1>4, GoesOnLasting
<1>5. CASE UNCHANGED vars
  BY <1>5, ProgressLasting DEF Progress, vars
<1> QED
  BY <1>1, <1>2, <1>3, <1>4, <1>5 DEF Next

LEMMA GoesOnJInv ==
  ASSUME JInv, IInv', Lasting, NEW t \in svc.tasks, GoesOn(t)
  PROVE  JInv'
<1>1. CASE LeaveRead(t)
  BY <1>1, LeaveReadJInv
<1>2. CASE RemoveParticipant(t)
  BY <1>2, RemoveParticipantJInv
<1>3. CASE Clean(t)
  BY <1>3, CleanJInv
<1>4. CASE RequestRead(t)
  BY <1>4, RequestReadJInv
<1>5. CASE SessionCreated(t)
  BY <1>5, SessionCreatedJInv
<1>6. CASE SessionNotCreated(t)
  BY <1>6, SessionNotCreatedJInv
<1>7. CASE AddUser(t)
  BY <1>7, AddUserJInv
<1>8. CASE NoInternalAddress(t)
  BY <1>8, NoInternalAddressJInv
<1>9. CASE Own(t)
  <2>1. t.id \in Pubs \/ t.id \in Subs
    BY <1>9 DEF JInv, IInv, Tasks, TaskForm, Sessions, Own
  <2> QED
    BY <1>9, <2>1, OwnSubscription, OwnPublication
<1>10. CASE Create(t)
  <2>1. t.id \in Pubs \/ t.id \in Subs
    BY <1>10 DEF JInv, IInv, Tasks, TaskForm, Sessions, Create
  <2> QED
    BY <1>10, <2>1, CreateSubscription, CreatePublication
<1>11. CASE CheckAborted(t)
  BY <1>11, CheckAbortedJInv
<1>12. CASE FindSource(t)
  BY <1>12, FindSourceJInv
<1>13. CASE LinkSource(t)
  BY <1>13, LinkSourceJInv
<1>14. CASE Linkup(t)
  BY <1>14, LinkupJInv
<1>15. CASE LinkupFails(t)
  BY <1>15, LinkupFailsJInv
<1>16. CASE CutSubscription(t)
  BY <1>16, CutSubscriptionJInv
<1>17. CASE ControlRead(t)
  BY <1>17, ControlReadJInv
<1>18. CASE UpdateRead(t)
  BY <1>18, UpdateReadJInv
<1>19. CASE UpdateWrite(t)
  BY <1>19, UpdateWriteJInv
<1>20. CASE SessionStopped(t)
  BY <1>20, SessionStoppedJInv
<1>21. CASE SessionNotStopped(t)
  BY <1>21, SessionNotStoppedJInv
<1>22. CASE RemoveRead(t)
  BY <1>22, RemoveReadJInv
<1>23. CASE RemoveDelete(t)
  BY <1>23, RemoveDeleteJInv
<1>24. CASE CleanTracks(t)
  BY <1>24, CleanTracksJInv
<1>25. CASE StopRelated(t)
  BY <1>25, StopRelatedJInv
<1>26. CASE CutRemoved(t)
  BY <1>26, CutRemovedJInv
<1> QED
  BY <1>1, <1>2, <1>3, <1>4, <1>5, <1>6, <1>7, <1>8, <1>9, <1>10, <1>11, <1>12, <1>13, <1>14,
     <1>15, <1>16, <1>17, <1>18, <1>19, <1>20, <1>21, <1>22, <1>23, <1>24, <1>25, <1>26 DEF GoesOn

LEMMA NextJInv ==
  ASSUME JInv, [Next]_vars
  PROVE  JInv'
<1>0. IInv' /\ Lasting
  BY NextIInv, NextLasting DEF JInv
<1>1. CASE \E u \in Users : Join(u) \/ Leave(u)
  BY <1>0, <1>1, JoinJInv, LeaveJInv
<1>2. CASE \E i \in Sessions : Request(i) \/ Established(i) \/ TransportFailed(i) \/ End(i)
  BY <1>0, <1>2, RequestJInv, EstablishedJInv, TransportFailedJInv, EndJInv
<1>3. CASE \E x \in Subs, s \in Pubs : Control(x, s)
  BY <1>0, <1>3, ControlJInv
<1>4. CASE \E t \in svc.tasks : GoesOn(t)
  BY <1>0, <1>4, GoesOnJInv
<1>5. CASE UNCHANGED vars
  <2>1. store' = store /\ svc' = svc /\ node' = node /\ past' = past
    BY <1>5 DEF vars
  <2>2. \A y, do : TasksOf(y, do)' = TasksOf(y, do)
    BY <2>1 DEF TasksOf
  <2>3. Steps'
    BY <2>1 DEF JInv, Steps
  <2>4. Tracks'
    BY <2>1, <2>2, TracksKept DEF JInv
  <2>5. Quieted
    BY <2>1, <2>2 DEF JInv, Known, Stops, Quieted, Quiet, Calm, Outside
  <2> QED
    BY <1>0, <2>3, <2>4, <2>5, QuietedJInv
<1> QED
  BY <1>1, <1>2, <1>3, <1>4, <1>5 DEF Next

LEMMA InitJInv ==
  ASSUME Init
  PROVE  JInv
<1>1. /\ svc.tasks = {} /\ store.tracks = <<>> /\ store.subs = <<>> /\ node.links = <<>>
      /\ past.mishaps = {} /\ past.requested = {} /\ svc.updating = {}
  BY DEF Init, Nothing
<1>2. DOMAIN store.tracks = {} /\ DOMAIN store.subs = {} /\ DOMAIN node.links = {}
  BY <1>1
<1>3. \A x, do : TasksOf(x, do) = {}
  BY <1>1 DEF TasksOf
<1>4. Steps /\ Tracks
  BY <1>1, <1>2 DEF Steps, Tracks
<1>5. ASSUME NEW x \in Subs
      PROVE  Known(x)
  <2>1. ASSUME NEW s, NEW ats, Takes(x, s, ats)
        PROVE  FALSE
    BY <1>2, <1>3, <2>1 DEF Takes
  <2>2. Updates(x) /\ Stops(x) /\ Removed(x) /\ LinkKnown(x) /\ TrackKnown(x) /\ Wanted(x)
    BY <1>1, <1>2, <1>3 DEF Updates, Stops, Removed, LinkKnown, TrackKnown, Wanted
  <2>3. Linked(x) /\ Told(x) /\ Sent(x)
    BY <2>1 DEF Linked, Told, Sent
  <2> QED
    BY <2>2, <2>3 DEF Known
<1> QED
  BY <1>4, <1>5, InitIInv DEF JInv

LEMMA LinksInvariant == Spec => []JInv
<1>1. Init => JInv
  BY InitJInv
<1>2. JInv /\ [Next]_vars => JInv'
  BY NextJInv
<1> QED
  BY <1>1, <1>2, PTL DEF Spec

-----------------------------------------------------------------------------
(* What is known with no task under way.                                   *)
LEMMA RestKnown ==
  ASSUME JInv, AtRest, NEW x \in Subs
  PROVE  /\ Known(x) /\ ~Busy(x) /\ \A do : TasksOf(x, do) = {}
         /\ x \in DOMAIN store.subs =>
              /\ \A ats : Takes(x, store.subs[x], ats)
              /\ svc.ongoing[x] # "aborted" /\ <<"stale_cut", x>> \notin past.mishaps
              /\ x \in past.requested
<1>1. Known(x) /\ \A do : TasksOf(x, do) = {}
  BY DEF JInv, AtRest, TasksOf
<1>2. ~Busy(x)
  BY <1>1 DEF Busy
<1>3. ASSUME x \in DOMAIN store.subs
      PROVE  /\ \A ats : Takes(x, store.subs[x], ats)
             /\ svc.ongoing[x] # "aborted" /\ <<"stale_cut", x>> \notin past.mishaps
             /\ x \in past.requested
  <2>1. \A ats : Takes(x, store.subs[x], ats)
    BY <1>2, <1>3 DEF Takes
  <2>2. svc.ongoing[x] # "aborted"
    BY <1>3 DEF JInv, IInv, Operations, Ending, AtRest, Sessions
  <2>3. <<"stale_cut", x>> \notin past.mishaps
    BY <1>1, <1>3 DEF Known, Removed
  <2>4. x \in past.requested
    BY <1>3 DEF JInv, IInv, Documents, Tables, Sessions
  <2> QED
    BY <2>1, <2>2, <2>3, <2>4
<1> QED
  BY <1>1, <1>2, <1>3

(* The tracks there are belong to publications that are stored.            *)
LEMMA RestTracks ==
  ASSUME JInv, AtRest, NEW s \in DOMAIN store.tracks
  PROVE  s \in store.pubs
  BY DEF JInv, Tracks, TasksOf, Creating, AtRest

(* Whatever ends, fails or comes at the same moment, with no task under    *)
(* way no subscription takes a publication that is gone, but for those the *)
(* code forgets: cleanSession reads the tracks and stops what is linked.   *)
THEOREM SourcesAreStored == Spec => []SourcesStored
<1>1. ASSUME JInv
      PROVE  SourcesStored
  <2> SUFFICES ASSUME AtRest, NEW x \in DOMAIN store.subs
               PROVE  \/ store.subs[x] \in store.pubs
                      \/ Excused(LostLinks \cup {"linking", "overtaken", "other_engine"}, x)
    BY DEF SourcesStored
  <2>1. x \in Subs
    BY <1>1 DEF JInv, IInv, Tables
  <2>2. /\ Told(x) /\ TasksOf(x, "related") = {} /\ svc.ongoing[x] # "aborted"
        /\ Takes(x, store.subs[x], {"linkup", "own", "create", "write"})
    BY <1>1, <2>1, RestKnown DEF Known
  <2>3. \/ store.subs[x] \in DOMAIN store.tracks
        \/ Excused(LostLinks \cup {"linking", "overtaken", "other_engine"}, x)
    BY <2>2 DEF Told
  <2> QED
    BY <1>1, <2>3, RestTracks
<1> QED
  BY <1>1, LinksInvariant, PTL

(* The document of a subscription, the track of its publication and the    *)
(* link of its node are changed by separate calls, with others between     *)
(* them; when no task is under way they agree, but for known mishaps.      *)
THEOREM LinksAreKnown == Spec => []LinksAgree
<1>1. ASSUME JInv
      PROVE  LinksAgree
  <2> SUFFICES ASSUME AtRest, NEW x \in Subs
               PROVE  LET tracks == {s \in DOMAIN store.tracks : x \in store.tracks[s]}
                      IN IF x \in DOMAIN store.subs
                         THEN \/ Excused(LostLinks \cup {"transport_failed", "overtaken"}, x)
                              \/ /\ x \in DOMAIN node.links /\ node.links[x] = store.subs[x]
                                 /\ tracks = {store.subs[x]} \cap DOMAIN store.tracks
                         ELSE x \notin DOMAIN node.links /\ (tracks = {} \/ Excused({"stale_cut", "update_failed"}, x))
    BY DEF LinksAgree
  <2> DEFINE tracks == {s \in DOMAIN store.tracks : x \in store.tracks[s]}
  <2>1. Known(x) /\ ~Busy(x) /\ \A do : TasksOf(x, do) = {}
    BY <1>1, RestKnown
  <2>2. CASE x \in DOMAIN store.subs
    <3>1. SUFFICES ASSUME ~Excused(LostLinks \cup {"transport_failed", "overtaken"}, x)
                   PROVE  /\ x \in DOMAIN node.links /\ node.links[x] = store.subs[x]
                          /\ tracks = {store.subs[x]} \cap DOMAIN store.tracks
      BY <2>2
    <3>2. /\ \A ats : Takes(x, store.subs[x], ats)
          /\ svc.ongoing[x] # "aborted" /\ <<"stale_cut", x>> \notin past.mishaps
      BY <1>1, <2>2, RestKnown
    <3>3. ~Excused(LostLinks \cup {"transport_failed"}, x) /\ ~Excused(LostLinks, x)
      BY <3>1 DEF Excused
    <3>4. x \in DOMAIN node.links /\ node.links[x] = store.subs[x]
      BY <2>1, <3>2, <3>3 DEF Known, Sent
    <3>5. ASSUME NEW s \in DOMAIN store.tracks, x \in store.tracks[s]
          PROVE  s = store.subs[x]
      <4>1. ~Excused({"stale_cut", "update_failed"}, x)
        BY <3>1, <3>2 DEF Excused, LostLinks
      <4> QED
        BY <2>1, <3>5, <4>1 DEF Known, TrackKnown
    <3>6. store.subs[x] \in DOMAIN store.tracks => x \in store.tracks[store.subs[x]]
      BY <2>1, <3>2, <3>3 DEF Known, Linked
    <3> QED
      BY <3>4, <3>5, <3>6
  <2>3. CASE x \notin DOMAIN store.subs
    <3>1. x \notin DOMAIN node.links
      BY <2>1, <2>3 DEF Known, LinkKnown
    <3>2. tracks = {} \/ Excused({"stale_cut", "update_failed"}, x)
      BY <2>1, <2>3 DEF Known, TrackKnown
    <3> QED
      BY <2>3, <3>1, <3>2
  <2> QED
    BY <2>2, <2>3
<1> QED
  BY <1>1, LinksInvariant, PTL

(* The last update of a subscription is the one that stays, however many   *)
(* came while another was under way: updateSubscription keeps only the     *)
(* last of those, and begins it when the one before is done.               *)
THEOREM LastUpdateApplies == Spec => []UpdatesApplied
<1>1. ASSUME JInv
      PROVE  UpdatesApplied
  <2> SUFFICES ASSUME AtRest, NEW x \in DOMAIN store.subs
               PROVE  \/ store.subs[x] = past.want[x]
                      \/ Excused({"update_early", "update_failed", "update_same"}, x)
    BY DEF UpdatesApplied
  <2>1. x \in Subs
    BY <1>1 DEF JInv, IInv, Tables
  <2>2. Wanted(x) /\ TasksOf(x, "update") = {} /\ x \in past.requested
    BY <1>1, <2>1, RestKnown DEF Known
  <2> QED
    BY <2>2 DEF Wanted
<1> QED
  BY <1>1, LinksInvariant, PTL
=============================================================================
