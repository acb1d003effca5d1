---------------------------- MODULE StreamService ---------------------------
(***************************************************************************)
(* The stream service (stream_service/streamService.js) with its RTC       *)
(* controller (controllers/rtcController.js), its domain handler and the   *)
(* documents it keeps in MongoDB (stateStores.js).                         *)
(*                                                                         *)
(* An engine keeps in memory which publications and subscriptions it has   *)
(* begun, whether they were aborted, and their operations on the WebRTC    *)
(* nodes.  What is set up is in the database: participants with the lists  *)
(* of what they own, publications, their source tracks with the            *)
(* subscriptions linked to them, subscriptions, and the sessions of the    *)
(* nodes.  There are no transactions: a function is a task that goes on    *)
(* with the answer of each call of the database or of a node, and any      *)
(* other task may come between.                                            *)
(*                                                                         *)
(* Several engines share the database; a participant is served by one of   *)
(* them.  Identifiers are used once.  A session has one track, and a       *)
(* transport of its own.                                                   *)
(***************************************************************************)
EXTENDS Integers, Functions

CONSTANTS Users, Pubs, Subs,
          Bounds     \* the bounds a behaviour may choose: the owner of each
                     \* session that may be asked for, the engine of each
                     \* participant, who may leave and what may be ended,
                     \* how often calls and transports fail, and how many
                     \* updates of subscriptions there are

Sessions == Pubs \cup Subs

ASSUME BoundsAssumption ==
  \A b \in Bounds : /\ DOMAIN b.owner \subseteq Sessions /\ Range(b.owner) \subseteq DOMAIN b.home
                    /\ DOMAIN b.home = Users /\ b.ends \subseteq Users \cup Sessions
                    /\ {b.faults, b.updates} \subseteq Nat

ASSUME SessionsAssumption == Pubs \cap Subs = {}

VARIABLES store,     \* the documents
          svc,       \* the engines' memory and the tasks under way
          node,      \* the nodes: destinations that are there, and their links
          past,      \* what was asked for, and what went wrong
          bound      \* the bounds of this behaviour

vars == <<store, svc, node, past, bound>>

Nothing == <<>>
Put(f, e, v) == [d \in DOMAIN f \cup {e} |-> IF d = e THEN v ELSE f[d]]
Without(f, e) == Restrict(f, DOMAIN f \ {e})

Owner(i) == bound.owner[i]
Home(i) == bound.home[Owner(i)]
Stored(i) == i \in store.pubs \/ i \in DOMAIN store.subs
Requested == past.requested

Task(R, t) == [R EXCEPT !.tasks = @ \cup {t}]
Done(t) == [svc EXCEPT !.tasks = @ \ {t}]
Goes(t, at) == Task(Done(t), [t EXCEPT !.at = at])

At(t, do, at) == t.do = do /\ t.at = at
Notes(es) == past' = [past EXCEPT !.mishaps = @ \cup es]
Fail == past.faults < bound.faults /\ past' = [past EXCEPT !.faults = @ + 1]

-----------------------------------------------------------------------------
(* What an engine does to its memory.                                      *)

(* A session is stopped: an engine that does not know it throws, and so    *)
(* does the controller if its operation is gone.                           *)
StopSession(R, e, i) ==
  IF e # Home(i) \/ R.ongoing[i] = "no" THEN R
  ELSE LET A == [R EXCEPT !.ongoing[i] = "aborted"]
       IN IF i \in R.ops THEN Task(A, [do |-> "stop", id |-> i, at |-> "node"]) ELSE A

RemoveSession(R, i) == Task(R, [do |-> "remove", id |-> i, at |-> "read", from |-> i])

(* Faulty: a session that was stopped is taken for one that is gone.       *)
OnSessionAborted_running(R, i) ==
  IF R.ongoing[i] # "yes" THEN R ELSE RemoveSession([R EXCEPT !.ongoing[i] = "aborted"], i)

(* The controller's event `session-aborted'.                               *)
OnSessionAborted(R, i) ==
  IF R.ongoing[i] = "no" THEN R ELSE RemoveSession([R EXCEPT !.ongoing[i] = "aborted"], i)

(* Faulty: an update that comes during another is dropped.                 *)
UpdateSubscription_drops(R, x, s) ==
  IF R.ongoing[x] = "no" \/ x \in R.updating THEN R
  ELSE Task([R EXCEPT !.updating = @ \cup {x}], [do |-> "update", id |-> x, at |-> "read", from |-> s])

(* One update at a time; the last one asked for meanwhile waits.           *)
UpdateSubscription(R, x, s) ==
  IF R.ongoing[x] = "no" THEN R
  ELSE IF x \in R.updating THEN [R EXCEPT !.next = Put(@, x, s)]
  ELSE Task([R EXCEPT !.updating = @ \cup {x}], [do |-> "update", id |-> x, at |-> "read", from |-> s])

-----------------------------------------------------------------------------
Init ==
  /\ bound \in Bounds
  /\ store = [users |-> Nothing, pubs |-> {}, tracks |-> Nothing, subs |-> Nothing, listed |-> {}]
  /\ svc = [ongoing |-> [i \in Sessions |-> "no"], ops |-> {}, members |-> {}, from |-> Nothing,
            updating |-> {}, next |-> Nothing, tasks |-> {}]
  /\ node = [dests |-> {}, links |-> Nothing]
  /\ past = [joined |-> {}, left |-> {}, requested |-> {}, established |-> {}, want |-> Nothing,
             updates |-> 0, faults |-> 0, mishaps |-> {}]

Join(u) ==
  /\ u \notin past.joined
  /\ store' = [store EXCEPT !.users = Put(@, u, {})]
  /\ svc' = [svc EXCEPT !.members = @ \cup {u}]
  /\ past' = [past EXCEPT !.joined = @ \cup {u}]
  /\ UNCHANGED <<node, bound>>

(* leave: the participant is read and deleted; what the document listed    *)
(* when it was read is stopped, as far as it is there.                     *)
Leave(u) ==
  /\ u \in (bound.ends \cap past.joined) \ past.left
  /\ svc' = Task(svc, [do |-> "leave", id |-> u, at |-> "read", list |-> {}])
  /\ past' = [past EXCEPT !.left = @ \cup {u}]
  /\ UNCHANGED <<store, node, bound>>

LeaveRead(t) ==
  /\ At(t, "leave", "read")
  /\ svc' = Task(Done(t), [do |-> "leave", id |-> t.id, at |-> "delete", list |-> store.users[t.id]])
  /\ UNCHANGED <<store, node, past, bound>>

(* Faulty: publications are left.                                          *)
RemoveParticipant_subscriptions(t) ==
  /\ At(t, "leave", "delete")
  /\ store' = [store EXCEPT !.users = Without(@, t.id)]
  /\ LET R == [Done(t) EXCEPT !.members = @ \ {t.id}]
     IN svc' = [R EXCEPT !.tasks = @ \cup {[do |-> "clean", id |-> i, at |-> "read"] : i \in t.list \cap Subs}]
  /\ Notes({<<"left_meanwhile", i>> : i \in store.users[t.id] \ t.list})
  /\ UNCHANGED <<node, bound>>

RemoveParticipant(t) ==
  /\ At(t, "leave", "delete")
  /\ store' = [store EXCEPT !.users = Without(@, t.id)]
  /\ LET R == [Done(t) EXCEPT !.members = @ \ {t.id}]
     IN svc' = [R EXCEPT !.tasks = @ \cup {[do |-> "clean", id |-> i, at |-> "read"] : i \in t.list}]
  /\ Notes({<<"left_meanwhile", i>> : i \in store.users[t.id] \ t.list})
  /\ UNCHANGED <<node, bound>>

(* A session that is listed and not stored yet is not found.               *)
Clean(t) ==
  /\ t.do = "clean"
  /\ svc' = IF Stored(t.id) THEN StopSession(Done(t), Home(t.id), t.id) ELSE Done(t)
  /\ Notes(IF Stored(t.id) THEN {} ELSE {<<"left_meanwhile", t.id>>})
  /\ UNCHANGED <<store, node, bound>>

-----------------------------------------------------------------------------
(* publish and subscribe                                                   *)
Request(i) ==
  /\ i \in DOMAIN bound.owner \ Requested /\ Owner(i) \in past.joined \ past.left
  /\ \E s \in Pubs :
       /\ i \in Pubs => s = i
       /\ svc' = Task([svc EXCEPT !.from = Put(@, i, s)], [do |-> "request", id |-> i, at |-> "read"])
       /\ past' = [past EXCEPT !.requested = @ \cup {i}, !.want = Put(@, i, s)]
  /\ UNCHANGED <<store, node, bound>>

Allowed(u) == u \in DOMAIN store.users /\ u \in svc.members

(* The participant is there, and the domain handler agrees.  subscribe     *)
(* enters the session in the engine's table before its node has answered,  *)
(* publish afterwards.                                                     *)
RequestRead(t) ==
  /\ At(t, "request", "read")
  /\ svc' = IF ~Allowed(Owner(t.id)) THEN Done(t)
            ELSE IF t.id \in Pubs THEN Goes(t, "node") ELSE [Goes(t, "node") EXCEPT !.ongoing[t.id] = "yes"]
  /\ UNCHANGED <<store, node, past, bound>>

SessionCreated(t) ==
  /\ At(t, "request", "node")
  /\ svc' = [Done(t) EXCEPT !.ops = @ \cup {t.id}, !.ongoing[t.id] = "yes"]
  /\ UNCHANGED <<store, node, past, bound>>

(* No node, or a node that does not answer: then the operation stays.      *)
SessionNotCreated(t) ==
  /\ At(t, "request", "node")
  /\ Fail
  /\ \E left \in {{}, {t.id}} : svc' = [Done(t) EXCEPT !.ops = @ \cup left]
  /\ UNCHANGED <<store, node, bound>>

(* The tracks are complete and the transport is ready.                     *)
Established(i) ==
  /\ i \in svc.ops \ past.established
  /\ past' = [past EXCEPT !.established = @ \cup {i}]
  /\ node' = IF i \in Subs THEN [node EXCEPT !.dests = @ \cup {i}] ELSE node
  /\ svc' = IF svc.ongoing[i] = "no" THEN svc
            ELSE Task(svc, [do |-> "add", id |-> i, at |-> "user", from |-> svc.from[i]])
  /\ UNCHANGED <<store, bound>>

(* The transport fails: its node destroys it, and nobody listens to        *)
(* `transport-aborted'.                                                    *)
TransportFailed(i) ==
  /\ i \in svc.ops /\ i \in past.established
  /\ past.faults < bound.faults
  /\ past' = [past EXCEPT !.faults = @ + 1, !.mishaps = @ \cup {<<"transport_failed", i>>}]
  /\ node' = [dests |-> node.dests \ {i}, links |-> Without(node.links, i)]
  /\ UNCHANGED <<store, svc, bound>>

-----------------------------------------------------------------------------
(* addPublication and addSubscription                                      *)
AddUser(t) ==
  /\ At(t, "add", "user")
  /\ svc' = IF Owner(t.id) \notin DOMAIN store.users THEN StopSession(Done(t), Home(t.id), t.id)
            ELSE Goes(t, IF t.id \in Pubs THEN "own" ELSE "source")
  /\ UNCHANGED <<store, node, past, bound>>

NoInternalAddress(t) ==
  /\ At(t, "add", "own") /\ t.id \in Pubs
  /\ Fail
  /\ svc' = StopSession(Done(t), Home(t.id), t.id)
  /\ UNCHANGED <<store, node, bound>>

(* An update of a document that is not there is no error.                  *)
Own(t) ==
  /\ At(t, "add", "own")
  /\ LET u == Owner(t.id)
         L == [store EXCEPT !.listed = @ \cup {t.id}]
         listed == IF u \in DOMAIN store.users THEN [L EXCEPT !.users[u] = @ \cup {t.id}] ELSE L
     IN /\ store' = IF t.id \in Pubs THEN [listed EXCEPT !.tracks = Put(@, t.id, {})] ELSE listed
        /\ Notes(IF u \in DOMAIN store.users THEN {} ELSE {<<"left_meanwhile", t.id>>})
  /\ svc' = Goes(t, "create")
  /\ UNCHANGED <<node, bound>>

Create(t) ==
  /\ At(t, "add", "create")
  /\ store' = IF t.id \in Pubs THEN [store EXCEPT !.pubs = @ \cup {t.id}]
              ELSE [store EXCEPT !.subs = Put(@, t.id, t.from)]
  /\ svc' = Goes(t, "check")
  /\ UNCHANGED <<node, past, bound>>

CheckAborted(t) ==
  /\ At(t, "add", "check")
  /\ svc' = IF svc.ongoing[t.id] = "aborted" THEN RemoveSession(Done(t), t.id) ELSE Done(t)
  /\ UNCHANGED <<store, node, past, bound>>

-----------------------------------------------------------------------------
(* linkSubscription and cutSubscription                                    *)
Cut(S, x, s) ==
  IF s \in DOMAIN S.tracks THEN [S EXCEPT !.tracks[s] = @ \ {x}] ELSE S
Cutoff(x) == node' = [node EXCEPT !.links = Without(@, x)]

Linking(t, at) == t.do \in {"add", "update"} /\ t.at = at

(* A link that fails is cut and the subscription stopped; that of an       *)
(* update is left, and the subscription is updated never more.             *)
LinkFailed(t) == IF t.do = "add" THEN Goes(t, "cut") ELSE Done(t)
Failed(t) == IF t.do = "add" THEN {} ELSE {<<"update_failed", t.id>>}

FindSource(t) ==
  /\ Linking(t, "source")
  /\ LET found == t.from \in store.pubs /\ t.from \in DOMAIN store.tracks
     IN /\ svc' = IF found THEN Goes(t, "link") ELSE LinkFailed(t)
        /\ Notes(IF found THEN {} ELSE Failed(t))
  /\ UNCHANGED <<store, node, bound>>

LinkSource(t) ==
  /\ Linking(t, "link")
  /\ LET there == t.from \in DOMAIN store.tracks
     IN /\ store' = IF there THEN [store EXCEPT !.tracks[t.from] = @ \cup {t.id}] ELSE store
        /\ Notes(IF there THEN {} ELSE {<<"source_gone", t.id>>})
  /\ svc' = Goes(t, "linkup")
  /\ UNCHANGED <<node, bound>>

Linkup(t) ==
  /\ Linking(t, "linkup")
  /\ LET there == t.id \in node.dests
     IN /\ node' = IF there THEN [node EXCEPT !.links = Put(@, t.id, t.from)] ELSE node
        /\ svc' = IF there THEN Goes(t, IF t.do = "add" THEN "own" ELSE "write") ELSE LinkFailed(t)
        /\ Notes(IF there THEN {} ELSE Failed(t))
  /\ UNCHANGED <<store, bound>>

LinkupFails(t) ==
  /\ Linking(t, "linkup")
  /\ past.faults < bound.faults
  /\ past' = [past EXCEPT !.faults = @ + 1, !.mishaps = @ \cup Failed(t)]
  /\ svc' = LinkFailed(t)
  /\ UNCHANGED <<store, node, bound>>

CutSubscription(t) ==
  /\ Linking(t, "cut")
  /\ store' = Cut(store, t.id, t.from)
  /\ Cutoff(t.id)
  /\ svc' = IF t.do = "add" THEN StopSession(Done(t), Home(t.id), t.id) ELSE Done(t)
  /\ UNCHANGED <<past, bound>>

-----------------------------------------------------------------------------
(* subscriptionControl with an update: the subscription takes another      *)
(* publication.                                                            *)
Control(x, s) ==
  /\ x \in Requested /\ past.updates < bound.updates
  /\ past' = [past EXCEPT !.updates = @ + 1]
  /\ svc' = Task(svc, [do |-> "control", id |-> x, at |-> "read", from |-> s])
  /\ UNCHANGED <<store, node, bound>>

ControlRead(t) ==
  /\ At(t, "control", "read")
  /\ LET ok == Allowed(Owner(t.id)) /\ svc.ongoing[t.id] # "no"
     IN /\ svc' = IF ok THEN UpdateSubscription(Done(t), t.id, t.from) ELSE Done(t)
        /\ past' = IF ok THEN [past EXCEPT !.want[t.id] = t.from] ELSE past
  /\ UNCHANGED <<store, node, bound>>

(* Faulty: the link to the former source stays.                            *)
UpdateRead_uncut(t) ==
  /\ At(t, "update", "read")
  /\ svc' = IF Stored(t.id) THEN Goes(t, "source") ELSE Done(t)
  /\ Notes(IF Stored(t.id) THEN {} ELSE {<<"update_early", t.id>>})
  /\ UNCHANGED <<store, node, bound>>

(* An update of a subscription that is not stored ends here, and those     *)
(* that come later wait for it.                                            *)
UpdateRead(t) ==
  /\ At(t, "update", "read")
  /\ IF Stored(t.id)
     THEN /\ store' = Cut(store, t.id, store.subs[t.id])
          /\ Cutoff(t.id)
          /\ svc' = Goes(t, "source")
     ELSE UNCHANGED <<store, node>> /\ svc' = Done(t)
  /\ Notes(IF Stored(t.id) THEN {} ELSE {<<"update_early", t.id>>})
  /\ UNCHANGED bound

(* Faulty: what waits for this update is not begun.                        *)
UpdateWrite_alone(t) ==
  /\ At(t, "update", "write")
  /\ LET x == t.id
         modified == x \in DOMAIN store.subs /\ store.subs[x] # t.from
     IN /\ store' = IF modified THEN [store EXCEPT !.subs[x] = t.from] ELSE store
        /\ svc' = IF modified THEN [Done(t) EXCEPT !.updating = @ \ {x}] ELSE Goes(t, "cut")
        /\ Notes(IF modified THEN {} ELSE {<<"update_same", x>>})
  /\ UNCHANGED <<node, bound>>

(* The document is changed, and the update that waits comes next.  A       *)
(* document that is gone and one that had this source already are not      *)
(* told apart: the link is cut again.                                      *)
UpdateWrite(t) ==
  /\ At(t, "update", "write")
  /\ LET x == t.id
         modified == x \in DOMAIN store.subs /\ store.subs[x] # t.from
         R == [Done(t) EXCEPT !.updating = @ \ {x}, !.next = Without(@, x)]
     IN /\ store' = IF modified THEN [store EXCEPT !.subs[x] = t.from] ELSE store
        /\ svc' = IF ~modified THEN Goes(t, "cut")
                  ELSE IF x \in DOMAIN svc.next THEN UpdateSubscription(R, x, svc.next[x]) ELSE R
        /\ Notes(IF modified THEN {} ELSE {<<"update_same", x>>})
  /\ UNCHANGED <<node, bound>>

-----------------------------------------------------------------------------
(* unpublish and unsubscribe                                               *)
End(i) ==
  /\ i \in bound.ends /\ Stored(i)
  /\ svc' = StopSession(svc, Home(i), i)
  /\ UNCHANGED <<store, node, past, bound>>

Stopped(t) ==
  IF t.id \in svc.ops THEN OnSessionAborted([Done(t) EXCEPT !.ops = @ \ {t.id}], t.id) ELSE Done(t)

(* The node ends the session; an answer that does not come is the same to  *)
(* the engine.                                                             *)
SessionStopped(t) ==
  /\ t.do = "stop"
  /\ node' = [dests |-> node.dests \ {t.id}, links |-> Without(node.links, t.id)]
  /\ svc' = Stopped(t)
  /\ UNCHANGED <<store, past, bound>>

SessionNotStopped(t) ==
  /\ t.do = "stop"
  /\ Fail
  /\ svc' = Stopped(t)
  /\ UNCHANGED <<store, node, bound>>

(* removePublication and removeSubscription                                *)
RemoveRead(t) ==
  /\ At(t, "remove", "read")
  /\ svc' = IF ~Stored(t.id) THEN Done(t)
            ELSE Task(Done(t), [do |-> "remove", id |-> t.id, at |-> "delete",
                                from |-> IF t.id \in Pubs THEN t.from ELSE store.subs[t.id]])
  /\ UNCHANGED <<store, node, past, bound>>

(* Whoever deletes the document does the rest, with what it has read.      *)
RemoveDelete(t) ==
  /\ At(t, "remove", "delete")
  /\ IF ~Stored(t.id) THEN UNCHANGED store /\ svc' = Done(t)
     ELSE /\ store' = [store EXCEPT !.pubs = @ \ {t.id}, !.subs = Without(@, t.id), !.listed = @ \ {t.id}]
          /\ svc' = [Goes(t, IF t.id \in Pubs THEN "tracks" ELSE "cut") EXCEPT !.ongoing[t.id] = "no"]
  /\ UNCHANGED <<node, past, bound>>

Related(s, xs) == {[do |-> "related", id |-> x, engine |-> Home(s)] : x \in xs}

(* Faulty: the tracks are deleted before their subscriptions are read.     *)
CleanTracks_delete_first(t) ==
  /\ At(t, "remove", "tracks")
  /\ svc' = Done(t)
  /\ store' = [store EXCEPT !.tracks = Without(@, t.id)]
  /\ UNCHANGED <<node, past, bound>>

(* The tracks are read and deleted, neither call waiting for the other.    *)
CleanTracks(t) ==
  /\ At(t, "remove", "tracks")
  /\ LET linked == store.tracks[t.id]
     IN \/ /\ svc' = [Done(t) EXCEPT !.tasks = @ \cup Related(t.id, linked)]
           /\ UNCHANGED past
        \/ /\ linked # {}
           /\ svc' = Done(t)
           /\ Notes({<<"overtaken", x>> : x \in linked})
  /\ store' = [store EXCEPT !.tracks = Without(@, t.id)]
  /\ UNCHANGED <<node, bound>>

(* A subscription of the publication that is gone, unless it is not stored *)
(* yet or belongs to another engine.                                       *)
StopRelated(t) ==
  /\ t.do = "related"
  /\ svc' = IF Stored(t.id) THEN StopSession(Done(t), t.engine, t.id) ELSE Done(t)
  /\ Notes(IF ~Stored(t.id) THEN {<<"linking", t.id>>}
           ELSE IF t.engine # Home(t.id) THEN {<<"other_engine", t.id>>} ELSE {})
  /\ UNCHANGED <<store, node, bound>>

CutRemoved(t) ==
  /\ At(t, "remove", "cut")
  /\ store' = Cut(store, t.id, t.from)
  /\ Cutoff(t.id)
  /\ svc' = Done(t)
  /\ Notes({<<"stale_cut", t.id>> : s \in {s \in DOMAIN store.tracks \ {t.from} : t.id \in store.tracks[s]}})
  /\ UNCHANGED bound

-----------------------------------------------------------------------------
GoesOn(t) ==
  \/ LeaveRead(t) \/ RemoveParticipant(t) \/ Clean(t)
  \/ RequestRead(t) \/ SessionCreated(t) \/ SessionNotCreated(t)
  \/ AddUser(t) \/ NoInternalAddress(t) \/ Own(t) \/ Create(t) \/ CheckAborted(t)
  \/ FindSource(t) \/ LinkSource(t) \/ Linkup(t) \/ LinkupFails(t) \/ CutSubscription(t)
  \/ ControlRead(t) \/ UpdateRead(t) \/ UpdateWrite(t)
  \/ SessionStopped(t) \/ SessionNotStopped(t)
  \/ RemoveRead(t) \/ RemoveDelete(t) \/ CleanTracks(t) \/ StopRelated(t) \/ CutRemoved(t)

Next ==
  \/ \E u \in Users : Join(u) \/ Leave(u)
  \/ \E i \in Sessions : Request(i) \/ Established(i) \/ TransportFailed(i) \/ End(i)
  \/ \E x \in Subs, s \in Pubs : Control(x, s)
  \/ \E t \in svc.tasks : GoesOn(t)

Spec == Init /\ [][Next]_vars

-----------------------------------------------------------------------------
AtRest == svc.tasks = {}

Excused(kinds, i) == \E k \in kinds : <<k, i>> \in past.mishaps

LostLinks == {"source_gone", "update_failed", "update_same"}

(* The types of the documents and tables, with what the code takes for     *)
(* granted: what is stored is known to its engine, a publication has its   *)
(* tracks, an update waits only for another one.                           *)
TypeOK ==
  /\ DOMAIN store.users \subseteq past.joined
  /\ store.pubs \subseteq Pubs /\ DOMAIN store.subs \subseteq Subs
  /\ store.pubs \subseteq DOMAIN store.tracks
  /\ \A i \in Sessions : Stored(i) => svc.ongoing[i] # "no"
  /\ svc.ops \subseteq Requested
  /\ DOMAIN svc.next \subseteq svc.updating
  /\ DOMAIN node.links \subseteq node.dests
  /\ past.faults \in 0 .. bound.faults

(* With no task under way, a subscription takes a publication that is      *)
(* there: the end of a publication ends what takes it, unless it was       *)
(* linked at that very moment, is served by another engine, or the read of *)
(* the tracks was overtaken by their deletion.                             *)
SourcesStored ==
  AtRest => \A x \in DOMAIN store.subs :
    store.subs[x] \in store.pubs \/ Excused(LostLinks \cup {"linking", "overtaken", "other_engine"}, x)

(* With no task under way, the owner of what is stored is there and lists  *)
(* it, so that its leave will end it, unless it left during the setup.     *)
OwnersStored ==
  AtRest => \A i \in Sessions : Stored(i) =>
    \/ Owner(i) \in DOMAIN store.users /\ i \in store.users[Owner(i)]
    \/ Excused({"left_meanwhile"}, i)

(* With no task under way, what is stored is carried by an operation that  *)
(* nobody has stopped, whenever that came, and the nodes list just that.   *)
EndedIsGone ==
  AtRest => /\ \A i \in Sessions : Stored(i) => i \in svc.ops /\ svc.ongoing[i] = "yes"
            /\ store.listed = store.pubs \cup DOMAIN store.subs

(* With no task under way, the document of a subscription, the track it    *)
(* takes and the node that sends it agree, and none knows of one that is   *)
(* gone.                                                                   *)
LinksAgree ==
  AtRest => \A x \in Subs :
    LET tracks == {s \in DOMAIN store.tracks : x \in store.tracks[s]}
    IN IF x \in DOMAIN store.subs
       THEN \/ Excused(LostLinks \cup {"transport_failed", "overtaken"}, x)
            \/ /\ x \in DOMAIN node.links /\ node.links[x] = store.subs[x]
               /\ tracks = {store.subs[x]} \cap DOMAIN store.tracks
       ELSE x \notin DOMAIN node.links /\ (tracks = {} \/ Excused({"stale_cut", "update_failed"}, x))

(* With no task under way, a subscription takes what it was last told to,  *)
(* unless an update came before it was stored, failed or changed nothing.  *)
UpdatesApplied ==
  AtRest => \A x \in DOMAIN store.subs :
    store.subs[x] = past.want[x] \/ Excused({"update_early", "update_failed", "update_same"}, x)
=============================================================================
