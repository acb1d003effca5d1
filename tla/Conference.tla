----------------------------- MODULE Conference -----------------------------
(***************************************************************************)
(* The conference of one room (agent/conference/conference.js) with its    *)
(* access controller (accessController.js) and its RTC controller          *)
(* (rtcController.js): who is in the room, which streams and subscriptions *)
(* there are, and the sessions and transports that carry them.             *)
(*                                                                         *)
(* A participant publishes and subscribes over WebRTC: an operation on a   *)
(* transport, which the RTC controller has made on a node when the first   *)
(* operation comes.  The REST interface starts streaming-in, recording and *)
(* streaming-out: a session of the access controller, owned by `admin'.    *)
(* Either kind is a stream or a subscription in connecting until its node  *)
(* reports it ready; only then is it given to the room controller.         *)
(*                                                                         *)
(* The three objects are the record `conf'; a function is an operator from *)
(* conf to the conf it leaves.  Every RPC is answered later, and the       *)
(* handler of the answer is one action.  Identifiers are used once.        *)
(***************************************************************************)
EXTENDS Integers, Sequences, FiniteSets, SequencesExt, Functions, TLC

CONSTANTS Users,     \* participants: each joins once
          Streams, Subs,
          Admin,     \* the participant `admin'
          Bounds     \* the bounds a behaviour may choose: which streams and
                     \* subscriptions are sessions, the others being operations,
                     \* how many participants and how many of either there
                     \* are, and how often calls, sessions and transports fail

ASSUME BoundsAssumption ==
  \A b \in Bounds : /\ b.sessions \subseteq Streams \cup Subs
                    /\ {b.users, b.streams, b.subs, b.faults} \subseteq Nat

(* No identifier is of two things, and there are only so many of them.     *)
ASSUME NamesAssumption ==
  Streams \cap Subs = {} /\ Admin \notin Users /\ IsFiniteSet(Streams \cup Subs)

VARIABLES conf,      \* the conference and its controllers, and the calls they wait for
          nodes,     \* the access nodes: sessions, transports, and the tasks the
                     \* cluster holds a node for
          faults,    \* failures so far
          bound      \* the bounds of this behaviour

vars == <<conf, nodes, faults, bound>>

Nothing == <<>>
Put(f, e, v) == [d \in DOMAIN f \cup {e} |-> IF d = e THEN v ELSE f[d]]
WithoutAll(f, es) == Restrict(f, DOMAIN f \ es)
Without(f, e) == WithoutAll(f, {e})
Note(R, e) == [R EXCEPT !.mishaps = @ \cup {e}]
Call(R, c) == [R EXCEPT !.calls = @ \cup {c}]

Present(R, u) == u \in R.users \cup {Admin}
Listed(R, i) == i \in DOMAIN R.streams \cup DOMAIN R.subs

-----------------------------------------------------------------------------
(* The loops of the code over streams, subscriptions and operations are    *)
(* operators on sets of them.                                              *)

(* What the room controller is told: streams are unpublished, with what    *)
(* takes them.                                                             *)
Unpublish(R, ss) ==
  [R EXCEPT !.pub = @ \ ss, !.taken = Restrict(@, {x \in DOMAIN R.taken : R.taken[x] \notin ss})]

(* ... and subscriptions that were ready are unsubscribed.                 *)
RemoveSubs(R, xs) ==
  [R EXCEPT !.taken = WithoutAll(@, {x \in xs \cap DOMAIN R.subs : R.subs[x].up}),
            !.subs = WithoutAll(@, xs),
            !.before = {p \in @ : p[1] \notin xs /\ p[2] \notin xs}]

(* Ending sessions and operations.  What is said of the end of a session   *)
(* is said at once, that of an operation when its node has answered.       *)
(* Faulty: the node of a session in connecting is not told.                *)
TerminateSessions_connected_only(R, is) ==
  LET begun == {i \in is \cap DOMAIN R.sessions : R.sessions[i].state = "connected"}
  IN [R EXCEPT !.calls = @ \cup {[call |-> "terminate", id |-> i, why |-> "session"] : i \in begun},
               !.sessions = WithoutAll(@, is \ begun)]

(* The sessions that their node has begun.                                 *)
Started(R, is) == {i \in is \cap DOMAIN R.sessions : R.sessions[i].state \in {"connecting", "connected"}}

TerminateSessions(R, is) ==
  [R EXCEPT !.calls = @ \cup {[call |-> "terminate", id |-> i, why |-> "session"] : i \in Started(R, is)},
            !.sessions = WithoutAll(@, is \ Started(R, is))]

TerminateOps(R, is, why) ==
  [R EXCEPT !.calls = @ \cup {[call |-> "terminate", id |-> i, why |-> why] : i \in is \cap DOMAIN R.ops}]

EndSubs(R, xs) ==
  LET sessions == xs \cap DOMAIN R.sessions
  IN RemoveSubs(TerminateSessions(TerminateOps(R, xs \ sessions, "asked"), sessions), sessions)

(* Faulty: the subscriptions to the streams stay.                          *)
RemoveStreams_keeps_subs(R, ss) ==
  LET there == ss \cap DOMAIN R.streams
  IN [Unpublish(R, {s \in there : R.streams[s].up}) EXCEPT !.streams = WithoutAll(@, there)]

(* The subscriptions to the streams are ended first, in the order in which *)
(* they came.  One that is a session in connecting has no tracks yet:      *)
(* reading them throws, whatever stream it is for, and the stream is left  *)
(* as it is.                                                               *)
RemoveStreams(R, ss) ==
  LET there == ss \cap DOMAIN R.streams
      untracked == {x \in DOMAIN R.subs : ~R.subs[x].up /\ x \in bound.sessions}
      seen == {x \in DOMAIN R.subs : \A y \in untracked : <<x, y>> \in R.before}
      ended == EndSubs(R, {x \in seen : R.subs[x].from \in there})
  IN IF there = {} THEN R
     ELSE IF untracked # {} THEN Note(ended, "removal_threw")
     ELSE [Unpublish(ended, {s \in there : R.streams[s].up}) EXCEPT !.streams = WithoutAll(@, there)]

OnAborted(R, i) == IF i \in Streams THEN RemoveStreams(R, {i}) ELSE RemoveSubs(R, {i})

Terminate(R, i) ==
  IF i \in DOMAIN R.sessions THEN OnAborted(TerminateSessions(R, {i}), i) ELSE TerminateOps(R, {i}, "asked")

(* The conference ends what it has just started with the arguments of a    *)
(* participant: no session has that name, and nothing is ended.            *)
TerminateMisnamed(R, i) ==
  LET ended == \E c \in R.calls : c.call \in {"terminate", "recycle"} /\ c.id = i
  IN IF i \in DOMAIN R.sessions \cup DOMAIN R.ops /\ ~ended THEN Note(R, "not_terminated") ELSE R

-----------------------------------------------------------------------------
(* A session, or operations on one transport, are ready.                   *)

(* What the session or the operation was started with.                     *)
SpecOf(R, i) == IF i \in DOMAIN R.sessions THEN R.sessions[i].spec ELSE R.ops[i].spec

(* Faulty: the owner may have left meanwhile.                              *)
Welcome_any_owner(R, i) ==
  IF i \in Streams THEN i \notin R.pub ELSE SpecOf(R, i).from \in DOMAIN R.streams

(* addStream and addSubscription: the owner is there, the stream is not    *)
(* published yet, the source of the subscription is there.                 *)
Welcome(R, i) ==
  /\ Present(R, SpecOf(R, i).owner)
  /\ IF i \in Streams THEN i \notin R.pub ELSE SpecOf(R, i).from \in DOMAIN R.streams

(* The room controller publishes a stream at once, and answers for a       *)
(* subscription.  A stream that was removed meanwhile is there again.      *)
Enter(R, is) ==
  LET ss == is \cap Streams
  IN [(IF ss \subseteq DOMAIN R.streams THEN R ELSE Note(R, "revived")) EXCEPT
        !.streams = [s \in DOMAIN R.streams \cup ss |->
                       IF s \in ss THEN [owner |-> SpecOf(R, s).owner, up |-> TRUE] ELSE R.streams[s]],
        !.pub = @ \cup ss,
        !.calls = @ \cup {[call |-> "subscribe", id |-> x, owner |-> SpecOf(R, x).owner, from |-> SpecOf(R, x).from] :
                           x \in is \ Streams}]

SessionEstablished(R, i) == IF Welcome(R, i) THEN Enter(R, {i}) ELSE Terminate(R, i)

OpsEstablished(R, is) ==
  LET welcome == {i \in is : Welcome(R, i)}
  IN Enter(TerminateOps(R, is \ welcome, "asked"), welcome)

(* A subscription is listed after those that are.                          *)
Listing(R, x, owner, from, up) ==
  [R EXCEPT !.subs = Put(@, x, [owner |-> owner, from |-> from, up |-> up]),
            !.before = @ \cup {<<y, x>> : y \in IF x \in DOMAIN R.subs THEN {} ELSE DOMAIN R.subs}]

(* The room controller has subscribed x; the owner may have left.          *)
Subscribed(R, c) ==
  IF Present(R, c.owner)
  THEN LET Q == IF c.id \in DOMAIN R.subs THEN R ELSE Note(R, "revived")
       IN [Listing(Q, c.id, c.owner, c.from, TRUE) EXCEPT !.taken = Put(@, c.id, c.from)]
  ELSE Terminate(R, c.id)

-----------------------------------------------------------------------------
(* Participants leave.                                                     *)
OpsOn(R, ts) == {i \in DOMAIN R.ops : R.ops[i].trans \in ts}
TransOf(R, u) == {t \in DOMAIN R.trans : R.trans[t].owner = u}

(* The operations on transports are ended, and then the transports.        *)
TerminateTransports(R, ts) ==
  [TerminateOps(R, OpsOn(R, ts), "left") EXCEPT
     !.leaving = @ \cup {[waits |-> OpsOn(R, ts), trans |-> ts]}]

RemoveParticipant(R, u) ==
  LET freed == RemoveSubs(R, {x \in DOMAIN R.subs : R.subs[x].owner = u})
      cleared == RemoveStreams(freed, {s \in DOMAIN R.streams : R.streams[s].owner = u})
  IN [cleared EXCEPT !.users = @ \ {u}]

-----------------------------------------------------------------------------
Init ==
  /\ conf = [users |-> {}, met |-> {}, streams |-> Nothing, subs |-> Nothing, before |-> {},
             pub |-> {}, taken |-> Nothing, sessions |-> Nothing, ops |-> Nothing,
             trans |-> Nothing, calls |-> {}, polls |-> {}, leaving |-> {}, used |-> {},
             mishaps |-> {}]
  /\ nodes = [sessions |-> {}, trans |-> {}, held |-> {}]
  /\ faults = 0
  /\ bound \in Bounds

Fail == faults < bound.faults /\ faults' = faults + 1

Fresh(i) ==
  /\ i \notin conf.used
  /\ Cardinality(conf.used \cap Streams) < bound.streams \/ i \notin Streams
  /\ Cardinality(conf.used \cap Subs) < bound.subs \/ i \notin Subs

Join(u) ==
  /\ u \notin conf.met /\ Cardinality(conf.met) < bound.users
  /\ conf' = [conf EXCEPT !.users = @ \cup {u}, !.met = @ \cup {u}]
  /\ UNCHANGED <<nodes, faults, bound>>

(* A stream or a subscription in connecting.                               *)
Begun(R, i, spec) ==
  LET U == [R EXCEPT !.used = @ \cup {i}]
  IN IF i \in Streams
     THEN [U EXCEPT !.streams = Put(@, i, [owner |-> spec.owner, up |-> FALSE])]
     ELSE Listing(U, i, spec.owner, spec.from, FALSE)

(* What there is to subscribe to.                                          *)
SpecsFor(owner) ==
  {[owner |-> owner, from |-> s] : s \in {s \in DOMAIN conf.streams : conf.streams[s].up}}

(* The RTC controller: an operation on a transport of its own, for which a *)
(* node is asked, or on one the participant has.                           *)
NewOp(R, i, t, spec) ==
  Call([R EXCEPT !.ops = Put(@, i, [trans |-> t, done |-> FALSE, spec |-> spec])],
       [call |-> "initiate", id |-> i, spec |-> spec, served |-> FALSE])

(* A participant's request: on a new transport, or on one it has.          *)
Asked(u, i, spec) ==
  LET R == Begun(conf, i, spec)
  IN {Call(R, [call |-> "node", id |-> i, spec |-> spec])} \cup {NewOp(R, i, t, spec) : t \in TransOf(R, u)}

Publish(u, s) ==
  /\ u \in conf.users
  /\ s \in Streams /\ Fresh(s) /\ s \notin bound.sessions
  /\ conf' \in Asked(u, s, [owner |-> u])
  /\ UNCHANGED <<nodes, faults, bound>>

Subscribe(u, x) ==
  /\ u \in conf.users
  /\ x \in Subs /\ Fresh(x) /\ x \notin bound.sessions
  /\ \E spec \in SpecsFor(u) : conf' \in Asked(u, x, spec)
  /\ UNCHANGED <<nodes, faults, bound>>

(* A request of the REST interface.                                        *)
Ordered(i, spec) ==
  Call([Begun(conf, i, spec) EXCEPT
          !.sessions = Put(@, i, [state |-> "initialized", ready |-> FALSE, spec |-> spec])],
       [call |-> "node", id |-> i, spec |-> spec])

AddStreamingIn(s) ==
  /\ s \in Streams /\ Fresh(s) /\ s \in bound.sessions
  /\ conf' = Ordered(s, [owner |-> Admin])
  /\ UNCHANGED <<nodes, faults, bound>>

AddServerSideSubscription(x) ==
  /\ x \in Subs /\ Fresh(x) /\ x \in bound.sessions
  /\ \E spec \in SpecsFor(Admin) : conf' = Ordered(x, spec)
  /\ UNCHANGED <<nodes, faults, bound>>

(* unpublish, unsubscribe, deleteStream, deleteSubscription.               *)
End(i) ==
  /\ Listed(conf, i)
  /\ conf' = Terminate(conf, i)
  /\ UNCHANGED <<nodes, faults, bound>>

Leave(u) ==
  /\ u \in conf.users
  /\ conf' = RemoveParticipant(TerminateTransports(conf, TransOf(conf, u)), u)
  /\ UNCHANGED <<nodes, faults, bound>>

(* The participant is dropped: its portal is told first, and its transport *)
(* is left to the connection of its client to end.                         *)
Drop(u) ==
  /\ u \in conf.users
  /\ conf' = Call(conf, [call |-> "drop", id |-> u])
  /\ UNCHANGED <<nodes, faults, bound>>

Done(c) == [conf EXCEPT !.calls = @ \ {c}]

(* The portal's answer, or its absence, is all the same.                   *)
Dropped(c) ==
  /\ c.call = "drop"
  /\ LET gone == RemoveParticipant(Done(c), c.id)
     IN conf' = IF c.id \in conf.users /\ TransOf(conf, c.id) # {} THEN Note(gone, "dropped") ELSE gone
  /\ UNCHANGED <<nodes, faults, bound>>

-----------------------------------------------------------------------------
(* The cluster answers with a node for an operation.  Nobody looks whether *)
(* the participant is still there.                                         *)
OpNode(c) ==
  /\ c.call = "node" /\ c.id \notin bound.sessions
  /\ LET R == IF c.spec.owner \in conf.users THEN Done(c) ELSE Note(Done(c), "late_node")
     IN conf' = NewOp([R EXCEPT !.trans = Put(@, c.id, [owner |-> c.spec.owner, ready |-> FALSE])],
                      c.id, c.id, c.spec)
  /\ nodes' = [nodes EXCEPT !.held = @ \cup {c.id}]
  /\ UNCHANGED <<faults, bound>>

(* ... for a session, which may have been ended: the node is given back.   *)
SessionNode(c) ==
  /\ c.call = "node" /\ c.id \in bound.sessions
  /\ conf' = IF c.id \in DOMAIN conf.sessions
             THEN Call(Done(c), [call |-> "initiate", id |-> c.id, spec |-> c.spec, served |-> FALSE])
             ELSE OnAborted(Call(Done(c), [call |-> "recycle", id |-> c.id, why |-> "late"]), c.id)
  /\ nodes' = [nodes EXCEPT !.held = @ \cup {c.id}]
  /\ UNCHANGED <<faults, bound>>

NoNode(c) ==
  /\ c.call = "node"
  /\ Fail
  /\ conf' = OnAborted([Done(c) EXCEPT !.sessions = Without(@, c.id)], c.id)
  /\ UNCHANGED <<nodes, bound>>

-----------------------------------------------------------------------------
(* The access node begins a session or an operation, its answer is on its  *)
(* way; it may report the session before.                                  *)
Serve(c) ==
  /\ c.call = "initiate" /\ ~c.served
  /\ nodes' = IF c.id \in bound.sessions THEN [nodes EXCEPT !.sessions = @ \cup {c.id}]
              ELSE [nodes EXCEPT !.trans = @ \cup {conf.ops[c.id].trans}]
  /\ conf' = Call(Done(c), [c EXCEPT !.served = TRUE])
  /\ UNCHANGED <<faults, bound>>

SourceReleased(R, c) == c.id \in Subs /\ c.spec.from \notin DOMAIN R.streams

OpInitiated(c) ==
  /\ c.call = "initiate" /\ c.served /\ c.id \notin bound.sessions
  /\ conf' = IF SourceReleased(conf, c) THEN RemoveSubs(TerminateMisnamed(Done(c), c.id), {c.id})
             ELSE Done(c)
  /\ UNCHANGED <<nodes, faults, bound>>

(* The session was ended while it was initiated: its node is told.  A      *)
(* request for one whose source is gone ends by an exception.  Any other   *)
(* is polled until it is ready.                                            *)
SessionInitiated(c) ==
  /\ c.call = "initiate" /\ c.served /\ c.id \in bound.sessions
  /\ LET R == Done(c)
     IN conf' = IF c.id \notin DOMAIN R.sessions
                THEN OnAborted(Call(Call(R, [call |-> "terminate", id |-> c.id, why |-> "late"]),
                                    [call |-> "recycle", id |-> c.id, why |-> "late"]), c.id)
                ELSE LET on == [R EXCEPT !.sessions[c.id].state = "connecting"]
                     IN IF SourceReleased(on, c) THEN RemoveSubs(TerminateMisnamed(on, c.id), {c.id})
                        ELSE [on EXCEPT !.polls = @ \cup {c.id}]
  /\ UNCHANGED <<nodes, faults, bound>>

(* The operation stays in the table; a session is forgotten, and its node  *)
(* is not given back.                                                      *)
NotInitiated(c) ==
  /\ c.call = "initiate"
  /\ Fail
  /\ conf' = OnAborted([Done(c) EXCEPT !.sessions = Without(@, c.id)], c.id)
  /\ UNCHANGED <<nodes, bound>>

(* The REST request ends: the session is ready, or gone, or too slow.      *)
PollOver(i) ==
  /\ i \in conf.polls
  /\ LET R == [conf EXCEPT !.polls = @ \ {i}]
         up == \/ i \in DOMAIN R.streams /\ R.streams[i].up
               \/ i \in DOMAIN R.subs /\ R.subs[i].up
     IN conf' = IF up THEN R ELSE OnAborted(TerminateMisnamed(R, i), i)
  /\ UNCHANGED <<nodes, faults, bound>>

(* The room controller's answer.  A stream that was unpublished meanwhile  *)
(* cannot be subscribed.                                                   *)
SubscribeDone(c) ==
  /\ c.call = "subscribe"
  /\ \/ /\ c.from \in conf.pub
        /\ conf' = Subscribed(Done(c), c)
        /\ UNCHANGED faults
     \/ /\ conf' = Terminate(Done(c), c.id)
        /\ IF c.from \in conf.pub THEN Fail ELSE UNCHANGED faults
  /\ UNCHANGED <<nodes, bound>>

-----------------------------------------------------------------------------
(* The answers to terminate and recycle.  A node does not answer for an    *)
(* operation whose transport it has lost: the call times out.              *)

Waited(R, i) == [R EXCEPT !.leaving = {[g EXCEPT !.waits = @ \ {i}] : g \in @}]

OpTerminated(c) ==
  /\ c.call = "terminate" /\ c.why \in {"asked", "left"}
  /\ \A d \in conf.calls : d.call = "initiate" => d.id # c.id
  /\ \/ /\ c.id \in DOMAIN conf.ops /\ conf.ops[c.id].trans \in nodes.trans
        /\ conf' = Waited([OnAborted(Done(c), c.id) EXCEPT !.ops = Without(@, c.id)], c.id)
        /\ UNCHANGED faults
     \/ /\ conf' = Waited(Done(c), c.id)
        /\ IF c.id \in DOMAIN conf.ops /\ conf.ops[c.id].trans \in nodes.trans
           THEN Fail ELSE UNCHANGED faults
  /\ UNCHANGED <<nodes, bound>>

LeaveDone(g) ==
  /\ g \in conf.leaving /\ g.waits = {}
  /\ conf' = [conf EXCEPT !.leaving = @ \ {g}]
  /\ nodes' = [nodes EXCEPT !.trans = @ \ g.trans, !.held = @ \ g.trans]
  /\ UNCHANGED <<faults, bound>>

SessionTerminated(c) ==
  /\ c.call = "terminate" /\ c.why \in {"session", "late"}
  /\ \/ /\ c.id \in nodes.sessions
        /\ nodes' = [nodes EXCEPT !.sessions = @ \ {c.id}]
        /\ conf' = IF c.why = "session"
                   THEN Call(Done(c), [call |-> "recycle", id |-> c.id, why |-> "session"]) ELSE Done(c)
        /\ UNCHANGED faults
     \/ /\ IF c.id \in nodes.sessions THEN Fail ELSE UNCHANGED faults
        /\ conf' = Done(c)
        /\ UNCHANGED nodes
  /\ UNCHANGED bound

Recycled(c) ==
  /\ c.call = "recycle"
  /\ \/ /\ nodes' = [nodes EXCEPT !.held = @ \ {c.id}]
        /\ conf' = IF c.why = "session" THEN [Done(c) EXCEPT !.sessions = Without(@, c.id)] ELSE Done(c)
        /\ UNCHANGED faults
     \/ conf' = Done(c) /\ Fail /\ UNCHANGED nodes
  /\ UNCHANGED bound

-----------------------------------------------------------------------------
(* What the nodes report.                                                  *)

(* A session is ready, or fails, before or after that.                     *)
SessionReady(i) ==
  /\ i \in nodes.sessions /\ i \in DOMAIN conf.sessions
  /\ ~conf.sessions[i].ready
  /\ conf' = SessionEstablished([conf EXCEPT !.sessions[i].state = "connected", !.sessions[i].ready = TRUE], i)
  /\ UNCHANGED <<nodes, faults, bound>>

SessionFailed(i) ==
  /\ i \in nodes.sessions /\ i \in DOMAIN conf.sessions
  /\ Fail
  /\ conf' = OnAborted(TerminateSessions(conf, {i}), i)
  /\ UNCHANGED <<nodes, bound>>

(* The client and the node have agreed on the tracks of an operation.  It  *)
(* is established when its transport is connected as well.                 *)
TracksComplete(i) ==
  /\ i \in DOMAIN conf.ops /\ conf.ops[i].trans \in nodes.trans
  /\ ~conf.ops[i].done
  /\ \A c \in conf.calls : c.call = "initiate" => c.id # i
  /\ LET R == [conf EXCEPT !.ops[i].done = TRUE]
     IN conf' = IF R.trans[R.ops[i].trans].ready THEN OpsEstablished(R, {i}) ELSE R
  /\ UNCHANGED <<nodes, faults, bound>>

(* Faulty: operations whose tracks were complete before are forgotten.     *)
TransportConnected_only(R, t) == [R EXCEPT !.trans[t].ready = TRUE]

TransportConnected(R, t) ==
  OpsEstablished([R EXCEPT !.trans[t].ready = TRUE], {i \in OpsOn(R, {t}) : R.ops[i].done})

TransportReady(t) ==
  /\ t \in nodes.trans /\ ~conf.trans[t].ready
  /\ conf' = TransportConnected(conf, t)
  /\ UNCHANGED <<nodes, faults, bound>>

(* The connection to the client is lost: the transport is destroyed and    *)
(* its node given back.  What runs on it is left to the participant.       *)
TransportFailed(t) ==
  /\ t \in nodes.trans
  /\ Fail
  /\ nodes' = [nodes EXCEPT !.trans = @ \ {t}, !.held = @ \ {t}]
  /\ UNCHANGED <<conf, bound>>

(* The node of all transports is lost, or that of all sessions.            *)
WebrtcNodeLost ==
  /\ nodes.trans # {}
  /\ Fail
  /\ conf' = TerminateTransports(conf, DOMAIN conf.trans \cap nodes.held)
  /\ nodes' = [nodes EXCEPT !.trans = {}]
  /\ UNCHANGED bound

(* The sessions that had a node are aborted, one after the other.          *)
AccessNodeLost ==
  LET asked(i) == \E c \in conf.calls : c.call = "node" /\ c.id = i
      abort(R, i) == TerminateSessions(OnAborted(R, i), {i})
  IN /\ nodes.sessions # {}
     /\ Fail
     /\ \E order \in SetToSeqs({i \in DOMAIN conf.sessions : ~asked(i)}) :
          LET after[n \in 0 .. Len(order)] == IF n = 0 THEN conf ELSE abort(after[n - 1], order[n])
          IN conf' = after[Len(order)]
     /\ nodes' = [nodes EXCEPT !.sessions = {}]
     /\ UNCHANGED bound

Answers(c) ==
  \/ Dropped(c) \/ OpNode(c) \/ SessionNode(c) \/ NoNode(c) \/ Serve(c) \/ OpInitiated(c)
  \/ SessionInitiated(c) \/ NotInitiated(c) \/ SubscribeDone(c) \/ OpTerminated(c)
  \/ SessionTerminated(c) \/ Recycled(c)

Next ==
  \/ \E u \in Users : \/ Join(u) \/ Leave(u) \/ Drop(u)
                      \/ \E s \in Streams : Publish(u, s)
                      \/ \E x \in Subs : Subscribe(u, x)
  \/ \E s \in Streams : AddStreamingIn(s)
  \/ \E x \in Subs : AddServerSideSubscription(x)
  \/ \E i \in Streams \cup Subs : End(i) \/ PollOver(i)
  \/ \E c \in conf.calls : Answers(c)
  \/ \E g \in conf.leaving : LeaveDone(g)
  \/ \E i \in Streams \cup Subs : SessionReady(i) \/ SessionFailed(i) \/ TracksComplete(i)
  \/ \E t \in Streams \cup Subs : TransportReady(t) \/ TransportFailed(t)
  \/ WebrtcNodeLost \/ AccessNodeLost

Spec == Init /\ [][Next]_vars

-----------------------------------------------------------------------------
(* No call is under way.                                                   *)
AtRest == conf.calls = {} /\ conf.polls = {} /\ conf.leaving = {}

Smooth == faults = 0 /\ conf.mishaps = {}

(* The types of the tables, with what the code takes for granted: of two   *)
(* subscriptions one comes before the other, an operation has a transport, *)
(* a session is one of those asked for by the REST interface.              *)
TypeOK ==
  /\ conf.users \subseteq Users
  /\ DOMAIN conf.streams \subseteq Streams /\ DOMAIN conf.subs \subseteq Subs
  /\ \A x, y \in DOMAIN conf.subs : x # y => (<<x, y>> \in conf.before <=> <<y, x>> \notin conf.before)
  /\ \A i \in DOMAIN conf.sessions :
       i \in bound.sessions /\ conf.sessions[i].state \in {"initialized", "connecting", "connected"}
  /\ \A i \in DOMAIN conf.ops : i \notin bound.sessions /\ conf.ops[i].trans \in DOMAIN conf.trans
  /\ nodes.trans \subseteq DOMAIN conf.trans /\ nodes.sessions \subseteq bound.sessions
  /\ faults \in 0 .. bound.faults

(* Whoever owns a stream or a subscription is in the room, however late    *)
(* its transport or the room controller is.                                *)
OwnersPresent ==
  "removal_threw" \notin conf.mishaps =>
    /\ \A s \in DOMAIN conf.streams : Present(conf, conf.streams[s].owner)
    /\ \A x \in DOMAIN conf.subs : Present(conf, conf.subs[x].owner)

(* The room controller has the streams that are listed as ready, and the   *)
(* subscriptions whose stream is still published.                          *)
RoomAgrees ==
  /\ conf.pub = {s \in DOMAIN conf.streams : conf.streams[s].up}
  /\ DOMAIN conf.taken = {x \in DOMAIN conf.subs : conf.subs[x].up /\ conf.subs[x].from \in conf.pub}

(* With no call under way, and nothing having failed, every subscription   *)
(* is to a stream that is there.                                           *)
SourcesPresent ==
  AtRest /\ Smooth => \A x \in DOMAIN conf.subs : conf.subs[x].from \in DOMAIN conf.streams

(* ... and what is listed is carried by a session or an operation, and     *)
(* each of these carries something that is listed.                         *)
CarriersAgree ==
  AtRest /\ Smooth =>
    DOMAIN conf.sessions \cup DOMAIN conf.ops = DOMAIN conf.streams \cup DOMAIN conf.subs

(* ... and a node is held exactly for each session, and for each transport *)
(* of a participant who is there.                                          *)
HoldsAgree ==
  AtRest /\ Smooth =>
    /\ nodes.sessions = DOMAIN conf.sessions
    /\ nodes.trans = {t \in DOMAIN conf.trans : conf.trans[t].owner \in conf.users}
    /\ nodes.held = nodes.sessions \cup nodes.trans

(* ... and a session or an operation that is ready is a stream or a        *)
(* subscription that is ready: whichever of tracks and transport is last.  *)
ReadyIsUp ==
  AtRest /\ Smooth =>
    \A i \in Streams \cup Subs :
      (\/ i \in DOMAIN conf.sessions /\ conf.sessions[i].ready
       \/ i \in DOMAIN conf.ops /\ conf.ops[i].done /\ conf.trans[conf.ops[i].trans].ready)
      => \/ i \in DOMAIN conf.streams /\ conf.streams[i].up
         \/ i \in DOMAIN conf.subs /\ conf.subs[i].up

(* The streams of the participants, of the room controller and of the      *)
(* subscriptions are the same.                                             *)
StreamsAgree == TypeOK /\ RoomAgrees /\ SourcesPresent

(* What is listed has its carrier and its node, and nothing else has one.  *)
ResourcesAgree == CarriersAgree /\ HoldsAgree
=============================================================================
