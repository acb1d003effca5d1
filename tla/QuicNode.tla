----------------------------- MODULE QuicNode ------------------------------
(***************************************************************************)
(* A node that speaks WebTransport to clients, and the controller that has *)
(* sessions brought to it: its operations and the calls they make, one     *)
(* after the other; the connections clients open and authenticate with a   *)
(* token; the streams they open on them for a session; and the router      *)
(* between publications and subscriptions.  The native objects have fewer  *)
(* methods than the code calls: a source cannot give up a destination, and *)
(* no stream can be closed from here.                                      *)
(***************************************************************************)
EXTENDS Integers, FiniteSets, InternalRouter, SequencesExt

CONSTANTS
  Pubs, Subs,
  Media,      \* the sessions with tracks; the others carry data
  Remotes,    \* streams of other nodes
  Conns,      \* connections of clients, by the transport their token is for
  Streams,    \* streams that clients open
  Transport,  \* the transport of a session
  Bounds      \* what a run does: [sessions, conns, streams, datagram, terminates, timeouts, links, faults]

Sessions == Pubs \cup Subs

QuicAssumption ==
  /\ Media \subseteq Sessions /\ Pubs \cap Subs = {} /\ Transport \in [Sessions -> Conns]
  /\ None \notin Conns \cup Streams \cup Sessions
  /\ \A b \in Bounds :
       /\ b.sessions \subseteq Sessions /\ b.conns \subseteq Conns /\ b.streams \subseteq Streams
       /\ b.datagram \in BOOLEAN /\ {b.terminates, b.timeouts, b.links, b.faults} \subseteq Nat

VARIABLES
  node,         \* the tables of the node, its server and its native objects
  connections, streams,
  router,
  transports, operations,  \* of the controller
  past, bound

vars == <<node, connections, streams, router, transports, operations, past, bound>>

TypeOK ==
  /\ node.up \in BOOLEAN
  /\ node.publicationOptions \subseteq Pubs /\ node.frameSourceMap \subseteq Pubs
  /\ node.frameDestinationMap \subseteq Subs \cap Media
  /\ node.outgoing \in [DOMAIN node.outgoing -> Streams \cup {"own", None}] /\ DOMAIN node.outgoing \subseteq Subs \ Media
  /\ node.authenticated \subseteq Conns /\ node.inputs \subseteq Pubs \X Streams
  /\ node.onclose \in [Conns -> Subs \cup {None}] /\ node.outputs \in [Subs -> Conns \cup {None}]
  /\ connections \in [Conns -> [state : {"none", "open", "closed", "gone"}, id : BOOLEAN, timer : BOOLEAN,
                                token : {"none", "asked", "valid", "refused"}]]
  /\ streams \in [Streams -> [conn : Conns \cup {None}, session : Sessions \cup {None}, kind : Kinds \cup {None},
                              stage : {"none", "refused", "track", "piped"}]]
  /\ transports \in [Conns -> {"none", "initializing", "pending"}]
  /\ \A x \in Sessions :
       LET o == operations[x]
       IN /\ o.promise \in {"none", "locating", "refused", "initiating", "settled", "rejected", "terminating"}
          /\ o.answer \in {None, "ok", "error"} /\ {o.known, o.ready, o.established} \subseteq BOOLEAN /\ o.asked \in Nat
          /\ \A i \in DOMAIN o.queue : o.queue[i] \in {"initiate", "terminate"}

Init ==
  /\ node = [up |-> TRUE, publicationOptions |-> {}, frameSourceMap |-> {}, frameDestinationMap |-> {},
             outgoing |-> << >>, authenticated |-> {}, inputs |-> {},
             onclose |-> [c \in Conns |-> None], outputs |-> [u \in Subs |-> None]]
  /\ connections = [c \in Conns |-> [state |-> "none", id |-> FALSE, timer |-> FALSE, token |-> "none"]]
  /\ streams = [s \in Streams |-> [conn |-> None, session |-> None, kind |-> None, stage |-> "none"]]
  /\ router = EmptyRouter
  /\ transports = [c \in Conns |-> "none"]
  /\ operations = [x \in Sessions |-> [known |-> FALSE, promise |-> "none", asked |-> 0, queue |-> << >>,
                                       answer |-> None, ready |-> FALSE, established |-> FALSE]]
  /\ past = [terminates |-> 0, timeouts |-> 0, links |-> 0, faults |-> 0, failed |-> {}, ended |-> {},
             replaced |-> {}, relinked |-> {}, stale |-> {}, late |-> {}]
  /\ bound \in Bounds

-----------------------------------------------------------------------------
(* Connections.  What comes in on one that is not authenticated closes it. *)
Closed(c) == [connections EXCEPT ![c].state = IF @ = "open" THEN "closed" ELSE @]

(* onconnection: ten seconds to authenticate.                              *)
Connect(c) ==
  /\ connections[c].state = "none"
  /\ connections' = [connections EXCEPT ![c].state = "open", ![c].timer = TRUE]
  /\ UNCHANGED <<node, streams, router, transports, operations, past>>

AuthenticationTimeout(c) ==
  /\ connections[c].timer
  /\ connections' = [(IF connections[c].id THEN connections ELSE Closed(c)) EXCEPT ![c].timer = FALSE]
  /\ UNCHANGED <<node, streams, router, transports, operations, past>>

(* The stream for signaling brings the token, which may be none; a second  *)
(* one on an authenticated connection closes it.                           *)
Signal(c) ==
  /\ connections[c].state = "open"
  /\ \/ connections[c].id /\ past.faults < bound.faults
        /\ connections' = Closed(c) /\ past' = [past EXCEPT !.faults = @ + 1]
     \/ connections[c].token = "none"
        /\ \/ connections' = [connections EXCEPT ![c].token = "asked"] /\ UNCHANGED past
           \/ /\ past.faults < bound.faults /\ past' = [past EXCEPT !.faults = @ + 1]
              /\ connections' = [Closed(c) EXCEPT ![c].token = "refused"]
  /\ UNCHANGED <<node, streams, router, transports, operations>>

(* The answer of the portal, or none: the connection may be closed by now, *)
(* and is registered all the same.                                         *)
TokenValidated(c) ==
  /\ connections[c].token = "asked"
  /\ \/ /\ connections' = [connections EXCEPT ![c].token = "valid", ![c].id = TRUE]
        /\ node' = [node EXCEPT !.authenticated = @ \cup {c}]
        /\ UNCHANGED past
     \/ /\ past.faults < bound.faults /\ past' = [past EXCEPT !.faults = @ + 1]
        /\ connections' \in {[Closed(c) EXCEPT ![c].token = "refused"], [connections EXCEPT ![c].token = "refused"]}
        /\ UNCHANGED node
  /\ UNCHANGED <<streams, router, transports, operations>>

Leave(c) ==
  /\ connections[c].state = "open" /\ past.faults < bound.faults
  /\ connections' = Closed(c)
  /\ past' = [past EXCEPT !.faults = @ + 1]
  /\ UNCHANGED <<node, streams, router, transports, operations>>

(* onclose is that of the subscription that set it last.                   *)
ConnectionClosed(c) ==
  /\ connections[c].state = "closed"
  /\ connections' = [connections EXCEPT ![c].state = "gone"]
  /\ node' = IF node.onclose[c] = None THEN node ELSE [node EXCEPT !.outputs[node.onclose[c]] = None]
  /\ UNCHANGED <<streams, router, transports, operations, past>>

-----------------------------------------------------------------------------
(* Streams of clients.  A stream for a subscription replaces the one its   *)
(* pipeline had; what was linked stays with the old one.                   *)
Piped(s, x) ==
  /\ node' = [node EXCEPT !.outgoing[x] = s]
  /\ router' = [router EXCEPT
       !.conns = [y \in Ids(router) |-> IF y = x THEN [@[y] EXCEPT !.kinds = Kinds] ELSE @[y]],
       !.links = {l \in @ : l[3] # x}]
  /\ past' = [past EXCEPT !.replaced = IF node.outgoing[x] = None THEN @ ELSE @ \cup {x}]

(* streamadded: for a subscription of data, or for a publication.  For any *)
(* other session it is to be closed, which ends the process.               *)
StreamAdded(s, c, x) ==
  LET stream(stage, kind) == [streams EXCEPT ![s] = [conn |-> c, session |-> x, kind |-> kind, stage |-> stage]]
  IN \/ /\ x \in DOMAIN node.outgoing
        /\ Piped(s, x) /\ streams' = stream("piped", None)
     \/ /\ x \in node.frameSourceMap \cap node.publicationOptions
        /\ IF x \in Media
           THEN streams' = stream("track", None) /\ UNCHANGED node
           ELSE streams' = stream("piped", "data") /\ node' = [node EXCEPT !.inputs = @ \cup {<<x, s>>}]
        /\ UNCHANGED <<router, past>>
     \/ /\ x \notin DOMAIN node.outgoing \cup (node.frameSourceMap \cap node.publicationOptions)
        /\ node' = [node EXCEPT !.up = FALSE]
        /\ UNCHANGED <<streams, router, past>>

(* oncontentsessionid.                                                     *)
OpenStream(s, c, x) ==
  /\ streams[s].stage = "none" /\ connections[c].state \in {"open", "closed"}
  /\ IF connections[c].id THEN StreamAdded(s, c, x) /\ UNCHANGED connections
     ELSE /\ connections' = Closed(c)
          /\ streams' = [streams EXCEPT ![s].stage = "refused"]
          /\ UNCHANGED <<node, router, past>>
  /\ UNCHANGED <<transports, operations>>

(* ontrackid: the publication may be gone by now, its source is not.       *)
TrackId(s) ==
  /\ streams[s].stage = "track"
  /\ \E kind \in {"audio", "video", None} :
       /\ streams' = [streams EXCEPT ![s].kind = kind, ![s].stage = "piped"]
       /\ node' = IF kind # None /\ streams[s].session \in node.frameSourceMap
                  THEN [node EXCEPT !.inputs = @ \cup {<<streams[s].session, s>>}] ELSE node
  /\ UNCHANGED <<connections, router, transports, operations, past>>

-----------------------------------------------------------------------------
(* The requests of the controller: what becomes of the node and the router *)
(* and the answer, if there is one: what throws has none.                  *)
Result(N, R, answer) == [node |-> N, router |-> R, answer |-> answer]

CreateFrameSource(p) == [node EXCEPT !.frameSourceMap = @ \cup {p}]

CreateFrameDestination(u) == [node EXCEPT !.frameDestinationMap = @ \cup {u}]

CreateStreamPipeline(u, stream) ==
  [node EXCEPT !.outgoing = [x \in DOMAIN @ \cup {u} |-> IF x = u THEN stream ELSE @[x]]]

Publish(p) ==
  Result([CreateFrameSource(p) EXCEPT !.publicationOptions = @ \cup {p}],
         AddConnection(router, p, "quic", "in", Kinds), "ok")

(* Faulty: the options of a publication that is gone stay.                 *)
Unpublish_options_stay(p) ==
  IF p \notin Ids(router) THEN Result(node, router, "error")
  ELSE IF router.conns[p].type = "quic" /\ FedBy(router, p) # {} THEN Result(node, router, None)
  ELSE Result(node, RemoveConnection(router, p), "ok")

(* A source that feeds a subscription here cannot be removed: it throws,   *)
(* before the options are deleted.                                         *)
Unpublish(p) ==
  LET N == [node EXCEPT !.publicationOptions = @ \ {p}]
  IN IF p \notin Ids(router) THEN Result(N, router, "error")
     ELSE IF router.conns[p].type = "quic" /\ FedBy(router, p) # {} THEN Result(node, router, None)
     ELSE Result(N, RemoveConnection(router, p), "ok")

(* Media goes out in datagrams, or in streams, over a connection there is  *)
(* by now, else it throws.                                                 *)
SubscribeMedia(u) ==
  LET c == Transport[u]
      N == CreateFrameDestination(u)
      M == IF bound.datagram THEN [N EXCEPT !.onclose[c] = u, !.outputs[u] = c] ELSE N
  IN IF c \in node.authenticated
     THEN Result(M, AddConnection(router, u, "quic", "out", Kinds), "ok")
     ELSE Result(N, router, None)

(* Data needs a stream before it can be linked, now or when it comes.      *)
SubscribeData(u) ==
  LET there == Transport[u] \in node.authenticated
  IN Result(CreateStreamPipeline(u, IF there THEN "own" ELSE None),
            AddConnection(router, u, "quic", "out", IF there THEN Kinds ELSE {}), "ok")

(* Audio is cut before video; a source of this node cannot be cut off, and *)
(* nothing is cut after it.                                                *)
Uncuttable(R, u) ==
  {k \in CutKinds : LET from == R.conns[u].from[k] IN from \in Ids(R) /\ R.conns[from].type = "quic"}

CutTo(R, u) ==
  LET S == CutOffTo(R, u)
      cut == {k \in CutKinds : \A f \in Uncuttable(R, u) : Rank[k] < Rank[f]}
  IN [R EXCEPT !.links = {l \in @ : l \in S.links \/ l[2] \notin cut},
               !.conns[u].from = [k \in Kinds |-> IF k \in cut THEN S.conns[u].from[k] ELSE @[k]]]

(* The pipeline of data is closed with its stream, which cannot be: it is  *)
(* removed and there is no answer.                                         *)
Unsubscribe(u) ==
  IF u \notin Ids(router) THEN Result(node, router, "error")
  ELSE LET R == CutTo(router, u)
       IN IF Uncuttable(router, u) # {} THEN Result(node, R, None)
          ELSE Result(node, [R EXCEPT !.conns = Restrict(@, Ids(R) \ {u})], IF u \in Media THEN "ok" ELSE None)

Handled(x, op) ==
  IF op = "initiate"
  THEN IF x \in Pubs THEN Publish(x) ELSE IF x \in Media THEN SubscribeMedia(x) ELSE SubscribeData(x)
  ELSE IF x \in Pubs THEN Unpublish(x) ELSE Unsubscribe(x)

(* A request is handled in one turn.  Its answer is for a call that still  *)
(* waits, and a report of readiness follows it.                            *)
Handle(x) ==
  LET o == operations[x]
      op == Head(o.queue)
      res == Handled(x, op)
      waits == IF op = "initiate" THEN o.promise = "initiating" ELSE o.promise = "terminating" /\ Len(o.queue) = 1
  IN /\ o.queue # << >>
     /\ node' = res.node /\ router' = res.router
     /\ operations' = [operations EXCEPT ![x] =
          [@ EXCEPT !.queue = Tail(@), !.answer = IF waits THEN res.answer ELSE @,
                    !.ready = @ \/ (op = "initiate" /\ res.answer = "ok")]]
     /\ past' = [past EXCEPT
          !.ended = IF op = "terminate" THEN @ \cup {x} ELSE @,
          !.late = IF op = "initiate" /\ connections[Transport[x]].state = "gone" THEN @ \cup {x} ELSE @,
          !.stale = IF op = "terminate" THEN @ \cup {x} ELSE @]
     /\ UNCHANGED <<connections, streams, transports>>

-----------------------------------------------------------------------------
(* Links.  A source here feeds its destination with every kind, whichever  *)
(* was asked for.                                                          *)
LinkTo(u, from) ==
  LET S == Linkup(router, u, from, Remotes \cup Pubs)
      own == {k \in DOMAIN from : <<from[k], k, u>> \in S.links /\ S.conns[from[k]].type = "quic"}
  IN /\ router' = [S EXCEPT !.links = @ \cup {<<from[k], any, u>> : k \in own, any \in Kinds}]
     /\ past' = [past EXCEPT !.links = @ + 1,
          !.relinked = IF u \notin Ids(router) THEN @
            ELSE @ \cup {<<router.conns[u].from[k], u>> : k \in {k \in DOMAIN from : router.conns[u].from[k] \notin {None, from[k]}}}]

Link(u) ==
  /\ operations[u].established /\ past.links < bound.links
  /\ LET sources(S) == Remotes \cup {p \in S : operations[p].established}
     IN \E from \in IF u \in Media
                    THEN UNION {[ks -> sources(Pubs \cap Media)] : ks \in SUBSET CutKinds \ {{}}}
                    ELSE [{"data"} -> sources(Pubs \ Media)] : LinkTo(u, from)
  /\ UNCHANGED <<node, connections, streams, transports, operations>>

Cutoff(u) ==
  /\ operations[u].established /\ past.links < bound.links
  /\ u \in Ids(router) /\ CutTo(router, u) # router
  /\ router' = CutTo(router, u)
  /\ past' = [past EXCEPT !.links = @ + 1]
  /\ UNCHANGED <<node, connections, streams, transports, operations>>

(* The client of another node's stream disconnects, with all it fed.       *)
Disconnected(id) ==
  /\ id \in DOMAIN router.remote /\ past.faults < bound.faults
  /\ router' = [DestroyRemoteSource(router, id) EXCEPT !.links = {l \in @ : l[1] # id}]
  /\ past' = [past EXCEPT !.faults = @ + 1, !.stale = @ \cup {id}]
  /\ UNCHANGED <<node, connections, streams, transports, operations>>

-----------------------------------------------------------------------------
(* The controller.  The first session of a transport has a node found for  *)
(* it; one that comes meanwhile, or after that failed, is refused.         *)
Registered(O, x) == [O EXCEPT ![x] = [@ EXCEPT !.known = TRUE, !.promise = "initiating", !.queue = <<"initiate">>]]

Initiate(x) ==
  LET c == Transport[x]
  IN /\ operations[x].promise = "none"
     /\ transports' = [transports EXCEPT ![c] = IF @ = "none" THEN "initializing" ELSE @]
     /\ operations' = IF transports[c] = "pending" THEN Registered(operations, x)
                      ELSE [operations EXCEPT ![x].promise = IF transports[c] = "none" THEN "locating" ELSE "refused"]
     /\ UNCHANGED <<node, connections, streams, router, past>>

NodeFound(x) ==
  /\ operations[x].promise = "locating"
  /\ \/ /\ transports' = [transports EXCEPT ![Transport[x]] = "pending"]
        /\ operations' = Registered(operations, x)
        /\ UNCHANGED past
     \/ /\ past.faults < bound.faults /\ past' = [past EXCEPT !.faults = @ + 1]
        /\ operations' = [operations EXCEPT ![x].promise = "refused"]
        /\ UNCHANGED transports
  /\ UNCHANGED <<node, connections, streams, router>>

(* A termination waits for what was asked before; after an initiation that *)
(* failed it does nothing, and the next one is sent.                       *)
Terminate(x) ==
  /\ operations[x].known /\ past.terminates < bound.terminates
  /\ operations' = [operations EXCEPT ![x].asked = @ + 1]
  /\ past' = [past EXCEPT !.terminates = @ + 1]
  /\ UNCHANGED <<node, connections, streams, router, transports>>

SendTermination(x) ==
  LET o == operations[x]
  IN /\ o.asked > 0 /\ o.promise \in {"settled", "rejected"}
     /\ operations' = [operations EXCEPT ![x] =
          IF o.promise = "settled" /\ o.known
          THEN [o EXCEPT !.asked = @ - 1, !.promise = "terminating", !.queue = Append(@, "terminate")]
          ELSE [o EXCEPT !.asked = @ - 1, !.promise = "settled"]]
     /\ UNCHANGED <<node, connections, streams, router, transports, past>>

Ended(o, ok) ==
  [o EXCEPT !.answer = None,
            !.promise = IF @ = "initiating" /\ ~ok THEN "rejected" ELSE "settled",
            !.known = @ /\ ~(ok /\ o.promise = "terminating")]

Answered(x) ==
  /\ operations[x].answer # None
  /\ operations' = [operations EXCEPT ![x] = Ended(@, @.answer = "ok")]
  /\ UNCHANGED <<node, connections, streams, router, transports, past>>

TimedOut(x) ==
  /\ operations[x].promise \in {"initiating", "terminating"} /\ past.timeouts < bound.timeouts
  /\ operations' = [operations EXCEPT ![x] = Ended(@, FALSE)]
  /\ past' = [past EXCEPT !.timeouts = @ + 1, !.failed = IF operations[x].promise = "initiating" THEN @ \cup {x} ELSE @]
  /\ UNCHANGED <<node, connections, streams, router, transports>>

OnSessionProgress(x) ==
  /\ operations[x].ready
  /\ operations' = [operations EXCEPT ![x].ready = FALSE, ![x].established = @ \/ operations[x].known]
  /\ UNCHANGED <<node, connections, streams, router, transports, past>>

Node ==
  \/ \E c \in bound.conns :
       \/ Connect(c) \/ AuthenticationTimeout(c) \/ Signal(c) \/ TokenValidated(c) \/ Leave(c) \/ ConnectionClosed(c)
       \/ \E s \in bound.streams, x \in bound.sessions : OpenStream(s, c, x)
  \/ \E s \in bound.streams : TrackId(s)
  \/ \E x \in bound.sessions : Handle(x)
  \/ \E u \in Subs \cap bound.sessions : Link(u) \/ Cutoff(u)
  \/ \E id \in Remotes \cup Pubs : Disconnected(id)

Controller ==
  \E x \in bound.sessions :
    Initiate(x) \/ NodeFound(x) \/ Terminate(x) \/ SendTermination(x) \/ Answered(x) \/ TimedOut(x) \/ OnSessionProgress(x)

Next == ((node.up /\ Node) \/ Controller) /\ UNCHANGED bound

Spec == Init /\ [][Next]_vars

-----------------------------------------------------------------------------
(* Whatever times out or is handled late, the controller has an operation  *)
(* for every session the node keeps, and the node keeps every session that *)
(* was brought up and not asked to end (quicController.js terminate).      *)
Kept(x) == x \in Ids(router) /\ router.conns[x].type = "quic"

OperationsAgree ==
  \A x \in Sessions :
    /\ Kept(x) => operations[x].known
    /\ operations[x].known /\ operations[x].promise = "settled" /\ x \notin past.failed \cup past.ended => Kept(x)

(* The tables of the node agree: only what it publishes now takes streams, *)
(* and each connection of the router has its native object (publish,       *)
(* unpublish).                                                             *)
TablesAgree ==
  /\ node.publicationOptions = {p \in Pubs : Kept(p)}
  /\ {x \in Sessions : Kept(x)} \subseteq
       node.frameSourceMap \cup node.frameDestinationMap \cup DOMAIN node.outgoing

(* Registered are the connections whose token was found valid, and no      *)
(* other is open when its time is up; a stream that is taken came over one *)
(* of them, and feeds the publication it is for with the kind of its track.*)
(* (quicTransportServer.js)                                                *)
ConnectionsAgree ==
  /\ \A c \in Conns :
       /\ c \in node.authenticated <=> connections[c].token = "valid"
       /\ connections[c].state = "open" => connections[c].timer \/ c \in node.authenticated
  /\ \A s \in Streams : streams[s].stage \in {"track", "piped"} => streams[s].conn \in node.authenticated
  /\ \A i \in node.inputs :
       LET s == streams[i[2]]
       IN s.session = i[1] /\ s.stage = "piped" /\ s.kind \in IF i[1] \in Media THEN {"audio", "video"} ELSE {"data"}

(* Datagrams of a subscription go over its connection as long as that is   *)
(* open; when it is closed, the last subscription on it is told, the other *)
(* ones keep it.                                                           *)
OutputsAgree ==
  \A u \in Subs \cap Media :
    LET c == Transport[u]
    IN /\ bound.datagram /\ Kept(u) /\ connections[c].state # "gone" => node.outputs[u] = c
       /\ node.outputs[u] # None /\ connections[c].state = "gone" => u \in past.late \/ node.onclose[c] # u

(* What the router says is linked is linked natively, unless the stream of *)
(* its pipeline was replaced or its source is gone; a native link is one   *)
(* the router has, or one that cannot be undone: of a kind nobody asked    *)
(* for, of a destination linked anew, or of data.                          *)
LinksAgree ==
  /\ \A l \in TableLinks(router) :
       l[1] \in Ids(router) => l \in router.links \/ l[3] \in past.replaced \/ l[1] \in past.stale
  /\ \A l \in router.links :
       \/ <<l[1], l[3]>> \in past.relinked \/ l[3] \notin Media
       \/ l[3] \in Ids(router) /\ \E k \in Kinds : <<l[1], k, l[3]>> \in TableLinks(router) /\ (k = l[2] \/ l[1] \in Pubs)
=============================================================================
