----------------------------- MODULE WebrtcNode -----------------------------
(***************************************************************************)
(* A WebRTC node: the peer connections of its clients, the operations      *)
(* (publications and subscriptions) their media lines are for, the tracks  *)
(* an offer sets up, the layers and quality switches made of them, and the *)
(* router that links them.  The controller's requests and the clients'     *)
(* offers come in any order.                                               *)
(***************************************************************************)
EXTENDS InternalRouter, FiniteSetsExt, TLC

CONSTANTS
  Ops,          \* the operations (session ids)
  Transport,    \* op -> the transport it is on
  Dir,          \* op -> "in" (publication) or "out" (subscription)
  MidsOf,       \* op -> the media lines (mids) it is for
  Kind,         \* mid -> "audio" or "video"
  Simulcast,    \* the mids sent as simulcast
  Legacy,       \* those of them whose encodings are in ssrc groups, in VP9: one track with layers
  Rids,         \* the encodings of a simulcast line
  Layers,       \* the layers of a scalable track
  Remotes,      \* streams of other nodes
  Switches,     \* ids of quality switches
  Bounds        \* what the environment does: [ops, links, closes, destroys, switches]

VARIABLES
  pc,           \* transport -> its peer connection
  mediaTracks,  \* the open tracks, <<transport, track id>>
  mappingPublicId,  \* transport -> the ids of its tracks
  mappingTransports, \* op -> transport; never cleared
  layers,       \* the open layer streams, <<transport, track id, layer>>
  switches,     \* the open quality switches
  router,
  complete,     \* operations the controller was told are complete
  past,         \* what happened, and how often
  bound         \* one of Bounds

vars == <<pc, mediaTracks, mappingPublicId, mappingTransports, layers, switches, router, complete,
          past, bound>>

OpsAssumption ==
  /\ \A o \in Ops : o \in DOMAIN Transport /\ Dir[o] \in {"in", "out"} /\ MidsOf[o] \subseteq DOMAIN Kind
  /\ Legacy \subseteq Simulcast /\ Simulcast \subseteq DOMAIN Kind

Transports == {Transport[o] : o \in Ops}
Mids == DOMAIN Kind

(* A track is named by its media line and, in simulcast, its encoding.     *)
TrackIds == Mids \X (Rids \cup {None})

(* What an operation of a line wants; every operation of one is alike.     *)
OpOf(mid) == CHOOSE o \in Ops : mid \in MidsOf[o]
DirOf(mid) == Dir[OpOf(mid)]

(* setupTransport: an encoding each for simulcast, but one track for       *)
(* legacy simulcast in VP9.                                                *)
SetUp(mid) == IF mid \in Simulcast \ Legacy THEN {mid} \X Rids ELSE {<<mid, None>>}

(* The public ids tracks get here, and those of the tracks clients send.   *)
PublicIds == UNION {{Transport[OpOf(m)]} \X SetUp(m) : m \in Mids}
Published == {p \in PublicIds : DirOf(p[2][1]) = "in" /\ OpOf(p[2][1]) \in bound.ops}

TypeOK ==
  /\ DOMAIN pc \subseteq Transports
  /\ \A t \in DOMAIN pc :
       /\ DOMAIN pc[t].ops \subseteq Mids /\ DOMAIN pc[t].sdp \subseteq Mids
       /\ \A m \in DOMAIN pc[t].ops : pc[t].ops[m].op \in Ops /\ pc[t].ops[m].on \in BOOLEAN
       /\ \A m \in DOMAIN pc[t].sdp : pc[t].sdp[m] \in BOOLEAN
       /\ pc[t].offered \in BOOLEAN /\ pc[t].tracks \subseteq TrackIds
  /\ mediaTracks \subseteq PublicIds
  /\ DOMAIN mappingPublicId \subseteq Transports
  /\ DOMAIN mappingTransports \subseteq Ops
  /\ switches \subseteq Switches /\ complete \subseteq Ops

Init ==
  /\ pc = << >> /\ mediaTracks = {} /\ mappingPublicId = << >> /\ mappingTransports = << >>
  /\ layers = {} /\ switches = {} /\ router = EmptyRouter /\ complete = {}
  /\ past = [stray |-> {}, shared |-> {}, relinked |-> {}, halted |-> {}, self |-> {},
             links |-> 0, closes |-> 0, destroys |-> 0]
  /\ bound \in Bounds

-----------------------------------------------------------------------------
(* Peer connections and operations.                                        *)

NewConnection == [ops |-> << >>, sdp |-> << >>, offered |-> FALSE, tracks |-> {}]

(* createWebRTCConnection: the connection of a transport, a new one when   *)
(* it has none (or no longer).                                             *)
WithConnection(t) ==
  /\ pc' = pc @@ (t :> NewConnection)
  /\ mappingPublicId' = mappingPublicId @@ (t :> {})

(* addTrackOperation: a line that already has an operation keeps it, even  *)
(* a removed one.                                                          *)
addTrackOperation(ops, op) == ops @@ [m \in MidsOf[op] |-> [op |-> op, on |-> TRUE]]

CreateTransport(t) ==
  /\ t \notin DOMAIN pc
  /\ WithConnection(t)
  /\ UNCHANGED <<mediaTracks, mappingTransports, layers, switches, router, complete, past>>

(* publish and subscribe; the answer is ok whatever became of the lines.   *)
Publish(op) ==
  LET t == Transport[op]
      c == IF t \in DOMAIN pc THEN pc[t] ELSE NewConnection
  IN /\ op \notin DOMAIN mappingTransports
     /\ pc' = (t :> [c EXCEPT !.ops = addTrackOperation(@, op)]) @@ pc
     /\ mappingPublicId' = mappingPublicId @@ (t :> {})
     /\ mappingTransports' = mappingTransports @@ (op :> t)
     /\ UNCHANGED <<mediaTracks, layers, switches, router, complete, past>>

-----------------------------------------------------------------------------
(* Tracks.                                                                 *)

(* destroyTransport goes by the remote description alone: a line it has    *)
(* encodings for, which a closed line no longer has.                       *)
TakenDown(sdp, mid) ==
  IF mid \in Simulcast /\ mid \in DOMAIN sdp /\ sdp[mid] THEN {mid} \X Rids ELSE {<<mid, None>>}

(* handleTrackInfo, track-added: the track, its public id, its connection, *)
(* which a connection of that name keeps out.                              *)
TracksAdded(t, ids) ==
  LET new == {<<t, id>> : id \in ids} \ mediaTracks
  IN /\ mediaTracks' = mediaTracks \cup new
     /\ mappingPublicId' = [mappingPublicId EXCEPT ![t] = @ \cup {p[2] : p \in new}]
     /\ router' = [router EXCEPT !.conns =
          @ @@ [p \in new |-> Connection("webrtc", DirOf(p[2][1]), {Kind[p[2][1]]})]]

(* A track that closes closes its layers, which leave the router too.      *)
LayersOf(tracks) == {l \in layers : <<l[1], l[2]>> \in tracks}

Without(gone) == FoldSet(LAMBDA id, R : RemoveConnection(R, id), router, gone \cup LayersOf(gone))

(* Faulty: the ids of the tracks stay those of the transport.              *)
TracksRemoved_still_public(t, ids) ==
  LET gone == {<<t, id>> : id \in ids \cap mappingPublicId[t]} \cap mediaTracks
  IN /\ router' = Without(gone)
     /\ layers' = layers \ LayersOf(gone)
     /\ mediaTracks' = mediaTracks \ gone
     /\ UNCHANGED mappingPublicId

(* handleTrackInfo, track-removed, for those of the ids the node has.      *)
TracksRemoved(t, ids) ==
  LET gone == {<<t, id>> : id \in ids \cap mappingPublicId[t]} \cap mediaTracks
  IN /\ router' = Without(gone)
     /\ layers' = layers \ LayersOf(gone)
     /\ mediaTracks' = mediaTracks \ gone
     /\ mappingPublicId' = [mappingPublicId EXCEPT ![t] = @ \ {p[2] : p \in gone}]

(* unpublish and unsubscribe: removeTrackOperation on the connection the   *)
(* operation was made on.  When that is gone nobody answers the request.   *)
Unpublish(op) ==
  LET t == mappingTransports[op]
      c == pc[t]
      mids == {m \in DOMAIN c.ops : c.ops[m].op = op}
      ids == IF c.offered THEN UNION {TakenDown(c.sdp, m) : m \in mids} ELSE {}
      set == UNION {SetUp(m) : m \in mids} \cap c.tracks
  IN /\ op \in DOMAIN mappingTransports /\ t \in DOMAIN pc
     /\ \E m \in mids : c.ops[m].on
     /\ pc' = [pc EXCEPT ![t].ops = [m \in DOMAIN @ |-> [@[m] EXCEPT !.on = @ /\ m \notin mids]],
                         ![t].tracks = @ \ ids]
     /\ TracksRemoved(t, ids \cap c.tracks)
     /\ past' = [past EXCEPT !.stray = @ \cup {op : x \in set \ ids}]
     /\ UNCHANGED <<mappingTransports, switches, complete>>

-----------------------------------------------------------------------------
(* Offers.  offer gives each of its lines as open (TRUE) or closed.        *)

(* The lines of mids are set up; the controller hears that the operation   *)
(* of the last one is complete.                                            *)
SetUpLines(t, mids, sdp) ==
  LET c == pc[t]
      ids == UNION {SetUp(m) : m \in mids} \ c.tracks
      ops == {c.ops[m].op : m \in mids}
  IN /\ pc' = [pc EXCEPT ![t].sdp = sdp, ![t].offered = TRUE, ![t].tracks = @ \cup ids]
     /\ TracksAdded(t, ids)
     /\ IF mids = {} THEN UNCHANGED complete
        ELSE \E m \in mids : complete' = complete \cup {c.ops[m].op}
     /\ past' = [past EXCEPT !.stray = @ \cup {c.ops[m].op : m \in {n \in mids : ~c.ops[n].on}},
                             !.shared = IF Cardinality(ops) > 1 THEN @ \cup ops ELSE @,
                             !.self = @ \cup ({<<t, id>> : id \in ids} \cap Ids(router))]
     /\ UNCHANGED <<mappingTransports, layers, switches>>

(* processOffer: a line without an operation is closed in the answer.      *)
FirstOffer(t, offer) ==
  LET sdp == [m \in DOMAIN offer |-> offer[m] /\ m \in DOMAIN pc[t].ops]
  IN /\ ~pc[t].offered /\ DOMAIN offer # {}
     /\ SetUpLines(t, {m \in DOMAIN sdp : sdp[m]}, sdp)

(* A later offer sets up the lines it adds and closes those it closes; the *)
(* tracks of these stay until their operation is removed.                  *)
LaterOffer(t, offer) ==
  LET old == pc[t].sdp
      sdp == [m \in DOMAIN offer |->
                IF m \in DOMAIN old THEN old[m] /\ offer[m] ELSE offer[m] /\ m \in DOMAIN pc[t].ops]
  IN /\ pc[t].offered
     /\ SetUpLines(t, {m \in DOMAIN sdp \ DOMAIN old : sdp[m]}, sdp)

(* onTransportSignaling.  A client drops only closed lines, closes only    *)
(* open ones and repeats no offer.                                         *)
Signal(t) ==
  /\ t \in DOMAIN pc /\ \E op \in DOMAIN mappingTransports : mappingTransports[op] = t
  /\ \E lines \in SUBSET UNION {MidsOf[o] : o \in {o \in bound.ops : Transport[o] = t}} : \E offer \in [lines -> BOOLEAN] :
       LET old == pc[t].sdp
       IN /\ offer # old
          /\ {m \in DOMAIN old : old[m]} \subseteq lines
          /\ \A m \in lines : m \in DOMAIN old /\ ~old[m] => ~offer[m]
          /\ \A m \in lines \ DOMAIN old : offer[m]
          /\ FirstOffer(t, offer) \/ LaterOffer(t, offer)

-----------------------------------------------------------------------------
(* Links, layers and switches.                                             *)

(* Destinations that already have another source for the kind keep its     *)
(* native link: past.relinked.                                             *)
LinkTo(dst, from) ==
  /\ past.links < bound.links
  /\ router' = Linkup(router, dst, from, Remotes \cup Published)
  /\ past' = [past EXCEPT !.links = @ + 1,
        !.relinked = IF dst \notin Ids(router) THEN @
          ELSE @ \cup {<<k, dst>> : k \in {k \in DOMAIN from :
                                 router.conns[dst].from[k] \notin {None, from[k]}}}]
  /\ UNCHANGED <<pc, mediaTracks, mappingPublicId, mappingTransports, layers, switches, complete>>

(* linkup: a track a client subscribes with, from a track of a client, a   *)
(* layer of one, a switch, or a stream of another node.  The controller    *)
(* may not have heard yet that they are gone.                              *)
Link ==
  \E dst \in {p \in PublicIds : DirOf(p[2][1]) = "out" /\ OpOf(p[2][1]) \in bound.ops} :
    \E src \in {p \in Published : Kind[p[2][1]] = Kind[dst[2][1]]} \cup layers \cup Switches \cup Remotes :
      /\ src \in Switches => src \in Ids(router)
      /\ LinkTo(dst, Kind[dst[2][1]] :> src)

CutOff ==
  /\ past.closes < bound.closes
  /\ \E id \in {p \in PublicIds \cap Ids(router) : CutoffConnection(router, p) # router} :
       router' = CutoffConnection(router, id)
  /\ past' = [past EXCEPT !.closes = @ + 1]
  /\ UNCHANGED <<pc, mediaTracks, mappingPublicId, mappingTransports, layers, switches, complete>>

(* createLayerStreams: a layer of a scalable track, a source of its own.   *)
CreateLayerStream(p, l) ==
  LET id == <<p[1], p[2], l>>
  IN /\ p \in mediaTracks /\ p[2][1] \in Legacy /\ id \notin layers
     /\ layers' = layers \cup {id}
     /\ router' = AddConnection(router, id, "webrtc", "in", {"video"})
     /\ UNCHANGED <<pc, mediaTracks, mappingPublicId, mappingTransports, switches, complete, past>>

(* createQualitySwitch: a dispatcher behind each source there is, which    *)
(* nothing ever removes, and the switch before them.                       *)
CreateQualitySwitch(sw, srcs) ==
  LET R == Created(router, srcs \cap Remotes, sw)
      D == {<<sw, s>> : s \in srcs \cap Ids(R)}
      S == FoldSet(LAMBDA d, X : LinkupConnection(X, d, [video |-> d[2]]),
                   [R EXCEPT !.conns = @ @@ [d \in D |-> Connection("dispatcher", "out", Kinds)]], D)
  IN /\ sw \notin Ids(router) /\ srcs # {}
     /\ switches' = switches \cup {sw}
     /\ router' = AddConnection(S, sw, "webrtc", "in", {"video"})
     /\ UNCHANGED <<pc, mediaTracks, mappingPublicId, mappingTransports, layers, complete, past>>

(* The client of another node's stream disconnects.  The switch that made  *)
(* it halts, and stays in the table.                                       *)
Disconnected(id) ==
  /\ id \in DOMAIN router.remote
  /\ past.closes < bound.closes
  /\ router' = DestroyRemoteSource(router, id)
  /\ switches' = switches \ {router.remote[id].maker}
  /\ past' = [past EXCEPT !.closes = @ + 1, !.halted = @ \cup (switches \cap {router.remote[id].maker})]
  /\ UNCHANGED <<pc, mediaTracks, mappingPublicId, mappingTransports, layers, complete>>

(* destroyTransport: all its tracks, then the connection.                  *)
DestroyTransport(t) ==
  /\ t \in DOMAIN pc
  /\ past.destroys < bound.destroys
  /\ LET gone == {<<t, id>> : id \in mappingPublicId[t]}
     IN /\ router' = Without(gone)
        /\ layers' = layers \ LayersOf(gone)
        /\ mediaTracks' = mediaTracks \ gone
  /\ mappingPublicId' = Restrict(mappingPublicId, DOMAIN mappingPublicId \ {t})
  /\ pc' = Restrict(pc, DOMAIN pc \ {t})
  /\ past' = [past EXCEPT !.destroys = @ + 1]
  /\ UNCHANGED <<mappingTransports, switches, complete>>

Step ==
  \/ \E t \in Transports : CreateTransport(t) \/ Signal(t) \/ DestroyTransport(t)
  \/ \E op \in bound.ops : Publish(op) \/ Unpublish(op)
  \/ Link
  \/ CutOff
  \/ \E p \in mediaTracks, l \in Layers : CreateLayerStream(p, l)
  \/ \E sw \in bound.switches, srcs \in SUBSET (Remotes \cup {p \in mediaTracks : p \in Published /\ Kind[p[2][1]] = "video"}) :
       CreateQualitySwitch(sw, srcs)
  \/ \E id \in Remotes \cup Published : Disconnected(id)

Next == Step /\ UNCHANGED bound

Spec == Init /\ [][Next]_vars

-----------------------------------------------------------------------------
(* The four tables of a track agree: the open tracks, the public ids of    *)
(* each transport, what its connection tracks and the router's sources and *)
(* destinations; a transport that is destroyed leaves nothing in any, nor  *)
(* a layer.  A source asked for after its track was gone may hold its name.*)
TracksAgree ==
  /\ DOMAIN mappingPublicId = DOMAIN pc
  /\ mediaTracks = UNION {{<<t, id>> : id \in mappingPublicId[t]} : t \in DOMAIN pc}
  /\ \A t \in DOMAIN pc : pc[t].tracks \subseteq mappingPublicId[t]
  /\ \A p \in mediaTracks \ past.self : p \in Ids(router) /\ router.conns[p].type = "webrtc"
  /\ \A p \in PublicIds \cap Ids(router) : router.conns[p].type = "webrtc" => p \in mediaTracks
  /\ \A l \in layers : l \in Ids(router) /\ <<l[1], l[2]>> \in mediaTracks

(* A removed operation has no track left, unless its lines came in an      *)
(* offer that was late, or their tracks went by other names than those the *)
(* removal looks for: past.stray.                                          *)
RemovedIsGone ==
  \A t \in DOMAIN pc : \A m \in DOMAIN pc[t].ops :
    LET o == pc[t].ops[m]
    IN ~o.on /\ o.op \notin past.stray => \A id \in pc[t].tracks : id[1] # m

(* The native links are those of the table, and join objects that are      *)
(* open.  Left out: a destination linked anew without being cut off first, *)
(* and a switch that halted.                                               *)
Open(id) ==
  \/ id \in mediaTracks \cup layers \cup switches \cup DOMAIN router.remote
  \/ id \in Ids(router) /\ router.conns[id].type = "dispatcher"

LinksAgree ==
  /\ \A l \in router.links :
       \/ <<l[2], l[3]>> \in past.relinked
       \/ l \in TableLinks(router) /\ Open(l[3]) /\ (l[1] \in past.halted \/ Open(l[1]))
  /\ TableLinks(router) \subseteq router.links

(* An operation whose tracks are set up was reported complete, unless one  *)
(* offer set up lines of several operations.                               *)
CompleteAgrees ==
  \A t \in DOMAIN pc : \A m \in DOMAIN pc[t].ops :
    (\E id \in pc[t].tracks : id[1] = m) => pc[t].ops[m].op \in complete \cup past.shared
=============================================================================
