--------------------------- MODULE MCAgents --------------------------------
(***************************************************************************)
(* Small instances, for TLC, of the processes of an agent: its parent (a   *)
(* pool of nodes), a WebRTC node, a SIP node, the video nodes (a mixer and *)
(* a transcoder), an audio node and a QUIC node with its controller; of    *)
(* the SIP portal that keeps SIP nodes, and of a portal with a client.  A  *)
(* behaviour is of one process, the others stay as they start: what one    *)
(* asks of another is in each module what the others may do.               *)
(***************************************************************************)
EXTENDS NodeManager, TLC

CONSTANTS None, r1, r2, t1, t2, t3, c1, c2, c3,  \* of the parent
          pub1, pub2, sub1, tr1, tr2, mid1, mid2, mid3, rid1, rid2, layer, switch, remote,  \* of the WebRTC node
          peer, i1, i2,  \* of the SIP node
          s1, s2, s3, link, link2,  \* of the video and audio nodes; the first two are accounts of the SIP portal, too
          o1, o2, f1, f2,           \* outputs and formats
          p1, p2, u1, u2, n1, n2    \* publications, subscriptions and URLs of a client

(* Clients of a conference agent ask for a room with the room as the task, *)
(* and never give it back.                                                 *)
Conference ==
  [prerunNodeNum |-> 1, maxNodeNum |-> -1, reuseNode |-> FALSE, consumeNodeByRoom |-> TRUE,
   dropsOnOverload |-> FALSE, recycles |-> FALSE, nodes |-> 3,
   asks |-> [c \in Callers |-> {[room |-> r1, task |-> t1]}]]

(* A media agent with one process that is used again, and the overload     *)
(* drop of the recording agent; clients ask with tasks of their own.       *)
Media ==
  [prerunNodeNum |-> 1, maxNodeNum |-> 1, reuseNode |-> TRUE, consumeNodeByRoom |-> TRUE,
   dropsOnOverload |-> TRUE, recycles |-> TRUE, nodes |-> 2,
   asks |-> [c \in Callers |-> [room : Rooms, task : IF c = c1 THEN {t1} ELSE {t2}]]]

(* Three clients of one process: two of them in the first room, the third  *)
(* in the second, where the first may come as well.                        *)
Mingled ==
  [prerunNodeNum |-> 1, maxNodeNum |-> 1, reuseNode |-> TRUE, consumeNodeByRoom |-> TRUE,
   dropsOnOverload |-> FALSE, recycles |-> TRUE, nodes |-> 1,
   asks |-> [c \in Callers |->
     {[room |-> r, task |-> IF c = c1 THEN t1 ELSE IF c = c2 THEN t2 ELSE t3] :
        r \in IF c = c1 THEN Rooms ELSE IF c = c2 THEN {r1} ELSE {r2}}]]

MCAgents == {Conference, Media}
MCMingled == {Mingled}

-----------------------------------------------------------------------------
VARIABLES
  process,      \* "parent", "webrtc", "sip", "video", "transcoder", "audio", "sip_portal", "client" or "quic"
  pc, mediaTracks, mappingPublicId, mappingTransports, layers, switches, router, complete, wPast, wBound,
  sipCalls, media, tasks, gateway, events, conference, sPast, sBound,
  inputManager, engine, layout, told, sources, unlinkedInputs, fromMap, vPast, vBound,
  input, inputConnId, unlinkedInput, vOutputs, tRouter, tEngine, tPast, tUsed, tBound,
  inputs, aUnlinked, aFromMap, aOutputs, aRouter, aEngine, ranker, changes, aPast, aUsed, aBound,
  db, requests, inbox, portal, roomInfo, chain, erizos, sipWatched, sipNodes, pPast, pBound,
  cPortal, answers, notices, cConference, cPast, cBound,
  qNode, connections, streams, qRouter, transports, operations, qPast, qBound

webrtc == <<pc, mediaTracks, mappingPublicId, mappingTransports, layers, switches, router, complete, wPast, wBound>>
sip == <<sipCalls, media, tasks, gateway, events, conference, sPast, sBound>>
video == <<inputManager, engine, layout, told, sources, unlinkedInputs, fromMap, vPast, vBound>>
transcoder == <<input, inputConnId, unlinkedInput, vOutputs, tRouter, tEngine, tPast, tUsed, tBound>>
audio == <<inputs, aUnlinked, aFromMap, aOutputs, aRouter, aEngine, ranker, changes, aPast, aUsed, aBound>>
sip_portal == <<db, requests, inbox, portal, roomInfo, chain, erizos, sipWatched, sipNodes, pPast, pBound>>
client == <<cPortal, answers, notices, cConference, cPast, cBound>>
quic == <<qNode, connections, streams, qRouter, transports, operations, qPast, qBound>>

(* The WebRTC node: two publications in simulcast on one transport, the    *)
(* second as layers of one track, and a subscription on another.           *)
Quiet == [ops |-> {}, links |-> 0, closes |-> 0, destroys |-> 0, switches |-> {}]
WebrtcBounds ==
  {[Quiet EXCEPT !.ops = {pub1, pub2}, !.destroys = 1],
   [Quiet EXCEPT !.ops = {pub1, sub1}, !.links = 2, !.closes = 1, !.destroys = 1],
   [Quiet EXCEPT !.ops = {pub2, sub1}, !.links = 1, !.closes = 1, !.switches = {switch}]}

W == INSTANCE WebrtcNode WITH
  Ops <- {pub1, pub2, sub1},
  Transport <- (pub1 :> tr1) @@ (pub2 :> tr1) @@ (sub1 :> tr2),
  Dir <- (pub1 :> "in") @@ (pub2 :> "in") @@ (sub1 :> "out"),
  MidsOf <- (pub1 :> {mid1}) @@ (pub2 :> {mid2}) @@ (sub1 :> {mid3}),
  Kind <- (mid1 :> "video") @@ (mid2 :> "video") @@ (mid3 :> "video"),
  Simulcast <- {mid1, mid2}, Legacy <- {mid2}, Rids <- {rid1, rid2}, Layers <- {layer},
  Remotes <- {remote}, Switches <- {switch}, Bounds <- WebrtcBounds, past <- wPast, bound <- wBound

(* The SIP node: one peer, its calls, those made to it, what they          *)
(* negotiate again, what the conference drops and refuses, and a failure   *)
(* of the conference node.                                                 *)
Silence == [calls |-> 0, makes |-> 0, updates |-> 0, ends |-> 0, drops |-> 0, denials |-> 0, faults |-> 0]
SipBounds ==
  {[Silence EXCEPT !.calls = 2, !.ends = 1, !.denials = 1],
   [Silence EXCEPT !.calls = 1, !.makes = 1, !.ends = 1, !.drops = 1],
   [Silence EXCEPT !.calls = 1, !.updates = 3, !.ends = 1],
   [Silence EXCEPT !.calls = 1, !.makes = 1, !.faults = 1, !.denials = 1],
   [Silence EXCEPT !.calls = 1, !.makes = 1, !.ends = 1, !.faults = 1, !.updates = 1]}

S == INSTANCE SipNode WITH
  Peers <- {peer}, Infos <- {i1, i2}, Publishes <- {i1, i2}, Subscribes <- {i1},
  Bounds <- SipBounds, calls <- sipCalls, past <- sPast, bound <- sBound

(* The video node: three streams for two inputs.                           *)
V == INSTANCE VideoMixer WITH
  Streams <- {s1, s2, s3}, Connections <- {link}, MaxInput <- 2, Templates <- {1, 2},
  Bounds <- {[requests |-> 5, faults |-> 0], [requests |-> 5, faults |-> 2]},
  past <- vPast, bound <- vBound

(* The transcoder: two streams, two connections and two outputs for its    *)
(* one input; one of two formats cannot be encoded.                        *)
T == INSTANCE VideoTranscoder WITH
  Streams <- {s1, s2}, Connections <- {link, link2}, Outputs <- {o1, o2}, Formats <- {f1, f2}, Supported <- {f1},
  Bounds <- {[requests |-> 6, faults |-> 1]}, outputs <- vOutputs, router <- tRouter, engine <- tEngine,
  past <- tPast, used <- tUsed, bound <- tBound

(* The audio node: three streams, a connection, and two places for those   *)
(* who are heard, in each of its engines.                                  *)
AudioBounds ==
  {[engine |-> "mixing", requests |-> 5, ranks |-> 0, faults |-> 1],
   [engine |-> "ranked", requests |-> 4, ranks |-> 2, faults |-> 0],
   [engine |-> "selecting", requests |-> 4, ranks |-> 2, faults |-> 0]}

A == INSTANCE AudioNode WITH
  Streams <- {s1, s2, s3}, Connections <- {link}, Outputs <- {o1, o2}, Places <- 2, Whom <- {f1},
  Bounds <- AudioBounds, unlinkedInputs <- aUnlinked, fromMap <- aFromMap, outputs <- aOutputs, router <- aRouter,
  engine <- aEngine, past <- aPast, used <- aUsed, bound <- aBound

(* The SIP portal: one room and two accounts.                              *)
PortalBounds ==
  {[requests |-> 3, faults |-> 0, restarts |-> 0], [requests |-> 2, faults |-> 2, restarts |-> 0],
   [requests |-> 2, faults |-> 1, restarts |-> 1]}

P == INSTANCE SipPortal WITH
  Rooms <- {r1}, Sips <- {s1, s2}, Bounds <- PortalBounds,
  watched <- sipWatched, nodes <- sipNodes, past <- pPast, bound <- pBound

(* A client of the portal: requests and a failure; calls answered late; a  *)
(* stream of notifications that ends; two logins on one socket.            *)
Legacy == [kind |-> "legacy", grpc |-> FALSE, requests |-> 2, logins |-> 1, logouts |-> 0, late |-> 0, aborts |-> 0, ends |-> 0]
ClientBounds ==
  {[Legacy EXCEPT !.requests = 3, !.aborts = 1],
   [Legacy EXCEPT !.late = 1, !.aborts = 1],
   [Legacy EXCEPT !.grpc = TRUE, !.ends = 1, !.aborts = 1]}
  \cup {[Legacy EXCEPT !.kind = k, !.logins = 2, !.logouts = 1] : k \in {"legacy", "1.2"}}

C == INSTANCE PortalClient WITH
  Streams <- {p1, p2}, Subs <- {u1, u2}, Names <- {n1, n2}, Formatted <- (n1 :> n1) @@ (n2 :> n1),
  Bounds <- ClientBounds, portal <- cPortal, conference <- cConference, past <- cPast, bound <- cBound

(* The QUIC node, with one client: media and data both ways, a publication *)
(* a stream comes in for, and two subscriptions that share a connection.   *)
Still == [sessions |-> {}, conns |-> {tr1}, streams |-> {}, datagram |-> TRUE,
          terminates |-> 0, timeouts |-> 0, links |-> 0, faults |-> 0]
QuicBounds ==
  {[Still EXCEPT !.sessions = {p1, u1}, !.terminates = 2, !.links = 2, !.faults = 1],
   [Still EXCEPT !.sessions = {p1}, !.terminates = 2, !.timeouts = 2, !.streams = {s1}, !.faults = 1],
   [Still EXCEPT !.sessions = {u1}, !.terminates = 3, !.timeouts = 3, !.datagram = FALSE, !.faults = 1],
   [Still EXCEPT !.sessions = {p2, u2}, !.terminates = 1, !.links = 2, !.streams = {s1}],
   [Still EXCEPT !.sessions = {u1, o1}, !.terminates = 1, !.faults = 2]}

Q == INSTANCE QuicNode WITH
  Pubs <- {p1, p2}, Subs <- {u1, u2, o1}, Media <- {p1, u1, o1}, Remotes <- {remote}, Conns <- {tr1},
  Streams <- {s1}, Transport <- [x \in {p1, p2, u1, u2, o1} |-> tr1], Bounds <- QuicBounds,
  node <- qNode, router <- qRouter, past <- qPast, bound <- qBound

ASSUME W!OpsAssumption /\ S!InfosAssumption /\ V!MixerAssumption /\ T!BoundsAssumption /\ A!BoundsAssumption /\ C!ClientAssumption
ASSUME Q!QuicAssumption

AgentsInit ==
  /\ process \in {"parent", "webrtc", "sip", "video", "transcoder", "audio", "sip_portal", "client", "quic"}
  /\ Init /\ W!Init /\ S!Init /\ V!Init /\ T!Init /\ A!Init /\ P!Init /\ C!Init /\ Q!Init
  /\ process # "parent" => m.spec = CHOOSE a \in Agents : TRUE
  /\ process # "webrtc" => wBound = CHOOSE b \in WebrtcBounds : TRUE
  /\ process # "sip" => sBound = CHOOSE b \in SipBounds : TRUE
  /\ process # "video" => vBound.faults = 0
  /\ process # "audio" => aBound.engine = "mixing"
  /\ process # "sip_portal" => pBound = CHOOSE b \in PortalBounds : TRUE
  /\ process # "client" => cBound = CHOOSE b \in ClientBounds : TRUE
  /\ process # "quic" => qBound = CHOOSE b \in QuicBounds : TRUE

AgentsNext ==
  /\ UNCHANGED process
  /\ \/ process = "parent" /\ Next /\ UNCHANGED <<webrtc, sip, video, transcoder, audio, sip_portal, client, quic>>
     \/ process = "webrtc" /\ W!Next /\ UNCHANGED <<vars, sip, video, transcoder, audio, sip_portal, client, quic>>
     \/ process = "sip" /\ S!Next /\ UNCHANGED <<vars, webrtc, video, transcoder, audio, sip_portal, client, quic>>
     \/ process = "video" /\ V!Next /\ UNCHANGED <<vars, webrtc, sip, transcoder, audio, sip_portal, client, quic>>
     \/ process = "transcoder" /\ T!Next /\ UNCHANGED <<vars, webrtc, sip, video, audio, sip_portal, client, quic>>
     \/ process = "audio" /\ A!Next /\ UNCHANGED <<vars, webrtc, sip, video, transcoder, sip_portal, client, quic>>
     \/ process = "sip_portal" /\ P!Next /\ UNCHANGED <<vars, webrtc, sip, video, transcoder, audio, client, quic>>
     \/ process = "client" /\ C!Next /\ UNCHANGED <<vars, webrtc, sip, video, transcoder, audio, sip_portal, quic>>
     \/ process = "quic" /\ Q!Next /\ UNCHANGED <<vars, webrtc, sip, video, transcoder, audio, sip_portal, client>>

AgentsSpec == AgentsInit /\ [][AgentsNext]_<<process, vars, webrtc, sip, video, transcoder, audio, sip_portal, client, quic>>

-----------------------------------------------------------------------------
(* WebRTC node: the tables of a track agree, and what was unpublished or   *)
(* destroyed is in none of them; what the router says is linked is linked  *)
(* natively and the other way round, and what was said to be complete is   *)
(* set up (webrtc/index.js, wrtcConnection.js, connections.js).            *)
WebrtcAgrees ==
  process = "webrtc" =>
    W!TypeOK /\ W!TracksAgree /\ W!RemovedIsGone /\ W!LinksAgree /\ W!CompleteAgrees

(* SIP node: at rest the calls, the gateway's dialogs and the conference's *)
(* participants are the same, with the media they are for, and no update   *)
(* of a call was forgotten (sip/index.js).  SIP portal: at rest the rooms  *)
(* that have an account are served by a node registered with it and        *)
(* watched, the others hold none (sip_portal.js).                          *)
SipAgrees ==
  /\ process = "sip" =>
       S!TypeOK /\ S!TablesAgree /\ S!ParticipantsHaveCalls /\ S!CallsAgree /\ S!InfoIsLatest
  /\ process = "sip_portal" => P!TypeOK /\ P!RoomsServed /\ P!DeletedIsGone /\ P!BoundIsWatched

(* Video node: inputs, waiting inputs, free indexes, the engine, its       *)
(* sources and the regions agree; what is mixed is what was asked for, and *)
(* the controller was told the stream of each region (vmixer.js).          *)
(* Transcoder: node, engine and router have the same input and outputs,    *)
(* and what is transcoded is published (video/vtranscoder.js).             *)
VideoAgrees ==
  /\ process = "video" =>
       V!TypeOK /\ V!InputsAgree /\ V!LayoutAgrees /\ V!SourcesAgree /\ V!MixedIsWanted /\ V!ToldIsShown
  /\ process = "transcoder" => T!TypeOK /\ T!TablesAgree /\ T!InputIsPublished

(* Audio node: node, engine and router have the same inputs and outputs,   *)
(* what is heard is published, and at rest the loudest are those in the    *)
(* places of the mixer (audio/index.js, AudioRanker.cpp).                  *)
AudioAgrees ==
  process = "audio" => A!TypeOK /\ A!TablesAgree /\ A!HeardIsPublished /\ A!PlacesAgree

(* A client of the portal: what a legacy client may unsubscribe and update *)
(* is what the conference has for it, whatever order answers, failures and *)
(* logins come in; what it published is mixed once it is ready; nothing is *)
(* asked for a participant that has left (legacyClient.js, portal.js).     *)
ClientAgrees ==
  process = "client" =>
    /\ C!TypeOK /\ C!TablesMirror /\ C!NothingOrphaned /\ C!EntriesExplained
    /\ C!PublishedKnown /\ C!MixAsked /\ C!NothingAfterLeave

(* QUIC node: the controller has an operation for every session the node   *)
(* keeps, whatever timed out; the node's tables agree and only what it     *)
(* publishes takes streams, over a connection whose token was valid; the   *)
(* router's links are native ones (quic/index.js, quicTransportServer.js,  *)
(* quicController.js).                                                     *)
QuicAgrees ==
  process = "quic" =>
    Q!TypeOK /\ Q!OperationsAgree /\ Q!TablesAgree /\ Q!ConnectionsAgree /\ Q!OutputsAgree /\ Q!LinksAgree
=============================================================================
