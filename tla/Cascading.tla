------------------------------ MODULE Cascading ------------------------------
(***************************************************************************)
(* One room in two clusters (agent/conference/conference.js, event_bridge/ *)
(* eventCascading.js): each has a conference and an event bridge, and the  *)
(* conferences mirror each other's participants and streams through a QUIC *)
(* stream between the bridges.  The bridge of one cluster is the client    *)
(* that connects, the other the server.                                    *)
(*                                                                         *)
(* A conference that was told of the connection sends what it has, then    *)
(* every change; a bridge passes on what is for a stream it knows; when    *)
(* the stream is lost the conference is told, and removes the mirror.      *)
(* Sessions end, conferences end and are started again, bridges die; what  *)
(* was under way is then lost or late.                                     *)
(***************************************************************************)
EXTENDS Integers, Sequences, FiniteSets, SequencesExt, Functions, TLC

CONSTANTS Client, Server,   \* the clusters
          Users, Streams,   \* of both, by their cluster
          Bounds            \* the bounds a behaviour may choose: how often
                            \* participants and streams come, change and go,
                            \* mirrored streams are fetched, connections made
                            \* and how many failures

BoundsAssumption ==
  /\ Client # Server
  /\ \A b \in Bounds : {b.changes, b.fetches, b.connects, b.faults} \subseteq Nat

VARIABLES conf,     \* by cluster: the conference
          late,     \* by cluster: announcements the conference has timers for
          out,      \* by cluster: what the conference sent to its bridge
          into,     \* by cluster: what the other bridge sent, for the conference
          bridge,   \* by cluster: the sessions and streams of the bridge
          closing,  \* ends of sessions and streams a bridge has not seen yet
          dead,     \* streams that have ended
          mishaps,  \* what went wrong so far
          used, bound

vars == <<conf, late, out, into, bridge, closing, dead, mishaps, used, bound>>

Clusters == {Client, Server}
Other(c) == IF c = Client THEN Server ELSE Client
Without(f, e) == Restrict(f, DOMAIN f \ {e})
Use(kind) == used[kind] < bound[kind] /\ used' = [used EXCEPT ![kind] = @ + 1]

-----------------------------------------------------------------------------
(* A conference: its own participants and streams, those of the other      *)
(* cluster, whether it knows its cluster's id and the event bridge, and    *)
(* whether it is initialized.  Of a mirrored stream: what is known of it,  *)
(* whether its cluster was named, and how far its media was fetched.       *)
Fresh(n) == [inc |-> n, up |-> FALSE, named |-> FALSE, linked |-> FALSE,
             users |-> {}, streams |-> <<>>, guests |-> {}, mirror |-> <<>>]

(* A bridge: the session it is in and whether the room is cascaded in it,  *)
(* the conference each stream is for, and, in controllers, the streams a   *)
(* conference sends to.                                                    *)
Idle == [session |-> 0, room |-> FALSE, streams |-> <<>>, controllers |-> {}]

Init ==
  /\ bound \in Bounds
  /\ conf = [c \in Clusters |-> Fresh(1)]
  /\ late = [c \in Clusters |-> <<>>]
  /\ out = [c \in Clusters |-> <<>>]
  /\ into = [c \in Clusters |-> <<>>]
  /\ bridge = [c \in Clusters |-> Idle]
  /\ closing = {} /\ dead = {}
  /\ mishaps = {}
  /\ used = [changes |-> 0, fetches |-> 0, connects |-> 0, faults |-> 0]

Send(c, what) == [out EXCEPT ![c] = IF conf[c].linked THEN Append(@, [inc |-> conf[c].inc] @@ what) ELSE @]
Tell(c, what) == Append(into[c], what)

-----------------------------------------------------------------------------
(* The conference and its own cluster.  The first to join initializes the  *)
(* room, and the cluster manager is asked for the id of the cluster.       *)
AddParticipant(c, u) ==
  /\ u \in Users[c] \ conf[c].users
  /\ Use("changes")
  /\ conf' = [conf EXCEPT ![c].users = @ \cup {u}, ![c].up = TRUE]
  /\ out' = Send(c, [type |-> "addParticipant", id |-> u])
  /\ UNCHANGED <<late, into, bridge, closing, dead, mishaps, bound>>

GetClusterID(c) ==
  /\ conf[c].up /\ ~conf[c].named
  /\ conf' = [conf EXCEPT ![c].named = TRUE]
  /\ UNCHANGED <<late, out, into, bridge, closing, dead, mishaps, used, bound>>

(* Streams are announced with a delay, changes of them at once.            *)
AddStream(c, s) ==
  /\ s \in Streams[c] \ DOMAIN conf[c].streams /\ conf[c].users # {}
  /\ Use("changes")
  /\ conf' = [conf EXCEPT ![c].streams = (s :> 0) @@ @]
  /\ late' = [late EXCEPT ![c] = Append(@, [type |-> "addStream", id |-> s])]
  /\ UNCHANGED <<out, into, bridge, closing, dead, mishaps, bound>>

UpdateStreamInfo(c, s) ==
  /\ s \in DOMAIN conf[c].streams
  /\ Use("changes")
  /\ conf' = [conf EXCEPT ![c].streams[s] = @ + 1]
  /\ out' = Send(c, [type |-> "updateStreamInfo", id |-> s, v |-> conf[c].streams[s] + 1])
  /\ UNCHANGED <<late, into, bridge, closing, dead, mishaps, bound>>

Removal(s) == [type |-> "removeStream", id |-> s]

RemoveStream(c, s) ==
  /\ s \in DOMAIN conf[c].streams
  /\ Use("changes")
  /\ conf' = [conf EXCEPT ![c].streams = Without(@, s)]
  /\ late' = [late EXCEPT ![c] = Append(@, Removal(s))]
  /\ UNCHANGED <<out, into, bridge, closing, dead, mishaps, bound>>

(* A stream that was fetched from the other cluster is taken for one of    *)
(* this one, owned by who fetched it.                                      *)
Announced(mirror) == SetToSeq({Removal(s) : s \in {s \in DOMAIN mirror : mirror[s].how = "own"}})

RemoveParticipant(c, u) ==
  /\ u \in conf[c].users
  /\ Use("changes")
  /\ LET mine == IF conf[c].users = {u} THEN conf[c].streams ELSE <<>>
         fetched == {s \in DOMAIN conf[c].mirror : conf[c].mirror[s].by = u}
     IN /\ conf' = [conf EXCEPT ![c].users = @ \ {u},
                                ![c].streams = Restrict(@, DOMAIN @ \ DOMAIN mine),
                                ![c].mirror = Restrict(@, DOMAIN @ \ fetched)]
        /\ late' = [late EXCEPT ![c] = @ \o SetToSeq({Removal(s) : s \in DOMAIN mine})
                                         \o Announced(Restrict(conf[c].mirror, fetched))]
        /\ mishaps' = IF fetched # {} THEN mishaps \cup {"taken_for_own"} ELSE mishaps
  /\ out' = Send(c, [type |-> "removeParticipant", id |-> u])
  /\ UNCHANGED <<into, bridge, closing, dead, bound>>

(* A delay is over.                                                        *)
Announce(c) ==
  /\ late[c] # <<>>
  /\ LET what == Head(late[c])
     IN out' = IF what.type = "addStream"
               THEN IF what.id \in DOMAIN conf[c].streams
                    THEN Send(c, [named |-> conf[c].named, v |-> conf[c].streams[what.id]] @@ what)
                    ELSE Send(c, [named |-> conf[c].named, v |-> 0] @@ what)
               ELSE Send(c, what)
  /\ late' = [late EXCEPT ![c] = Tail(@)]
  /\ UNCHANGED <<conf, into, bridge, closing, dead, mishaps, used, bound>>

-----------------------------------------------------------------------------
(* The bridges.  The client opens a session and a stream in it; the server *)
(* finds its conference, compares the token, and tells the conference.     *)
OnCascadingConnected(C, stream) ==
  [type |-> "initialize", inc |-> C.inc, stream |-> stream, users |-> C.users,
   streams |-> [s \in DOMAIN C.streams |-> [v |-> C.streams[s], named |-> C.named]]]

(* A stream for the conference there is now.                               *)
WithStream(c, n, session) ==
  LET inc == conf[c].inc
  IN [bridge EXCEPT ![c] = [session |-> session, room |-> TRUE, streams |-> (n :> inc) @@ @.streams,
                            controllers |-> @.controllers \cup {<<inc, n>>}]]

StartCascading ==
  /\ ~bridge[Client].room
  /\ Use("connects")
  /\ LET n == used.connects + 1
         session == IF bridge[Client].session = 0 THEN n ELSE bridge[Client].session
     IN /\ bridge' = WithStream(Client, n, session)
        /\ into' = [into EXCEPT ![Server] = Append(@, [type |-> "bridge", stream |-> n, session |-> session])]
  /\ UNCHANGED <<conf, late, out, closing, dead, mishaps, bound>>

(* A refused token closes the stream.                                      *)
Bridged(what) ==
  IF what.stream \in dead THEN UNCHANGED <<conf, out, bridge, closing, dead, used>>
  ELSE \/ /\ bridge' = WithStream(Server, what.stream, what.session)
          /\ conf' = [conf EXCEPT ![Server].linked = TRUE]
          /\ out' = [out EXCEPT ![Server] = Append(@, OnCascadingConnected(conf[Server], what.stream))]
          /\ UNCHANGED <<closing, dead, used>>
       \/ /\ Use("faults")
          /\ closing' = closing \cup {[at |-> Client, what |-> "stream", which |-> what.stream]}
          /\ dead' = dead \cup {what.stream}
          /\ UNCHANGED <<bridge, conf, out>>

(* notify: to the streams that controllers has for this conference, and    *)
(* the initial data to the stream that asked for it.                       *)
Notify(c) ==
  /\ out[c] # <<>>
  /\ LET what == Head(out[c])
         to == {n \in DOMAIN bridge[c].streams \ dead :
                  <<what.inc, n>> \in bridge[c].controllers /\ (what.type = "initialize" => n = what.stream)}
     IN into' = [into EXCEPT ![Other(c)] = @ \o SetToSeq({[stream |-> n] @@ what : n \in to})]
  /\ out' = [out EXCEPT ![c] = Tail(@)]
  /\ UNCHANGED <<conf, late, bridge, closing, dead, mishaps, used, bound>>

-----------------------------------------------------------------------------
(* The mirror.                                                             *)
Mirrored(what) == [v |-> what.v, named |-> what.named, how |-> "listed", by |-> ""]

(* Faulty: a stream of the other cluster goes only when its owner does.    *)
DisconnectCascading_streams_stay(C) == [C EXCEPT !.guests = {}]

(* What is removed by the name of the cluster: streams whose cluster did   *)
(* not name itself stay, and those taken for own.                          *)
DisconnectCascading(C) ==
  [C EXCEPT !.guests = {}, !.mirror = Restrict(@, {s \in DOMAIN @ : ~@[s].named \/ @[s].how = "own"})]

Overwritten(mirror, new) == new @@ mirror

Handle(C, what) ==
  CASE what.type = "addParticipant" -> [C EXCEPT !.guests = @ \cup {what.id}]
    [] what.type = "removeParticipant" -> [C EXCEPT !.guests = @ \ {what.id}]
    [] what.type = "addStream" -> IF C.up THEN [C EXCEPT !.mirror = Overwritten(@, what.id :> Mirrored(what))] ELSE C
    [] what.type = "updateStreamInfo" -> IF what.id \in DOMAIN C.mirror THEN [C EXCEPT !.mirror[what.id].v = what.v] ELSE C
    [] what.type = "removeStream" -> [C EXCEPT !.mirror = Without(@, what.id), !.streams = Without(@, what.id)]
    [] what.type = "initialize" ->
         [C EXCEPT !.guests = @ \cup what.users,
                   !.mirror = IF C.up THEN Overwritten(@, [s \in DOMAIN what.streams |-> Mirrored(what.streams[s])]) ELSE @]
    [] what.type = "onCascadingDisconnected" -> DisconnectCascading(C)

(* What goes wrong: data comes before the room is initialized, and is      *)
(* dropped; a disconnection is that of an older session.  (A change that   *)
(* comes before the announcement of its stream throws, to no effect: the   *)
(* announcement has it.)                                                   *)
Wrong(c, what) ==
  (IF ~conf[c].up /\ what.type \in {"addStream", "initialize"} THEN {"not_initialized"} ELSE {})
  \cup (IF what.type = "onCascadingDisconnected" /\ \E n \in DOMAIN bridge[c].streams \ dead : n > what.stream
        THEN {"late_disconnect"} ELSE {})

(* A removal of its own stream is announced as any other.                  *)
Echo(c, what) ==
  IF what.type = "removeStream" /\ (what.id \in DOMAIN conf[c].streams \/
       (what.id \in DOMAIN conf[c].mirror /\ conf[c].mirror[what.id].how = "own"))
  THEN [late EXCEPT ![c] = Append(@, Removal(what.id))]
  ELSE late

(* The bridge hands an event to the conference the stream is for.          *)
For(c, what) ==
  IF what.type = "onCascadingDisconnected" THEN what.inc
  ELSE IF what.stream \in DOMAIN bridge[c].streams THEN bridge[c].streams[what.stream] ELSE 0

HandleCascadingEvents(c) ==
  /\ into[c] # <<>>
  /\ into' = [into EXCEPT ![c] = Tail(@)]
  /\ LET what == Head(into[c])
         meets == c = Client /\ what.type = "initialize"
         C == Handle(conf[c], what)
     IN IF what.type = "bridge" THEN Bridged(what) /\ UNCHANGED <<late, mishaps>>
        ELSE /\ IF For(c, what) # conf[c].inc
                THEN UNCHANGED <<conf, late, out, mishaps>>
                ELSE /\ conf' = [conf EXCEPT ![c] = IF meets THEN [C EXCEPT !.linked = TRUE] ELSE C]
                     /\ out' = IF meets THEN [out EXCEPT ![c] = Append(@, OnCascadingConnected(conf[c], what.stream))]
                               ELSE out
                     /\ late' = Echo(c, what)
                     /\ mishaps' = mishaps \cup Wrong(c, what)
             /\ UNCHANGED <<bridge, closing, dead, used>>
  /\ UNCHANGED bound

-----------------------------------------------------------------------------
(* A mirrored stream is subscribed to: its media is fetched, and the       *)
(* stream entered.  When its session is ready it is entered anew.          *)
InitiateMediaCascading(c, s) ==
  /\ s \in DOMAIN conf[c].mirror /\ conf[c].mirror[s].how = "listed"
  /\ Use("fetches")
  /\ \E u \in conf[c].users :
       conf' = [conf EXCEPT ![c].mirror[s].how = "fetched", ![c].mirror[s].by = u]
  /\ UNCHANGED <<late, out, into, bridge, closing, dead, mishaps, bound>>

OnSessionEstablished(c, s) ==
  /\ s \in DOMAIN conf[c].mirror /\ conf[c].mirror[s].how = "fetched"
  /\ conf[c].mirror[s].by \in conf[c].users
  /\ conf' = [conf EXCEPT ![c].mirror[s].how = "own"]
  /\ mishaps' = mishaps \cup {"taken_for_own"}
  /\ UNCHANGED <<late, out, into, bridge, closing, dead, used, bound>>

-----------------------------------------------------------------------------
(* Failures.  The connection is lost: what was on its way may be, too.     *)
ConnectionLost ==
  /\ bridge[Client].session > 0
  /\ Use("faults")
  /\ closing' = closing \cup {[at |-> c, what |-> "session", which |-> bridge[Client].session] : c \in Clusters}
  /\ dead' = dead \cup DOMAIN bridge[Client].streams
  /\ \E lost \in SUBSET Clusters : into' = [c \in Clusters |-> IF c \in lost THEN <<>> ELSE into[c]]
  /\ UNCHANGED <<conf, late, out, bridge, mishaps, bound>>

Disconnected(c, streams) ==
  SetToSeq({[type |-> "onCascadingDisconnected", stream |-> n, inc |-> bridge[c].streams[n]] : n \in streams})

(* A bridge sees the end of a session, or of a stream.  The client keeps   *)
(* the stream, and the room for cascaded, when only the stream has ended.  *)
OnConnectionClosed(e) ==
  /\ e.what = "session"
  /\ closing' = closing \ {e}
  /\ LET gone == DOMAIN bridge[e.at].streams \cap dead
         over == bridge[e.at].session = e.which
     IN /\ into' = [into EXCEPT ![e.at] = @ \o Disconnected(e.at, gone)]
        /\ bridge' = [bridge EXCEPT ![e.at].streams = Restrict(@, DOMAIN @ \ gone),
                                    ![e.at].session = IF over THEN 0 ELSE @,
                                    ![e.at].room = IF over THEN FALSE ELSE @]
  /\ UNCHANGED <<conf, late, out, dead, mishaps, used, bound>>

OnClosedStream(e) ==
  /\ e.what = "stream"
  /\ closing' = closing \ {e}
  /\ LET gone == {e.which} \cap DOMAIN bridge[e.at].streams
     IN /\ into' = [into EXCEPT ![e.at] = @ \o Disconnected(e.at, gone)]
        /\ bridge' = [bridge EXCEPT ![e.at].controllers = {t \in @ : t[2] # e.which},
                                    ![e.at].streams = IF e.at = Client THEN @ ELSE Restrict(@, DOMAIN @ \ gone),
                                    ![e.at].room = IF e.at = Client THEN @ ELSE @ /\ gone = {}]
  /\ mishaps' = IF e.at = Client THEN mishaps \cup {"taken_for_cascaded"} ELSE mishaps
  /\ UNCHANGED <<conf, late, out, dead, used, bound>>

(* The conference ends; another serves the room when somebody joins.       *)
ConferenceLost(c) ==
  /\ Use("faults")
  /\ conf' = [conf EXCEPT ![c] = Fresh(conf[c].inc + 1)]
  /\ late' = [late EXCEPT ![c] = <<>>]
  /\ UNCHANGED <<out, into, bridge, closing, dead, mishaps, bound>>

(* Its bridge is told, and closes the streams.                             *)
OnFaultDetected(c) ==
  LET gone == {n \in DOMAIN bridge[c].streams : bridge[c].streams[n] # conf[c].inc}
  IN /\ gone # {}
     /\ bridge' = [bridge EXCEPT ![c].room = FALSE, ![c].streams = Restrict(@, DOMAIN @ \ gone)]
     /\ closing' = closing \cup {[at |-> Other(c), what |-> "stream", which |-> n] : n \in gone \ dead}
     /\ dead' = dead \cup gone
     /\ UNCHANGED <<conf, late, out, into, mishaps, used, bound>>

-----------------------------------------------------------------------------
Next ==
  \/ \E c \in Clusters :
       \/ GetClusterID(c) \/ Announce(c) \/ Notify(c) \/ HandleCascadingEvents(c)
       \/ ConferenceLost(c) \/ OnFaultDetected(c)
       \/ \E u \in Users[c] : AddParticipant(c, u) \/ RemoveParticipant(c, u)
       \/ \E s \in Streams[c] : AddStream(c, s) \/ UpdateStreamInfo(c, s) \/ RemoveStream(c, s)
       \/ \E s \in Streams[Other(c)] : InitiateMediaCascading(c, s) \/ OnSessionEstablished(c, s)
  \/ StartCascading \/ ConnectionLost
  \/ \E e \in closing : OnConnectionClosed(e) \/ OnClosedStream(e)

Spec == Init /\ [][Next]_vars

-----------------------------------------------------------------------------
AtRest ==
  /\ closing = {}
  /\ \A c \in Clusters : /\ late[c] = <<>> /\ out[c] = <<>> /\ into[c] = <<>>
                        /\ \A n \in DOMAIN bridge[c].streams : bridge[c].streams[n] = conf[c].inc

TypeOK ==
  \A c \in Clusters :
    /\ conf[c].users \subseteq Users[c] /\ DOMAIN conf[c].streams \subseteq Streams[c]
    /\ conf[c].guests \subseteq Users[Other(c)] /\ DOMAIN conf[c].mirror \subseteq Streams[Other(c)]

Linked == \E n \in DOMAIN bridge[Client].streams \ dead : n \in DOMAIN bridge[Server].streams

(* At rest each conference knows of the other what there is while their    *)
(* bridges are connected, and nothing when they are not; excused as above. *)
MirrorsAgree ==
  AtRest =>
    \A c \in Clusters :
      LET theirs == conf[Other(c)]
          mirror == conf[c].mirror
      IN IF Linked
         THEN mishaps \cap {"not_initialized", "taken_for_own", "late_disconnect"} = {} =>
              /\ conf[c].guests = theirs.users
              /\ DOMAIN mirror = DOMAIN theirs.streams
              /\ \A s \in DOMAIN mirror : mirror[s].v = theirs.streams[s]
         ELSE /\ conf[c].guests = {}
              /\ "taken_for_own" \notin mishaps => \A s \in DOMAIN mirror : ~mirror[s].named

(* After a disconnection the room can be cascaded again, unless only the   *)
(* stream was closed at the client.                                        *)
CascadedAgain ==
  AtRest /\ bridge[Client].room /\ ~Linked => "taken_for_cascaded" \in mishaps
=============================================================================
