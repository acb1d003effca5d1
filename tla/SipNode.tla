------------------------------ MODULE SipNode -------------------------------
(***************************************************************************)
(* A SIP node: the calls of one room's SIP user.  The gateway (native, and *)
(* the peers behind it) reports a call's progress in a queue of events;    *)
(* the node joins, publishes and subscribes for the caller at the room's   *)
(* conference by requests it awaits, while the gateway's next events and   *)
(* the conference's own requests arrive.                                   *)
(***************************************************************************)
EXTENDS Integers, Sequences, FiniteSetsExt, Functions, TLC

CONSTANTS
  None,
  Peers,        \* SIP addresses that call or are called
  Infos,        \* what a call may negotiate
  Publishes,    \* the infos in which the peer sends media
  Subscribes,   \* the infos in which the peer receives media
  Bounds        \* what the environment does: [calls, makes, updates, ends, drops, denials, faults]

VARIABLES
  calls,         \* client -> its call
  media,         \* [streams, subscriptions, connections], the tables of ids
  tasks,         \* requests under way, each with what waits for its answer
  gateway,       \* peer -> its dialog (external)
  events,        \* the gateway's events, oldest first
  conference,    \* the participants the conference has for this node (external)
  past,
  bound

vars == <<calls, media, tasks, gateway, events, conference, past, bound>>

InfosAssumption == Publishes \cup Subscribes \subseteq Infos /\ None \notin Infos

(* A call knows the controller it joined at, by its generation.            *)
Call(peer) ==
  [peer |-> peer, at |-> past.at + 1, conference_controller |-> past.faults, conn |-> FALSE,
   setups |-> 0, stream_id |-> None, subscription_id |-> None, currentInfo |-> None,
   updating |-> FALSE, latestInfo |-> None]

NoDialog == [state |-> "none", info |-> None]

Requests == {"find", "join", "joined", "refused", "setup", "cut", "leave", "drop", "fault"}

TypeOK ==
  /\ \A c \in DOMAIN calls :
       /\ c \in 1 .. past.clients /\ calls[c].peer \in Peers
       /\ {calls[c].currentInfo, calls[c].latestInfo} \subseteq Infos \cup {None}
  /\ media.streams \cup media.subscriptions \subseteq (1 .. past.clients) \X Nat
  /\ \A t \in tasks : t.do \in Requests
  /\ \A p \in Peers : gateway[p].state \in {"none", "ringing", "pending", "up"}
  /\ conference \subseteq 1 .. past.clients

Init ==
  /\ calls = << >> /\ tasks = {} /\ events = << >> /\ conference = {}
  /\ media = [streams |-> {}, subscriptions |-> {}, connections |-> {}]
  /\ gateway = [p \in Peers |-> NoDialog]
  /\ past = [clients |-> 0, at |-> 0, calls |-> 0, makes |-> 0, updates |-> 0, ends |-> 0,
             drops |-> 0, denials |-> 0, faults |-> 0,
             early |-> {}, ringing |-> {}, late |-> {}, overtaken |-> {}, left |-> {}, missed |-> {}]
  /\ bound \in Bounds

(* The environment does what it still may.                                 *)
Spends(what) ==
  /\ past[what] < bound[what]
  /\ past' = [past EXCEPT ![what] = @ + 1]

-----------------------------------------------------------------------------
(* The gateway and the peers (external).                                   *)

Event(type, peer, info) == [type |-> type, peer |-> peer, info |-> info]

Reports(type, p, state, i) ==
  /\ gateway' = [gateway EXCEPT ![p] = [state |-> state, info |-> i]]
  /\ events' = Append(events, Event(type, p, i))
  /\ UNCHANGED <<calls, media, tasks, conference>>

PeerCalls(p) ==
  gateway[p].state = "none" /\ Spends("calls") /\ Reports("IncomingCall", p, "ringing", None)

PeerEstablishes(p) ==
  /\ gateway[p].state = "pending"
  /\ \E i \in Infos : Reports("CallEstablished", p, "up", i)
  /\ UNCHANGED past

PeerUpdates(p) ==
  /\ gateway[p].state = "up" /\ Spends("updates")
  /\ \E i \in Infos \ {gateway[p].info} : Reports("CallUpdated", p, "up", i)

PeerCloses(p) ==
  gateway[p].state # "none" /\ Spends("ends") /\ Reports("CallClosed", p, "none", None)

(* What the node asks of the gateway, from the pair of its dialogs and its *)
(* events.  hangup works on dialogs that were accepted or made; reject on  *)
(* any, and even when there is none; both report the call closed.          *)
Now == [dialogs |-> gateway, events |-> events]

CloseDialog(G, p) ==
  [dialogs |-> [G.dialogs EXCEPT ![p] = NoDialog],
   events |-> Append(G.events, Event("CallClosed", p, None))]

hangup(G, p) == IF G.dialogs[p].state \in {"pending", "up"} THEN CloseDialog(G, p) ELSE G

reject(G, p) == CloseDialog(G, p)

accept(G, p) == IF G.dialogs[p].state = "ringing" THEN [G EXCEPT !.dialogs[p].state = "pending"] ELSE G

Gateway(G) == gateway' = G.dialogs /\ events' = G.events

(* There are events of that peer the node has not handled yet.             *)
Unheard(p) == \E i \in DOMAIN events : events[i].peer = p

-----------------------------------------------------------------------------
(* Calls.                                                                  *)

(* getClientId: the first of the calls with that peer.                     *)
Of(peer) == {c \in DOMAIN calls : calls[c].peer = peer}

getClientId(peer) == CHOOSE c \in Of(peer) : \A d \in Of(peer) : calls[c].at <= calls[d].at

(* Faulty: the router keeps its connections.                               *)
teardownCall_connected(M, call) ==
  [M EXCEPT !.streams = @ \ {call.stream_id}, !.subscriptions = @ \ {call.subscription_id}]

(* teardownCall: its stream and its subscription leave every table.        *)
teardownCall(M, call) ==
  LET s == {call.stream_id} \cap M.streams
      b == {call.subscription_id} \cap M.subscriptions
  IN [streams |-> M.streams \ s, subscriptions |-> M.subscriptions \ b,
      connections |-> M.connections \ (({"in"} \X s) \cup ({"out"} \X b))]

Leaves(C) == {[do |-> "leave", client |-> c] : c \in C}

(* Calls are ended, with everything they have; G is what the gateway is    *)
(* left with when they are hung up too.                                    *)
Ended(C) ==
  /\ media' = FoldSet(LAMBDA c, M : teardownCall(M, calls[c]), media, C)
  /\ calls' = Restrict(calls, DOMAIN calls \ C)

HungUp(C) == FoldSet(LAMBDA c, G : hangup(G, calls[c].peer), Now, C)

(* The peers among them that are not hung up: they were not answered yet.  *)
Ringing(C) == {calls[c].peer : c \in {d \in C : gateway[calls[d].peer].state = "ringing"}}

Known(t) == {t.client} \cap DOMAIN calls

(* IncomingCall: a peer that has a call is ignored.                        *)
IncomingCall(e) ==
  /\ e.type = "IncomingCall"
  /\ IF Of(e.peer) # {} THEN UNCHANGED <<tasks, past>>
     ELSE /\ tasks' = tasks \cup {[do |-> "find", client |-> past.clients + 1, peer |-> e.peer]}
          /\ past' = [past EXCEPT !.clients = @ + 1]
  /\ UNCHANGED <<calls, media, gateway, conference>>

JoinTask(c, p, out) ==
  [do |-> "join", client |-> c, peer |-> p, out |-> out, conference_controller |-> past.faults]

(* getConferenceControllerForRoom answers: only now has the call an entry. *)
Found(t) ==
  /\ t.do = "find"
  /\ calls' = calls @@ (t.client :> Call(t.peer))
  /\ tasks' = (tasks \ {t}) \cup {JoinTask(t.client, t.peer, FALSE)}
  /\ past' = [past EXCEPT !.at = @ + 1]
  /\ UNCHANGED <<media, gateway, events, conference>>

NotFound(t) ==
  /\ t.do = "find" /\ Spends("denials")
  /\ Gateway(reject(Now, t.peer))
  /\ tasks' = tasks \ {t}
  /\ UNCHANGED <<calls, media, conference>>

(* makeCall, asked for by the conference.                                  *)
MakeCall(p) ==
  LET c == past.clients + 1
  IN /\ past.makes < bound.makes
     /\ Of(p) = {} /\ gateway[p].state = "none"
     /\ gateway' = [gateway EXCEPT ![p].state = "pending"]
     /\ calls' = calls @@ (c :> Call(p))
     /\ tasks' = tasks \cup {JoinTask(c, p, TRUE)}
     /\ past' = [past EXCEPT !.clients = c, !.at = @ + 1, !.makes = @ + 1,
                             !.late = IF Unheard(p) THEN @ \cup {p} ELSE @]
     /\ UNCHANGED <<media, events, conference>>

(* The conference lets the caller in, or not, or has died (external).      *)
ConferenceJoins(t) ==
  /\ t.do = "join"
  /\ \/ /\ t.conference_controller = past.faults
        /\ conference' = conference \cup {t.client}
        /\ tasks' = (tasks \ {t}) \cup {[t EXCEPT !.do = "joined"]}
        /\ UNCHANGED past
     \/ /\ tasks' = (tasks \ {t}) \cup {[t EXCEPT !.do = "refused"]}
        /\ IF t.conference_controller = past.faults THEN Spends("denials") ELSE UNCHANGED past
        /\ UNCHANGED conference
  /\ UNCHANGED <<calls, media, gateway, events>>

(* The answer, with the streams of the room; when the call is gone its     *)
(* handler throws.  Without a stream to show a caller is sent away, and a  *)
(* call that was made stays until it is hung up.                           *)
JoinOk(t) ==
  /\ t.do = "joined"
  /\ \/ /\ Gateway(IF t.out \/ Known(t) = {} THEN Now ELSE accept(Now, t.peer))
        /\ tasks' = tasks \ {t}
        /\ past' = [past EXCEPT !.late = IF Unheard(t.peer) THEN @ \cup {t.peer} ELSE @]
     \/ /\ Known(t) # {} /\ past.denials < bound.denials
        /\ Gateway(IF t.out THEN Now ELSE reject(Now, t.peer))
        /\ past' = [past EXCEPT !.denials = @ + 1, !.left = IF t.out THEN @ \cup {t.client} ELSE @]
        /\ tasks' = (tasks \ {t}) \cup Leaves({t.client})
  /\ UNCHANGED <<calls, media, conference>>

(* An incoming call is rejected, and its entry goes when the gateway       *)
(* reports that; one that was made stays.                                  *)
JoinRefused(t) ==
  /\ t.do = "refused"
  /\ Gateway(IF t.out THEN Now ELSE reject(Now, t.peer))
  /\ tasks' = tasks \ {t}
  /\ UNCHANGED <<calls, media, conference, past>>

(* do_leave; the conference may still be working on the join.              *)
Leave(t) ==
  /\ t.do = "leave"
  /\ conference' = conference \ {t.client}
  /\ tasks' = tasks \ {t}
  /\ past' = [past EXCEPT !.overtaken =
                @ \cup {j.client : j \in {j \in tasks : j.do = "join" /\ j.client = t.client}}]
  /\ UNCHANGED <<calls, media, gateway, events>>

-----------------------------------------------------------------------------
(* Media.                                                                  *)

(* setupCall: the ids are entered before the conference is asked.  Both    *)
(* requests are one task: the first that is denied ends the call.          *)
setupCall(c, i, M, update, rest) ==
  LET id == <<c, calls[c].setups + 1>>
      s == IF i \in Publishes THEN {id} ELSE {}
      b == IF i \in Subscribes THEN {id} ELSE {}
      Of1(S) == IF S = {} THEN None ELSE id
  IN /\ calls' = [calls EXCEPT ![c] = [@ EXCEPT !.conn = TRUE, !.setups = id[2],
                                         !.stream_id = Of1(s), !.subscription_id = Of1(b)]]
     /\ media' = [streams |-> M.streams \cup s, subscriptions |-> M.subscriptions \cup b,
                  connections |-> M.connections \cup ({"in"} \X s) \cup ({"out"} \X b)]
     /\ tasks' = rest \cup {[do |-> "setup", client |-> c, info |-> i, update |-> update]}

(* handleCallEstablished: without an entry the call stays as it is.        *)
CallEstablished(e) ==
  /\ e.type = "CallEstablished"
  /\ IF Of(e.peer) = {} THEN UNCHANGED <<calls, media, tasks>>
     ELSE setupCall(getClientId(e.peer), e.info, media, FALSE, tasks)
  /\ UNCHANGED <<gateway, conference, past>>

(* handleCallUpdated: while an update is under way the last one is kept,   *)
(* and one that says nothing new is ignored.                               *)
StartsUpdate(call, i) == ~call.updating /\ call.currentInfo # i

Updated(call, i) ==
  IF call.updating THEN [call EXCEPT !.latestInfo = i]
  ELSE [call EXCEPT !.updating = StartsUpdate(call, i)]

UpdateTasks(c, call, i) ==
  IF StartsUpdate(call, i) THEN {[do |-> "cut", client |-> c, info |-> i]} ELSE {}

(* One that comes before the first setup is done is lost.                  *)
CallUpdated(e) ==
  /\ e.type = "CallUpdated"
  /\ LET c == getClientId(e.peer)
     IN IF Of(e.peer) = {} \/ calls[c].currentInfo = None
        THEN /\ past' = [past EXCEPT !.missed = @ \cup {e.peer}]
             /\ UNCHANGED <<calls, tasks>>
        ELSE /\ calls' = [calls EXCEPT ![c] = Updated(@, e.info)]
             /\ tasks' = tasks \cup UpdateTasks(c, calls[c], e.info)
             /\ UNCHANGED past
  /\ UNCHANGED <<media, gateway, conference>>

(* unpublish and unsubscribe are answered, whatever they say: a new setup. *)
CutOk(t) ==
  /\ t.do = "cut"
  /\ IF Known(t) = {} THEN tasks' = tasks \ {t} /\ UNCHANGED <<calls, media>>
     ELSE setupCall(t.client, t.info, teardownCall(media, calls[t.client]), TRUE, tasks \ {t})
  /\ UNCHANGED <<gateway, events, conference, past>>

(* The setup is done; the update that was kept is next.  The conference    *)
(* hears a leave that was sent before the requests first.                  *)
SetupOk(t) ==
  /\ t.do = "setup" /\ t.client \in conference /\ tasks \cap Leaves({t.client}) = {}
  /\ IF Known(t) = {} THEN tasks' = tasks \ {t} /\ UNCHANGED calls
     ELSE LET c == t.client
              done == [calls[c] EXCEPT !.currentInfo = t.info, !.updating = @ /\ ~t.update]
              i == done.latestInfo
              free == [done EXCEPT !.latestInfo = None]
              again == t.update /\ i # None
          IN /\ calls' = [calls EXCEPT ![c] = IF again THEN Updated(free, i) ELSE done]
             /\ tasks' = (tasks \ {t}) \cup IF again THEN UpdateTasks(c, free, i) ELSE {}
  /\ UNCHANGED <<media, gateway, events, conference, past>>

(* A request is denied, or the caller is no participant (any more).        *)
SetupDenied(t) ==
  /\ t.do = "setup"
  /\ IF t.client \in conference THEN Spends("denials") ELSE UNCHANGED past
  /\ Gateway(HungUp(Known(t)))
  /\ Ended(Known(t))
  /\ tasks' = (tasks \ {t}) \cup Leaves(Known(t))
  /\ UNCHANGED conference

(* handleCallClosed: a call whose controller is still being looked for has *)
(* no entry yet, and the search goes on.                                   *)
CallClosed(e) ==
  /\ e.type = "CallClosed"
  /\ LET C == IF Of(e.peer) = {} THEN {} ELSE {getClientId(e.peer)}
         searched == \E t \in tasks : t.do = "find" /\ t.peer = e.peer
     IN /\ Ended(C)
        /\ tasks' = tasks \cup Leaves(C)
        /\ past' = [past EXCEPT !.early = IF searched THEN @ \cup {e.peer} ELSE @]
  /\ UNCHANGED <<gateway, conference>>

HandleEvent ==
  /\ events # << >>
  /\ LET e == Head(events) IN IncomingCall(e) \/ CallEstablished(e) \/ CallUpdated(e) \/ CallClosed(e)
  /\ events' = Tail(events)

-----------------------------------------------------------------------------
(* The conference drops participants and dies (external).                  *)
ConferenceDrops(c) ==
  /\ Spends("drops")
  /\ conference' = conference \ {c}
  /\ tasks' = tasks \cup {[do |-> "drop", client |-> c]}
  /\ UNCHANGED <<calls, media, gateway, events>>

ConferenceDies ==
  /\ Spends("faults")
  /\ conference' = {}
  /\ tasks' = tasks \cup {[do |-> "fault", conference_controller |-> past.faults]}
  /\ UNCHANGED <<calls, media, gateway, events>>

(* drop and endCall.                                                       *)
Drop(t) ==
  /\ t.do = "drop"
  /\ Gateway(HungUp(Known(t)))
  /\ Ended(Known(t))
  /\ tasks' = tasks \ {t}
  /\ past' = [past EXCEPT !.ringing = @ \cup Ringing(Known(t))]
  /\ UNCHANGED conference

(* onFaultDetected: all calls of that controller.                          *)
FaultDetected(t) ==
  LET C == {c \in DOMAIN calls : calls[c].conference_controller = t.conference_controller}
  IN /\ t.do = "fault"
     /\ Gateway(HungUp(C))
     /\ Ended(C)
     /\ tasks' = tasks \ {t}
     /\ past' = [past EXCEPT !.ringing = @ \cup Ringing(C)]
     /\ UNCHANGED conference

Step ==
  \/ \E p \in Peers : \/ PeerCalls(p) \/ PeerEstablishes(p) \/ PeerUpdates(p) \/ PeerCloses(p)
                      \/ MakeCall(p)
  \/ \E t \in tasks : \/ Found(t) \/ NotFound(t) \/ ConferenceJoins(t) \/ JoinOk(t) \/ JoinRefused(t)
                      \/ Leave(t) \/ CutOk(t) \/ SetupOk(t) \/ SetupDenied(t) \/ Drop(t)
                      \/ FaultDetected(t)
  \/ HandleEvent
  \/ \E c \in conference : ConferenceDrops(c)
  \/ ConferenceDies

Next == Step /\ UNCHANGED bound

Spec == Init /\ [][Next]_vars

-----------------------------------------------------------------------------
(* Nothing is under way.                                                   *)
AtRest == tasks = {} /\ events = << >>

(* The tables of streams and subscriptions, the router's and the calls'    *)
(* ids agree at every moment: what a call has set up is torn down with it. *)
TablesAgree ==
  /\ media.streams = {calls[c].stream_id : c \in DOMAIN calls} \ {None}
  /\ media.subscriptions = {calls[c].subscription_id : c \in DOMAIN calls} \ {None}
  /\ media.connections = ({"in"} \X media.streams) \cup ({"out"} \X media.subscriptions)

(* At rest the conference has no participant without a call, unless it     *)
(* heard of the leave while it worked on the join, and no call has media   *)
(* without a participant, unless the peer answered before the node heard   *)
(* that there is no stream for it.                                         *)
ParticipantsHaveCalls ==
  AtRest => /\ conference \subseteq DOMAIN calls \cup past.overtaken
            /\ \A c \in DOMAIN calls : calls[c].conn => c \in conference \cup past.left

(* At rest every dialog has its call, every call its dialog, and nobody who *)
(* called still waits to be answered or rejected.  Left out                *)
(* are peers that hung up while the node was still looking for the         *)
(* conference, peers that were dropped before they were answered, and      *)
(* those it called or answered without having heard what became of an      *)
(* earlier call with them.                                                 *)
CallsAgree ==
  AtRest => \A p \in Peers \ (past.early \cup past.ringing \cup past.late) :
    /\ gateway[p].state # "none" <=> Of(p) # {}
    /\ gateway[p].state # "ringing"
    /\ gateway[p].state = "up" => \A c \in Of(p) : calls[c].conn

(* At rest a call is set up as it was last negotiated and nothing waits    *)
(* for an update, unless an update came before the first setup was done.   *)
InfoIsLatest ==
  AtRest => \A c \in DOMAIN calls :
    LET p == calls[c].peer
    IN /\ ~calls[c].updating /\ calls[c].latestInfo = None
       /\ calls[c].conn /\ p \notin past.missed =>
            calls[c].currentInfo = gateway[p].info
=============================================================================
