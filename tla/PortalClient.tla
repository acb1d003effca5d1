---------------------------- MODULE PortalClient ----------------------------
(***************************************************************************)
(* What a participant asks of the conference through its portal: the       *)
(* objects that listen on its socket, one for each login, and the tables   *)
(* in which that of a legacy client keeps its streams and subscriptions;   *)
(* the portal's entry of the participant; the calls to the conference, in  *)
(* order, their answers and the notifications that come back.  A client    *)
(* that comes back on another socket keeps its object (module Portal); the *)
(* conference is what the code expects of it: it handles one call after    *)
(* the other.                                                              *)
(***************************************************************************)
EXTENDS Integers, FiniteSets, SequencesExt

CONSTANTS
  Streams,  \* ids drawn for publications
  Subs,     \* ids drawn for subscriptions
  Names,    \* streams and URLs, as they are spelt, a legacy client subscribes to
  Formatted, \* the form of a URL when it was parsed and formatted
  None,
  Bounds    \* what a run does: [kind, grpc, requests, logins, logouts, late, aborts, ends]

ClientAssumption ==
  /\ Formatted \in [Names -> Names] /\ \A n \in Names : Formatted[Formatted[n]] = Formatted[n]
  /\ IsFiniteSet(Streams) /\ IsFiniteSet(Subs) /\ None \notin Subs \cup Names
  /\ \A b \in Bounds : b.kind \in {"legacy", "1.2"} /\ {b.requests, b.logins, b.logouts, b.late, b.aborts, b.ends} \subseteq Nat

(* A recording goes by the id of its subscription.                         *)
Refs == Names \cup Subs

VARIABLES
  portal,      \* [listeners, state, joined, heard, calls, drawn, wanted, asked, bad]
  answers,     \* of calls, on their way to the portal
  notices,     \* notifications on their way, in order
  conference,  \* [in, streams, subs]
  past, bound

vars == <<portal, answers, notices, conference, past, bound>>

-----------------------------------------------------------------------------
(* The object of a client: of a legacy one with published, ref2subId and   *)
(* subId2ref, which for the others stay as they are here.                  *)
NewClient ==
  [inRoom |-> FALSE, published |-> [s \in Streams |-> "none"],
   ref2subId |-> [r \in Refs |-> None], subId2ref |-> [s \in Subs |-> None]]

Legacy == bound.kind = "legacy"

Drawn(w, S) == CHOOSE id \in S : id \notin w.drawn

(* Every request looks for the participant, and starts the client of the   *)
(* conference node, and its stream of notifications, if there is none.     *)
StartConferenceClient(w) == [w EXCEPT !.heard = TRUE]

Sent(w, call) == [StartConferenceClient(w) EXCEPT !.calls = Append(@, call)]

Called(w, i, op, id) == IF w.joined THEN Sent(w, [op |-> op, id |-> id, by |-> i]) ELSE w

(* Of a control or a signal, which change nothing here and whose answers   *)
(* are passed on, that is all there is to keep.                            *)
Controlled(w) == IF w.joined THEN StartConferenceClient(w) ELSE w

(* The requests of a legacy client.                                        *)
LegacyPublish(w, i, mix) ==
  LET s == Drawn(w, Streams)
  IN Called([w EXCEPT !.drawn = @ \cup {s}, !.wanted = IF mix THEN @ \cup {s} ELSE @], i, "publish", s)

LegacyUnpublish(w, i, s) == Called(w, i, "unpublish", s)

(* mix and unmix, regions, mute and unmute of a stream, and a text.        *)
Mix(w, i) == Controlled(w)

LegacyControl(w, i) == Controlled(w)

Entered(w, i, ref, id) ==
  [w EXCEPT !.drawn = @ \cup {id}, !.listeners[i].ref2subId[ref] = id, !.listeners[i].subId2ref[id] = ref]

Forgotten(w, i, ref, id) ==
  [w EXCEPT !.listeners[i].ref2subId[ref] = None, !.listeners[i].subId2ref[id] = None]

(* The tables are written before the options are looked at, and the        *)
(* refusal, here or there, leaves them.                                    *)
LegacySubscribe(w, i, ref, good) ==
  LET id == Drawn(w, Subs)
      e == Entered(w, i, ref, id)
  IN IF w.listeners[i].ref2subId[ref] # None THEN w
     ELSE IF good THEN Called(e, i, "subscribe", id)
     ELSE [e EXCEPT !.bad = @ \cup {id}]

(* What is entered is the URL that was formatted, what is looked for when  *)
(* it is updated or removed is the URL as it was spelt.                    *)
AddExternalOutput(w, i, url) == LegacySubscribe(w, i, Formatted[url], TRUE)

StartRecorder(w, i) ==
  LET id == Drawn(w, Subs) IN Called(Entered(w, i, id, id), i, "subscribe", id)

(* With an id that is in the table, startRecorder is an update of it.      *)
ContinueRecorder(w, i, ref) ==
  IF w.listeners[i].ref2subId[ref] = None THEN w ELSE Controlled(w)

LegacyUnsubscribe(w, i, ref) ==
  LET id == w.listeners[i].ref2subId[ref]
  IN IF id = None THEN w ELSE Called(Forgotten(w, i, ref, id), i, "unsubscribe", id)

RemoveExternalOutput(w, i, url) == LegacyUnsubscribe(w, i, url)

StopRecorder(w, i, ref) == LegacyUnsubscribe(w, i, ref)

(* play and pause of what comes in are alike.                              *)
UpdateExternalOutput(w, i, ref) ==
  IF w.listeners[i].ref2subId[ref] = None THEN w ELSE Controlled(w)

CustomMessage(w, i, ref) == UpdateExternalOutput(w, i, ref)

(* What is not subscribed to is taken for the id of a session.             *)
SignalingMessage(w, i) == Controlled(w)

-----------------------------------------------------------------------------
(* The requests of the other clients: they keep the ids themselves.        *)
Publish(w, i) ==
  LET s == Drawn(w, Streams) IN Called([w EXCEPT !.drawn = @ \cup {s}], i, "publish", s)

Unpublish(w, i, s) == Called(w, i, "unpublish", s)

StreamControl(w, i) == Controlled(w)

Subscribe(w, i) ==
  LET id == Drawn(w, Subs) IN Called([w EXCEPT !.drawn = @ \cup {id}], i, "subscribe", id)

Unsubscribe(w, i, id) == Called(w, i, "unsubscribe", id)

SubscriptionControl(w, i) == Controlled(w)

Soac(w, i) == Controlled(w)

-----------------------------------------------------------------------------
(* A request is handled by every object that listens on the socket, each   *)
(* of which asks whether it has been in a room.                            *)
Handled(step(_, _)) ==
  /\ past.requests < bound.requests
  /\ \E i \in DOMAIN portal.listeners : portal.listeners[i].inRoom
  /\ portal' = FoldLeft(LAMBDA w, i : IF w.listeners[i].inRoom THEN step(w, i) ELSE w,
                        portal, [i \in DOMAIN portal.listeners |-> i])
  /\ past' = [past EXCEPT !.requests = @ + 1]
  /\ UNCHANGED <<answers, notices, conference, bound>>

(* There are ids enough to draw: a bound.                                  *)
Fresh(S) == Cardinality(S \ portal.drawn) >= Len(portal.listeners)

LegacyRequest ==
  /\ Legacy
  /\ \/ Fresh(Streams) /\ \E mix \in BOOLEAN : Handled(LAMBDA w, i : LegacyPublish(w, i, mix))
     \/ \E s \in portal.drawn \cap Streams :
          Handled(LAMBDA w, i : LegacyUnpublish(w, i, s))
     \/ Handled(Mix) \/ Handled(LegacyControl) \/ Handled(SignalingMessage)
     \/ /\ Fresh(Subs)
        /\ \E ref \in Names :
             \/ Handled(LAMBDA w, i : AddExternalOutput(w, i, ref))
             \/ /\ ref = Formatted[ref]
                /\ \E good \in BOOLEAN : Handled(LAMBDA w, i : LegacySubscribe(w, i, ref, good))
     \/ Fresh(Subs) /\ Handled(StartRecorder)
     \/ \E ref \in Names \cup (portal.drawn \cap Subs) :
          \/ Handled(LAMBDA w, i : LegacyUnsubscribe(w, i, ref))
          \/ Handled(LAMBDA w, i : RemoveExternalOutput(w, i, ref))
          \/ Handled(LAMBDA w, i : StopRecorder(w, i, ref))
          \/ Handled(LAMBDA w, i : UpdateExternalOutput(w, i, ref))
          \/ Handled(LAMBDA w, i : ContinueRecorder(w, i, ref))
          \/ Handled(LAMBDA w, i : CustomMessage(w, i, ref))

Request ==
  /\ ~Legacy
  /\ \/ Fresh(Streams) /\ Handled(Publish)
     \/ \E s \in portal.drawn \cap Streams : Handled(LAMBDA w, i : Unpublish(w, i, s))
     \/ Fresh(Subs) /\ Handled(Subscribe)
     \/ \E id \in portal.drawn \cap Subs : Handled(LAMBDA w, i : Unsubscribe(w, i, id))
     \/ Handled(StreamControl) \/ Handled(SubscriptionControl) \/ Handled(Soac)

-----------------------------------------------------------------------------
(* login makes an object and a listener of its own for each request, on a  *)
(* socket that may have those of an earlier login.                         *)
Login ==
  /\ portal.state = "initialized"
  /\ Len(portal.listeners) < bound.logins
  /\ portal' = [portal EXCEPT !.state = "connecting", !.heard = TRUE, !.listeners = Append(@, NewClient),
                              !.calls = Append(@, [op |-> "join", id |-> None, by |-> Len(portal.listeners) + 1])]
  /\ UNCHANGED <<answers, notices, conference, past, bound>>

(* A leave that succeeds does not end inRoom; the object goes on listening.*)
Logout ==
  /\ portal.state = "connected" /\ past.logouts < bound.logouts
  /\ portal' = [Called(portal, Len(portal.listeners), "leave", None) EXCEPT !.state = "initialized", !.joined = FALSE]
  /\ past' = [past EXCEPT !.logouts = @ + 1]
  /\ UNCHANGED <<answers, notices, conference, bound>>

(* The answer of a call is that of a promise its object waits for.  What   *)
(* an error does to the tables: nothing.                                   *)
Answered(a) ==
  /\ answers' = answers \ {a}
  /\ portal' =
       CASE a.op = "join" /\ a.ok ->
              [portal EXCEPT !.state = "connected", !.joined = TRUE, !.listeners[a.by].inRoom = TRUE]
         [] a.op = "publish" /\ a.ok /\ Legacy ->
              [portal EXCEPT !.listeners[a.by].published[a.id] = IF a.id \in portal.wanted THEN "mix" ELSE "plain"]
         [] a.op = "unpublish" /\ a.ok /\ Legacy -> [portal EXCEPT !.listeners[a.by].published[a.id] = "none"]
         [] OTHER -> portal
  /\ UNCHANGED <<notices, conference, past, bound>>

(* The call has timed out, its object was told an error.                   *)
AnsweredLate(a) ==
  /\ a.op # "join" /\ Cardinality(past.late) < bound.late
  /\ answers' = answers \ {a}
  /\ past' = [past EXCEPT !.late = @ \cup {a.id}]
  /\ UNCHANGED <<portal, notices, conference, bound>>

-----------------------------------------------------------------------------
(* Notifications reach the object in the dock.  ready of a stream whose    *)
(* publish is not answered yet is taken for that of a subscription.        *)
Ready(w, i, id) ==
  IF id \in Streams /\ w.listeners[i].published[id] = "mix"
  THEN [Controlled(w) EXCEPT !.asked = @ \cup {id}]
  ELSE w

(* Faulty: a subscription that failed remains in the tables.               *)
Failed_entry_stays(w, i, id) ==
  IF id \in Subs /\ w.listeners[i].subId2ref[id] = id THEN Called(w, i, "unsubscribe", id) ELSE w

Failed(w, i, id) ==
  LET ref == IF id \in Subs THEN w.listeners[i].subId2ref[id] ELSE None
  IN IF ref = None THEN w
     ELSE Forgotten(IF ref = id THEN Called(w, i, "unsubscribe", id) ELSE w, i, ref, id)

Early(n, w, i) == n.status = "ready" /\ w.listeners[i].published[n.id] = "none"

Notified ==
  /\ notices # <<>>
  /\ LET n == Head(notices)
         i == Len(portal.listeners)
         docked == portal.state = "connected"
     IN /\ portal' = IF ~docked \/ ~Legacy THEN portal
                     ELSE IF n.status = "ready" THEN Ready(portal, i, n.id) ELSE Failed(portal, i, n.id)
        /\ past' = IF docked THEN [past EXCEPT !.early = IF Early(n, portal, i) THEN @ \cup {n.id} ELSE @]
                   ELSE [past EXCEPT !.unheard = @ \cup {n.id}]
  /\ notices' = Tail(notices)
  /\ UNCHANGED <<answers, conference, bound>>

(* The stream of notifications ends, with those under way; what comes      *)
(* before the next request starts it again is not heard either.            *)
NotificationsEnd ==
  /\ bound.grpc /\ portal.heard /\ past.ends < bound.ends
  /\ portal' = [portal EXCEPT !.heard = FALSE]
  /\ notices' = <<>>
  /\ past' = [past EXCEPT !.ends = @ + 1, !.unheard = @ \cup {notices[k].id : k \in DOMAIN notices}]
  /\ UNCHANGED <<answers, conference, bound>>

Notify(P, status, id) ==
  IF portal.heard
  THEN notices' = Append(notices, [status |-> status, id |-> id]) /\ past' = P
  ELSE past' = [P EXCEPT !.unheard = @ \cup {id}] /\ UNCHANGED notices

-----------------------------------------------------------------------------
(* The conference, external: C is what it is after the call.               *)
Gone == [in |-> FALSE, streams |-> [s \in Streams |-> "none"], subs |-> {}]

Serves(c, C, ok, P) ==
  /\ conference' = C
  /\ answers' = IF c.op \in {"join", "publish", "unpublish"}
                THEN answers \cup {[op |-> c.op, id |-> c.id, by |-> c.by, ok |-> ok]} ELSE answers
  /\ past' = P

(* What it may refuse, and what it has to.                                 *)
Served(c) ==
  \/ c.op = "join" /\ Serves(c, [Gone EXCEPT !.in = TRUE], TRUE, past)
  \/ c.op = "leave" /\ Serves(c, Gone, TRUE, past)
  \/ c.op = "publish" /\ conference.in
     /\ Serves(c, [conference EXCEPT !.streams[c.id] = "opening"], TRUE, [past EXCEPT !.accepted = @ \cup {c.id}])
  \/ c.op = "unpublish" /\ conference.streams[c.id] # "none"
     /\ Serves(c, [conference EXCEPT !.streams[c.id] = "none"], TRUE, past)
  \/ c.op = "subscribe" /\ conference.in
     /\ Serves(c, [conference EXCEPT !.subs = @ \cup {c.id}], TRUE, past)
  \/ c.op = "unsubscribe" /\ c.id \in conference.subs
     /\ Serves(c, [conference EXCEPT !.subs = @ \ {c.id}], TRUE, past)

MayRefuse(c) ==
  \/ c.op \in {"publish", "subscribe"}
  \/ c.op = "unpublish" /\ conference.streams[c.id] = "none"
  \/ c.op = "unsubscribe" /\ c.id \notin conference.subs

Refused(c) ==
  /\ MayRefuse(c)
  /\ Serves(c, conference, FALSE, [past EXCEPT !.refused = IF c.op = "subscribe" THEN @ \cup {c.id} ELSE @])

ConferenceServes ==
  /\ portal.calls # <<>>
  /\ Served(Head(portal.calls)) \/ Refused(Head(portal.calls))
  /\ portal' = [portal EXCEPT !.calls = Tail(@)]
  /\ UNCHANGED <<notices, bound>>

(* The transport of a stream becomes ready, then its session; a stream and *)
(* a subscription may be aborted at any time.                              *)
StreamReady(s) ==
  /\ conference.streams[s] \in {"opening", "connected"}
  /\ \E state \in {"connected", "up"} \ {conference.streams[s]} :
       conference' = [conference EXCEPT !.streams[s] = state]
  /\ Notify(past, "ready", s)
  /\ UNCHANGED <<portal, answers, bound>>

Abort(id) ==
  /\ past.aborts < bound.aborts
  /\ \/ id \in Streams /\ conference.streams[id] # "none"
        /\ conference' = [conference EXCEPT !.streams[id] = "none"]
     \/ id \in conference.subs /\ conference' = [conference EXCEPT !.subs = @ \ {id}]
  /\ Notify([past EXCEPT !.aborts = @ + 1], "error", id)
  /\ UNCHANGED <<portal, answers, bound>>

-----------------------------------------------------------------------------
Init ==
  /\ bound \in Bounds
  /\ portal = [listeners |-> <<>>, state |-> "initialized", joined |-> FALSE, heard |-> ~bound.grpc,
               calls |-> <<>>, drawn |-> {}, wanted |-> {}, asked |-> {}, bad |-> {}]
  /\ answers = {} /\ notices = <<>> /\ conference = Gone
  /\ past = [requests |-> 0, logouts |-> 0, ends |-> 0, aborts |-> 0, late |-> {}, refused |-> {}, accepted |-> {},
             unheard |-> {}, early |-> {}]

Next ==
  \/ Login \/ Logout \/ LegacyRequest \/ Request
  \/ \E a \in answers : Answered(a) \/ AnsweredLate(a)
  \/ Notified \/ NotificationsEnd \/ ConferenceServes
  \/ \E s \in Streams : StreamReady(s)
  \/ \E id \in Streams \cup Subs : Abort(id)

Spec == Init /\ [][Next]_vars

-----------------------------------------------------------------------------
Tables == [inRoom : BOOLEAN, published : [Streams -> {"none", "mix", "plain"}],
           ref2subId : [Refs -> Subs \cup {None}], subId2ref : [Subs -> Refs \cup {None}]]

TypeOK ==
  /\ portal.listeners \in Seq(Tables) /\ portal.joined = (portal.state = "connected")
  /\ portal.asked \subseteq portal.wanted /\ portal.wanted \subseteq portal.drawn

InTable(l, id) == l.subId2ref[id] # None

Calling(op, id) == \E k \in DOMAIN portal.calls : portal.calls[k].op = op /\ portal.calls[k].id = id
Leaving == \E k \in DOMAIN portal.calls : portal.calls[k].op = "leave"
Noticed(status, id) == \E k \in DOMAIN notices : notices[k] = [status |-> status, id |-> id]

(* The two tables of subscriptions are the inverse of each other, whatever *)
(* order requests, failures and logins come in (legacyClient.js).          *)
TablesMirror ==
  \A l \in Range(portal.listeners) : \A r \in Refs, s \in Subs : l.ref2subId[r] = s <=> l.subId2ref[s] = r

(* No subscription is out of the client's reach: the conference has none   *)
(* that is in no table, and is not about to be ended (legacyClient.js).    *)
NothingOrphaned ==
  Legacy => \A s \in conference.subs :
    \/ \E l \in Range(portal.listeners) : InTable(l, s)
    \/ Calling("unsubscribe", s) \/ Leaving

(* What keeps a client from subscribing again is a subscription there is,  *)
(* unless the request was refused or its failure could not be heard.       *)
EntriesExplained ==
  portal.state = "connected" =>
    \A s \in Subs : InTable(Last(portal.listeners), s) =>
      \/ s \in conference.subs \cup portal.bad \cup past.refused \cup past.unheard
      \/ Calling("subscribe", s) \/ Noticed("error", s)

(* Streams the client owns are in the table of those it published, those   *)
(* whose publish was answered too late excepted; and in the table is only  *)
(* what was accepted.                                                      *)
PublishedKnown ==
  Legacy =>
    /\ \A s \in Streams : conference.streams[s] # "none" =>
         \/ \E l \in Range(portal.listeners) : l.published[s] # "none"
         \/ \E a \in answers : a.op = "publish" /\ a.id = s
         \/ s \in past.late \/ Leaving
    /\ \A l \in Range(portal.listeners), s \in Streams : l.published[s] # "none" => s \in past.accepted

(* A stream that is to be mixed is asked for once it is up, unless its     *)
(* ready came before the answer or was not heard, and no other is.         *)
MixAsked ==
  Legacy => \A s \in portal.wanted :
    conference.streams[s] = "up" =>
      s \in portal.asked \cup past.early \cup past.unheard \/ Noticed("ready", s) \/ Leaving

(* Nothing is asked for a participant that has left, until it is let in    *)
(* again: not by the objects of earlier logins either (portal.js).         *)
NothingAfterLeave ==
  \A j, k \in DOMAIN portal.calls : j < k /\ portal.calls[j].op = "leave" => portal.calls[k].op = "join"
=============================================================================
