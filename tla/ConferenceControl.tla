-------------------------- MODULE ConferenceControl --------------------------
(***************************************************************************)
(* The controls of a conference (agent/conference/conference.js): what     *)
(* participants and the REST interface change of streams and subscriptions *)
(* that are established - mixing, muting, the layout of a view, the source *)
(* and size of a subscription - and what nodes report of them.             *)
(*                                                                         *)
(* The conference has a record of each stream and subscription, the room   *)
(* controller tables of its own, the nodes the truth.  A control asks the  *)
(* room controller or a node and changes the record when that answers;     *)
(* streams and subscriptions come to their end meanwhile.  The room        *)
(* controller is modelled by what it answers and keeps; how it spreads     *)
(* streams is in RoomController, how streams start in Conference.          *)
(***************************************************************************)
EXTENDS Integers, Sequences, FiniteSets, FiniteSetsExt, SequencesExt, Functions, TLC

CONSTANTS Streams, Subs, Views,
          Sizes,    \* resolutions, a smaller number for a smaller one
          Bounds    \* the bounds a behaviour may choose: the streams and their
                    \* tracks, the subscriptions and views there are, how many controls of each kind there are, how
                    \* many streams and subscriptions end, how many calls fail

BoundsAssumption ==
  /\ Sizes \subseteq Nat
  /\ \A b \in Bounds : /\ b.tracks \subseteq {"audio", "video"} /\ b.tracks # {}
                       /\ {b.mixes, b.mutes, b.updates, b.layouts, b.ends, b.faults} \subseteq Nat

VARIABLES conf,    \* the conference: records, requests under way, calls made
          room,    \* the room controller: published, mixed, taken, and the
                   \* layouts the video mixers show and have told
          muted,   \* the access nodes: tracks that are off
          used,    \* controls, ends and failures so far
          bound    \* the bounds of this behaviour

vars == <<conf, room, muted, used, bound>>

Without(f, e) == Restrict(f, DOMAIN f \ {e})
Note(C, e) == [C EXCEPT !.mishaps = @ \cup {e}]
Call(C, c) == [C EXCEPT !.calls = @ \cup {c}]
Has(C, s) == s \in DOMAIN C.streams
Largest == CHOOSE z \in Sizes : \A y \in Sizes : y <= z

-----------------------------------------------------------------------------
(* Streams and subscriptions are established with all tracks on.           *)
ForwardStream(b) == [views |-> <<>>, status |-> [k \in b.tracks |-> "active"], size |-> Largest]
Subscription(s) == [from |-> s, size |-> Largest, status |-> "active"]
ToRoomCtrlSubArgs(sub) == [from |-> sub.from, size |-> sub.size]

Init ==
  /\ bound \in Bounds
  /\ \E from \in [bound.subs -> bound.streams] :
       /\ conf = [streams |-> [s \in bound.streams |-> ForwardStream(bound)],
                  subs |-> [x \in bound.subs |-> Subscription(from[x])],
                  ops |-> bound.streams \cup bound.subs, here |-> TRUE,
                  layout |-> [v \in Views |-> {}], seen |-> [v \in Views |-> 0],
                  pending |-> {}, groups |-> {}, calls |-> {}, mishaps |-> {}]
       /\ room = [pub |-> [s \in bound.streams |-> [k \in bound.tracks |-> "active"]],
                  mixed |-> {}, off |-> {},
                  taken |-> [x \in bound.subs |-> ToRoomCtrlSubArgs(Subscription(from[x]))],
                  shown |-> [v \in Views |-> {}], stamp |-> [v \in Views |-> 0],
                  told |-> [v \in Views |-> <<>>]]
  /\ muted = [i \in Streams \cup Subs |-> {}]
  /\ used = [mixes |-> 0, mutes |-> 0, updates |-> 0, layouts |-> 0, ends |-> 0, faults |-> 0]

Use(kind) == used[kind] < bound[kind] /\ used' = [used EXCEPT ![kind] = @ + 1]

(* The number of a request.                                                *)
Number == used.mixes + used.mutes + used.updates + used.layouts

-----------------------------------------------------------------------------
(* The video mixer of a view shows what is mixed in it, or the layout it   *)
(* was given, and tells the conference of every change.                    *)
Show(R, v, shown) ==
  IF R.shown[v] = shown THEN R
  ELSE LET n == R.stamp[v] + 1
       IN [R EXCEPT !.shown[v] = shown, !.stamp[v] = n,
                    !.told[v] = Append(@, [shown |-> shown, stamp |-> n])]

(* What the room controller does at once.  A stream that is mixed while    *)
(* muted is made inactive at the mixer.                                    *)
RoomMixed(R, s, k, v) ==
  LET on == [R EXCEPT !.mixed = @ \cup {<<s, k, v>>},
                      !.off = IF R.pub[s][k] = "inactive" THEN @ \cup {<<s, k, v>>} ELSE @ \ {<<s, k, v>>}]
  IN IF k = "video" THEN Show(on, v, R.shown[v] \cup {s}) ELSE on

RoomUnmix(R, s, v) ==
  LET all == {t \in R.mixed : t[1] = s /\ t[3] = v}
  IN IF all = {} THEN R
     ELSE Show([R EXCEPT !.mixed = @ \ all, !.off = @ \ all], v, R.shown[v] \ {s})

RoomUnpublish(R, s) ==
  LET off(v, Q) == RoomUnmix(Q, s, v)
      unmixed == FoldSet(off, R, Views)
  IN [unmixed EXCEPT !.pub = Without(@, s), !.taken = Restrict(@, {x \in DOMAIN @ : @[x].from # s})]

(* Faulty: the mixers are not told of the new status.                      *)
UpdateStream_mixers_not_told(R, s, k, status) == [R EXCEPT !.pub[s][k] = status]

UpdateStream(R, s, k, status) ==
  LET mine == {t \in R.mixed : t[1] = s /\ t[2] = k}
  IN [R EXCEPT !.pub[s][k] = status, !.off = IF status = "inactive" THEN @ \cup mine ELSE @ \ mine]

-----------------------------------------------------------------------------
(* Ends.  The nodes of what is ended are asked first, and what they answer *)
(* removes the record.                                                     *)
Terminate(C, i) == IF i \in C.ops THEN Call(C, [call |-> "terminate", id |-> i]) ELSE C

RemoveSubscription(C, x) == [C EXCEPT !.subs = Without(@, x)]
RoomUnsubscribe(R, x) == [R EXCEPT !.taken = Without(@, x)]

(* Faulty: the subscriptions to the stream go on.                          *)
RemoveStream_subs_go_on(C, s) == [C EXCEPT !.streams = Without(@, s)]

RemoveStream(C, s) ==
  LET end(x, Q) == Terminate(Q, x)
      takers == {x \in DOMAIN C.subs : C.subs[x].from = s}
  IN [FoldSet(end, C, takers) EXCEPT !.streams = Without(@, s)]

(* unpublish and unsubscribe.                                              *)
End(i) ==
  /\ i \in DOMAIN conf.streams \cup DOMAIN conf.subs
  /\ Use("ends")
  /\ conf' = Terminate(conf, i)
  /\ UNCHANGED <<room, muted, bound>>

Terminated(c) ==
  /\ c.call = "terminate"
  /\ LET C == [conf EXCEPT !.calls = @ \ {c}, !.ops = @ \ {c.id}]
     IN IF c.id \in Streams
        THEN IF Has(C, c.id)
             THEN conf' = RemoveStream(C, c.id) /\ room' = RoomUnpublish(room, c.id)
             ELSE conf' = C /\ UNCHANGED room
        ELSE IF c.id \in DOMAIN C.subs
             THEN conf' = RemoveSubscription(C, c.id) /\ room' = RoomUnsubscribe(room, c.id)
             ELSE conf' = C /\ UNCHANGED room
  /\ muted' = [muted EXCEPT ![c.id] = {}]
  /\ UNCHANGED <<used, bound>>

(* The owner of the subscriptions leaves.                                  *)
Leave ==
  /\ conf.here
  /\ Use("ends")
  /\ LET end(x, Q) == Terminate(Q, x)
     IN conf' = [FoldSet(end, conf, conf.ops \cap Subs) EXCEPT !.here = FALSE, !.subs = <<>>]
  /\ room' = [room EXCEPT !.taken = Restrict(@, DOMAIN @ \ DOMAIN conf.subs)]
  /\ UNCHANGED <<muted, bound>>

-----------------------------------------------------------------------------
(* Mixing.  Each track is mixed by itself; the view is noted when all are. *)

(* The tracks to be muted when the other commands of a request are done.   *)
AskMute(C, m) == Call(C, [call |-> "mute", id |-> m.id, kinds |-> m.kinds, off |-> m.off, n |-> m.n])

GroupDone(C, n, v) ==
  LET mine == {g \in C.groups : g.n = n}
      left == {[g EXCEPT !.left = @ \ {v}] : g \in mine}
      over == {g \in left : g.left = {}}
      mute(g, Q) == IF g.mute.kinds = {} THEN Q ELSE AskMute(Q, g.mute)
  IN FoldSet(mute, [C EXCEPT !.groups = (@ \ mine) \cup (left \ over)], over)

(* The request is answered with an error; what else it asked for goes on.  *)
Reject(C, n) == [C EXCEPT !.groups = {g \in @ : g.n # n}]

(* Faulty: the view is noted again when the stream is in it.               *)
MixNoted_twice(C, p) ==
  IF Has(C, p.s) THEN GroupDone([C EXCEPT !.streams[p.s].views = Append(@, p.v)], p.n, p.v) ELSE Reject(C, p.n)

MixNoted(C, p) ==
  IF Has(C, p.s)
  THEN GroupDone([C EXCEPT !.streams[p.s].views = IF Contains(@, p.v) THEN @ ELSE Append(@, p.v)], p.n, p.v)
  ELSE Reject(C, p.n)

Mix(C, s, v, n) ==
  IF Contains(C.streams[s].views, v) THEN GroupDone(C, n, v)
  ELSE LET kinds == DOMAIN C.streams[s].status
       IN [C EXCEPT !.pending = @ \cup {[s |-> s, v |-> v, n |-> n, left |-> kinds]},
                    !.calls = @ \cup {[call |-> "mix", s |-> s, k |-> k, v |-> v, n |-> n] : k \in kinds}]

(* Where the view is not noted, the index is -1 and the last one goes.     *)
Unmix(C, s, v, n) ==
  LET views == C.streams[s].views
      known == Contains(views, v)
      cut == IF known THEN RemoveFirst(views, v) ELSE IF views = <<>> THEN views ELSE Front(views)
      D == GroupDone([C EXCEPT !.streams[s].views = cut], n, v)
      early == \E p \in C.pending : p.s = s /\ p.v = v
  IN IF cut # views /\ ~known THEN Note(D, "other_view_lost")
     ELSE IF early THEN Note(D, "unmixed_early") ELSE D

(* Commands for one stream: views to mix it in and to unmix it from, and   *)
(* tracks to mute.  streamControl has one, controlStream a list.           *)
Request(s, add, cut, mute) ==
  LET n == Number
      begun == [conf EXCEPT !.groups = @ \cup {[n |-> n, left |-> add \cup cut, mute |-> mute]}]
      mix(v, Q) == Mix(Q, s, v, n)
      unmix(v, Q) == Unmix(Q, s, v, n)
      rid(v, R) == RoomUnmix(R, s, v)
  IN /\ conf' = FoldSet(unmix, FoldSet(mix, begun, add), cut)
     /\ room' = FoldSet(rid, room, cut)
     /\ UNCHANGED <<muted, bound>>

NoMute(s) == [id |-> s, kinds |-> {}, off |-> FALSE, n |-> Number]

StreamControl(s) ==
  /\ Has(conf, s)
  /\ Use("mixes")
  /\ \E v \in bound.views : Request(s, {v}, {}, NoMute(s)) \/ Request(s, {}, {v}, NoMute(s))

(* A track that has the status already is not muted.                       *)
ControlStream(s) ==
  /\ Has(conf, s) /\ bound.mutes > 0
  /\ Use("mixes")
  /\ \E add, cut \in SUBSET bound.views, off \in BOOLEAN :
       /\ add \cup cut # {} /\ add \cap cut = {}
       /\ LET status == conf.streams[s].status
              kinds == {k \in DOMAIN status : status[k] = IF off THEN "active" ELSE "inactive"}
          IN Request(s, add, cut, [NoMute(s) EXCEPT !.kinds = kinds, !.off = off])

(* The room controller has spread the track to the mixer of the view.  The *)
(* handler reads the tables of the stream: when that is gone it throws,    *)
(* and the request is never answered.                                      *)
MixDone(c) ==
  /\ c.call = "mix"
  /\ LET C == [conf EXCEPT !.calls = @ \ {c}]
         mine == {p \in C.pending : p.n = c.n /\ p.v = c.v}
         left == {[p EXCEPT !.left = @ \ {c.k}] : p \in mine}
         over == {p \in left : p.left = {}}
         note(p, Q) == MixNoted(Q, p)
     IN \/ /\ c.s \in DOMAIN room.pub
           /\ room' = RoomMixed(room, c.s, c.k, c.v)
           /\ conf' = FoldSet(note, [C EXCEPT !.pending = (@ \ mine) \cup (left \ over)], over)
           /\ UNCHANGED used
        \/ /\ c.s \notin DOMAIN room.pub
           /\ conf' = [C EXCEPT !.pending = @ \ mine]
           /\ UNCHANGED <<room, used>>
        \/ /\ Use("faults")
           /\ conf' = Reject([C EXCEPT !.pending = @ \ mine], c.n)
           /\ UNCHANGED room
  /\ UNCHANGED <<muted, bound>>

-----------------------------------------------------------------------------
(* Muting: the node is told, then the record and the mixers follow.  The   *)
(* RTC controller takes the failure of the node for an answer.             *)
SetStreamMute(s) ==
  /\ Has(conf, s) /\ s \in conf.ops
  /\ Use("mutes")
  /\ \E kinds \in SUBSET DOMAIN conf.streams[s].status \ {{}}, off \in BOOLEAN :
       conf' = AskMute(conf, [id |-> s, kinds |-> kinds, off |-> off, n |-> Number])
  /\ UNCHANGED <<room, muted, bound>>

(* pause and play of a subscription.                                       *)
SetSubscriptionMute(x) ==
  /\ x \in DOMAIN conf.subs /\ x \in conf.ops
  /\ Use("mutes")
  /\ \E off \in BOOLEAN : conf' = AskMute(conf, [id |-> x, kinds |-> {"video"}, off |-> off, n |-> Number])
  /\ UNCHANGED <<room, muted, bound>>

StreamStatus(off) == IF off THEN "inactive" ELSE "active"

(* The other way round.                                                    *)
SubscriptionStatus(off) == IF off THEN "active" ELSE "inactive"

StreamMuted(C, R, c) ==
  LET tell(k, Q) == UpdateStream(Q, c.id, k, StreamStatus(c.off))
  IN [conf |-> [C EXCEPT !.streams[c.id].status =
                  [k \in DOMAIN @ |-> IF k \in c.kinds THEN StreamStatus(c.off) ELSE @[k]]],
      room |-> FoldSet(tell, R, c.kinds)]

(* A node answers in the order it was asked.                               *)
MuteDone(c) ==
  /\ c.call = "mute"
  /\ \A d \in conf.calls : d.call = "mute" /\ d.id = c.id => c.n <= d.n
  /\ \/ /\ muted' = [muted EXCEPT ![c.id] = IF c.id \notin conf.ops THEN @
                                            ELSE IF c.off THEN @ \cup c.kinds ELSE @ \ c.kinds]
        /\ UNCHANGED used
     \/ Use("faults") /\ UNCHANGED muted
  /\ LET C == [conf EXCEPT !.calls = @ \ {c}]
     IN IF c.id \in Subs
        THEN /\ conf' = IF c.id \in DOMAIN C.subs
                        THEN [C EXCEPT !.subs[c.id].status = SubscriptionStatus(c.off)] ELSE C
             /\ UNCHANGED room
        ELSE LET after == StreamMuted(C, room, c)
             IN IF Has(C, c.id) THEN conf' = after.conf /\ room' = after.room
                ELSE conf' = C /\ UNCHANGED room
  /\ UNCHANGED bound

-----------------------------------------------------------------------------
(* Layouts.                                                                *)
SetLayout(v) ==
  /\ Use("layouts")
  /\ \E shown \in SUBSET {s \in DOMAIN conf.streams : "video" \in DOMAIN conf.streams[s].status} :
       conf' = Call(conf, [call |-> "layout", v |-> v, shown |-> shown, n |-> Number, stamp |-> 0])
  /\ UNCHANGED <<room, muted, bound>>

(* The mixer has the layout and tells so, its answer is on its way.        *)
LayoutSet(c) ==
  /\ c.call = "layout" /\ c.stamp = 0
  /\ room' = Show([room EXCEPT !.shown[c.v] = {<<>>}], c.v, c.shown)
  /\ conf' = Call([conf EXCEPT !.calls = @ \ {c}], [c EXCEPT !.stamp = room.stamp[c.v] + 1])
  /\ UNCHANGED <<muted, used, bound>>

(* What was told and what was answered may come in either order.           *)
LayoutHeard(C, v, l) ==
  LET D == [C EXCEPT !.layout[v] = l.shown, !.seen[v] = l.stamp]
  IN IF l.stamp < C.seen[v] THEN Note(D, "layout_overtaken") ELSE D

LayoutAnswered(c) ==
  /\ c.call = "layout" /\ c.stamp > 0
  /\ conf' = LayoutHeard([conf EXCEPT !.calls = @ \ {c}], c.v, c)
  /\ UNCHANGED <<room, muted, used, bound>>

OnVideoLayoutChange(v) ==
  /\ room.told[v] # <<>>
  /\ conf' = LayoutHeard(conf, v, Head(room.told[v]))
  /\ room' = [room EXCEPT !.told[v] = Tail(@)]
  /\ UNCHANGED <<muted, used, bound>>

-----------------------------------------------------------------------------
(* The source or the size of a subscription is changed: it is removed, and *)
(* added again.  Sizes on offer are those not above the source's.          *)
IsResolutionAvailable(stream, size) == size <= stream.size

ValidateVideoRequest(req) ==
  /\ Has(conf, req.from) /\ "video" \in DOMAIN conf.streams[req.from].status
  /\ IsResolutionAvailable(conf.streams[req.from], req.size)

AddSubscription(C, c) ==
  IF C.here /\ Has(C, c.sub.from) THEN Call(C, c) ELSE Note(C, "update_lost")

UpdateSubscription(x) ==
  /\ x \in DOMAIN conf.subs
  /\ Use("updates")
  /\ LET old == conf.subs[x]
     IN \E from \in DOMAIN conf.streams, size \in Sizes :
          LET new == [from |-> from, size |-> size, status |-> "active"]
          IN /\ <<from, size>> # <<old.from, old.size>>
             /\ ValidateVideoRequest(new)
             /\ conf' = AddSubscription(RemoveSubscription(conf, x),
                          [call |-> "subscribe", id |-> x, sub |-> new, old |-> old, again |-> FALSE])
  /\ room' = RoomUnsubscribe(room, x)
  /\ UNCHANGED <<muted, bound>>

(* The room controller's answer.  After a failure the old subscription is  *)
(* added again.                                                            *)
SubscribeDone(c) ==
  /\ c.call = "subscribe"
  /\ LET C == [conf EXCEPT !.calls = @ \ {c}]
     IN \/ /\ c.sub.from \in DOMAIN room.pub
           /\ IF C.here
              THEN LET D == [C EXCEPT !.subs = (c.id :> c.sub) @@ @]
                   IN /\ conf' = IF c.id \in C.ops THEN D ELSE Note(D, "revived")
                      /\ room' = [room EXCEPT !.taken = (c.id :> ToRoomCtrlSubArgs(c.sub)) @@ @]
              ELSE conf' = Note(C, "update_lost") /\ UNCHANGED room
           /\ UNCHANGED used
        \/ /\ IF c.sub.from \in DOMAIN room.pub THEN Use("faults") ELSE UNCHANGED used
           /\ conf' = IF c.again THEN Note(C, "update_lost")
                      ELSE AddSubscription(C, [c EXCEPT !.sub = [c.old EXCEPT !.status = "active"], !.again = TRUE])
           /\ UNCHANGED room
  /\ UNCHANGED <<muted, bound>>

(* The access node has found the size of the video of a stream.            *)
OnMediaUpdate(s) ==
  /\ Has(conf, s) /\ "video" \in DOMAIN conf.streams[s].status
  /\ Use("updates")
  /\ \E size \in Sizes : size # conf.streams[s].size /\ conf' = [conf EXCEPT !.streams[s].size = size]
  /\ UNCHANGED <<room, muted, bound>>

-----------------------------------------------------------------------------
Next ==
  \/ \E s \in Streams : StreamControl(s) \/ ControlStream(s) \/ SetStreamMute(s) \/ OnMediaUpdate(s)
  \/ \E x \in Subs : SetSubscriptionMute(x) \/ UpdateSubscription(x)
  \/ \E i \in Streams \cup Subs : End(i)
  \/ Leave
  \/ \E v \in bound.views : SetLayout(v) \/ OnVideoLayoutChange(v)
  \/ \E c \in conf.calls : \/ Terminated(c) \/ MixDone(c) \/ MuteDone(c) \/ LayoutSet(c)
                           \/ LayoutAnswered(c) \/ SubscribeDone(c)

Spec == Init /\ [][Next]_vars

-----------------------------------------------------------------------------
TypeOK ==
  /\ DOMAIN conf.streams = DOMAIN room.pub
  /\ conf.ops \subseteq Streams \cup Subs
  /\ room.off \subseteq room.mixed
  /\ \A t \in room.mixed : t[1] \in DOMAIN room.pub

AtRest == conf.calls = {} /\ used.faults = 0

(* A stream is in the views its record names, once in each and with all    *)
(* its tracks, whatever was mixed and unmixed at a time (conference.js mix *)
(* and unmix).                                                             *)
ViewsAgree ==
  AtRest /\ conf.mishaps \cap {"other_view_lost", "unmixed_early"} = {} =>
    \A s \in DOMAIN conf.streams :
      /\ IsInjective(conf.streams[s].views)
      /\ \A v \in Views, k \in DOMAIN conf.streams[s].status :
           <<s, k, v>> \in room.mixed <=> Contains(conf.streams[s].views, v)

(* The record of a track, the node that receives it and the mixers that    *)
(* take it agree on whether it is on (setStreamMute, updateStream); that   *)
(* of a subscription says the opposite (setSubscriptionMute).              *)
MutesAgree ==
  AtRest =>
    /\ \A s \in DOMAIN conf.streams : \A k \in DOMAIN conf.streams[s].status :
         LET status == StreamStatus(k \in muted[s])
         IN /\ conf.streams[s].status[k] = status /\ room.pub[s][k] = status
            /\ \A v \in Views : <<s, k, v>> \in room.off <=> <<s, k, v>> \in room.mixed /\ k \in muted[s]

(* A layout that is recorded is the one the mixer shows, unless an answer  *)
(* was overtaken by what the mixer told (setLayout, onVideoLayoutChange).  *)
LayoutsAgree ==
  "layout_overtaken" \notin conf.mishaps =>
    \A v \in Views :
      room.told[v] = <<>> /\ (\A c \in conf.calls : c.call # "layout" \/ c.v # v \/ c.stamp = 0)
        => conf.layout[v] = room.shown[v]

(* A subscription is what the room controller links, from a stream that is *)
(* there, in the size of the last update, and an operation carries it      *)
(* (updateSubscription).                                                   *)
UpdatesAgree ==
  /\ DOMAIN room.taken \subseteq DOMAIN conf.subs
  /\ AtRest /\ "revived" \notin conf.mishaps =>
       /\ \A x \in DOMAIN conf.subs :
            /\ conf.here /\ Has(conf, conf.subs[x].from) /\ x \in conf.ops
            /\ x \in DOMAIN room.taken /\ room.taken[x] = ToRoomCtrlSubArgs(conf.subs[x])
       /\ "update_lost" \notin conf.mishaps => conf.ops \cap Subs = DOMAIN conf.subs
=============================================================================
