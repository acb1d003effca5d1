--------------------------- MODULE RoomController ---------------------------
(***************************************************************************)
(* The room controller of a conference (agent/conference/                  *)
(* roomController.js): which terminal publishes which stream, which        *)
(* terminals take it, and the audio and video processing nodes between     *)
(* them.                                                                   *)
(*                                                                         *)
(* A room has one view.  Its mixers and the transcoders made on demand     *)
(* each run on a media node of their own, so a processor and its node are  *)
(* one identifier here.  A stream is spread to a processor by an RPC       *)
(* "publish", a processor is asked for an output by "generate", and a      *)
(* subscriber is connected by "linkup" on its access node.  Each of these  *)
(* calls is answered later, in the order the node received them, and the   *)
(* handler of an answer is one action: it runs to its end, calling what    *)
(* the code calls.                                                         *)
(*                                                                         *)
(* An exception in the handler of an answer is caught and logged by the    *)
(* RPC client: whatever the handler had still to do is not done.           *)
(***************************************************************************)
EXTENDS Integers, Sequences, FiniteSets, FiniteSetsExt, SequencesExt, Functions, TLC

CONSTANTS Sources,      \* streams of participants: each identifier is used once
          Subs,         \* subscriptions: each identifier is used once
          Xcoders,      \* identifiers for transcoders
          Mixed,        \* the name of the mixed stream of the view
          Own,          \* the format a stream is published in
          Formats,      \* the other formats a subscriber may ask for
          MaxOutputs,   \* bound: outputs a processor makes in its life
          Rebuilt,      \* who asks for a stream when a processor is rebuilt
          Bounds        \* the bounds a behaviour may choose: the sets of tracks
                        \* streams and subscriptions have, how many subscriptions
                        \* and requests to mix there are, and how many times a
                        \* call fails or a node is lost

ASSUME BoundsAssumption ==
  \A b \in Bounds : /\ b.tracks \subseteq SUBSET {"audio", "video"} \ {{}}
                    /\ {b.subs, b.mixes, b.faults} \subseteq Nat

Kinds == UNION UNION {b.tracks : b \in Bounds}

VARIABLES room,      \* what the controller knows and the calls it has under way
          node,      \* the processing nodes: inputs, outputs, answers under way
          used,      \* requests to mix, failures and losses so far
          bound      \* the bounds of this behaviour

vars == <<room, node, used, bound>>

Pub(s) == <<"pub", s>>
Sub(x) == <<"sub", x>>
Mixer(k) == <<"mixer", k>>
Xcoder(i) == <<"xcoder", i>>
Mixers == {Mixer(k) : k \in Kinds}
XcoderTerms == {Xcoder(i) : i \in Xcoders}
Procs == Mixers \cup XcoderTerms
SubTerms == {Sub(x) : x \in Subs}

Nothing == <<>>
Idle == [stage |-> "idle", inputs |-> {}, outputs |-> {}]
Without(f, e) == Restrict(f, DOMAIN f \ {e})

-----------------------------------------------------------------------------
(* What the controller does to its tables.  Each operator takes the room   *)
(* and gives the room after the function it is named for.                  *)

Note(R, e) == [R EXCEPT !.mishaps = @ \cup {e}]
Has(R, t) == t \in DOMAIN R.terminals
Live(R, st) == st \in DOMAIN R.streams
Send(R, p, m) == [R EXCEPT !.queue[p] = Append(@, m)]

Terminal == [published |-> {}, subscribed |-> {}]
Stream(owner, kinds, fmt) ==
  [owner |-> owner, fmt |-> fmt, subs |-> [k \in kinds |-> <<>>], spread |-> Nothing]

NewTerminal(R, t) == IF Has(R, t) THEN R ELSE [R EXCEPT !.terminals = (t :> Terminal) @@ @]
DeleteTerminal(R, t) == [R EXCEPT !.terminals = Without(@, t)]

IsTerminalFree(R, t) == Has(R, t) /\ R.terminals[t] = Terminal

AddSubscriber(R, st, k, t) == [R EXCEPT !.streams[st].subs[k] = Append(@, t)]
DropSubscriber(R, st, k, t) ==
  IF Live(R, st) /\ k \in DOMAIN R.streams[st].subs
  THEN [R EXCEPT !.streams[st].subs[k] = RemoveFirst(@, t)] ELSE R

IsSpreadInUse(R, st, p) ==
  Has(R, p) /\ \E k \in DOMAIN R.streams[st].subs : Contains(R.streams[st].subs[k], p)

ShrinkStream(R, st, p) ==
  IF Live(R, st) /\ Has(R, R.streams[st].owner) /\ ~IsSpreadInUse(R, st, p)
  THEN Send([R EXCEPT !.streams[st].spread = Without(@, p)], p, [call |-> "unpublish", st |-> st])
  ELSE R

(* A transcoder gives up the stream it takes.                              *)
LeaveSource(R, t) ==
  LET leave(e, Q) == ShrinkStream(DropSubscriber(Q, e[2], e[1], t), e[2], t)
      gone == FoldSet(leave, R, R.terminals[t].subscribed)
  IN [gone EXCEPT !.terminals[t].subscribed = {}]

TerminateTemporaryStream(R, st) ==
  LET o == R.streams[st].owner
      ended == [Send(R, o, [call |-> "degenerate", st |-> st]) EXCEPT
                  !.ended = @ \cup {st}, !.streams = Without(@, st), !.terminals[o].published = @ \ {st}]
  IN IF o \in XcoderTerms /\ ended.terminals[o].published = {}
     THEN DeleteTerminal(LeaveSource(ended, o), o) ELSE ended

RecycleTemporary(R, st, k) ==
  IF Live(R, st) /\ k \in DOMAIN R.streams[st].subs /\ R.streams[st].subs[k] = <<>>
       /\ R.streams[st].owner \in Procs /\ Has(R, R.streams[st].owner)
  THEN TerminateTemporaryStream(R, st) ELSE R

(* Faulty: an output the last subscriber leaves is not ended.              *)
UnsubscribeStream_no_recycle(R, t) ==
  LET leave(e, Q) == DropSubscriber(Q, e[2], e[1], t)
      gone == FoldSet(leave, R, R.terminals[t].subscribed)
  IN [gone EXCEPT !.terminals[t].subscribed = {}]

(* A participant's terminal gives up all its subscription takes.           *)
UnsubscribeStream(R, t) ==
  LET leave(e, Q) == RecycleTemporary(DropSubscriber(Q, e[2], e[1], t), e[2], e[1])
      gone == FoldSet(leave, R, R.terminals[t].subscribed)
  IN [gone EXCEPT !.terminals[t].subscribed = {}]

FreeTerminal(R, t) == IF IsTerminalFree(R, t) THEN DeleteTerminal(R, t) ELSE R

SubscribersOf(R, st) ==
  UNION {ToSet(R.streams[st].subs[k]) : k \in DOMAIN R.streams[st].subs}

(* The streams a transcoder makes end with the stream it takes.            *)
UnpublishOutput(st, R) ==
  IF ~Live(R, st) THEN R ELSE
  LET cut(t, Q) == IF Has(Q, t) THEN FreeTerminal(UnsubscribeStream(Q, t), t) ELSE Q
      rid == FoldSet(cut, R, SubscribersOf(R, st))
      o == R.streams[st].owner
      unlisted == IF Has(rid, o) THEN [rid EXCEPT !.terminals[o].published = @ \ {st}] ELSE rid
  IN [unlisted EXCEPT !.streams = Without(@, st)]

RemoveSubscriptions(R, s) ==
  LET cut(t, Q) ==
        IF ~Has(Q, t) THEN Q
        ELSE IF t \in XcoderTerms
        THEN FreeTerminal(FoldSet(UnpublishOutput, LeaveSource(Q, t), Q.terminals[t].published), t)
        ELSE FreeTerminal(UnsubscribeStream(Q, t), t)
  IN FoldSet(cut, R, SubscribersOf(R, s))

(* Faulty: the stream stays an input of the mixer's node.                  *)
UnmixTrack_not_shrunk(R, s, k) ==
  IF ~Live(R, s) \/ k \notin DOMAIN R.streams[s].subs THEN R
  ELSE DropSubscriber([R EXCEPT !.terminals[Mixer(k)].subscribed = @ \ {<<k, s>>}], s, k, Mixer(k))

(* Faulty: the mixer still counts the stream as one it takes.              *)
UnmixTrack_stays_subscribed(R, s, k) ==
  IF Live(R, s) /\ k \in DOMAIN R.streams[s].subs /\ Contains(R.streams[s].subs[k], Mixer(k))
  THEN ShrinkStream(DropSubscriber(R, s, k, Mixer(k)), s, Mixer(k)) ELSE R

UnmixTrack(R, s, k) ==
  IF ~Live(R, s) \/ k \notin DOMAIN R.streams[s].subs THEN R ELSE
  LET off == [R EXCEPT !.terminals[Mixer(k)].subscribed = @ \ {<<k, s>>}]
  IN IF Contains(R.streams[s].subs[k], Mixer(k))
     THEN ShrinkStream(DropSubscriber(off, s, k, Mixer(k)), s, Mixer(k)) ELSE off

UnmixStream(R, s) == LET off(k, Q) == UnmixTrack(Q, s, k) IN FoldSet(off, R, Kinds)


UnpublishStream(R, s) ==
  [RemoveSubscriptions(UnmixStream(R, s), s) EXCEPT !.streams = Without(@, s)]

-----------------------------------------------------------------------------
(* Spreading a stream to a processor.  A continuation c says what is done  *)
(* when the spread is there.  The operators give the room and the answers, *)
(* the callbacks that run at once: for each, whether it is on_ok.          *)

Now(R, ok, cs) == [room |-> R, answers |-> [i \in DOMAIN cs |-> [ok |-> ok, c |-> cs[i]]]]
Later(R) == [room |-> R, answers |-> <<>>]

SpreadFailed(R, s, p, c) ==
  IF Live(R, s) /\ p \in DOMAIN R.streams[s].spread
  THEN Now([R EXCEPT !.streams[s].spread = Without(@, p)], FALSE,
           Append(R.streams[s].spread[p].waiting, c))
  ELSE Now(R, FALSE, <<c>>)

(* Returns at once when the stream is spread already.  While another       *)
(* spread to the same node is under way the callbacks are queued with it,  *)
(* and the call to the node is made all the same.                          *)
SpreadStream(R, s, p, c) ==
  IF ~Live(R, s) \/ ~Has(R, R.streams[s].owner) THEN Now(R, FALSE, <<c>>)
  ELSE LET entry == R.streams[s].spread
           begun == IF p \in DOMAIN entry
                    THEN Note([R EXCEPT !.streams[s].spread[p].waiting = Append(@, c)], "spread_twice")
                    ELSE [R EXCEPT !.streams[s].spread =
                            (p :> [status |-> "connecting", waiting |-> <<>>]) @@ @]
       IN IF p \in DOMAIN entry /\ entry[p].status = "connected" THEN Now(R, TRUE, <<c>>)
          ELSE CASE R.addr[s] = "known" -> Later(Send(begun, p, [call |-> "publish", st |-> s, c |-> c]))
                 [] R.addr[s] = "asked" -> Later([begun EXCEPT !.held[s] = Append(@, [p |-> p, c |-> c])])
                 [] R.addr[s] = "failed" -> SpreadFailed(begun, s, p, c)

-----------------------------------------------------------------------------
(* Mixing: the audio track first, then the video track.                    *)

AddMixed(R, s, k) ==
  LET m == Mixer(k)
      on == [R EXCEPT !.terminals[m].subscribed = @ \cup {<<k, s>>}]
  IN IF Contains(R.streams[s].subs[k], m) THEN on ELSE AddSubscriber(on, s, k, m)

MixCont(s, k) == [to |-> "mix", s |-> s, k |-> k]

VideoMixed(R, c) == AddMixed(R, c.s, "video")
VideoUnmixed(R, c) == UnmixTrack(R, c.s, "audio")
MixVideo(R, s) ==
  LET spread == SpreadStream(R, s, Mixer("video"), MixCont(s, "video"))
      answer(Q, a) == IF a.ok THEN VideoMixed(Q, a.c) ELSE VideoUnmixed(Q, a.c)
  IN FoldLeft(answer, spread.room, spread.answers)

AudioMixed(R, c) ==
  LET on == AddMixed(R, c.s, "audio")
  IN IF "video" \in DOMAIN R.streams[c.s].subs THEN MixVideo(on, c.s) ELSE on
AudioUnmixed(R, c) == R
MixAudio(R, s) ==
  LET spread == SpreadStream(R, s, Mixer("audio"), MixCont(s, "audio"))
      answer(Q, a) == IF a.ok THEN AudioMixed(Q, a.c) ELSE AudioUnmixed(Q, a.c)
  IN FoldLeft(answer, spread.room, spread.answers)

MixStream(R, s) == IF "audio" \in DOMAIN R.streams[s].subs THEN MixAudio(R, s) ELSE MixVideo(R, s)

-----------------------------------------------------------------------------
(* Finding or making a stream.  A job j says what it is for: a             *)
(* subscription j.x with the tracks it got so far, or, after a processor   *)
(* was lost, the takers of one of its outputs (j.x = Rebuilt).             *)

Answer(R, x, result) == [R EXCEPT !.answer[x] = IF @ = "asked" THEN result ELSE @]

RecycleGot(R, got) ==
  LET end(k, Q) == RecycleTemporary(Q, got[k], k) IN FoldSet(end, R, DOMAIN got)

(* A rebuild that fails throws from a timer: the process exits.            *)
JobFailed(R, j) ==
  IF j.x = Rebuilt THEN [R EXCEPT !.crashed = TRUE]
  ELSE Answer(DeleteTerminal(RecycleGot(R, j.got), Sub(j.x)), j.x, "error")

Linkable(R, j) == Has(R, Sub(j.x)) /\ \A k \in DOMAIN j.got : Live(R, j.got[k])

Linkup(R, j) ==
  IF Linkable(R, j) THEN [R EXCEPT !.links[Sub(j.x)] = Append(@, j)] ELSE JobFailed(R, j)

LinkupDone(R, j) ==
  IF Linkable(R, j)
  THEN LET add(k, Q) == AddSubscriber(Q, j.got[k], k, Sub(j.x))
           linked == FoldSet(add, R, DOMAIN j.got)
       IN Answer([linked EXCEPT
                    !.terminals[Sub(j.x)].subscribed = {<<k, j.got[k]>> : k \in DOMAIN j.got}],
                 j.x, "ok")
  ELSE JobFailed(R, j)

(* The takers of the lost output are linked to the new one.                *)
Relink(R, j, st) ==
  LET ask(t, Q) == IF Has(Q, t) /\ <<j.k, j.old>> \in Q.terminals[t].subscribed
                   THEN [Q EXCEPT !.links[t] = Append(@, [x |-> Rebuilt, k |-> j.k, old |-> j.old, new |-> st])]
                   ELSE Q
  IN FoldSet(ask, R, j.takers)

(* The new output may have ended meanwhile: reading it throws.             *)
RelinkDone(R, t, l) ==
  IF Live(R, l.new) /\ Has(R, t)
  THEN [AddSubscriber(R, l.new, l.k, t) EXCEPT
          !.terminals[t].subscribed = {e \in @ : e[1] # l.k} \cup {<<l.k, l.new>>}]
  ELSE R

OutputsOf(R, p, fmt) == {st \in R.terminals[p].published : Live(R, st) /\ R.streams[st].fmt = fmt}

Generate(R, p, k, j) == Send(R, p, [call |-> "generate", fmt |-> j.fmt, k |-> k, j |-> j])

(* An output a processor makes already, or a new one: the room, and what   *)
(* the request j got at once.                                              *)
GetOutput(R, p, k, j) ==
  LET outs == OutputsOf(R, p, j.fmt)
  IN IF outs # {} THEN [room |-> R, got |-> {CHOOSE st \in outs : TRUE}]
     ELSE [room |-> Generate(R, p, k, j), got |-> {}]

TranscodersOf(R, s, k) == {t \in ToSet(R.streams[s].subs[k]) : t \in XcoderTerms /\ Has(R, t)}

GetTranscoded(R, k, j) ==
  IF TranscodersOf(R, j.from, k) # {}
  THEN GetOutput(R, CHOOSE t \in TranscodersOf(R, j.from, k) : TRUE, k, j)
  ELSE [room |-> [R EXCEPT !.spawns = @ \cup {[k |-> k, j |-> j]}], got |-> {}]

GetMixedAudio(R, j) == Generate(R, Mixer("audio"), "audio", j)

GotVideo(R, j, st) ==
  IF j.x = Rebuilt THEN Relink(R, j, st) ELSE Linkup(R, [j EXCEPT !.got = ("video" :> st) @@ @])

VideoAnswer(r, j) == IF r.got = {} THEN r.room ELSE GotVideo(r.room, j, CHOOSE st \in r.got : TRUE)
GetMixedVideo(R, j) == VideoAnswer(GetOutput(R, Mixer("video"), "video", j), j)

GetVideoStream(R, j) ==
  IF j.from = Mixed THEN GetMixedVideo(R, j)
  ELSE IF ~Live(R, j.from) THEN JobFailed(R, j)
  ELSE IF j.fmt = Own THEN GotVideo(R, j, j.from)
  ELSE VideoAnswer(GetTranscoded(R, "video", j), j)

GotAudio(R, j, st) ==
  IF j.x = Rebuilt THEN Relink(R, j, st)
  ELSE LET g == [j EXCEPT !.got = ("audio" :> st) @@ @]
       IN IF "video" \in j.kinds THEN GetVideoStream(R, g) ELSE Linkup(R, g)

AudioAnswer(r, j) == IF r.got = {} THEN r.room ELSE GotAudio(r.room, j, CHOOSE st \in r.got : TRUE)
TrackAnswer(r, k, j) == IF k = "audio" THEN AudioAnswer(r, j) ELSE VideoAnswer(r, j)

GetAudioStream(R, j) ==
  IF j.from = Mixed THEN GetMixedAudio(R, j)
  ELSE IF ~Live(R, j.from) THEN JobFailed(R, j)
  ELSE IF j.fmt = Own THEN GotAudio(R, j, j.from)
  ELSE AudioAnswer(GetTranscoded(R, "audio", j), j)

GotTrack(R, k, j, st) == IF k = "audio" THEN GotAudio(R, j, st) ELSE GotVideo(R, j, st)

(* The output a processor made.  It may be one the processor made for an   *)
(* earlier request, and one the controller has ended since.                *)
Generated(R, p, m, st) ==
  IF Has(R, p)
  THEN LET known == IF Live(R, st) THEN R
                    ELSE [(IF st \in R.ended THEN Note(R, "output_revived") ELSE R) EXCEPT
                            !.streams = (st :> Stream(p, {m.k}, m.fmt)) @@ @,
                            !.terminals[p].published = @ \cup {st}]
       IN GotTrack(known, m.k, m.j, st)
  ELSE JobFailed(Send(R, p, [call |-> "degenerate", st |-> st]), m.j)

(* The transcoder got its input.  When it was removed meanwhile the handler *)
(* of the failure reads its node and throws.                                *)
TranscoderFed(R, c) ==
  IF Has(R, c.p)
  THEN LET fed == AddSubscriber([R EXCEPT !.terminals[c.p].subscribed = @ \cup {<<c.k, c.s>>}],
                                c.s, c.k, c.p)
       IN TrackAnswer(GetOutput(fed, c.p, c.k, c.j), c.k, c.j)
  ELSE ShrinkStream(R, c.s, c.p)

TranscoderNotFed(R, c) ==
  IF Has(R, c.p)
  THEN JobFailed(DeleteTerminal(Send(R, c.p, [call |-> "deinit"]), c.p), c.j)
  ELSE R

FeedTranscoder(R, c) ==
  LET spread == SpreadStream(R, c.s, c.p, c)
      answer(Q, a) == IF a.ok THEN TranscoderFed(Q, a.c) ELSE TranscoderNotFed(Q, a.c)
  IN FoldLeft(answer, spread.room, spread.answers)

-----------------------------------------------------------------------------
(* A lost processor is rebuilt: its inputs and outputs are taken off, and, *)
(* once there is a new node, put on again.                                 *)

Backup(R, st, from) ==
  [x |-> Rebuilt, from |-> from, fmt |-> R.streams[st].fmt, old |-> st,
   k |-> CHOOSE k \in DOMAIN R.streams[st].subs : TRUE, takers |-> SubscribersOf(R, st)]

DropOutputs(R, p) ==
  [R EXCEPT !.streams = Restrict(@, DOMAIN @ \ R.terminals[p].published),
            !.terminals[p].published = {}]

InputsOf(R, p) == {e[2] : e \in R.terminals[p].subscribed}

TakeOffMixer(R, k) ==
  LET m == Mixer(k)
      off(s, Q) == UnmixTrack(Q, s, k)
      bare == DropOutputs(FoldSet(off, R, InputsOf(R, m)), m)
  IN [bare EXCEPT !.terminals[m].subscribed = {},
        !.rebuild[k] = [stage |-> "node", inputs |-> InputsOf(R, m),
                        outputs |-> {Backup(R, st, Mixed) : st \in R.terminals[m].published}]]

(* With every input back the outputs are asked for.                        *)
ResumeOutputs(R, k) ==
  LET ask(j, Q) == IF k = "audio" THEN GetMixedAudio(Q, j) ELSE GetMixedVideo(Q, j)
  IN FoldSet(ask, [R EXCEPT !.rebuild[k] = Idle], R.rebuild[k].outputs)

Remixed(R, c) ==
  LET on == AddMixed(R, c.s, c.k)
      todo == R.rebuild[c.k].inputs \ {c.s}
  IN IF R.rebuild[c.k].stage # "inputs" THEN on
     ELSE IF todo = {} THEN ResumeOutputs(on, c.k)
     ELSE [on EXCEPT !.rebuild[c.k].inputs = todo]

NotRemixed(R, c) == [R EXCEPT !.crashed = TRUE]

PutOnMixer(R, k) ==
  LET answer(Q, a) == IF a.ok THEN Remixed(Q, a.c) ELSE NotRemixed(Q, a.c)
      remix(s, Q) == LET spread == SpreadStream(Q, s, Mixer(k), [to |-> "remix", s |-> s, k |-> k])
                     IN FoldLeft(answer, spread.room, spread.answers)
      begun == [R EXCEPT !.rebuild[k].stage = "inputs"]
  IN IF R.rebuild[k].inputs = {} THEN ResumeOutputs(R, k)
     ELSE FoldSet(remix, begun, R.rebuild[k].inputs)

(* A transcoder is not given a new node: its outputs are asked for anew,   *)
(* and its own terminal stays behind, without an input.                    *)
RebuildTranscoder(R, p) ==
  LET k == CHOOSE k \in Kinds : \E s \in Sources : <<k, s>> \in R.terminals[p].subscribed
      s == CHOOSE s \in Sources : <<k, s>> \in R.terminals[p].subscribed
      olds == {Backup(R, st, s) : st \in R.terminals[p].published}
      bare == DropOutputs(LeaveSource(R, p), p)
      ask(j, Q) == TrackAnswer(GetTranscoded(Q, k, j), k, j)
  IN IF R.terminals[p].subscribed = {} THEN DropOutputs(R, p) ELSE FoldSet(ask, bare, olds)

-----------------------------------------------------------------------------
(* The two callbacks of any spread.                                        *)

SpreadDone(R, c) ==
  CASE c.to = "mix" /\ c.k = "audio" -> AudioMixed(R, c)
    [] c.to = "mix" /\ c.k = "video" -> VideoMixed(R, c)
    [] c.to = "remix" -> Remixed(R, c)
    [] c.to = "xcode" -> TranscoderFed(R, c)

SpreadNotDone(R, c) ==
  CASE c.to = "mix" /\ c.k = "audio" -> AudioUnmixed(R, c)
    [] c.to = "mix" /\ c.k = "video" -> VideoUnmixed(R, c)
    [] c.to = "remix" -> NotRemixed(R, c)
    [] c.to = "xcode" -> TranscoderNotFed(R, c)

CallBack(Q, a) == IF a.ok THEN SpreadDone(Q, a.c) ELSE SpreadNotDone(Q, a.c)
CalledBack(spread) == FoldLeft(CallBack, spread.room, spread.answers)

(* A stream that ended while it was being spread has no record: reading it *)
(* throws, and neither callback runs.                                      *)
SpreadOk(R, s, p, c) ==
  IF ~Live(R, s) THEN Note(R, "ended_while_spreading")
  ELSE IF p \notin DOMAIN R.streams[s].spread THEN SpreadNotDone(R, c)
  ELSE LET waiting == R.streams[s].spread[p].waiting
           up == [R EXCEPT !.streams[s].spread[p] = [status |-> "connected", waiting |-> <<>>]]
       IN FoldLeft(SpreadDone, SpreadDone(up, c), waiting)

Answered(R, p, m, ok, st) ==
  CASE m.call = "init" /\ ok /\ p \notin Mixers -> IF Has(R, p) THEN FeedTranscoder(R, m.c) ELSE R
    [] m.call = "init" /\ ~ok /\ p \notin Mixers -> JobFailed(R, m.c.j)
    [] m.call = "init" /\ p \in Mixers -> PutOnMixer(R, p[2])
    [] m.call = "publish" /\ ok -> SpreadOk(R, m.st, p, m.c)
    [] m.call = "publish" /\ ~ok -> CalledBack(SpreadFailed(R, m.st, p, m.c))
    [] m.call = "generate" /\ ok -> Generated(R, p, m, st)
    [] m.call = "generate" /\ ~ok -> JobFailed(R, m.j)

-----------------------------------------------------------------------------
Init ==
  /\ room = [terminals |-> [m \in Mixers |-> Terminal], streams |-> Nothing,
             answer |-> [x \in Subs |-> "none"],
             addr |-> [s \in Sources |-> "none"], held |-> [s \in Sources |-> <<>>],
             queue |-> [p \in Procs |-> <<>>], links |-> [t \in SubTerms |-> <<>>],
             spawns |-> {}, rebuild |-> [k \in Kinds |-> Idle], faults |-> {},
             crashed |-> FALSE, ended |-> {}, mishaps |-> {}]
  /\ node = [p \in Procs |-> [inputs |-> {}, outputs |-> {}, made |-> 0, replies |-> <<>>, lost |-> FALSE]]
  /\ used = [mixes |-> 0, failures |-> 0, lost |-> 0]
  /\ bound \in Bounds

Faults == used.failures + used.lost
Fail == Faults < bound.faults /\ used' = [used EXCEPT !.failures = @ + 1]

Running == ~room.crashed

Publish(s) ==
  /\ Running
  /\ room.addr[s] = "none"
  /\ \E tracks \in bound.tracks :
       room' = [NewTerminal(room, Pub(s)) EXCEPT
                  !.streams = (s :> Stream(Pub(s), tracks, Own)) @@ @,
                  !.terminals[Pub(s)].published = {s}, !.addr[s] = "asked"]
  /\ UNCHANGED <<node, used, bound>>

Unpublish(s) ==
  /\ Running
  /\ Live(room, s)
  /\ room' = DeleteTerminal(UnpublishStream(room, s), Pub(s))
  /\ UNCHANGED <<node, used, bound>>

(* The internal address of the node of a source: the spreads that wait for *)
(* it begin once more.                                                     *)
GotAddress(s) ==
  /\ Running
  /\ room.addr[s] = "asked"
  /\ LET again(R, h) == CalledBack(SpreadStream(R, s, h.p, h.c))
         known == [room EXCEPT !.addr[s] = "known", !.held[s] = <<>>]
     IN room' = FoldLeft(again, known, room.held[s])
  /\ UNCHANGED <<node, used, bound>>

NoAddress(s) ==
  /\ Running
  /\ room.addr[s] = "asked"
  /\ Fail
  /\ LET fail(R, h) == CalledBack(SpreadFailed(R, s, h.p, h.c))
         unknown == [room EXCEPT !.addr[s] = "failed", !.held[s] = <<>>]
     IN room' = FoldLeft(fail, unknown, room.held[s])
  /\ UNCHANGED <<node, bound>>

Mix(s) ==
  /\ Running
  /\ Live(room, s)
  /\ used.mixes < bound.mixes
  /\ used' = [used EXCEPT !.mixes = @ + 1]
  /\ room' = MixStream(room, s)
  /\ UNCHANGED <<node, bound>>

Unmix(s) ==
  /\ Running
  /\ Live(room, s)
  /\ \E k \in DOMAIN room.streams[s].subs : Contains(room.streams[s].subs[k], Mixer(k))
  /\ room' = UnmixStream(room, s)
  /\ UNCHANGED <<node, used, bound>>

Subscribe(x) ==
  /\ Running
  /\ room.answer[x] = "none"
  /\ Cardinality({y \in Subs : room.answer[y] # "none"}) < bound.subs
  /\ \E from \in Sources \cup {Mixed}, fmt \in Formats \cup {Own}, kinds \in bound.tracks :
       /\ from = Mixed => fmt # Own
       /\ from # Mixed => Live(room, from) /\ kinds \subseteq DOMAIN room.streams[from].subs
       /\ LET j == [x |-> x, from |-> from, fmt |-> fmt, kinds |-> kinds, got |-> Nothing]
              begun == [NewTerminal(room, Sub(x)) EXCEPT !.answer[x] = "asked"]
          IN room' = IF "audio" \in kinds THEN GetAudioStream(begun, j) ELSE GetVideoStream(begun, j)
  /\ UNCHANGED <<node, used, bound>>

(* The conference ends a subscription once the controller has made it.     *)
Unsubscribe(x) ==
  /\ Running
  /\ room.answer[x] = "ok"
  /\ room' = [(IF Has(room, Sub(x)) /\ room.terminals[Sub(x)].subscribed # {}
               THEN DeleteTerminal(UnsubscribeStream(room, Sub(x)), Sub(x)) ELSE room)
              EXCEPT !.answer[x] = "ended"]
  /\ UNCHANGED <<node, used, bound>>

(* The cluster gives a node for a transcoder, under an identifier of its   *)
(* own, or refuses.                                                        *)
GotWorkerNode(w, i) ==
  /\ Running
  /\ node[Xcoder(i)].made = 0
  /\ LET p == Xcoder(i)
         c == [to |-> "xcode", s |-> w.j.from, p |-> p, k |-> w.k, j |-> w.j]
     IN room' = Send(NewTerminal([room EXCEPT !.spawns = @ \ {w}], p), p, [call |-> "init", c |-> c])
  /\ node' = [node EXCEPT ![Xcoder(i)].made = 1]
  /\ UNCHANGED <<used, bound>>

NoWorkerNode(w) ==
  /\ Running
  /\ Fail
  /\ room' = JobFailed([room EXCEPT !.spawns = @ \ {w}], w.j)
  /\ UNCHANGED <<node, bound>>

-----------------------------------------------------------------------------
(* The processing nodes.  A node that has made n outputs numbers its next  *)
(* one n + 1.                                                              *)

Serve(p, m) ==
  LET n == node[p]
      same == {o \in n.outputs : o.fmt = m.fmt}
  IN CASE m.call = "init" -> [node |-> n, ok |-> TRUE, st |-> Own]
       [] m.call = "publish" ->
            [node |-> [n EXCEPT !.inputs = @ \cup {m.st}],
             ok |-> ~(p = Mixer("audio") /\ m.st \in n.inputs), st |-> Own]
       [] m.call = "unpublish" -> [node |-> [n EXCEPT !.inputs = @ \ {m.st}]]
       [] m.call = "generate" ->
            IF same # {} THEN [node |-> n, ok |-> TRUE, st |-> (CHOOSE o \in same : TRUE).st]
            ELSE LET st == <<p, n.made + 1>>
                 IN [node |-> [n EXCEPT !.outputs = @ \cup {[st |-> st, fmt |-> m.fmt]},
                                        !.made = @ + 1],
                     ok |-> TRUE, st |-> st]
       [] m.call = "degenerate" ->
            [node |-> [n EXCEPT !.outputs = {o \in @ : o.st # m.st}]]
       [] m.call = "deinit" -> [node |-> [n EXCEPT !.inputs = {}, !.outputs = {}]]

Called(m) == m.call \in {"init", "publish", "generate"}

NodeServes(p) ==
  /\ Running
  /\ room.queue[p] # <<>>
  /\ ~node[p].lost
  /\ LET m == Head(room.queue[p])
         done == Serve(p, m)
     IN /\ m.call = "generate" => node[p].made < MaxOutputs
        /\ node' = [node EXCEPT ![p] = IF Called(m)
             THEN [done.node EXCEPT !.replies = Append(@, [m |-> m, ok |-> done.ok, st |-> done.st])]
             ELSE done.node]
  /\ room' = [room EXCEPT !.queue[p] = Tail(@)]
  /\ UNCHANGED <<used, bound>>

(* The node refuses a call, or the call times out, served or not.  A node  *)
(* that was given back is ended by its agent and answers nothing more.     *)
NodeFails(p) ==
  /\ Running
  /\ room.queue[p] # <<>>
  /\ LET m == Head(room.queue[p])
         answered(n) == [n EXCEPT !.replies = Append(@, [m |-> m, ok |-> FALSE, st |-> Own])]
     IN /\ IF Has(room, p) /\ ~node[p].lost THEN Called(m) /\ Fail ELSE UNCHANGED used
        /\ \/ node' = [node EXCEPT ![p] = IF Called(m) THEN answered(@) ELSE @]
           \/ /\ Called(m) /\ ~node[p].lost
              /\ m.call = "generate" => node[p].made < MaxOutputs
              /\ node' = [node EXCEPT ![p] = answered(Serve(p, m).node)]
  /\ room' = [room EXCEPT !.queue[p] = Tail(@)]
  /\ UNCHANGED bound

(* The answer of a node reaches the controller.                            *)
Reply(p) ==
  /\ Running
  /\ node[p].replies # <<>>
  /\ LET a == Head(node[p].replies) IN room' = Answered(room, p, a.m, a.ok, a.st)
  /\ node' = [node EXCEPT ![p].replies = Tail(@)]
  /\ UNCHANGED <<used, bound>>

(* The access node of a subscriber links it to its streams, or fails to.   *)
LinkReply(t) ==
  /\ Running
  /\ room.links[t] # <<>>
  /\ LET l == Head(room.links[t])
         taken == [room EXCEPT !.links[t] = Tail(@)]
     IN \/ /\ room' = IF l.x = Rebuilt THEN RelinkDone(taken, t, l) ELSE LinkupDone(taken, l)
           /\ UNCHANGED used
        \/ /\ Fail
           /\ room' = IF l.x = Rebuilt THEN taken ELSE JobFailed(taken, l)
  /\ UNCHANGED <<node, bound>>

-----------------------------------------------------------------------------
(* A processing node is lost; the cluster reports it later.                *)

NodeLost(p) ==
  /\ Running
  /\ Has(room, p)
  /\ p \in XcoderTerms => room.terminals[p].subscribed # {}
  /\ ~node[p].lost
  /\ Faults < bound.faults
  /\ node' = [node EXCEPT ![p].lost = TRUE, ![p].inputs = {}, ![p].outputs = {}]
  /\ room' = [room EXCEPT !.faults = @ \cup {p}]
  /\ used' = [used EXCEPT !.lost = @ + 1]
  /\ UNCHANGED bound

FaultDetected(p) ==
  /\ Running
  /\ p \in room.faults
  /\ LET told == [room EXCEPT !.faults = @ \ {p}]
     IN room' = IF ~Has(room, p) THEN told
                ELSE IF p \in Mixers THEN TakeOffMixer(told, p[2])
                ELSE RebuildTranscoder(told, p)
  /\ UNCHANGED <<node, used, bound>>

(* A mixer gets a new node; what was sent to the old one is lost.          *)
GotMixerNode(k) ==
  /\ Running
  /\ room.rebuild[k].stage = "node"
  /\ LET p == Mixer(k)
         called == SelectSeq(room.queue[p], Called)
     IN /\ node' = [node EXCEPT ![p].lost = FALSE,
             ![p].replies = @ \o [i \in DOMAIN called |-> [m |-> called[i], ok |-> FALSE, st |-> Own]]]
        /\ room' = [room EXCEPT !.queue[p] = <<[call |-> "init"]>>, !.rebuild[k].stage = "init"]
  /\ UNCHANGED <<used, bound>>

NoMixerNode(k) ==
  /\ Running
  /\ room.rebuild[k].stage = "node"
  /\ Fail
  /\ room' = [room EXCEPT !.crashed = TRUE]
  /\ UNCHANGED <<node, bound>>

Next ==
  \/ \E s \in Sources : Publish(s) \/ Unpublish(s) \/ GotAddress(s) \/ NoAddress(s) \/ Mix(s) \/ Unmix(s)
  \/ \E x \in Subs : Subscribe(x) \/ Unsubscribe(x)
  \/ \E t \in SubTerms : LinkReply(t)
  \/ \E w \in room.spawns : NoWorkerNode(w) \/ \E i \in Xcoders : GotWorkerNode(w, i)
  \/ \E p \in Procs : NodeServes(p) \/ NodeFails(p) \/ Reply(p) \/ NodeLost(p) \/ FaultDetected(p)
  \/ \E k \in Kinds : GotMixerNode(k) \/ NoMixerNode(k)

Spec == Init /\ [][Next]_vars

-----------------------------------------------------------------------------
Outputs == {st \in DOMAIN room.streams : room.streams[st].owner \in Procs}

(* No call is under way.                                                   *)
AtRest ==
  /\ \A p \in Procs : room.queue[p] = <<>> /\ node[p].replies = <<>>
  /\ \A t \in SubTerms : room.links[t] = <<>>
  /\ \A s \in Sources : room.held[s] = <<>>
  /\ room.spawns = {} /\ room.faults = {} /\ ~room.crashed
  /\ \A k \in Kinds : room.rebuild[k] = Idle

Ids == Sources \cup UNION {{<<p, n>> : n \in 1 .. MaxOutputs} : p \in Procs}
Terms == {Pub(s) : s \in Sources} \cup SubTerms \cup Procs

(* The types of the tables, with what the code takes for granted about     *)
(* them: what a terminal publishes is a stream, an output belongs to a     *)
(* processor that is there and publishes it, and only a subscription that  *)
(* is asked for or made has a terminal.                                    *)
TypeOK ==
  /\ DOMAIN room.terminals \subseteq Terms
  /\ DOMAIN room.streams \subseteq Ids
  /\ \A t \in DOMAIN room.terminals :
       /\ room.terminals[t].published \subseteq DOMAIN room.streams
       /\ room.terminals[t].subscribed \subseteq Kinds \X Ids
  /\ \A st \in Outputs : /\ Has(room, room.streams[st].owner)
                        /\ st \in room.terminals[room.streams[st].owner].published
  /\ \A x \in Subs : Has(room, Sub(x)) => room.answer[x] \in {"asked", "ok"}
  /\ \A p \in Procs : node[p].made \in 0 .. MaxOutputs /\ node[p].inputs \subseteq Sources

(* As long as no processing node was lost, a subscription takes streams    *)
(* that are there, and each of them lists it: the end of a stream ends or  *)
(* cuts everything that takes it, however many processors lie between.     *)
SubscriptionsBacked ==
  used.lost = 0 =>
    \A x \in Subs : Has(room, Sub(x)) =>
      \A e \in room.terminals[Sub(x)].subscribed :
        Live(room, e[2]) /\ Contains(room.streams[e[2]].subs[e[1]], Sub(x))

(* A stream lists a terminal once, and only a terminal that is there and   *)
(* takes it: lists with a stale entry never become empty, and what they    *)
(* stand for is never given back.                                          *)
SubscribersReal ==
  room.mishaps = {} =>
    \A st \in DOMAIN room.streams : \A k \in DOMAIN room.streams[st].subs :
      LET list == room.streams[st].subs[k]
      IN /\ IsInjective(list)
         /\ \A t \in ToSet(list) : Has(room, t) /\ <<k, st>> \in room.terminals[t].subscribed


(* What the controller believes to be mixed is a stream that is there and  *)
(* an input at the node of the mixer.                                      *)
MixedIsInput ==
  used.lost = 0 =>
    \A k \in Kinds : \A e \in room.terminals[Mixer(k)].subscribed :
      Live(room, e[2]) /\ e[2] \in node[Mixer(k)].inputs

(* An output the controller lists is made by its processor.                *)
OutputsMade ==
  room.mishaps = {} /\ used.lost = 0 =>
    \A st \in Outputs : \E o \in node[room.streams[st].owner].outputs : o.st = st

(* With no call under way every output is taken by someone: the last one   *)
(* who leaves ends it.                                                     *)
OutputsTaken ==
  room.mishaps = {} /\ used.lost = 0 /\ AtRest =>
    \A st \in Outputs : SubscribersOf(room, st) # {}

(* An output that is listed is made by its node, and taken by someone.     *)
OutputsAgree == OutputsMade /\ OutputsTaken

(* With no call under way every subscription that was asked for has been   *)
(* answered, and what is spread is spread for someone.                     *)
NothingPending ==
  room.mishaps = {} /\ AtRest =>
    /\ \A x \in Subs : room.answer[x] # "asked"
    /\ \A st \in DOMAIN room.streams : \A p \in DOMAIN room.streams[st].spread :
         room.streams[st].spread[p].status = "connected" /\ IsSpreadInUse(room, st, p)

(* With no call under way, and none that failed, the inputs and outputs of *)
(* each node are those in the tables, and no transcoder is left without a  *)
(* stream to make.                                                         *)
NothingLeaks ==
  room.mishaps = {} /\ Faults = 0 /\ AtRest =>
    \A p \in Procs : Has(room, p) =>
      /\ InputsOf(room, p) = node[p].inputs
      /\ room.terminals[p].published = {o.st : o \in node[p].outputs}
      /\ p \in XcoderTerms => room.terminals[p].published # {} /\ node[p].inputs # {}

(* Once its calls are over the room owes nobody an answer and holds nothing *)
(* nobody takes.                                                           *)
RestIsClean == NothingPending /\ NothingLeaks
=============================================================================
