------------------------------- MODULE MCRoom -------------------------------
(***************************************************************************)
(* Small instances, for TLC, of the room controller and of the controls of *)
(* the conference that calls it.  A behaviour is of one of them, the other *)
(* stays as it starts: what the room controller answers a control is in    *)
(* ConferenceControl.                                                      *)
(***************************************************************************)
EXTENDS RoomController

CONSTANTS p1, p2, y1, v1, v2   \* of the controls: streams, a subscription, views

MCSymmetry == Permutations(Subs) \cup Permutations(Xcoders)

(* Two subscribers of a video stream while a call fails or a node is lost; *)
(* one subscriber of an audio stream, twice; and one subscriber of a       *)
(* stream with both tracks where nothing goes wrong.                       *)
MCBounds ==
  {[tracks |-> {{"video"}}, subs |-> 2, mixes |-> 1, faults |-> 1],
   [tracks |-> {{"audio"}}, subs |-> 1, mixes |-> 1, faults |-> 2],
   [tracks |-> {{"audio", "video"}, {"video"}}, subs |-> 1, mixes |-> 1, faults |-> 0]}

-----------------------------------------------------------------------------
VARIABLES process,      \* "room" or "control"
          conf, entries, muted, cUsed, cBound

control == <<conf, entries, muted, cUsed, cBound>>

(* Controls: a stream in two views; muted and mixed; in a layout; two      *)
(* streams one of which a subscription takes; and calls that fail.         *)
Untouched ==
  [streams |-> {p1}, subs |-> {}, views |-> {v1}, tracks |-> {"audio", "video"},
   mixes |-> 0, mutes |-> 0, updates |-> 0, layouts |-> 0, ends |-> 0, faults |-> 0]
ControlBounds ==
  {[Untouched EXCEPT !.mixes = 3, !.views = {v1, v2}, !.ends = 1],
   [Untouched EXCEPT !.mixes = 2, !.mutes = 2],
   [Untouched EXCEPT !.mixes = 2, !.tracks = {"video"}, !.layouts = 2, !.ends = 1],
   [Untouched EXCEPT !.updates = 3, !.streams = {p1, p2}, !.subs = {y1}, !.views = {},
                     !.tracks = {"video"}, !.mutes = 1, !.ends = 2, !.faults = 1],
   [Untouched EXCEPT !.mixes = 2, !.faults = 1, !.mutes = 1]}

C == INSTANCE ConferenceControl WITH
  Streams <- {p1, p2}, Subs <- {y1}, Views <- {v1, v2}, Sizes <- {1, 2}, Bounds <- ControlBounds,
  room <- entries, used <- cUsed, bound <- cBound

ASSUME C!BoundsAssumption

RoomInit ==
  /\ process \in {"room", "control"}
  /\ Init /\ C!Init
  /\ process # "room" => bound = CHOOSE b \in MCBounds : TRUE
  /\ process # "control" => cBound = CHOOSE b \in ControlBounds : TRUE

RoomNext ==
  /\ UNCHANGED process
  /\ \/ process = "room" /\ Next /\ UNCHANGED control
     \/ process = "control" /\ C!Next /\ UNCHANGED vars

RoomSpec == RoomInit /\ [][RoomNext]_<<process, vars, control>>

-----------------------------------------------------------------------------
(* The controls: what the conference has of a stream - its views, what is  *)
(* muted, its regions - is what the room controller, the nodes and the     *)
(* mixers have, once everything is answered; and a subscription that was   *)
(* updated takes what its record says, or is gone with its source (mix,    *)
(* setStreamMute, setLayout, updateSubscription).                          *)
ControlsAgree ==
  process = "control" =>
    C!TypeOK /\ C!ViewsAgree /\ C!MutesAgree /\ C!LayoutsAgree /\ C!UpdatesAgree
=============================================================================
