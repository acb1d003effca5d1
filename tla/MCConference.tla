---------------------------- MODULE MCConference ----------------------------
(***************************************************************************)
(* Small instances, for TLC, of what a conference node does for a room:    *)
(* how streams and subscriptions start and end (Conference), how the room  *)
(* itself comes and goes (ConferenceRoom), and how it is mirrored in       *)
(* another cluster (Cascading).  A behaviour is of one of them, the others *)
(* stay as they start.  The controls of established streams are checked    *)
(* with the room controller.                                               *)
(***************************************************************************)
EXTENDS Conference

CONSTANTS u1, u2, s1, x1, x2,      \* participants, streams, subscriptions
          sip1, i1, t1, r1, r2, NoRoom,  \* of the room: a call, a stream of
                                   \* the REST interface, a token, the rooms
          Client, Server, near, far, sn, sf  \* of the cascading: the clusters,
                                   \* their participants and streams

(* Participants' streams and subscriptions; a participant's stream that is *)
(* recorded; a streaming-in that a participant subscribes to, or that is   *)
(* recorded.                                                               *)
MCBounds ==
  {[users |-> 2, sessions |-> {}, streams |-> 1, subs |-> 1, faults |-> 1],
   [users |-> 1, sessions |-> {x1, x2}, streams |-> 1, subs |-> 1, faults |-> 1],
   [users |-> 1, sessions |-> {x1}, streams |-> 1, subs |-> 2, faults |-> 0],
   [users |-> 1, sessions |-> {s1}, streams |-> 1, subs |-> 1, faults |-> 1],
   [users |-> 0, sessions |-> {s1, x1, x2}, streams |-> 1, subs |-> 2, faults |-> 0]}

MCSymmetry == Permutations({u1, u2})

-----------------------------------------------------------------------------
VARIABLES
  process,      \* "conference", "room" or "cascading"
  rConf, callers, wanted, answers, rUsed, rBound,
  kConf, late, out, into, bridge, closing, dead, kMishaps, kUsed, kBound

life == <<rConf, callers, wanted, answers, rUsed, rBound>>
cascading == <<kConf, late, out, into, bridge, closing, dead, kMishaps, kUsed, kBound>>

(* The room: two participants, a SIP call, a stream of the REST interface  *)
(* and a token, with place for one and for two.                            *)
Empty == [joins |-> 0, rest |-> 0, ends |-> 0, limit |-> 0, asks |-> 0, faults |-> 0]
LifeBounds ==
  {[Empty EXCEPT !.joins = 3, !.rest = 1, !.ends = 2, !.limit = 2, !.faults = 1],
   [Empty EXCEPT !.joins = 3, !.rest = 2, !.ends = 1, !.limit = 1, !.faults = 1],
   [Empty EXCEPT !.joins = 2, !.ends = 1, !.asks = 3]}

R == INSTANCE ConferenceRoom WITH
  Users <- {u1, u2}, SipUsers <- {sip1}, Items <- {i1}, Tokens <- {t1}, Rooms <- {r1, r2},
  Bounds <- LifeBounds, conf <- rConf, used <- rUsed, bound <- rBound

(* The cascading: a participant and a stream in each cluster.              *)
Apart == [changes |-> 0, fetches |-> 0, connects |-> 0, faults |-> 0]
CascadingBounds ==
  {[Apart EXCEPT !.changes = 4, !.connects = 1],
   [Apart EXCEPT !.changes = 3, !.connects = 2, !.faults = 1],
   [Apart EXCEPT !.changes = 4, !.connects = 1, !.fetches = 1],
   [Apart EXCEPT !.changes = 3, !.connects = 1, !.fetches = 1, !.faults = 1]}

K == INSTANCE Cascading WITH
  Users <- (Client :> {near}) @@ (Server :> {far}),
  Streams <- (Client :> {sn}) @@ (Server :> {sf}), Bounds <- CascadingBounds,
  conf <- kConf, mishaps <- kMishaps, used <- kUsed, bound <- kBound

ASSUME R!BoundsAssumption /\ K!BoundsAssumption

NodeInit ==
  /\ process \in {"conference", "room", "cascading"}
  /\ Init /\ R!Init /\ K!Init
  /\ process # "conference" => bound = CHOOSE b \in MCBounds : TRUE
  /\ process # "room" => rBound = CHOOSE b \in LifeBounds : TRUE
  /\ process # "cascading" => kBound = CHOOSE b \in CascadingBounds : TRUE

NodeNext ==
  /\ UNCHANGED process
  /\ \/ process = "conference" /\ Next /\ UNCHANGED <<life, cascading>>
     \/ process = "room" /\ R!Next /\ UNCHANGED <<vars, cascading>>
     \/ process = "cascading" /\ K!Next /\ UNCHANGED <<vars, life>>

NodeSpec == NodeInit /\ [][NodeNext]_<<process, vars, life, cascading>>

-----------------------------------------------------------------------------
(* The room: the process serves one room, who was told it has joined is a  *)
(* participant until it leaves, and the room is destroyed when it has      *)
(* become idle (initRoom, join, destroyRoom, selfClean).                   *)
RoomsAgree ==
  process = "room" => R!TypeOK /\ R!OneRoom /\ R!MembersAgree /\ R!IdleIsCleaned

(* The cascading: at rest each conference has what the other has, or       *)
(* nothing of it (handleCascadingEvents, eventCascading.js).               *)
MirrorsAgree ==
  process = "cascading" => K!TypeOK /\ K!MirrorsAgree /\ K!CascadedAgain
=============================================================================
