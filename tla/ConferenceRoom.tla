---------------------------- MODULE ConferenceRoom ----------------------------
(***************************************************************************)
(* The life of a room on its conference node (agent/conference/            *)
(* conference.js): the first request that names a room initializes it,     *)
(* others that come meanwhile wait; participants join, leave, are dropped  *)
(* or lost with their portal; the REST interface starts and ends streams   *)
(* and subscriptions of its own, calls SIP peers, and destroys the room;   *)
(* when a request leaves the room idle a timer is set that destroys it and *)
(* ends the process.                                                       *)
(*                                                                         *)
(* Who owns streams, and how they are established, is in Conference: here  *)
(* a stream or subscription of the REST interface is there or not.         *)
(***************************************************************************)
EXTENDS Integers, FiniteSets, FiniteSetsExt, Functions, TLC

CONSTANTS Users, SipUsers,  \* participants of a portal, SIP calls
          Items,            \* streams and subscriptions of the REST interface
          Tokens,           \* tokens of QUIC clients
          Rooms, NoRoom,
          Bounds            \* the bounds a behaviour may choose: how many join,
                            \* how many requests the REST interface makes, how
                            \* many leave or are lost, how many tokens are asked
                            \* about, the participants a room takes and the
                            \* failures

BoundsAssumption ==
  /\ NoRoom \notin Rooms
  /\ \A b \in Bounds : {b.joins, b.rest, b.ends, b.limit, b.asks, b.faults} \subseteq Nat

VARIABLES conf,     \* the node: room, tables, requests that wait, calls made
          callers,  \* what participants and SIP calls were told
          wanted,   \* the room they, and the items, were asked for
          answers,  \* how often each question about a token was answered
          used,     \* joins, requests, ends, questions and failures so far
          bound     \* the bounds of this behaviour

vars == <<conf, callers, wanted, answers, used, bound>>

Everyone == Users \cup SipUsers
Without(f, e) == Restrict(f, DOMAIN f \ {e})
Call(C, c) == [C EXCEPT !.calls = @ \cup {c}]
Use(kind) == used[kind] < bound[kind] /\ used' = [used EXCEPT ![kind] = @ + 1]

-----------------------------------------------------------------------------
Init ==
  /\ bound \in Bounds
  /\ conf = [alive |-> TRUE, initializing |-> FALSE, room |-> NoRoom, up |-> FALSE,
             users |-> {}, items |-> {}, waiting |-> {}, timer |-> FALSE,
             calls |-> {}, tokens |-> <<>>, alarms |-> {}, forgotten |-> "", ghosts |-> {}]
  /\ callers = [u \in Everyone |-> "out"]
  /\ wanted = [i \in Everyone \cup Items |-> NoRoom]
  /\ answers = <<>>
  /\ used = [joins |-> 0, rest |-> 0, ends |-> 0, asks |-> 0, faults |-> 0]

RoomIsIdle(C) == C.users = {} /\ C.items = {}

(* Faulty: the timer that runs is left alone, and so is one to be set.     *)
SelfClean_not_set(C) == C

SelfClean(C) == [C EXCEPT !.timer = TRUE, !.forgotten = ""]

(* Nobody looks whether the room is idle now.                              *)
Unwatched(C, why) ==
  IF C.up /\ RoomIsIdle(C) /\ ~C.timer THEN [C EXCEPT !.forgotten = why] ELSE C

-----------------------------------------------------------------------------
(* What a request does with the room once it is there: a participant is    *)
(* refused when the room is full or its role unknown, an item when what it *)
(* asks for is not offered.                                                *)
Full(C) == bound.limit > 0 /\ Cardinality(C.users) >= bound.limit

Enter(C, u) ==
  /\ conf' = [C EXCEPT !.users = @ \cup {u}, !.ghosts = IF callers[u] = "lost" THEN @ \cup {u} ELSE @]
  /\ callers' = [callers EXCEPT ![u] = IF @ = "lost" THEN @ ELSE "in"]

Refuse(C, u) ==
  /\ conf' = Unwatched(C, "refused")
  /\ callers' = [callers EXCEPT ![u] = IF @ = "lost" THEN @ ELSE "refused"]

Proceed(C, w) ==
  IF w \in Everyone
  THEN \/ ~Full(C) /\ Enter(C, w) /\ UNCHANGED used
       \/ Full(C) /\ Refuse(C, w) /\ UNCHANGED used
       \/ Use("faults") /\ Refuse(C, w)
  ELSE /\ UNCHANGED callers
       /\ \/ conf' = [C EXCEPT !.items = @ \cup {w}] /\ UNCHANGED used
          \/ Use("faults") /\ conf' = SelfClean(C)

(* A request that has the wrong room, or that cannot have it.              *)
Reject(C, w) ==
  IF w \in Everyone THEN Refuse(C, w) ELSE conf' = SelfClean(C) /\ UNCHANGED callers

Asked(C, w, room) ==
  IF C.initializing
  THEN conf' = [C EXCEPT !.waiting = @ \cup {w}] /\ UNCHANGED <<callers, used>>
  ELSE IF C.room = NoRoom
  THEN conf' = Call([C EXCEPT !.initializing = TRUE], [call |-> "init", who |-> w, room |-> room])
       /\ UNCHANGED <<callers, used>>
  ELSE IF C.room = room THEN Proceed(C, w) ELSE Reject(C, w) /\ UNCHANGED used

(* A request arrives, is counted and then served.                          *)
Arrives(w, room) ==
  /\ conf.alive /\ wanted[w] = NoRoom
  /\ wanted' = [wanted EXCEPT ![w] = room]
  /\ UNCHANGED <<answers, bound>>

Requests == Cardinality({i \in DOMAIN wanted : wanted[i] # NoRoom})

Join(u) ==
  /\ callers[u] \in {"out", "ringing"}
  /\ Requests < bound.joins
  /\ \E room \in Rooms : Arrives(u, room) /\ Asked(conf, u, room)

(* addStreamingIn and addServerSideSubscription.                           *)
AddItem(i) ==
  /\ Requests < bound.joins
  /\ \E room \in Rooms : Arrives(i, room) /\ Asked(conf, i, room)

(* The configuration is read and the room controller created; a failure of *)
(* either ends the process.                                                *)
InitDone(c) ==
  /\ c.call = "init"
  /\ LET C == [conf EXCEPT !.calls = @ \ {c}, !.initializing = FALSE]
     IN \/ Proceed([C EXCEPT !.room = c.room, !.up = TRUE], c.who)
        \/ /\ Use("faults")
           /\ Reject(Call(C, [call |-> "exit"]), c.who)
  /\ UNCHANGED <<wanted, answers, bound>>

(* Faulty: one that waited takes the room it finds.                        *)
InitWaited_any_room(C, w) == C.room # NoRoom

InitWaited(C, w) == C.room = wanted[w]

(* The request looks whether the initialization it waits for is over.      *)
Poll(w) ==
  /\ w \in conf.waiting /\ ~conf.initializing
  /\ LET C == [conf EXCEPT !.waiting = @ \ {w}]
     IN IF InitWaited(C, w) THEN Proceed(C, w) ELSE Reject(C, w) /\ UNCHANGED used
  /\ UNCHANGED <<wanted, answers, bound>>

-----------------------------------------------------------------------------
RemoveParticipant(C, u) == [C EXCEPT !.users = @ \ {u}]

Leave(u) ==
  /\ callers[u] = "in" /\ conf.alive
  /\ Use("ends")
  /\ IF conf.up /\ u \in conf.users
     THEN conf' = Call(conf, [call |-> "leave", who |-> u]) /\ UNCHANGED callers
     ELSE UNCHANGED conf /\ callers' = [callers EXCEPT ![u] = "left"]
  /\ UNCHANGED <<wanted, answers, bound>>

(* Its sessions are terminated.  Controllers that are gone by now make the *)
(* request fail.                                                           *)
LeaveDone(c) ==
  /\ c.call = "leave"
  /\ LET C == [conf EXCEPT !.calls = @ \ {c}]
     IN conf' = IF C.up THEN SelfClean(RemoveParticipant(C, c.who)) ELSE C
  /\ callers' = [callers EXCEPT ![c.who] = "left"]
  /\ UNCHANGED <<wanted, answers, used, bound>>

(* A participant is dropped: its portal is told, and hangs up.             *)
Drop(C, u) == Call(C, [call |-> "drop", who |-> u])

DropParticipant(u) ==
  /\ conf.alive /\ u \in conf.users
  /\ Use("ends")
  /\ conf' = Drop(conf, u)
  /\ UNCHANGED <<callers, wanted, answers, bound>>

Dropped(c) ==
  /\ c.call = "drop"
  /\ conf' = Unwatched(RemoveParticipant([conf EXCEPT !.calls = @ \ {c}], c.who), "dropped")
  /\ callers' = [callers EXCEPT ![c.who] = IF @ = "in" THEN "dropped" ELSE @]
  /\ UNCHANGED <<wanted, answers, used, bound>>

(* The portal is lost with its participants, or the SIP node with its.     *)
(* Those whose request waits are not found, and join all the same.         *)
AccessLost(group) ==
  /\ conf.alive
  /\ Use("faults")
  /\ callers' = [u \in Everyone |-> IF u \in group THEN "lost" ELSE callers[u]]
  /\ LET drop(u, C) == Drop(C, u)
     IN conf' = FoldSet(drop, conf, group \cap conf.users)
  /\ UNCHANGED <<wanted, answers, bound>>

(* deleteStream and deleteSubscription, or the end of an item by itself.   *)
DeleteItem(i) ==
  /\ conf.alive /\ conf.up /\ i \in conf.items
  /\ \/ Use("rest") /\ conf' = Call(conf, [call |-> "delete", who |-> i])
     \/ Use("faults") /\ conf' = Unwatched([conf EXCEPT !.items = @ \ {i}], "ended")
  /\ UNCHANGED <<callers, wanted, answers, bound>>

ItemDeleted(c) ==
  /\ c.call = "delete"
  /\ conf' = SelfClean([conf EXCEPT !.calls = @ \ {c}, !.items = @ \ {c.who}])
  /\ UNCHANGED <<callers, wanted, answers, used, bound>>

-----------------------------------------------------------------------------
(* A SIP peer is called: its node gives the id of the call, which joins    *)
(* when the peer answers.  The first look for it decides.                  *)
MakeSipCall(u) ==
  /\ conf.alive /\ callers[u] = "out"
  /\ Use("rest")
  /\ callers' = [callers EXCEPT ![u] = "ringing"]
  /\ conf' = Call(conf, [call |-> "poll", who |-> u])
  /\ UNCHANGED <<wanted, answers, bound>>

SipPolled(c) ==
  /\ c.call = "poll"
  /\ conf' = [conf EXCEPT !.calls = @ \ {c}]
  /\ UNCHANGED <<callers, wanted, answers, used, bound>>

EndSipCall(u) ==
  /\ conf.alive /\ u \in conf.users
  /\ Use("rest")
  /\ conf' = Unwatched(RemoveParticipant(conf, u), "sip_ended")
  /\ callers' = [callers EXCEPT ![u] = "dropped"]
  /\ UNCHANGED <<wanted, answers, bound>>

-----------------------------------------------------------------------------
(* The sessions of everyone are terminated, then all is forgotten and the  *)
(* process asked to end.                                                   *)
DestroyRoom(C) == Call(C, [call |-> "destroy"])

Destroy ==
  /\ conf.alive
  /\ Use("rest")
  /\ conf' = DestroyRoom(conf)
  /\ UNCHANGED <<callers, wanted, answers, bound>>

TimerFires ==
  /\ conf.alive /\ conf.timer
  /\ LET C == [conf EXCEPT !.timer = FALSE]
     IN conf' = IF RoomIsIdle(C) THEN DestroyRoom(C) ELSE C
  /\ UNCHANGED <<callers, wanted, answers, used, bound>>

DoClean(c) ==
  /\ c.call = "destroy"
  /\ conf' = Call([conf EXCEPT !.calls = @ \ {c}, !.users = {}, !.items = {}, !.timer = FALSE,
                               !.room = NoRoom, !.up = FALSE, !.forgotten = ""], [call |-> "exit"])
  /\ UNCHANGED <<callers, wanted, answers, used, bound>>

(* The process ends: the portals and SIP nodes are told of it, and what    *)
(* they asked runs into its timeout.                                       *)
Exit(c) ==
  /\ c.call = "exit"
  /\ conf' = [conf EXCEPT !.alive = FALSE, !.calls = {}, !.waiting = {}, !.tokens = <<>>, !.alarms = {},
                       !.users = {}, !.items = {}, !.room = NoRoom, !.up = FALSE, !.timer = FALSE]
  /\ callers' = [u \in Everyone |-> CASE callers[u] = "in" -> "dropped"
                                      [] callers[u] \in {"out", "ringing"} /\ wanted[u] # NoRoom -> "refused"
                                      [] OTHER -> callers[u]]
  /\ UNCHANGED <<wanted, answers, used, bound>>

-----------------------------------------------------------------------------
(* A QUIC node asks whether a token is valid: the portal of the            *)
(* participant is notified, which answers, or the time runs out.           *)
Answer(f, q) == [f EXCEPT ![q] = @ + 1]

ValidateWebTransportToken(t) ==
  /\ conf.alive /\ conf.users # {}
  /\ Use("asks")
  /\ LET q == used.asks
     IN /\ conf' = [conf EXCEPT !.tokens = (t :> q) @@ @, !.alarms = @ \cup {<<t, q>>}]
        /\ answers' = (q :> 0) @@ answers
  /\ UNCHANGED <<callers, wanted, bound>>

(* Faulty: a token that was answered stays, for the alarm to answer again. *)
ProcessTokenResult_kept(t) ==
  /\ t \in DOMAIN conf.tokens
  /\ answers' = Answer(answers, conf.tokens[t])
  /\ conf' = [conf EXCEPT !.alarms = {<<t, conf.tokens[t]>>}]
  /\ UNCHANGED <<callers, wanted, used, bound>>

ProcessTokenResult(t) ==
  /\ t \in DOMAIN conf.tokens
  /\ answers' = Answer(answers, conf.tokens[t])
  /\ conf' = [conf EXCEPT !.tokens = Without(@, t)]
  /\ UNCHANGED <<callers, wanted, used, bound>>

TokenTimeout(a) ==
  /\ a \in conf.alarms
  /\ LET C == [conf EXCEPT !.alarms = @ \ {a}]
     IN IF a[1] \in DOMAIN C.tokens
        THEN answers' = Answer(answers, C.tokens[a[1]]) /\ conf' = [C EXCEPT !.tokens = Without(@, a[1])]
        ELSE conf' = C /\ UNCHANGED answers
  /\ UNCHANGED <<callers, wanted, used, bound>>

-----------------------------------------------------------------------------
Next ==
  \/ \E u \in Everyone : Join(u) \/ Leave(u) \/ DropParticipant(u)
  \/ \E i \in Items : AddItem(i) \/ DeleteItem(i)
  \/ \E w \in conf.waiting : Poll(w)
  \/ \E u \in SipUsers : MakeSipCall(u) \/ EndSipCall(u)
  \/ \E group \in {Users, SipUsers} : AccessLost(group)
  \/ Destroy \/ TimerFires
  \/ \E c \in conf.calls : \/ InitDone(c) \/ LeaveDone(c) \/ Dropped(c) \/ ItemDeleted(c)
                           \/ SipPolled(c) \/ DoClean(c) \/ Exit(c)
  \/ \E t \in Tokens : ValidateWebTransportToken(t) \/ ProcessTokenResult(t)
  \/ \E a \in conf.alarms : TokenTimeout(a)

Spec == Init /\ [][Next]_vars

-----------------------------------------------------------------------------
AtRest == conf.calls = {} /\ conf.waiting = {}

TypeOK ==
  /\ conf.up <=> conf.room # NoRoom
  /\ conf.ghosts \subseteq Everyone
  /\ conf.users \subseteq Everyone /\ conf.items \subseteq Items
  /\ \A q \in DOMAIN answers : answers[q] \in 0 .. 1

(* Whoever is in the room asked for this one, and no more than it takes,   *)
(* however many asked while it was being initialized (initRoom, join).     *)
OneRoom ==
  /\ \A i \in conf.users \cup conf.items : wanted[i] = conf.room
  /\ bound.limit > 0 => Cardinality(conf.users) <= bound.limit

(* When nothing is under way, those who were told that they joined, and    *)
(* that neither left nor were dropped or lost, are the participants; one   *)
(* who joins a room that is being destroyed hears of its end               *)
(* (destroyRoom).  Nobody removes those whose portal was lost before they  *)
(* were let in (onFaultDetected).                                          *)
MembersAgree ==
  AtRest => conf.users \ conf.ghosts = {u \in Everyone : callers[u] = "in"}

(* A room that is idle has its timer running, unless the last to go did    *)
(* not leave: it was refused, dropped, hung up or ended by itself, which   *)
(* nobody looks after (selfClean).                                         *)
IdleIsCleaned ==
  AtRest /\ conf.alive /\ conf.up /\ RoomIsIdle(conf) => conf.timer \/ conf.forgotten # ""
=============================================================================
