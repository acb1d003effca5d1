-------------------------------- MODULE Portal --------------------------------
(***************************************************************************)
(* One portal (portal/socketIOServer.js, portal.js, client.js and          *)
(* index.js) between the sockets of its clients and the conference.        *)
(*                                                                         *)
(* A client logs in on a socket: the portal asks the conference to let the *)
(* participant join, and when it has, keeps a client object, a participant *)
(* and a task of the cluster for it.  When the socket is lost the portal   *)
(* waits for the client to come back on another one with its ticket; the   *)
(* new connection takes over the messages of the old one.  A participant   *)
(* has the identifier of the socket it logged in on.                       *)
(*                                                                         *)
(* The portal is the record `portal', a function is an operator from a     *)
(* portal to the portal it leaves, and what the promises of a handler do   *)
(* without waiting for an answer is one step with it.                      *)
(***************************************************************************)
EXTENDS Integers, Sequences, FiniteSets, SequencesExt, FiniteSetsExt, Functions, TLC

CONSTANTS Sockets, None,
          Bounds     \* the bounds a behaviour may choose: how many logins there
                     \* are, messages for a participant, network breaks, long
                     \* pauses, drops, and failures; versions of the protocol

ASSUME BoundsAssumption ==
  \A b \in Bounds : /\ {b.logins, b.messages, b.breaks, b.pauses, b.drops, b.faults} \subseteq Nat
                    /\ b.versions \subseteq {"1.1", "1.2"}

ASSUME NoneAssumption == None \notin Sockets

VARIABLES portal,    \* connections, clients, participants and tasks
          calls,     \* calls between the portal and the conference
          joined,    \* participants the conference has
          clients,   \* what the clients have: tickets and messages
          past,      \* how much of its bounds the behaviour has used, and its mishaps
          bound      \* the bounds of this behaviour

vars == <<portal, calls, joined, clients, past, bound>>

Nothing == <<>>
Without(f, e) == Restrict(f, DOMAIN f \ {e})
With(f, e, v) == [x \in DOMAIN f \cup {e} |-> IF x = e THEN v ELSE f[x]]
Spend(what) == past[what] < bound[what] /\ past' = [past EXCEPT ![what] = @ + 1]
SpendNoting(what, mishaps) ==
  /\ past[what] < bound[what]
  /\ past' = [past EXCEPT ![what] = @ + 1, !.mishaps = @ \cup mishaps]
Noting(mishaps) == past' = [past EXCEPT !.mishaps = @ \cup mishaps]

-----------------------------------------------------------------------------
(* The client object and the portal.                                       *)

(* portal.leave: the conference is told, whatever it answers.              *)
PortalLeave(P, p) ==
  IF p \in P.participants
  THEN [P EXCEPT !.participants = @ \ {p}, !.leaving = @ \cup {p}] ELSE P

OnClientJoined(P, p, c, token) ==
  [P EXCEPT !.dock = With(@, p, [conn |-> c, token |-> token]), !.tasks = @ \cup {token}]

OnClientLeft(P, p) ==
  IF p \in DOMAIN P.dock
  THEN [P EXCEPT !.tasks = @ \ {P.dock[p].token}, !.dock = Without(@, p)] ELSE P

(* Faulty: whichever connection the client has now.                        *)
ForceClientLeave_of_any(P, c) ==
  LET p == P.conn[c].client
  IN IF p \in DOMAIN P.dock
     THEN [OnClientLeft(PortalLeave(P, p), p) EXCEPT
             !.conn[c] = [@ EXCEPT !.state = "initialized", !.client = None]]
     ELSE P

(* Faulty: the task is kept.                                               *)
ForceClientLeave_keeps_task(P, c) ==
  LET p == P.conn[c].client
  IN IF p \in DOMAIN P.dock /\ P.dock[p].conn = c
     THEN [PortalLeave(P, p) EXCEPT !.dock = Without(@, p),
                                    !.conn[c].state = "initialized", !.conn[c].client = None]
     ELSE P

(* Faulty: the conference is not told.                                     *)
ForceClientLeave_silently(P, c) ==
  LET p == P.conn[c].client
  IN IF p \in DOMAIN P.dock /\ P.dock[p].conn = c
     THEN [OnClientLeft(P, p) EXCEPT
             !.conn[c] = [@ EXCEPT !.state = "initialized", !.client = None]]
     ELSE P

(* The client of a connection leaves, if the connection is still its own.  *)
ForceClientLeave(P, c) ==
  LET p == P.conn[c].client
  IN IF p \in DOMAIN P.dock /\ P.dock[p].conn = c
     THEN [OnClientLeft(PortalLeave(P, p), p) EXCEPT
             !.conn[c] = [@ EXCEPT !.state = "initialized", !.client = None]]
     ELSE P

-----------------------------------------------------------------------------
(* Connections.                                                            *)

(* Faulty: nobody waits for the client to come back.                       *)
OnDisconnect_no_timer(P, c) ==
  IF P.conn[c].state = "connected" /\ P.conn[c].enabled
  THEN [P EXCEPT !.conn[c].state = "waiting_for_reconnecting"]
  ELSE IF P.conn[c].state \in {"connecting", "connected"} THEN ForceClientLeave(P, c) ELSE P

(* The socket is disconnected: if the client may come back, a timer waits  *)
(* for it.  A client that is still joining is not there to leave.          *)
OnDisconnect(P, c) ==
  IF P.conn[c].state = "connected" /\ P.conn[c].enabled
  THEN [P EXCEPT !.conn[c] = [@ EXCEPT !.state = "waiting_for_reconnecting", !.timer = TRUE]]
  ELSE IF P.conn[c].state \in {"connecting", "connected"} THEN ForceClientLeave(P, c) ELSE P

Disconnect(P, c) ==
  IF P.link[c] \in {"up", "broken"} THEN OnDisconnect([P EXCEPT !.link[c] = "closed"], c) ELSE P

(* close: a connection that is taken over before its socket is seen to be  *)
(* lost starts a timer here.                                               *)
Close(P, c, ifLeave) ==
  LET left == IF ifLeave THEN ForceClientLeave(P, c) ELSE P
  IN [Disconnect([left EXCEPT !.conn[c].timer = FALSE], c) EXCEPT !.conn[c].enabled = FALSE]

(* Clients are dropped: each leaves, and so does whoever has a connection  *)
(* of theirs, which is closed.                                             *)
DropClients(P, S) ==
  LET told == S \cap DOMAIN P.dock
      closed == {P.dock[p].conn : p \in told}
      gone == {p \in DOMAIN P.dock : P.dock[p].conn \in closed /\ P.conn[P.dock[p].conn].client = p}
      left == [P EXCEPT !.participants = @ \ (told \cup gone),
                        !.leaving = @ \cup (P.participants \cap (told \cup gone)),
                        !.tasks = @ \ {P.dock[p].token : p \in gone},
                        !.dock = Restrict(@, DOMAIN @ \ gone),
                        !.conn = [c \in Sockets |->
                          IF c \in {P.dock[p].conn : p \in gone}
                          THEN [@[c] EXCEPT !.state = "initialized", !.client = None] ELSE @[c]]]
  IN [left EXCEPT !.conn = [c \in Sockets |-> IF c \in closed THEN Close(left, c, FALSE).conn[c] ELSE @[c]],
                  !.link = [c \in Sockets |-> IF c \in closed THEN Close(left, c, FALSE).link[c] ELSE @[c]]]

(* The oldest messages are forgotten when they are old.  The time of those *)
(* that have been sent again is gone with the reply to relogin.            *)
Trim(buffer) ==
  LET stays(k) == ~(buffer[k].old /\ buffer[k].timed)
      first == {k \in DOMAIN buffer : stays(k) /\ \A i \in 1 .. k - 1 : ~stays(i)}
  IN IF first = {} THEN <<>> ELSE SubSeq(buffer, CHOOSE k \in first : TRUE, Len(buffer))

(* Faulty: what is not emitted is not buffered.                            *)
SendMessage_buffers_emitted(P, c, m) ==
  LET Q == IF P.conn[c].state # "connected" THEN [P EXCEPT !.conn[c].pending = Append(@, m)]
           ELSE [P EXCEPT !.wire = IF P.link[c] = "up" THEN Append(@, m) ELSE @,
                          !.conn[c].buffer = Append(@, [m |-> m, seq |-> P.conn[c].seq + 1, timed |-> TRUE, old |-> FALSE])]
  IN [Q EXCEPT !.conn[c].seq = @ + 1, !.conn[c].buffer = Trim(@)]

(* What is emitted on a broken socket is lost.                             *)
SendMessage(P, c, m) ==
  LET C == P.conn[c]
      Q == IF C.state # "connected" THEN [P EXCEPT !.conn[c].pending = Append(@, m)]
           ELSE IF P.link[c] = "up" THEN [P EXCEPT !.wire = Append(@, m)] ELSE P
      sent == [m |-> m, seq |-> C.seq + 1, timed |-> TRUE, old |-> FALSE]
  IN [Q EXCEPT !.conn[c] = [@ EXCEPT !.seq = C.seq + 1, !.buffer = Trim(Append(C.buffer, sent))]]

-----------------------------------------------------------------------------
NoConnection == [state |-> "initialized", client |-> None, version |-> "1.1", enabled |-> FALSE,
                 timer |-> FALSE, pending |-> <<>>, seq |-> 0, buffer |-> <<>>]

NewPortal == [conn |-> [c \in Sockets |-> NoConnection], link |-> [c \in Sockets |-> "none"],
              dock |-> Nothing, participants |-> {}, tasks |-> {}, leaving |-> {}, wire |-> <<>>]

Init ==
  /\ portal = NewPortal
  /\ calls = {}
  /\ joined = {}
  /\ clients = [tickets |-> {}, sent |-> [p \in Sockets |-> 0], lost |-> [p \in Sockets |-> {}],
                got |-> [p \in Sockets |-> <<>>]]
  /\ past = [logins |-> 0, breaks |-> 0, pauses |-> 0, drops |-> 0, faults |-> 0, mishaps |-> {}]
  /\ bound \in Bounds

(* The portal's part of a step, with the calls to leave that it makes.     *)
Becomes(P, Rest) ==
  /\ portal' = [P EXCEPT !.leaving = {}]
  /\ calls' = Rest \cup {[call |-> "leave", id |-> p] : p \in P.leaving}

Connect(c) ==
  /\ portal.link[c] = "none"
  /\ portal' = [portal EXCEPT !.link[c] = "up"]
  /\ UNCHANGED <<calls, joined, clients, past, bound>>

(* The socket is used again before its first login is answered.            *)
Reused(c) == IF \E d \in calls : d.call = "join" /\ d.id = c /\ d.waited THEN {"reused"} ELSE {}

(* A socket that was used before keeps the messages of that participant.   *)
Inherited(c) == IF portal.conn[c].seq > 0 THEN {"inherited"} ELSE {}

(* login: whether the client may reconnect depends on its SDK.  What a     *)
(* participant before it got on the same socket counts no more.            *)
Login(c) ==
  /\ portal.link[c] = "up" /\ portal.conn[c].state = "initialized"
  /\ c \notin portal.participants
  /\ \E v \in bound.versions, e \in BOOLEAN :
       portal' = [portal EXCEPT !.conn[c] = [@ EXCEPT !.state = "connecting", !.client = c,
                                                      !.version = v, !.enabled = e]]
  /\ SpendNoting("logins", Reused(c) \cup Inherited(c))
  /\ calls' = calls \cup {[call |-> "join", id |-> c, token |-> past.logins + 1,
                           step |-> "asked", waited |-> TRUE]}
  /\ clients' = [clients EXCEPT !.sent[c] = 0, !.got[c] = <<>>, !.lost[c] = {}]
  /\ UNCHANGED <<joined, bound>>

(* The conference lets the participant join, its answer is on its way.  A  *)
(* call to leave that was made before arrives before.                      *)
ConferenceJoins(d) ==
  /\ d.call = "join" /\ d.step = "asked"
  /\ [call |-> "leave", id |-> d.id] \notin calls
  /\ joined' = joined \cup {d.id}
  /\ calls' = (calls \ {d}) \cup (IF d.waited THEN {[d EXCEPT !.step = "joined"]} ELSE {})
  /\ UNCHANGED <<portal, clients, past, bound>>

(* The login is over: the connection may have been logged out meanwhile.   *)
LoggedIn(P, c, token) ==
  IF P.conn[c].state = "connecting"
  THEN OnClientJoined([P EXCEPT !.conn[c].state = "connected"], c, c, token)
  ELSE Disconnect([PortalLeave(P, c) EXCEPT !.conn[c].state = "initialized"], c)

Joined(d) ==
  /\ d.call = "join" /\ d.step = "joined" /\ d.waited
  /\ LET c == d.id
         P == [portal EXCEPT !.participants = @ \cup {c}]
         Q == LoggedIn(P, c, d.token)
     IN /\ Becomes(Q, calls \ {d})
        /\ clients' = IF c \in DOMAIN Q.dock /\ Q.link[c] = "up" /\ Q.conn[c].enabled
                      THEN [clients EXCEPT !.tickets = @ \cup {c}] ELSE clients
        /\ Noting(IF c \in joined THEN {} ELSE {"late_answer"})
  /\ UNCHANGED <<joined, bound>>

(* The conference refuses, or does not answer in time: then it may still   *)
(* let the participant join.                                               *)
NotJoined(d) ==
  /\ d.call = "join" /\ d.waited
  /\ portal' = Disconnect([portal EXCEPT !.conn[d.id].state = "initialized"], d.id)
  /\ \/ /\ d.step \in {"asked", "lost"}
        /\ calls' = calls \ {d}
        /\ UNCHANGED past
     \/ /\ d.step = "asked"
        /\ calls' = (calls \ {d}) \cup {[d EXCEPT !.waited = FALSE]}
        /\ SpendNoting("faults", {"half_joined"})
     \/ /\ d.step = "joined"
        /\ calls' = calls \ {d}
        /\ SpendNoting("faults", {"half_joined"})
  /\ UNCHANGED <<joined, clients, bound>>

ConferenceLeft(d) ==
  /\ d.call = "leave"
  /\ joined' = joined \ {d.id}
  /\ calls' = calls \ {d}
  /\ UNCHANGED <<portal, clients, past, bound>>

(* logout of a connection that logs in leaves the login to go on.          *)
Logout(c) ==
  /\ portal.link[c] = "up" /\ portal.conn[c].client # None
  /\ Becomes(ForceClientLeave([portal EXCEPT !.conn[c].enabled = FALSE, !.conn[c].state = "initialized"], c), calls)
  /\ UNCHANGED <<joined, clients, past, bound>>

-----------------------------------------------------------------------------
(* The network to a client breaks, which the portal sees only later.       *)
Break(c) ==
  /\ portal.link[c] = "up"
  /\ portal' = [portal EXCEPT !.link[c] = "broken"]
  /\ Spend("breaks")
  /\ UNCHANGED <<calls, joined, clients, bound>>

(* The client disconnects, or the portal sees that the network is broken.  *)
Disconnected(c) ==
  /\ portal.link[c] \in {"up", "broken"}
  /\ Becomes(Disconnect(portal, c), calls)
  /\ Noting(IF portal.conn[c].state = "connecting" THEN {"gone_early"} ELSE {})
  /\ UNCHANGED <<joined, clients, bound>>

WaitingTimeout(c) ==
  /\ portal.conn[c].timer
  /\ Becomes(ForceClientLeave([portal EXCEPT !.conn[c].timer = FALSE], c), calls)
  /\ UNCHANGED <<joined, clients, past, bound>>

(* Three minutes on, a connection nobody is logged in on is closed.        *)
NotInService(c) ==
  /\ portal.link[c] = "up" /\ portal.conn[c].state = "initialized"
  /\ Becomes(Close(portal, c, FALSE), calls)
  /\ UNCHANGED <<joined, clients, past, bound>>

ResetConnection(P, p, c) == [Close(P, P.dock[p].conn, FALSE) EXCEPT !.dock[p].conn = c]

(* The new connection takes the place of the old one.                      *)
TakeOver(P, p, c) ==
  LET old == P.conn[P.dock[p].conn]
      met == [P EXCEPT !.conn[P.dock[p].conn].timer = FALSE]
      new == [met.conn[c] EXCEPT !.client = p, !.version = old.version, !.pending = old.pending,
                                 !.seq = old.seq, !.buffer = old.buffer, !.enabled = TRUE]
  IN [ResetConnection([met EXCEPT !.conn[c] = new], p, c) EXCEPT !.conn[c].state = "connected"]

(* A client of version 1.2 is given the buffer with the answer and takes   *)
(* what it has not got; any other is sent what was pending.                *)
Drained(P, c) ==
  LET C == P.conn[c]
      sent == [k \in DOMAIN C.pending |-> [m |-> C.pending[k], seq |-> C.seq + k, timed |-> TRUE, old |-> FALSE]]
  IN [P EXCEPT !.wire = @ \o C.pending,
               !.conn[c] = [C EXCEPT !.seq = C.seq + Len(sent), !.pending = <<>>,
                                     !.buffer = IF sent = <<>> THEN C.buffer ELSE Trim(C.buffer \o sent)]]

Resumed(P, c) == IF P.conn[c].version = "1.2" THEN P ELSE Drained(P, c)

Timeless(buffer) == [k \in DOMAIN buffer |-> [buffer[k] EXCEPT !.timed = FALSE]]

Missed(p, buffer) ==
  LET n == Cardinality({k \in DOMAIN buffer : buffer[k].seq <= Len(clients.got[p])})
  IN [k \in 1 .. Len(buffer) - n |-> buffer[n + k].m]

Relogin(c, p) ==
  /\ portal.link[c] = "up" /\ portal.conn[c].state = "initialized" /\ p \in clients.tickets
  /\ p \in DOMAIN portal.dock /\ portal.conn[portal.dock[p].conn].enabled
  /\ LET taken == TakeOver(portal, p, c)
         Q == Resumed([taken EXCEPT !.conn[c].buffer = Timeless(@)], c)
         missed == IF Q.conn[c].version = "1.2" THEN Missed(p, Q.conn[c].buffer) ELSE Q.wire
     IN /\ Becomes([Q EXCEPT !.wire = <<>>], calls)
        /\ clients' = [clients EXCEPT !.got[p] = @ \o missed]
  /\ Noting(Reused(c))
  /\ UNCHANGED <<joined, bound>>

(* The client has left, or has logged in again and may not reconnect: the  *)
(* socket is disconnected.                                                 *)
ReloginFailed(c, p) ==
  /\ portal.link[c] = "up" /\ portal.conn[c].state = "initialized" /\ p \in clients.tickets
  /\ LET there == p \in DOMAIN portal.dock
         old == portal.dock[p].conn
         P == IF there THEN [portal EXCEPT !.conn[old].timer = FALSE] ELSE portal
     IN /\ there => ~portal.conn[old].enabled
        /\ Becomes(Disconnect(ForceClientLeave(P, c), c), calls)
  /\ UNCHANGED <<joined, clients, past, bound>>

-----------------------------------------------------------------------------
(* The conference notifies a participant.                                  *)
Notify(p) ==
  /\ p \in DOMAIN portal.dock /\ clients.sent[p] < bound.messages
  /\ LET c == portal.dock[p].conn
         m == clients.sent[p] + 1
         Q == SendMessage(portal, c, m)
     IN /\ Becomes([Q EXCEPT !.wire = <<>>], calls)
        /\ clients' = [clients EXCEPT !.sent[p] = m, !.got[p] = @ \o Q.wire,
                         !.lost[p] = IF portal.conn[c].state = "connected" /\ Q.wire = <<>> THEN @ \cup {m} ELSE @]
  /\ UNCHANGED <<joined, past, bound>>

(* Longer than messages are kept passes.                                   *)
Aged(buffer) == [k \in DOMAIN buffer |-> [buffer[k] EXCEPT !.old = TRUE]]

Pause ==
  /\ Spend("pauses")
  /\ portal' = [portal EXCEPT !.conn =
       [c \in Sockets |-> [portal.conn[c] EXCEPT !.buffer = Aged(portal.conn[c].buffer)]]]
  /\ UNCHANGED <<calls, joined, clients, bound>>

(* The conference drops a participant; it is gone whatever the portal does.*)
Drop(p) ==
  /\ p \in joined
  /\ Spend("drops")
  /\ calls' = calls \cup {[call |-> "drop", id |-> p]}
  /\ UNCHANGED <<portal, joined, clients, bound>>

Dropped(d) ==
  /\ d.call = "drop"
  /\ Becomes(DropClients(portal, {d.id}), calls \ {d})
  /\ joined' = joined \ {d.id}
  /\ UNCHANGED <<clients, past, bound>>

(* The conference is lost with all that it knows, and the portal, which is *)
(* told, drops who was in it.                                              *)
ConferenceLost ==
  /\ joined # {} /\ Spend("faults")
  /\ joined' = {}
  /\ calls' = {IF d.call = "join" /\ d.step = "asked" THEN [d EXCEPT !.step = "lost"] ELSE d : d \in calls}
                \cup {[call |-> "conference_lost"]}
  /\ UNCHANGED <<portal, clients, bound>>

OnConferenceLost(d) ==
  /\ d.call = "conference_lost"
  /\ Becomes(DropClients(portal, portal.participants), calls \ {d})
  /\ UNCHANGED <<joined, clients, past, bound>>

(* The portal loses the cluster: it drops all its clients.                 *)
DropAll ==
  /\ DOMAIN portal.dock # {} /\ Spend("faults")
  /\ Becomes(DropClients(portal, DOMAIN portal.dock), calls)
  /\ UNCHANGED <<joined, clients, bound>>

Handled(d) ==
  ConferenceJoins(d) \/ Joined(d) \/ NotJoined(d) \/ ConferenceLeft(d) \/ Dropped(d) \/ OnConferenceLost(d)

Next ==
  \/ \E c \in Sockets : \/ Connect(c) \/ Login(c) \/ Logout(c) \/ Break(c) \/ Disconnected(c)
                        \/ WaitingTimeout(c) \/ NotInService(c) \/ Notify(c) \/ Drop(c)
                        \/ \E p \in Sockets : Relogin(c, p) \/ ReloginFailed(c, p)
  \/ \E d \in calls : Handled(d)
  \/ Pause \/ ConferenceLost \/ DropAll

Spec == Init /\ [][Next]_vars

(* Calls are handled, timers fire, and a broken network is seen.           *)
Fairness ==
  /\ WF_vars(\E d \in calls : Handled(d))
  /\ \A c \in Sockets : WF_vars(WaitingTimeout(c)) /\ WF_vars(portal.link[c] = "broken" /\ Disconnected(c))

FairSpec == Spec /\ Fairness

-----------------------------------------------------------------------------
(* The types of the tables, with what the code takes for granted.          *)
TypeOK ==
  /\ \A c \in Sockets :
       /\ portal.link[c] \in {"none", "up", "broken", "closed"}
       /\ portal.conn[c].state \in {"initialized", "connecting", "connected", "waiting_for_reconnecting"}
       /\ portal.conn[c].client \in Sockets \cup {None}
       /\ Len(portal.conn[c].buffer) <= portal.conn[c].seq
  /\ DOMAIN portal.dock \subseteq Sockets /\ portal.participants \subseteq Sockets
  /\ \A p \in DOMAIN portal.dock : portal.dock[p].conn \in Sockets
  /\ portal.wire = <<>> /\ portal.leaving = {}

Undisturbed == past.mishaps \subseteq {"inherited"}

(* A client and its connection know each other, and the connection is in   *)
(* service, however often connections are taken over.                      *)
ConnectionsOwned ==
  "reused" \notin past.mishaps =>
    \A p \in DOMAIN portal.dock :
      /\ portal.conn[portal.dock[p].conn].client = p
      /\ portal.conn[portal.dock[p].conn].state \in {"connected", "waiting_for_reconnecting"}

(* A client whose socket is lost is waited for.                            *)
LostAreAwaited ==
  \A p \in DOMAIN portal.dock :
    LET c == portal.dock[p].conn IN portal.link[c] = "closed" => portal.conn[c].timer

(* ... unless it was lost before the login was over.                       *)
JoinedLostAreAwaited == past.mishaps \cap {"gone_early", "reused"} = {} => LostAreAwaited

(* A client has a connection in service or is waited for.                  *)
ClientsFollowed == ConnectionsOwned /\ JoinedLostAreAwaited

(* With no call under way, the conference has the participants the portal  *)
(* has, each with a client and a task of the cluster.                      *)
RoomAgrees ==
  /\ TypeOK
  /\ calls = {} /\ Undisturbed =>
       /\ joined = portal.participants /\ joined = DOMAIN portal.dock
       /\ portal.tasks = {portal.dock[p].token : p \in joined}

InOrder(s, S) ==
  {s[k] : k \in DOMAIN s} = S /\ \A i, j \in DOMAIN s : i < j => s[i] < s[j]

(* What a client on a live connection has got: on version 1.2 everything   *)
(* that was sent, whatever broke, unless a pause made the portal forget    *)
(* it; on any other all but what was emitted on a broken socket, in order. *)
(* On a socket used before, it gets messages that were another's.          *)
MessagesArrive ==
  "inherited" \notin past.mishaps => \A p \in DOMAIN portal.dock :
    LET c == portal.dock[p].conn
        all == 1 .. clients.sent[p]
        v12 == portal.conn[c].version = "1.2"
    IN portal.link[c] = "up" /\ portal.conn[c].state = "connected" /\ (v12 => past.pauses = 0) =>
         InOrder(clients.got[p], IF v12 THEN all ELSE all \ clients.lost[p])

(* Messages that were old when another came are not kept, on a connection  *)
(* that was not taken over, nor was used before.                           *)
BufferTrimmed ==
  "inherited" \notin past.mishaps => \A p \in DOMAIN portal.dock :
    LET b == portal.conn[portal.dock[p].conn].buffer
    IN portal.dock[p].conn = p => \A i, j \in DOMAIN b : i < j /\ b[i].old => b[j].old

(* The messages a client will need are kept, and no others.                *)
MessagesKept == MessagesArrive /\ BufferTrimmed

(* A connection that was taken over does its former client no harm: its    *)
(* timer and the end of its socket leave others alone.                     *)
OldConnectionsHarmless ==
  [][\A c \in Sockets : WaitingTimeout(c) \/ Disconnected(c) =>
       \A p \in DOMAIN portal.dock : portal.dock[p].conn # c => p \in DOMAIN portal'.dock]_vars

(* A participant whose client does not come back leaves the conference.    *)
Live(p) ==
  p \in DOMAIN portal.dock /\ portal.link[portal.dock[p].conn] = "up"

LostLeave ==
  \A p \in Sockets : p \in joined ~> p \notin joined \/ Live(p) \/ ~Undisturbed
=============================================================================
