---------------------------- MODULE PortalProofs ----------------------------
(***************************************************************************)
(* What holds of a portal with any number of sockets, however many logins, *)
(* messages, breaks, drops and failures there are.                         *)
(***************************************************************************)
EXTENDS Portal, TLAPS, FiniteSetTheorems

States == {"initialized", "connecting", "connected", "waiting_for_reconnecting"}
Links == {"none", "up", "broken", "closed"}
InService == {"connected", "waiting_for_reconnecting"}
Entries == [m : Nat, seq : Nat, timed : BOOLEAN, old : BOOLEAN]

ConnectionType ==
  [state : States, client : Sockets \cup {None}, version : {"1.1", "1.2"}, enabled : BOOLEAN,
   timer : BOOLEAN, pending : Seq(Nat), seq : Nat, buffer : Seq(Entries)]

Docks == UNION {[S -> [conn : Sockets, token : Nat]] : S \in SUBSET Sockets}

PortalType ==
  [conn : [Sockets -> ConnectionType], link : [Sockets -> Links],
   dock : Docks,
   participants : SUBSET Sockets, tasks : SUBSET Nat, leaving : SUBSET Sockets, wire : Seq(Nat)]

JoinCalls == [call : {"join"}, id : Sockets, token : Nat, step : {"asked", "joined", "lost"}, waited : BOOLEAN]
Calls == JoinCalls \cup [call : {"leave", "drop"}, id : Sockets] \cup [call : {"conference_lost"}]

Types ==
  /\ bound \in Bounds
  /\ portal \in PortalType /\ portal.wire = <<>> /\ portal.leaving = {}
  /\ \A c \in Sockets : Len(portal.conn[c].buffer) <= portal.conn[c].seq
  /\ calls \subseteq Calls
  /\ joined \subseteq Sockets
  /\ DOMAIN clients = {"tickets", "sent", "lost", "got"}
  /\ clients.tickets \subseteq Sockets /\ clients.sent \in [Sockets -> Nat]
  /\ DOMAIN past = {"logins", "breaks", "pauses", "drops", "faults", "mishaps"}
  /\ past.logins \in Nat

(* Nobody else's connection is used for a login.                           *)
Clean == "reused" \notin past.mishaps

(* Nor is a socket lost during a login.                                    *)
Timely == past.mishaps \cap {"gone_early", "reused"} = {}

(* A client has a connection in service, which knows it.                   *)
Owned(P) ==
  \A p \in DOMAIN P.dock :
    P.conn[P.dock[p].conn].client = p /\ P.conn[P.dock[p].conn].state \in InService

(* A client whose socket is lost is waited for, and may come back.         *)
Awaited(P) ==
  \A p \in DOMAIN P.dock :
    LET c == P.dock[p].conn
    IN P.link[c] = "closed" => P.conn[c].timer /\ P.conn[c].enabled

AwaitedBut(P, c) ==
  \A p \in DOMAIN P.dock :
    LET d == P.dock[p].conn
    IN d # c /\ P.link[d] = "closed" => P.conn[d].timer /\ P.conn[d].enabled

(* Whoever has a connection whose socket is not seen to be closed is       *)
(* connected by it, and known to it.                                       *)
Served(P) ==
  \A p \in DOMAIN P.dock :
    LET c == P.dock[p].conn
    IN /\ P.link[c] # "none"
       /\ P.link[c] # "closed" => P.conn[c].state = "connected" /\ P.conn[c].client = p

(* Only a connection whose socket is closed waits for its client.          *)
WaitingAreClosed(P) ==
  \A c \in Sockets : P.conn[c].state = "waiting_for_reconnecting" => P.link[c] = "closed"

Waited(c) == {d \in calls : d.call = "join" /\ d.waited /\ d.id = c}

(* A connection that logs in has the identifier of its socket for client.  *)
LoginsNamed == \A c \in Sockets : portal.conn[c].state = "connecting" => portal.conn[c].client = c

(* A socket that logs in is nobody's connection, and its answer, of which  *)
(* there is one, comes to a connection that is not in service.             *)
LoginsApart ==
  Clean => \A c \in Sockets : \A d \in Waited(c) :
    /\ Waited(c) = {d}
    /\ portal.conn[c].state \notin InService /\ c \notin DOMAIN portal.dock

(* A connection that logs in is open, as far as nobody saw it close.       *)
LoginsOpen ==
  Timely => \A c \in Sockets : portal.conn[c].state = "connecting" => portal.link[c] # "closed"

Participants == Clean => portal.participants = DOMAIN portal.dock

(* The token of a login is its own, and older than those to come.          *)
TokensOwn ==
  /\ \A d \in calls : d.call = "join" => d.token <= past.logins
  /\ \A p \in DOMAIN portal.dock : portal.dock[p].token <= past.logins
  /\ \A d, e \in calls : d.call = "join" /\ e.call = "join" /\ d.token = e.token => d.id = e.id

(* Each client has a task of its own, and so will those that log in.       *)
TasksOwned ==
  Clean =>
    /\ portal.tasks = {portal.dock[p].token : p \in DOMAIN portal.dock}
    /\ \A p, q \in DOMAIN portal.dock : portal.dock[p].token = portal.dock[q].token => p = q
    /\ \A d \in calls, p \in DOMAIN portal.dock : d.call = "join" /\ d.waited => d.token # portal.dock[p].token

(* Who is in the conference is a participant, or leaves, or will be one    *)
(* with the answer that is on its way; and the other way round, unless the *)
(* conference is lost and the portal will be told.                         *)
ConferenceFollows ==
  Undisturbed =>
    /\ \A d \in calls : d.call = "join" => d.waited
    /\ \A p \in portal.participants : p \in joined \/ [call |-> "conference_lost"] \in calls
    /\ \A p \in Sockets : [call |-> "leave", id |-> p] \in calls =>
         /\ p \notin portal.participants
         /\ \A d \in Waited(p) : d.step # "joined"
    /\ \A p \in joined : \/ p \in portal.participants
                         \/ [call |-> "leave", id |-> p] \in calls
                         \/ \E d \in Waited(p) : d.step = "joined"

IInv ==
  /\ Types
  /\ Clean => Owned(portal)
  /\ Timely => Awaited(portal)
  /\ WaitingAreClosed(portal)
  /\ LoginsNamed /\ LoginsApart /\ LoginsOpen
  /\ Participants
  /\ TokensOwn /\ TasksOwned
  /\ ConferenceFollows

-----------------------------------------------------------------------------
(* What the functions of a portal do to it.                                *)

(* A part of a dictionary is one.                                          *)
LEMMA RestrictType ==
  ASSUME NEW f \in Docks, NEW T
  PROVE  /\ Restrict(f, DOMAIN f \ T) \in Docks
         /\ DOMAIN Restrict(f, DOMAIN f \ T) = DOMAIN f \ T
         /\ \A x \in DOMAIN f \ T : Restrict(f, DOMAIN f \ T)[x] = f[x]
<1>1. PICK S \in SUBSET Sockets : f \in [S -> [conn : Sockets, token : Nat]]
  BY DEF Docks
<1>2. Restrict(f, DOMAIN f \ T) \in [S \ T -> [conn : Sockets, token : Nat]]
  BY <1>1 DEF Restrict
<1>3. S \ T \in SUBSET Sockets
  BY <1>1
<1> QED
  BY <1>1, <1>2, <1>3 DEF Restrict, Docks

LEMMA DockType ==
  ASSUME NEW P \in PortalType
  PROVE  /\ P.dock \in Docks /\ DOMAIN P.dock \subseteq Sockets
         /\ \A p \in DOMAIN P.dock : P.dock[p] \in [conn : Sockets, token : Nat]
<1>1. P.dock \in Docks
  BY DEF PortalType
<1> QED
  BY <1>1 DEF Docks

(* The portal with another record for a connection.                        *)
LEMMA WithConnection ==
  ASSUME NEW P \in PortalType, NEW c \in Sockets, NEW K \in ConnectionType
  PROVE  LET Q == [P EXCEPT !.conn[c] = K]
         IN /\ Q \in PortalType
            /\ Q.conn = [P.conn EXCEPT ![c] = K]
            /\ Q.dock = P.dock /\ Q.tasks = P.tasks /\ Q.link = P.link /\ Q.wire = P.wire
            /\ Q.participants = P.participants /\ Q.leaving = P.leaving
  BY DEF PortalType

Owns(P, c) == P.conn[c].client \in DOMAIN P.dock /\ P.dock[P.conn[c].client].conn = c

(* forceClientLeave: the owner of the connection is no client any more.    *)
LEMMA ForceClientLeaveFacts ==
  ASSUME NEW P \in PortalType, NEW c \in Sockets
  PROVE  LET p == P.conn[c].client
             Q == ForceClientLeave(P, c)
         IN /\ Q \in PortalType
            /\ ~Owns(P, c) => Q = P
            /\ Owns(P, c) =>
                 /\ Q.dock = Restrict(P.dock, DOMAIN P.dock \ {p})
                 /\ Q.tasks = P.tasks \ {P.dock[p].token}
                 /\ Q.participants = P.participants \ {p}
                 /\ Q.leaving = P.leaving \cup (P.participants \cap {p})
                 /\ Q.conn = [P.conn EXCEPT ![c] = [@ EXCEPT !.state = "initialized", !.client = None]]
                 /\ Q.link = P.link /\ Q.wire = P.wire
<1> DEFINE p == P.conn[c].client
           Q == ForceClientLeave(P, c)
<1>1. CASE ~Owns(P, c)
  BY <1>1 DEF ForceClientLeave, Owns
<1>2. CASE Owns(P, c)
  <2> DEFINE L == PortalLeave(P, p)
             M == OnClientLeft(L, p)
  <2>1. p \in Sockets
    BY <1>2, DockType DEF Owns
  <2>2. /\ L \in PortalType
        /\ L.dock = P.dock /\ L.tasks = P.tasks /\ L.conn = P.conn /\ L.link = P.link /\ L.wire = P.wire
        /\ L.participants = P.participants \ {p}
        /\ L.leaving = P.leaving \cup (P.participants \cap {p})
    BY <2>1 DEF PortalLeave, PortalType
  <2>3. Without(L.dock, p) = Restrict(P.dock, DOMAIN P.dock \ {p})
    BY <2>2 DEF Without
  <2>4. Restrict(P.dock, DOMAIN P.dock \ {p}) \in Docks
    BY RestrictType, DockType
  <2>5. /\ M \in PortalType
        /\ M.dock = Restrict(P.dock, DOMAIN P.dock \ {p})
        /\ M.tasks = P.tasks \ {P.dock[p].token}
        /\ M.conn = P.conn /\ M.link = P.link /\ M.wire = P.wire
        /\ M.participants = P.participants \ {p}
        /\ M.leaving = P.leaving \cup (P.participants \cap {p})
    <3>1. M = [L EXCEPT !.tasks = @ \ {P.dock[p].token}, !.dock = Restrict(P.dock, DOMAIN P.dock \ {p})]
      BY <1>2, <2>2, <2>3 DEF OnClientLeft, Owns
    <3> QED
      BY <2>2, <2>4, <3>1 DEF PortalType
  <2> DEFINE K == [M.conn[c] EXCEPT !.state = "initialized", !.client = None]
  <2>6. M.conn[c] \in ConnectionType
    BY <2>5 DEF PortalType
  <2>7. K \in ConnectionType
    BY <2>6 DEF ConnectionType, States
  <2>8. Q = [M EXCEPT !.conn[c] = K]
    BY <1>2, <2>6 DEF ForceClientLeave, Owns
  <2> HIDE DEF K, M, Q
  <2>9. /\ Q \in PortalType /\ Q.conn = [M.conn EXCEPT ![c] = K]
        /\ Q.dock = M.dock /\ Q.tasks = M.tasks /\ Q.link = M.link /\ Q.wire = M.wire
        /\ Q.participants = M.participants /\ Q.leaving = M.leaving
    BY <2>5, <2>7, <2>8, WithConnection
  <2> QED
    BY <1>2, <2>5, <2>9 DEF K, Q
<1> QED
  BY <1>1, <1>2

(* The socket of a connection is closed.                                   *)
Closed(P, c) == [P EXCEPT !.link[c] = "closed"]

LEMMA ClosedFacts ==
  ASSUME NEW P \in PortalType, NEW c \in Sockets
  PROVE  LET Q == Closed(P, c)
         IN /\ Q \in PortalType
            /\ Q.link = [P.link EXCEPT ![c] = "closed"]
            /\ Q.dock = P.dock /\ Q.tasks = P.tasks /\ Q.conn = P.conn /\ Q.wire = P.wire
            /\ Q.participants = P.participants /\ Q.leaving = P.leaving
  BY DEF Closed, PortalType, Links

(* The disconnection of a socket starts a timer, or its client leaves, or  *)
(* nothing else happens.                                                   *)
LEMMA DisconnectFacts ==
  ASSUME NEW P \in PortalType, NEW c \in Sockets
  PROVE  LET Q == Disconnect(P, c)
         IN \/ P.link[c] \notin {"up", "broken"} /\ Q = P
            \/ /\ P.link[c] \in {"up", "broken"} /\ P.conn[c].state = "connected" /\ P.conn[c].enabled
               /\ Q = [Closed(P, c) EXCEPT !.conn[c] = [@ EXCEPT !.state = "waiting_for_reconnecting", !.timer = TRUE]]
            \/ /\ P.link[c] \in {"up", "broken"} /\ ~(P.conn[c].state = "connected" /\ P.conn[c].enabled)
               /\ P.conn[c].state \in {"connecting", "connected"}
               /\ Q = ForceClientLeave(Closed(P, c), c)
            \/ /\ P.link[c] \in {"up", "broken"} /\ P.conn[c].state \notin {"connecting", "connected"}
               /\ Q = Closed(P, c)
<1>1. Closed(P, c).conn = P.conn
  BY ClosedFacts
<1> QED
  BY <1>1 DEF Disconnect, OnDisconnect, Closed

-----------------------------------------------------------------------------
(* Most handlers only end something.                                       *)

(* A connection that does not begin anything.                              *)
Lessens(K, L) ==
  /\ L.buffer = K.buffer /\ L.seq = K.seq /\ L.pending = K.pending /\ L.version = K.version
  /\ L.state = "connecting" => K.state = "connecting" /\ L.client = K.client
  /\ L.state \in InService => K.state \in InService
  /\ L.state = "connected" => K.state = "connected"

(* A portal in which connections and clients only end.                     *)
Shrinks(P, Q) ==
  /\ Q \in PortalType /\ Q.wire = P.wire
  /\ DOMAIN Q.dock \subseteq DOMAIN P.dock
  /\ \A p \in DOMAIN Q.dock : Q.dock[p] = P.dock[p]
  /\ \A c \in Sockets :
       /\ Lessens(P.conn[c], Q.conn[c])
       /\ Q.link[c] \in {P.link[c], "closed"}
       /\ Q.conn[c].state = "waiting_for_reconnecting" =>
            P.conn[c].state = "waiting_for_reconnecting" \/ Q.link[c] = "closed"

(* ... and the clients G leave, of which the conference is told.           *)
Leaves(P, Q, G) ==
  /\ G \subseteq DOMAIN P.dock
  /\ DOMAIN Q.dock = DOMAIN P.dock \ G
  /\ Q.tasks = P.tasks \ {P.dock[p].token : p \in G}
  /\ Q.participants = P.participants \ G
  /\ Q.leaving = P.leaving \cup (P.participants \cap G)
  /\ Owned(Q)
  /\ Awaited(P) => Awaited(Q)

LEMMA ShrinksTransitive ==
  ASSUME NEW P, NEW Q, NEW R, Shrinks(P, Q), Shrinks(Q, R)
  PROVE  Shrinks(P, R)
  BY DEF Shrinks, Lessens

LEMMA LeavesTransitive ==
  ASSUME NEW P, NEW Q, NEW R, NEW G, NEW H, Shrinks(P, Q), Leaves(P, Q, G), Leaves(Q, R, H)
  PROVE  Leaves(P, R, G \cup H)
<1>1. G \cup H \subseteq DOMAIN P.dock /\ DOMAIN R.dock = DOMAIN P.dock \ (G \cup H)
  BY DEF Leaves
<1>2. {Q.dock[p].token : p \in H} = {P.dock[p].token : p \in H}
  BY DEF Leaves, Shrinks
<1>3. R.tasks = P.tasks \ {P.dock[p].token : p \in G \cup H}
  BY <1>2 DEF Leaves
<1>4. R.participants = P.participants \ (G \cup H)
  BY DEF Leaves
<1>5. R.leaving = P.leaving \cup (P.participants \cap (G \cup H))
  BY DEF Leaves
<1>6. Owned(R) /\ (Awaited(P) => Awaited(R))
  BY DEF Leaves
<1> QED
  BY <1>1, <1>3, <1>4, <1>5, <1>6 DEF Leaves

(* The portal with another record and another link for a connection.       *)
Changed(P, c, K, l) == [P EXCEPT !.conn[c] = K, !.link[c] = l]

LEMMA ChangedFacts ==
  ASSUME NEW P \in PortalType, NEW c \in Sockets, NEW K \in ConnectionType,
         NEW l \in Links
  PROVE  LET Q == Changed(P, c, K, l)
         IN /\ Q \in PortalType
            /\ Q.conn = [P.conn EXCEPT ![c] = K] /\ Q.link = [P.link EXCEPT ![c] = l]
            /\ Q.dock = P.dock /\ Q.tasks = P.tasks /\ Q.wire = P.wire
            /\ Q.participants = P.participants /\ Q.leaving = P.leaving
  BY DEF Changed, PortalType

(* A connection that ends or waits, with the socket left alone or closed.  *)
Ends(P, c, K, l) ==
  /\ K \in ConnectionType /\ Lessens(P.conn[c], K) /\ K.client = P.conn[c].client
  /\ l \in {P.link[c], "closed"}
  /\ K.state = "waiting_for_reconnecting" => P.conn[c].state = "waiting_for_reconnecting" \/ l = "closed"

LEMMA EndShrinks ==
  ASSUME NEW P \in PortalType, NEW c \in Sockets, NEW K, NEW l, Ends(P, c, K, l)
  PROVE  Shrinks(P, Changed(P, c, K, l))
<1> DEFINE Q == Changed(P, c, K, l)
<1>1. /\ l \in Links /\ K \in ConnectionType
      /\ P.conn \in [Sockets -> ConnectionType] /\ DOMAIN P.link = Sockets
  BY DEF Ends, PortalType, Links
<1>2. /\ Q \in PortalType
      /\ Q.conn = [P.conn EXCEPT ![c] = K] /\ Q.link = [P.link EXCEPT ![c] = l]
      /\ Q.dock = P.dock /\ Q.wire = P.wire
  BY <1>1, ChangedFacts
<1> HIDE DEF Q
<1>3. ASSUME NEW d \in Sockets
      PROVE  /\ Lessens(P.conn[d], Q.conn[d])
             /\ Q.link[d] \in {P.link[d], "closed"}
             /\ Q.conn[d].state = "waiting_for_reconnecting" =>
                  P.conn[d].state = "waiting_for_reconnecting" \/ Q.link[d] = "closed"
  <2>1. CASE d = c
    BY <1>1, <1>2, <2>1 DEF Ends
  <2>2. CASE d # c
    BY <1>1, <1>2, <2>2 DEF Lessens
  <2> QED
    BY <2>1, <2>2
<1>4. Shrinks(P, Q)
  BY <1>2, <1>3 DEF Shrinks
<1> QED
  BY <1>4 DEF Q

(* Nobody leaves when it is nobody's connection, or its client stays and   *)
(* is waited for if it must be.                                            *)
LEMMA EndLeaves ==
  ASSUME NEW P \in PortalType, NEW c \in Sockets, NEW K, NEW l, Ends(P, c, K, l), Owned(P),
         (\E p \in DOMAIN P.dock : P.dock[p].conn = c) =>
           K.state \in InService /\ (l = "closed" => (K.timer /\ K.enabled) \/ ~Awaited(P))
  PROVE  Leaves(P, Changed(P, c, K, l), {})
<1> DEFINE Q == Changed(P, c, K, l)
<1>1. /\ l \in Links /\ K \in ConnectionType /\ K.client = P.conn[c].client
      /\ DOMAIN P.conn = Sockets /\ DOMAIN P.link = Sockets
  BY DEF Ends, PortalType, Links
<1>2. /\ Q.conn = [P.conn EXCEPT ![c] = K] /\ Q.link = [P.link EXCEPT ![c] = l]
      /\ Q.dock = P.dock /\ Q.tasks = P.tasks
      /\ Q.participants = P.participants /\ Q.leaving = P.leaving
  BY <1>1, ChangedFacts
<1> HIDE DEF Q
<1>3. \A p \in DOMAIN P.dock : P.dock[p].conn \in Sockets
  BY DockType
<1>4. Owned(Q)
  BY <1>1, <1>2, <1>3 DEF Owned
<1>5. Awaited(P) => Awaited(Q)
  BY <1>1, <1>2, <1>3 DEF Awaited
<1>6. Leaves(P, Q, {})
  BY <1>2, <1>4, <1>5 DEF Leaves
<1> QED
  BY <1>6 DEF Q

LEMMA ForceClientLeaveShrinks ==
  ASSUME NEW P \in PortalType, NEW c \in Sockets
  PROVE  Shrinks(P, ForceClientLeave(P, c))
<1> DEFINE p == P.conn[c].client
           Q == ForceClientLeave(P, c)
<1>0. P.conn \in [Sockets -> ConnectionType]
  BY DEF PortalType
<1>1. CASE ~Owns(P, c)
  BY <1>1, ForceClientLeaveFacts DEF Shrinks, Lessens
<1>2. CASE Owns(P, c)
  <2>1. /\ Q \in PortalType /\ Q.dock = Restrict(P.dock, DOMAIN P.dock \ {p})
        /\ Q.conn = [P.conn EXCEPT ![c] = [@ EXCEPT !.state = "initialized", !.client = None]]
        /\ Q.link = P.link /\ Q.wire = P.wire
    BY <1>2, ForceClientLeaveFacts
  <2> HIDE DEF Q
  <2>2. DOMAIN Q.dock \subseteq DOMAIN P.dock /\ \A x \in DOMAIN Q.dock : Q.dock[x] = P.dock[x]
    <3>1. P.dock \in Docks
      BY DockType
    <3>2. /\ DOMAIN Restrict(P.dock, DOMAIN P.dock \ {p}) = DOMAIN P.dock \ {p}
          /\ \A x \in DOMAIN P.dock \ {p} : Restrict(P.dock, DOMAIN P.dock \ {p})[x] = P.dock[x]
      BY ONLY <3>1, RestrictType
    <3> QED
      BY <2>1, <3>2
  <2>3. ASSUME NEW d \in Sockets
        PROVE  /\ Lessens(P.conn[d], Q.conn[d])
               /\ Q.conn[d].state = "waiting_for_reconnecting" =>
                    P.conn[d].state = "waiting_for_reconnecting"
    <3>1. P.conn[d] \in ConnectionType
      BY <1>0
    <3>2. CASE d = c
      BY <1>0, <2>1, <3>1, <3>2 DEF Lessens, ConnectionType, InService
    <3>3. CASE d # c
      BY <1>0, <2>1, <3>3 DEF Lessens
    <3> QED
      BY <3>2, <3>3
  <2>4. Shrinks(P, Q)
    BY <2>1, <2>2, <2>3 DEF Shrinks
  <2> QED
    BY <2>4 DEF Q
<1> QED
  BY <1>1, <1>2

(* The one client that a connection may have leaves.                       *)
LEMMA ForceClientLeaveLeaves ==
  ASSUME NEW P \in PortalType, NEW c \in Sockets,
         \A p \in DOMAIN P.dock :
           LET d == P.dock[p].conn
           IN P.conn[d].client = p /\ (d # c => P.conn[d].state \in InService)
  PROVE  /\ Leaves(P, ForceClientLeave(P, c), {p \in DOMAIN P.dock : P.dock[p].conn = c})
         /\ AwaitedBut(P, c) => Awaited(ForceClientLeave(P, c))
<1> DEFINE p == P.conn[c].client
           Q == ForceClientLeave(P, c)
           G == {x \in DOMAIN P.dock : P.dock[x].conn = c}
<1>0. P.conn \in [Sockets -> ConnectionType]
  BY DEF PortalType
<1>1. CASE ~Owns(P, c)
  <2>1. Q = P
    BY <1>1, ForceClientLeaveFacts
  <2>3. G = {}
    BY <1>1 DEF Owns
  <2>2. Leaves(P, P, {})
    BY <1>1 DEF Leaves, Owned, Owns
  <2>4. AwaitedBut(P, c) => Awaited(P)
    BY <2>3 DEF AwaitedBut, Awaited
  <2> QED
    BY <2>1, <2>2, <2>3, <2>4
<1>2. CASE Owns(P, c)
  <2>1. /\ Q.dock = Restrict(P.dock, DOMAIN P.dock \ {p})
        /\ Q.tasks = P.tasks \ {P.dock[p].token}
        /\ Q.participants = P.participants \ {p}
        /\ Q.leaving = P.leaving \cup (P.participants \cap {p})
        /\ Q.conn = [P.conn EXCEPT ![c] = [@ EXCEPT !.state = "initialized", !.client = None]]
        /\ Q.link = P.link
    BY <1>2, ForceClientLeaveFacts
  <2>2. G = {p}
    BY <1>2 DEF Owns
  <2> HIDE DEF Q
  <2>3. DOMAIN Q.dock = DOMAIN P.dock \ {p} /\ \A x \in DOMAIN Q.dock : Q.dock[x] = P.dock[x]
    <3>1. P.dock \in Docks
      BY DockType
    <3>2. /\ DOMAIN Restrict(P.dock, DOMAIN P.dock \ {p}) = DOMAIN P.dock \ {p}
          /\ \A x \in DOMAIN P.dock \ {p} : Restrict(P.dock, DOMAIN P.dock \ {p})[x] = P.dock[x]
      BY ONLY <3>1, RestrictType
    <3> QED
      BY <2>1, <3>2
  <2>4. \A x \in DOMAIN Q.dock : Q.dock[x].conn \in Sockets /\ Q.dock[x].conn # c
    BY <2>2, <2>3, DockType
  <2>5. \A x \in DOMAIN Q.dock : Q.conn[Q.dock[x].conn] = P.conn[Q.dock[x].conn]
    BY <1>0, <2>1, <2>4
  <2>6. Owned(Q)
    BY <2>3, <2>4, <2>5 DEF Owned
  <2>7. AwaitedBut(P, c) => Awaited(Q)
    BY <2>1, <2>3, <2>4, <2>5 DEF Awaited, AwaitedBut
  <2>8. Awaited(P) => AwaitedBut(P, c)
    BY DEF Awaited, AwaitedBut
  <2>9. Leaves(P, Q, {p})
    BY <1>2, <2>1, <2>3, <2>6, <2>7, <2>8 DEF Leaves, Owns
  <2> QED
    BY <2>2, <2>7, <2>9 DEF Q
<1> QED
  BY <1>1, <1>2

(* Clients are served as before when a connection keeps its state, or its  *)
(* socket is closed.                                                       *)
LEMMA ChangedServed ==
  ASSUME NEW P \in PortalType, NEW c \in Sockets, NEW K, NEW l, Ends(P, c, K, l), Served(P),
         l \in {"closed", "none"} \/ K.state = P.conn[c].state
  PROVE  Served(Changed(P, c, K, l))
<1> DEFINE Q == Changed(P, c, K, l)
<1>1. /\ l \in Links /\ K \in ConnectionType /\ K.client = P.conn[c].client /\ l \in {P.link[c], "closed"}
      /\ DOMAIN P.conn = Sockets /\ DOMAIN P.link = Sockets
  BY DEF Ends, PortalType, Links
<1>2. /\ Q.conn = [P.conn EXCEPT ![c] = K] /\ Q.link = [P.link EXCEPT ![c] = l] /\ Q.dock = P.dock
  BY <1>1, ChangedFacts
<1> HIDE DEF Q
<1>3. \A p \in DOMAIN P.dock : P.dock[p].conn \in Sockets
  BY DockType
<1>4. Served(Q)
  <2> SUFFICES ASSUME NEW p \in DOMAIN P.dock, NEW d \in Sockets, d = P.dock[p].conn
               PROVE  /\ Q.link[d] # "none"
                      /\ Q.link[d] # "closed" => Q.conn[d].state = "connected" /\ Q.conn[d].client = p
    BY <1>2, <1>3 DEF Served
  <2>1. P.link[d] # "none" /\ (P.link[d] # "closed" => P.conn[d].state = "connected" /\ P.conn[d].client = p)
    BY DEF Served
  <2>2. CASE d = c
    BY <1>1, <1>2, <2>1, <2>2
  <2>3. CASE d # c
    BY <1>1, <1>2, <2>1, <2>3
  <2> QED
    BY <2>2, <2>3
<1> QED
  BY <1>4 DEF Q

(* A connection ends, and its client leaves.                               *)
LEMMA EndAndLeave ==
  ASSUME NEW P \in PortalType, NEW c \in Sockets, NEW K, NEW l, Ends(P, c, K, l)
  PROVE  LET Q == ForceClientLeave(Changed(P, c, K, l), c)
         IN /\ Shrinks(P, Q)
            /\ Owned(P) => Leaves(P, Q, {p \in DOMAIN P.dock : P.dock[p].conn = c})
            /\ Served(P) => Served(Q)
<1> DEFINE R == Changed(P, c, K, l)
           Q == ForceClientLeave(R, c)
           G == {p \in DOMAIN P.dock : P.dock[p].conn = c}
<1>1. Shrinks(P, R) /\ R \in PortalType
  BY EndShrinks DEF Shrinks
<1>2. /\ l \in Links /\ K \in ConnectionType /\ K.client = P.conn[c].client
      /\ DOMAIN P.conn = Sockets /\ DOMAIN P.link = Sockets
  BY DEF Ends, PortalType, Links
<1>3. /\ R.conn = [P.conn EXCEPT ![c] = K] /\ R.link = [P.link EXCEPT ![c] = l]
      /\ R.dock = P.dock /\ R.tasks = P.tasks
      /\ R.participants = P.participants /\ R.leaving = P.leaving
  BY <1>2, ChangedFacts
<1> HIDE DEF R
<1>4. Shrinks(P, Q)
  BY <1>1, ForceClientLeaveShrinks, ShrinksTransitive
<1>5. ASSUME Owned(P)
      PROVE  Leaves(P, Q, G)
  <2>1. \A p \in DOMAIN R.dock : R.dock[p].conn \in Sockets
    BY <1>1, DockType
  <2>2. \A p \in DOMAIN R.dock :
          LET d == R.dock[p].conn
          IN R.conn[d].client = p /\ (d # c => R.conn[d].state \in InService)
    BY <1>2, <1>3, <1>5, <2>1 DEF Owned
  <2>3. /\ Leaves(R, Q, {p \in DOMAIN R.dock : R.dock[p].conn = c})
        /\ AwaitedBut(R, c) => Awaited(Q)
    BY <1>1, <2>2, ForceClientLeaveLeaves
  <2>4. Awaited(P) => AwaitedBut(R, c)
    BY <1>2, <1>3, <2>1 DEF Awaited, AwaitedBut
  <2> QED
    BY <1>3, <2>3, <2>4 DEF Leaves
<1>6. ASSUME Served(P)
      PROVE  Served(Q)
  <2>1. \A p \in DOMAIN P.dock : P.dock[p].conn \in Sockets
    BY DockType
  <2>2. ASSUME NEW p \in DOMAIN R.dock, NEW d \in Sockets, d = R.dock[p].conn
        PROVE  /\ R.link[d] # "none"
               /\ R.link[d] # "closed" => R.conn[d].client = p /\ (d # c => R.conn[d].state = "connected")
    <3>1. P.link[d] # "none" /\ (P.link[d] # "closed" => P.conn[d].state = "connected" /\ P.conn[d].client = p)
      BY <1>3, <1>6, <2>2 DEF Served
    <3>2. CASE d = c
      BY <1>2, <1>3, <3>1, <3>2 DEF Ends
    <3>3. CASE d # c
      BY <1>2, <1>3, <3>1, <3>3
    <3> QED
      BY <3>2, <3>3
  <2>3. CASE ~Owns(R, c)
    <3>1. Q = R
      BY <1>1, <2>3, ForceClientLeaveFacts
    <3> HIDE DEF Q
    <3>2. ASSUME NEW p \in DOMAIN R.dock, NEW d \in Sockets, d = R.dock[p].conn
          PROVE  /\ R.link[d] # "none"
                 /\ R.link[d] # "closed" => R.conn[d].state = "connected" /\ R.conn[d].client = p
      BY <2>2, <2>3, <3>2 DEF Owns
    <3>3. R.dock = P.dock
      BY <1>3
    <3> QED
      BY ONLY <2>1, <3>1, <3>2, <3>3 DEF Served
  <2>4. CASE Owns(R, c)
    <3> DEFINE x == R.conn[c].client
               L == [R.conn[c] EXCEPT !.state = "initialized", !.client = None]
    <3>1. Q.dock = Restrict(R.dock, DOMAIN R.dock \ {x}) /\ Q.conn = [R.conn EXCEPT ![c] = L] /\ Q.link = R.link
      BY <1>1, <2>4, ForceClientLeaveFacts
    <3> HIDE DEF Q, L
    <3>2. DOMAIN Q.dock = DOMAIN R.dock \ {x} /\ \A p \in DOMAIN Q.dock : Q.dock[p] = R.dock[p]
      <4>1. R.dock \in Docks
        BY <1>1, DockType
      <4>2. /\ DOMAIN Restrict(R.dock, DOMAIN R.dock \ {x}) = DOMAIN R.dock \ {x}
            /\ \A p \in DOMAIN R.dock \ {x} : Restrict(R.dock, DOMAIN R.dock \ {x})[p] = R.dock[p]
        BY ONLY <4>1, RestrictType
      <4> QED
        BY <3>1, <4>2
    <3>3. \A d \in Sockets : d # c => Q.conn[d] = R.conn[d]
      BY <1>2, <1>3, <3>1
    <3>4. ASSUME NEW p \in DOMAIN Q.dock, NEW d \in Sockets, d = Q.dock[p].conn
          PROVE  /\ Q.link[d] # "none"
                 /\ Q.link[d] # "closed" => Q.conn[d].state = "connected" /\ Q.conn[d].client = p
      <4>1. p \in DOMAIN R.dock /\ p # x /\ d = R.dock[p].conn /\ Q.link[d] = R.link[d]
        BY <3>1, <3>2, <3>4
      <4>2. /\ R.link[d] # "none"
            /\ R.link[d] # "closed" => R.conn[d].client = p /\ (d # c => R.conn[d].state = "connected")
        BY <2>2, <4>1
      <4>3. d # c => Q.conn[d] = R.conn[d]
        BY <3>3
      <4> QED
        BY <4>1, <4>2, <4>3
    <3>5. \A p \in DOMAIN Q.dock : Q.dock[p].conn \in Sockets
      BY <1>3, <2>1, <3>2
    <3> QED
      BY ONLY <3>4, <3>5 DEF Served
  <2> QED
    BY <2>3, <2>4
<1>7. Shrinks(P, Q) /\ (Owned(P) => Leaves(P, Q, G)) /\ (Served(P) => Served(Q))
  BY <1>4, <1>5, <1>6
<1> QED
  BY <1>7 DEF R

LEMMA ForceClientLeaveServed ==
  ASSUME NEW P \in PortalType, NEW c \in Sockets, Served(P)
  PROVE  Served(ForceClientLeave(P, c))
<1> DEFINE K == P.conn[c]
           l == P.link[c]
<1>1. K \in ConnectionType /\ l \in Links /\ P.conn \in [Sockets -> ConnectionType] /\ P.link \in [Sockets -> Links]
  BY DEF PortalType
<1>2. Changed(P, c, K, l) = P
  <2>1. [P.conn EXCEPT ![c] = K] = P.conn /\ [P.link EXCEPT ![c] = l] = P.link
    BY <1>1
  <2> HIDE DEF K, l
  <2>2. Changed(P, c, K, l) = [P EXCEPT !.conn = P.conn, !.link = P.link]
    BY <2>1 DEF Changed, PortalType
  <2> QED
    BY <2>2 DEF PortalType
<1>3. Ends(P, c, K, l)
  BY <1>1 DEF Ends, Lessens
<1> QED
  BY <1>2, <1>3, EndAndLeave

LEMMA SamePortal ==
  ASSUME NEW P \in PortalType, NEW Q \in PortalType,
         P.conn = Q.conn, P.link = Q.link, P.dock = Q.dock, P.tasks = Q.tasks,
         P.participants = Q.participants, P.leaving = Q.leaving, P.wire = Q.wire
  PROVE  P = Q
  BY DEF PortalType

LEMMA NothingShrinks ==
  ASSUME NEW P \in PortalType
  PROVE  Shrinks(P, P) /\ (Owned(P) => Leaves(P, P, {}))
<1>1. Shrinks(P, P)
  BY DEF Shrinks, Lessens
<1> QED
  BY <1>1 DEF Leaves

(* Another record for a connection, or another link, or both.              *)
LEMMA ChangeForms ==
  ASSUME NEW P \in PortalType, NEW c \in Sockets, NEW K \in ConnectionType
  PROVE  /\ [P EXCEPT !.conn[c] = K] = Changed(P, c, K, P.link[c])
         /\ [Closed(P, c) EXCEPT !.conn[c] = K] = Changed(P, c, K, "closed")
         /\ Closed(P, c) = Changed(P, c, P.conn[c], "closed")
         /\ P.conn[c] \in ConnectionType /\ P.link[c] \in Links
<1> DEFINE Q == [P EXCEPT !.conn[c] = K]
           C == Closed(P, c)
           R == [C EXCEPT !.conn[c] = K]
<1>0. /\ P.link \in [Sockets -> Links] /\ P.link[c] \in Links /\ "closed" \in Links
      /\ P.conn \in [Sockets -> ConnectionType] /\ P.conn[c] \in ConnectionType
  BY DEF PortalType, Links
<1>1. Q = Changed(P, c, K, P.link[c])
  <2>1. /\ Q \in PortalType /\ Q.conn = [P.conn EXCEPT ![c] = K]
        /\ Q.dock = P.dock /\ Q.tasks = P.tasks /\ Q.link = P.link /\ Q.wire = P.wire
        /\ Q.participants = P.participants /\ Q.leaving = P.leaving
    BY WithConnection
  <2> HIDE DEF Q
  <2>2. P.link = [P.link EXCEPT ![c] = P.link[c]]
    BY <1>0
  <2> DEFINE S == Changed(P, c, K, P.link[c])
  <2>3. /\ S \in PortalType /\ S.conn = [P.conn EXCEPT ![c] = K] /\ S.link = [P.link EXCEPT ![c] = P.link[c]]
        /\ S.dock = P.dock /\ S.tasks = P.tasks /\ S.wire = P.wire
        /\ S.participants = P.participants /\ S.leaving = P.leaving
    BY <1>0, ChangedFacts
  <2> HIDE DEF S
  <2>4. Q = S
    BY <2>1, <2>2, <2>3, SamePortal
  <2> QED
    BY <2>4 DEF S
<1>2. /\ C \in PortalType /\ C.link = [P.link EXCEPT ![c] = "closed"]
      /\ C.dock = P.dock /\ C.tasks = P.tasks /\ C.conn = P.conn /\ C.wire = P.wire
      /\ C.participants = P.participants /\ C.leaving = P.leaving
  BY ClosedFacts
<1> HIDE DEF C
<1>3. /\ R \in PortalType /\ R.conn = [C.conn EXCEPT ![c] = K]
      /\ R.dock = C.dock /\ R.tasks = C.tasks /\ R.link = C.link /\ R.wire = C.wire
      /\ R.participants = C.participants /\ R.leaving = C.leaving
  BY <1>2, WithConnection
<1> HIDE DEF R
<1>4. R = Changed(P, c, K, "closed")
  BY <1>0, <1>2, <1>3, ChangedFacts, SamePortal
<1>5. P.conn = [P.conn EXCEPT ![c] = P.conn[c]]
  BY <1>0
<1>6. C = Changed(P, c, P.conn[c], "closed")
  BY <1>0, <1>2, <1>5, ChangedFacts, SamePortal
<1> QED
  BY <1>0, <1>1, <1>4, <1>6 DEF C, R

(* A socket is disconnected.                                               *)
LEMMA DisconnectLeaves ==
  ASSUME NEW P \in PortalType, NEW c \in Sockets
  PROVE  LET Q == Disconnect(P, c)
         IN /\ Shrinks(P, Q)
            /\ Owned(P) /\ WaitingAreClosed(P) =>
                 \E G \in SUBSET {p \in DOMAIN P.dock : P.dock[p].conn = c} : Leaves(P, Q, G)
            /\ Served(P) => Served(Q)
<1> DEFINE Q == Disconnect(P, c)
           C == P.conn[c]
           K == [C EXCEPT !.state = "waiting_for_reconnecting", !.timer = TRUE]
           O == {p \in DOMAIN P.dock : P.dock[p].conn = c}
<1>b. C \in ConnectionType
  BY DEF PortalType
<1>0. C \in ConnectionType /\ Closed(P, c) = Changed(P, c, C, "closed") /\ Closed(P, c).conn[c] = C
  BY <1>b, ChangeForms, ClosedFacts
<1>a. Ends(P, c, C, "closed")
  BY <1>0 DEF Ends, Lessens
<1>1. CASE P.link[c] \notin {"up", "broken"} /\ Q = P
  BY <1>1, NothingShrinks
<1>2. CASE /\ P.conn[c].state = "connected" /\ P.conn[c].enabled
           /\ Q = [Closed(P, c) EXCEPT !.conn[c] = [@ EXCEPT !.state = "waiting_for_reconnecting", !.timer = TRUE]]
  <2>1. K \in ConnectionType /\ K.enabled /\ K.timer /\ K.state \in InService
        /\ K.client = C.client /\ K.buffer = C.buffer /\ K.seq = C.seq
        /\ K.pending = C.pending /\ K.version = C.version
        /\ K.state = "waiting_for_reconnecting"
    BY <1>0, <1>2 DEF ConnectionType, States, InService
  <2>2. Q = [Closed(P, c) EXCEPT !.conn[c] = K]
    BY <1>0, <1>2
  <2> HIDE DEF K, Q
  <2>3. Q = Changed(P, c, K, "closed")
    BY <2>1, <2>2, ChangeForms
  <2>4. Ends(P, c, K, "closed")
    BY <1>2, <2>1 DEF Ends, Lessens, InService
  <2>5. Shrinks(P, Q)
    BY <2>3, <2>4, EndShrinks
  <2>6. Owned(P) => Leaves(P, Q, {})
    BY <2>1, <2>3, <2>4, EndLeaves
  <2>7. Served(P) => Served(Q)
    BY <2>3, <2>4, ChangedServed
  <2> QED
    BY <2>5, <2>6, <2>7 DEF Q
<1>3. CASE Q = ForceClientLeave(Closed(P, c), c)
  <2>1. Shrinks(P, Q) /\ (Owned(P) => Leaves(P, Q, O)) /\ (Served(P) => Served(Q))
    BY <1>0, <1>a, <1>3, EndAndLeave
  <2> QED
    BY <2>1
<1>4. CASE /\ P.link[c] \in {"up", "broken"} /\ P.conn[c].state \notin {"connecting", "connected"}
           /\ Q = Closed(P, c)
  <2>1. Shrinks(P, Q)
    BY <1>0, <1>a, <1>4, EndShrinks
  <2>2. ASSUME Owned(P), WaitingAreClosed(P)
        PROVE  Leaves(P, Q, {})
    <3>1. C.state # "waiting_for_reconnecting"
      BY <1>4, <2>2 DEF WaitingAreClosed
    <3>2. ~\E p \in DOMAIN P.dock : P.dock[p].conn = c
      BY <1>4, <2>2, <3>1 DEF Owned, InService
    <3> QED
      BY <1>0, <1>a, <1>4, <2>2, <3>2, EndLeaves
  <2>3. Served(P) => Served(Q)
    BY <1>0, <1>a, <1>4, ChangedServed
  <2> QED
    BY <2>1, <2>2, <2>3
<1> QED
  BY <1>1, <1>2, <1>3, <1>4, DisconnectFacts

(* A connection is closed; nobody leaves if it is nobody's.                *)
LEMMA CloseLeaves ==
  ASSUME NEW P \in PortalType, NEW c \in Sockets
  PROVE  LET Q == Close(P, c, FALSE)
         IN /\ Shrinks(P, Q)
            /\ Owned(P) /\ WaitingAreClosed(P) /\ P.conn[c].state \notin InService => Leaves(P, Q, {})
            /\ Served(P) => Served(Q)
<1> DEFINE K == [P.conn[c] EXCEPT !.timer = FALSE]
           T == Changed(P, c, K, P.link[c])
           D == Disconnect(T, c)
           L == [D.conn[c] EXCEPT !.enabled = FALSE]
           Q == Changed(D, c, L, D.link[c])
<1>1. P.conn[c] \in ConnectionType /\ P.conn \in [Sockets -> ConnectionType] /\ P.link[c] \in Links
  BY DEF PortalType
<1>2. K \in ConnectionType /\ K.state = P.conn[c].state /\ Ends(P, c, K, P.link[c])
  BY <1>1 DEF ConnectionType, Ends, Lessens
<1>3. [P EXCEPT !.conn[c].timer = FALSE] = [P EXCEPT !.conn[c] = K]
  OBVIOUS
<1> HIDE DEF K
<1>4. [P EXCEPT !.conn[c].timer = FALSE] = T
  BY <1>2, <1>3, ChangeForms
<1>5. Shrinks(P, T) /\ T \in PortalType
  BY <1>2, EndShrinks DEF Shrinks
<1>6. T.conn = [P.conn EXCEPT ![c] = K] /\ T.link = [P.link EXCEPT ![c] = P.link[c]] /\ T.dock = P.dock
  BY <1>1, <1>2, ChangedFacts
<1> HIDE DEF T
<1>7. Shrinks(T, D) /\ D \in PortalType
  BY <1>5, DisconnectLeaves DEF Shrinks
<1> HIDE DEF D
<1>8. D.conn[c] \in ConnectionType
  BY <1>7 DEF PortalType
<1>9. L \in ConnectionType /\ L.state = D.conn[c].state /\ Ends(D, c, L, D.link[c])
  BY <1>8 DEF ConnectionType, Ends, Lessens
<1>10. [D EXCEPT !.conn[c].enabled = FALSE] = [D EXCEPT !.conn[c] = L]
  OBVIOUS
<1> HIDE DEF L
<1>11. [D EXCEPT !.conn[c].enabled = FALSE] = Q
  BY <1>7, <1>9, <1>10, ChangeForms
<1>12. Shrinks(D, Q)
  BY <1>7, <1>9, EndShrinks
<1> HIDE DEF Q
<1>13. Close(P, c, FALSE) = Q
  BY <1>4, <1>11 DEF Close, D
<1>14. Shrinks(P, Q)
  BY <1>5, <1>7, <1>12, ShrinksTransitive
<1>15. ASSUME Owned(P), WaitingAreClosed(P), P.conn[c].state \notin InService
       PROVE  Leaves(P, Q, {})
  <2>1. ~\E p \in DOMAIN P.dock : P.dock[p].conn = c
    BY <1>15 DEF Owned
  <2>2. Leaves(P, T, {})
    BY <1>2, <1>15, <2>1, EndLeaves DEF T
  <2>3. WaitingAreClosed(T)
    BY <1>1, <1>2, <1>6, <1>15 DEF WaitingAreClosed, InService
  <2>4. {p \in DOMAIN T.dock : T.dock[p].conn = c} = {}
    BY <1>6, <2>1
  <2>5. Leaves(T, D, {})
    <3>1. Owned(T)
      BY <2>2 DEF Leaves
    <3>2. \E G \in SUBSET {p \in DOMAIN T.dock : T.dock[p].conn = c} : Leaves(T, D, G)
      BY <1>5, <2>3, <3>1, DisconnectLeaves DEF D
    <3> QED
      BY <2>4, <3>2
  <2>6. ~\E p \in DOMAIN D.dock : D.dock[p].conn = c
    BY <1>6, <1>7, <2>1 DEF Shrinks
  <2>7. Leaves(D, Q, {})
    <3>1. Owned(D)
      BY <2>5 DEF Leaves
    <3> QED
      BY <1>7, <1>9, <2>6, <3>1, EndLeaves DEF Q
  <2>8. Leaves(P, D, {} \cup {})
    BY <1>5, <2>2, <2>5, LeavesTransitive
  <2>9. Shrinks(P, D)
    BY <1>5, <1>7, ShrinksTransitive
  <2>10. Leaves(P, Q, ({} \cup {}) \cup {})
    BY <2>7, <2>8, <2>9, LeavesTransitive
  <2> QED
    BY <2>10
<1>16. ASSUME Served(P)
       PROVE  Served(Q)
  <2>1. Served(T)
    BY <1>2, <1>16, ChangedServed DEF T
  <2>2. Served(D)
    BY <1>5, <2>1, DisconnectLeaves DEF D
  <2> QED
    BY <1>7, <1>9, <2>2, ChangedServed DEF Q
<1> QED
  BY <1>13, <1>14, <1>15, <1>16

-----------------------------------------------------------------------------
(* A step in which connections and clients only end keeps the invariant,   *)
(* given what the conference still knows.                                  *)

JoinsAmong(Rest) ==
  \A d \in Rest : d.call = "join" =>
    \E e \in calls : e.call = "join" /\ e.id = d.id /\ e.token = d.token /\ (d.waited => e = d)

Ending(Q, Rest) ==
  /\ Shrinks(portal, Q) /\ (Clean => \E G : Leaves(portal, Q, G))
  /\ Served(portal) => Served(Q)
  /\ Becomes(Q, Rest)
  /\ past.mishaps \subseteq past'.mishaps /\ past'.logins = past.logins /\ DOMAIN past' = DOMAIN past
  /\ bound' = bound /\ joined' \subseteq joined
  /\ DOMAIN clients' = DOMAIN clients /\ clients'.tickets \subseteq Sockets /\ clients'.sent = clients.sent
  /\ Rest \subseteq Calls /\ JoinsAmong(Rest)

(* What such a step does to connections and clients.                       *)
Quiet ==
  /\ \A p \in DOMAIN portal'.dock : p \in DOMAIN portal.dock /\ portal'.dock[p] = portal.dock[p]
  /\ \A c \in Sockets :
       /\ Lessens(portal.conn[c], portal'.conn[c])
       /\ portal'.link[c] \in {portal.link[c], "closed"}
  /\ Served(portal) => Served(portal')

LEMMA LeaveCalls ==
  ASSUME NEW Q, NEW Rest, Becomes(Q, Rest)
  PROVE  \A d \in calls' : d.call = "join" => d \in Rest
  BY DEF Becomes

LEMMA EndedWaited ==
  ASSUME NEW Q, NEW Rest, Ending(Q, Rest), NEW c
  PROVE  Waited(c)' \subseteq Waited(c)
  BY LeaveCalls DEF Ending, Waited, JoinsAmong

LEMMA BecomesFacts ==
  ASSUME NEW Q \in PortalType, NEW Rest, Becomes(Q, Rest)
  PROVE  /\ portal' \in PortalType /\ portal'.leaving = {}
         /\ portal'.conn = Q.conn /\ portal'.link = Q.link /\ portal'.dock = Q.dock
         /\ portal'.tasks = Q.tasks /\ portal'.participants = Q.participants /\ portal'.wire = Q.wire
         /\ Owned(Q) => Owned(portal')
         /\ Awaited(Q) => Awaited(portal')
         /\ WaitingAreClosed(Q) => WaitingAreClosed(portal')
<1>1. /\ portal' \in PortalType /\ portal'.leaving = {}
      /\ portal'.conn = Q.conn /\ portal'.link = Q.link /\ portal'.dock = Q.dock
      /\ portal'.tasks = Q.tasks /\ portal'.participants = Q.participants /\ portal'.wire = Q.wire
  BY DEF Becomes, PortalType
<1> QED
  BY <1>1 DEF Owned, Awaited, WaitingAreClosed

LEMMA EndedQuiet ==
  ASSUME NEW Q, NEW Rest, Ending(Q, Rest)
  PROVE  Quiet
<1>1. portal'.conn = Q.conn /\ portal'.link = Q.link /\ portal'.dock = Q.dock
  BY BecomesFacts DEF Ending, Shrinks
<1> QED
  BY <1>1 DEF Ending, Shrinks, Quiet, Served

LEMMA LeaveType ==
  ASSUME NEW Q \in PortalType, NEW Rest, Rest \subseteq Calls, Becomes(Q, Rest)
  PROVE  calls' \subseteq Calls
<1>1. Q.leaving \subseteq Sockets
  BY DEF PortalType
<1> QED
  BY <1>1 DEF Becomes, Calls

LEMMA EndedTypes ==
  ASSUME IInv, NEW Q, NEW Rest, Ending(Q, Rest)
  PROVE  Types'
<1>1. /\ Q \in PortalType /\ Q.wire = <<>> /\ Becomes(Q, Rest)
      /\ \A c \in Sockets : Q.conn[c].buffer = portal.conn[c].buffer /\ Q.conn[c].seq = portal.conn[c].seq
  BY DEF Ending, Shrinks, Lessens, IInv, Types
<1>2. /\ portal' \in PortalType /\ portal'.leaving = {} /\ portal'.wire = <<>>
      /\ \A c \in Sockets : Len(portal'.conn[c].buffer) <= portal'.conn[c].seq
  <2>1. \A c \in Sockets : Len(portal.conn[c].buffer) <= portal.conn[c].seq
    BY DEF IInv, Types
  <2>2. portal' \in PortalType /\ portal'.leaving = {} /\ portal'.wire = Q.wire /\ portal'.conn = Q.conn
    BY <1>1, BecomesFacts
  <2> QED
    BY <1>1, <2>1, <2>2
<1>3. calls' \subseteq Calls
  BY <1>1, LeaveType DEF Ending
<1> QED
  BY <1>2, <1>3 DEF Ending, IInv, Types

LEMMA Ended ==
  ASSUME IInv, NEW Q, NEW Rest, Ending(Q, Rest), LoginsOpen', ConferenceFollows'
  PROVE  IInv' /\ Quiet
<1>0. Q \in PortalType /\ Becomes(Q, Rest)
  BY DEF Ending, Shrinks
<1> USE DEF IInv
<1>1. Types'
  BY EndedTypes
<1>2. Clean' => Clean
  BY DEF Clean, Ending
<1>3. Timely' => Timely
  BY DEF Timely, Ending
<1>4. Timely => Clean
  BY DEF Timely, Clean
<1>5. (Clean => Owned(portal))'
  BY <1>0, <1>2, BecomesFacts DEF Ending, Leaves
<1>6. (Timely => Awaited(portal))'
  BY <1>0, <1>3, <1>4, BecomesFacts DEF Ending, Leaves
<1>7. WaitingAreClosed(portal)'
  <2>1. WaitingAreClosed(Q)
    BY DEF Ending, Shrinks, WaitingAreClosed
  <2> QED
    BY <1>0, <2>1, BecomesFacts DEF WaitingAreClosed
<1>8. LoginsNamed'
  BY <1>0, BecomesFacts DEF LoginsNamed, Ending, Shrinks, Lessens
<1>9. LoginsApart'
  <2> SUFFICES ASSUME Clean', NEW c \in Sockets, NEW d \in Waited(c)'
               PROVE  /\ Waited(c)' = {d}
                      /\ portal'.conn[c].state \notin InService /\ c \notin DOMAIN portal'.dock
    BY DEF LoginsApart
  <2>1. d \in Waited(c) /\ Waited(c)' \subseteq Waited(c)
    BY EndedWaited
  <2>2. /\ Waited(c) = {d}
        /\ portal.conn[c].state \notin InService /\ c \notin DOMAIN portal.dock
    BY <1>2, <2>1 DEF LoginsApart
  <2>3. Waited(c)' = {d}
    BY <2>1, <2>2
  <2> QED
    BY <1>0, <2>2, <2>3, BecomesFacts DEF Ending, Shrinks, Lessens
<1>10. Participants'
  BY <1>0, <1>2, BecomesFacts DEF Participants, Ending, Leaves
<1>11. TokensOwn'
  <2>1. \A d \in calls' : d.call = "join" => d.token <= past'.logins
    BY LeaveCalls DEF Ending, JoinsAmong, TokensOwn
  <2>2. \A p \in DOMAIN portal'.dock : portal'.dock[p].token <= past'.logins
    BY <1>0, BecomesFacts DEF Ending, Shrinks, TokensOwn
  <2>3. \A d, e \in calls' : d.call = "join" /\ e.call = "join" /\ d.token = e.token => d.id = e.id
    BY LeaveCalls DEF Ending, JoinsAmong, TokensOwn
  <2> QED
    BY <2>1, <2>2, <2>3 DEF TokensOwn
<1>12. TasksOwned'
  <2> SUFFICES ASSUME Clean'
               PROVE  /\ portal'.tasks = {portal'.dock[p].token : p \in DOMAIN portal'.dock}
                      /\ \A p, q \in DOMAIN portal'.dock : portal'.dock[p].token = portal'.dock[q].token => p = q
                      /\ \A d \in calls', p \in DOMAIN portal'.dock :
                           d.call = "join" /\ d.waited => d.token # portal'.dock[p].token
    BY DEF TasksOwned
  <2>0. PICK G : Leaves(portal, Q, G)
    BY <1>2 DEF Ending
  <2>a. DOMAIN Q.dock = DOMAIN portal.dock \ G /\ \A p \in DOMAIN Q.dock : Q.dock[p] = portal.dock[p]
    BY <2>0 DEF Ending, Leaves, Shrinks
  <2>1. /\ portal.tasks = {portal.dock[p].token : p \in DOMAIN portal.dock}
        /\ \A p, q \in DOMAIN portal.dock : portal.dock[p].token = portal.dock[q].token => p = q
        /\ \A d \in calls, p \in DOMAIN portal.dock : d.call = "join" /\ d.waited => d.token # portal.dock[p].token
    BY <1>2 DEF TasksOwned
  <2>2. Q.tasks = {Q.dock[p].token : p \in DOMAIN Q.dock}
    <3>1. Q.tasks = portal.tasks \ {portal.dock[p].token : p \in G} /\ G \subseteq DOMAIN portal.dock
      BY <2>0 DEF Leaves
    <3> QED
      BY <2>1, <2>a, <3>1
  <2>3. \A d \in calls' : d.call = "join" /\ d.waited => d \in calls
    BY LeaveCalls DEF Ending, JoinsAmong
  <2>4. portal'.dock = Q.dock /\ portal'.tasks = Q.tasks
    BY <1>0, BecomesFacts
  <2> QED
    BY <2>a, <2>1, <2>2, <2>3, <2>4
<1> QED
  BY <1>1, <1>5, <1>6, <1>7, <1>8, <1>9, <1>10, <1>11, <1>12, EndedQuiet

(* The conference follows if only clients leave, and whoever it forgets    *)
(* leaves too.                                                             *)
LEMMA EndedFollows ==
  ASSUME IInv, NEW Q, NEW Rest, Ending(Q, Rest), Undisturbed',
         NEW G, Leaves(portal, Q, G), Rest \subseteq calls,
         \A d \in calls : d.call \in {"join", "leave"} => d \in Rest,
         portal.participants \cap (joined \ joined') \subseteq G,
         [call |-> "conference_lost"] \in Rest \/ portal.participants \subseteq G \/ [call |-> "conference_lost"] \notin calls
  PROVE  ConferenceFollows'
<1>0. Undisturbed /\ Clean
  BY DEF Undisturbed, Clean, Ending
<1>1. /\ \A d \in calls : d.call = "join" => d.waited
      /\ \A p \in portal.participants : p \in joined \/ [call |-> "conference_lost"] \in calls
      /\ \A p \in Sockets : [call |-> "leave", id |-> p] \in calls =>
           /\ p \notin portal.participants
           /\ \A d \in Waited(p) : d.step # "joined"
      /\ \A p \in joined : \/ p \in portal.participants
                           \/ [call |-> "leave", id |-> p] \in calls
                           \/ \E d \in Waited(p) : d.step = "joined"
  BY <1>0 DEF IInv, ConferenceFollows
<1>2. /\ portal'.participants = portal.participants \ G /\ G \subseteq DOMAIN portal.dock
      /\ Q.leaving = portal.participants \cap G
  BY BecomesFacts DEF Ending, Shrinks, Leaves, IInv, Types
<1>3. calls' = Rest \cup {[call |-> "leave", id |-> p] : p \in portal.participants \cap G}
  BY <1>2 DEF Ending, Becomes
<1>4. /\ \A d \in calls' : d.call # "leave" => d \in Rest
      /\ \A p : [call |-> "leave", id |-> p] \in calls' =>
           [call |-> "leave", id |-> p] \in calls \/ p \in portal.participants \cap G
      /\ [call |-> "conference_lost"] \in Rest => [call |-> "conference_lost"] \in calls'
  <2>1. \A d \in calls' : d.call # "leave" => d \in Rest
    BY <1>3
  <2>2. ASSUME NEW p, [call |-> "leave", id |-> p] \in calls'
        PROVE  [call |-> "leave", id |-> p] \in calls \/ p \in portal.participants \cap G
    <3>1. CASE [call |-> "leave", id |-> p] \in Rest
      BY <3>1
    <3>2. ASSUME NEW q \in portal.participants \cap G,
                 [call |-> "leave", id |-> p] = [call |-> "leave", id |-> q]
          PROVE  p = q
      BY <3>2
    <3> QED
      BY <1>3, <2>2, <3>1, <3>2
  <2> QED
    BY <1>3, <2>1, <2>2
<1>5. \A p : Waited(p)' = Waited(p)
  BY <1>3, <1>4 DEF Waited
<1>6. \A d \in calls' : d.call = "join" => d.waited
  BY <1>1, <1>4
<1>7. \A p \in portal'.participants : p \in joined' \/ [call |-> "conference_lost"] \in calls'
  BY <1>1, <1>2, <1>4 DEF Ending
<1>8. \A p \in Sockets : [call |-> "leave", id |-> p] \in calls' =>
        /\ p \notin portal'.participants
        /\ \A d \in Waited(p)' : d.step # "joined"
  <2> SUFFICES ASSUME NEW p \in Sockets, [call |-> "leave", id |-> p] \in calls'
               PROVE  p \notin portal'.participants /\ \A d \in Waited(p)' : d.step # "joined"
    OBVIOUS
  <2>1. CASE [call |-> "leave", id |-> p] \in calls
    BY <1>1, <1>2, <1>5, <2>1
  <2>2. CASE p \in portal.participants \cap G
    BY <1>0, <1>2, <1>5, <2>2 DEF IInv, LoginsApart
  <2> QED
    BY <1>4, <2>1, <2>2
<1>9. \A p \in joined' : \/ p \in portal'.participants
                         \/ [call |-> "leave", id |-> p] \in calls'
                         \/ \E d \in Waited(p)' : d.step = "joined"
  BY <1>1, <1>2, <1>3, <1>5 DEF Ending
<1> QED
  BY <1>6, <1>7, <1>8, <1>9 DEF ConferenceFollows

(* The steps that only end something and whose calls are all that changes  *)
(* besides.                                                                *)
LEMMA PlainEnd ==
  ASSUME IInv, NEW Q, NEW Rest, Ending(Q, Rest), Rest \subseteq calls,
         \A d \in calls : d.call \in {"join", "leave"} => d \in Rest,
         \A c \in Sockets : Timely' /\ Q.conn[c].state = "connecting" => Q.link[c] = portal.link[c],
         Undisturbed' => \A G : Leaves(portal, Q, G) =>
           /\ portal.participants \cap (joined \ joined') \subseteq G
           /\ \/ [call |-> "conference_lost"] \in Rest \/ portal.participants \subseteq G
              \/ [call |-> "conference_lost"] \notin calls
  PROVE  IInv' /\ Quiet
<1>1. LoginsOpen'
  <2> SUFFICES ASSUME Timely', NEW c \in Sockets, portal'.conn[c].state = "connecting"
               PROVE  portal'.link[c] # "closed"
    BY DEF LoginsOpen
  <2>1. portal'.conn = Q.conn /\ portal'.link = Q.link
    BY BecomesFacts DEF Ending, Shrinks
  <2>2. portal.conn[c].state = "connecting" /\ Timely
    BY <2>1 DEF Ending, Shrinks, Lessens, Timely
  <2> QED
    BY <2>1, <2>2 DEF IInv, LoginsOpen
<1>2. ConferenceFollows'
  <2>1. CASE Undisturbed'
    <3>1. Clean
      BY <2>1 DEF Undisturbed, Clean, Ending
    <3>2. PICK G : Leaves(portal, Q, G)
      BY <3>1 DEF Ending
    <3> QED
      BY <2>1, <3>2, EndedFollows
  <2>2. CASE ~Undisturbed'
    BY <2>2 DEF ConferenceFollows
  <2> QED
    BY <2>1, <2>2
<1> QED
  BY <1>1, <1>2, Ended

(* ... and the calls are the same.                                         *)
LEMMA JustEnds ==
  ASSUME IInv, NEW Q, Shrinks(portal, Q), Clean => \E G : Leaves(portal, Q, G), Becomes(Q, calls),
         Served(portal) => Served(Q),
         UNCHANGED <<joined, clients, bound>>,
         past.mishaps \subseteq past'.mishaps, past'.logins = past.logins, DOMAIN past' = DOMAIN past,
         \A c \in Sockets : Timely' /\ Q.conn[c].state = "connecting" => Q.link[c] = portal.link[c]
  PROVE  IInv' /\ Quiet
<1>1. calls \subseteq Calls /\ JoinsAmong(calls)
  BY DEF IInv, Types, JoinsAmong
<1>2. Ending(Q, calls)
  BY <1>1 DEF Ending, IInv, Types
<1>3. \A G : [call |-> "conference_lost"] \in calls \/ portal.participants \subseteq G
             \/ [call |-> "conference_lost"] \notin calls
  OBVIOUS
<1> QED
  BY <1>2, <1>3, PlainEnd

LEMMA ForceClientLeaveLinks ==
  ASSUME NEW P \in PortalType, NEW c \in Sockets
  PROVE  ForceClientLeave(P, c).link = P.link
  BY ForceClientLeaveFacts

LEMMA DisconnectLinks ==
  ASSUME NEW P \in PortalType, NEW c \in Sockets, NEW d \in Sockets, d # c
  PROVE  Disconnect(P, c).link[d] = P.link[d]
<1>0. P.link \in [Sockets -> Links] /\ P.conn[c] \in ConnectionType
  BY DEF PortalType
<1>1. /\ Closed(P, c) \in PortalType /\ Closed(P, c).link[d] = P.link[d]
      /\ Closed(P, c).conn[c] \in ConnectionType
  BY <1>0, ClosedFacts
<1>2. ForceClientLeave(Closed(P, c), c).link[d] = P.link[d]
  BY <1>1, ForceClientLeaveLinks
<1>3. [Closed(P, c) EXCEPT !.conn[c] = [@ EXCEPT !.state = "waiting_for_reconnecting", !.timer = TRUE]].link[d] = P.link[d]
  BY <1>1 DEF PortalType
<1> QED
  BY <1>1, <1>2, <1>3, DisconnectFacts

LEMMA LogoutStep ==
  ASSUME IInv, NEW c \in Sockets, Logout(c)
  PROVE  IInv' /\ Quiet
<1> DEFINE K == [portal.conn[c] EXCEPT !.enabled = FALSE, !.state = "initialized"]
           R == [portal EXCEPT !.conn[c].enabled = FALSE, !.conn[c].state = "initialized"]
           Q == ForceClientLeave(R, c)
<1>1. /\ portal \in PortalType /\ portal.conn \in [Sockets -> ConnectionType]
      /\ portal.conn[c] \in ConnectionType /\ portal.link[c] \in Links
  BY DEF IInv, Types, PortalType
<1>2. K \in ConnectionType /\ K.state = "initialized" /\ Ends(portal, c, K, portal.link[c])
  BY <1>1 DEF ConnectionType, Ends, Lessens, States, InService
<1>3. R = [portal EXCEPT !.conn[c] = K]
  BY <1>1 DEF PortalType
<1> HIDE DEF K, R
<1>4. R = Changed(portal, c, K, portal.link[c])
  BY <1>1, <1>2, <1>3, ChangeForms
<1>5. Shrinks(portal, Q) /\ (Clean => \E G : Leaves(portal, Q, G)) /\ (Served(portal) => Served(Q))
  BY <1>1, <1>2, <1>4, EndAndLeave DEF IInv
<1>6. R \in PortalType /\ R.link = portal.link
  BY <1>1, <1>2, <1>3, WithConnection
<1>7. Q.link = portal.link
  BY <1>6, ForceClientLeaveLinks
<1>8. Becomes(Q, calls) /\ UNCHANGED <<joined, clients, past, bound>>
  BY DEF Logout, R
<1> QED
  BY <1>5, <1>7, <1>8, JustEnds

LEMMA WaitingTimeoutStep ==
  ASSUME IInv, NEW c \in Sockets, WaitingTimeout(c)
  PROVE  IInv' /\ Quiet
<1> DEFINE K == [portal.conn[c] EXCEPT !.timer = FALSE]
           R == [portal EXCEPT !.conn[c].timer = FALSE]
           Q == ForceClientLeave(R, c)
<1>1. /\ portal \in PortalType /\ portal.conn \in [Sockets -> ConnectionType]
      /\ portal.conn[c] \in ConnectionType /\ portal.link[c] \in Links
  BY DEF IInv, Types, PortalType
<1>2. K \in ConnectionType /\ Ends(portal, c, K, portal.link[c])
  BY <1>1 DEF ConnectionType, Ends, Lessens
<1>3. R = [portal EXCEPT !.conn[c] = K]
  BY <1>1 DEF PortalType
<1> HIDE DEF K, R
<1>4. R = Changed(portal, c, K, portal.link[c])
  BY <1>1, <1>2, <1>3, ChangeForms
<1>5. Shrinks(portal, Q) /\ (Clean => \E G : Leaves(portal, Q, G)) /\ (Served(portal) => Served(Q))
  BY <1>1, <1>2, <1>4, EndAndLeave DEF IInv
<1>6. R \in PortalType /\ R.link = portal.link
  BY <1>1, <1>2, <1>3, WithConnection
<1>7. Q.link = portal.link
  BY <1>6, ForceClientLeaveLinks
<1>8. Becomes(Q, calls) /\ UNCHANGED <<joined, clients, past, bound>>
  BY DEF WaitingTimeout, R
<1> QED
  BY <1>5, <1>7, <1>8, JustEnds

LEMMA NotedFacts ==
  ASSUME IInv, NEW X, Noting(X)
  PROVE  /\ past'.mishaps = past.mishaps \cup X
         /\ past'.logins = past.logins /\ DOMAIN past' = DOMAIN past
  BY DEF IInv, Types, Noting

LEMMA DisconnectedStep ==
  ASSUME IInv, NEW c \in Sockets, Disconnected(c)
  PROVE  IInv' /\ Quiet
<1> DEFINE Q == Disconnect(portal, c)
<1>1. portal \in PortalType
  BY DEF IInv, Types
<1>2. Shrinks(portal, Q) /\ (Clean => \E G : Leaves(portal, Q, G)) /\ (Served(portal) => Served(Q))
  BY <1>1, DisconnectLeaves DEF IInv
<1>3. /\ past.mishaps \subseteq past'.mishaps /\ past'.logins = past.logins /\ DOMAIN past' = DOMAIN past
      /\ portal.conn[c].state = "connecting" => ~Timely'
  BY NotedFacts DEF Disconnected, Timely
<1>4. \A d \in Sockets : Timely' /\ Q.conn[d].state = "connecting" => Q.link[d] = portal.link[d]
  BY <1>1, <1>2, <1>3, DisconnectLinks DEF Shrinks, Lessens
<1>5. Becomes(Q, calls) /\ UNCHANGED <<joined, clients, bound>>
  BY DEF Disconnected
<1> HIDE DEF Q
<1> QED
  BY <1>2, <1>3, <1>4, <1>5, JustEnds

LEMMA CloseLinks ==
  ASSUME NEW P \in PortalType, NEW c \in Sockets, NEW d \in Sockets, d # c
  PROVE  Close(P, c, FALSE).link[d] = P.link[d]
<1> DEFINE K == [P.conn[c] EXCEPT !.timer = FALSE]
           T == [P EXCEPT !.conn[c].timer = FALSE]
           D == Disconnect(T, c)
<1>1. P.conn[c] \in ConnectionType
  BY DEF PortalType
<1>2. K \in ConnectionType /\ T = [P EXCEPT !.conn[c] = K]
  BY <1>1 DEF ConnectionType
<1> HIDE DEF K, T
<1>3. T \in PortalType /\ T.link = P.link
  BY <1>2, WithConnection
<1>4. D \in PortalType /\ D.link[d] = P.link[d]
  BY <1>3, DisconnectLinks, DisconnectLeaves DEF Shrinks
<1>5. [D EXCEPT !.conn[c].enabled = FALSE].link = D.link
  BY <1>4 DEF PortalType
<1> QED
  BY <1>4, <1>5 DEF Close, T

LEMMA NotInServiceStep ==
  ASSUME IInv, NEW c \in Sockets, NotInService(c)
  PROVE  IInv' /\ Quiet
<1> DEFINE Q == Close(portal, c, FALSE)
<1>1. portal \in PortalType /\ portal.conn[c].state = "initialized"
  BY DEF IInv, Types, NotInService
<1>2. portal.conn[c].state \notin InService
  BY <1>1 DEF InService
<1>3. Shrinks(portal, Q) /\ (Clean => Leaves(portal, Q, {})) /\ (Served(portal) => Served(Q))
  BY <1>1, <1>2, CloseLeaves DEF IInv
<1>4. \A d \in Sockets : Q.conn[d].state = "connecting" => Q.link[d] = portal.link[d]
  BY <1>1, <1>3, CloseLinks DEF Shrinks, Lessens
<1>5. Becomes(Q, calls) /\ UNCHANGED <<joined, clients, past, bound>>
  BY DEF NotInService
<1> HIDE DEF Q
<1> QED
  BY <1>3, <1>4, <1>5, JustEnds

LEMMA ShrinksWaiting ==
  ASSUME NEW P, NEW Q, Shrinks(P, Q), WaitingAreClosed(P)
  PROVE  WaitingAreClosed(Q)
  BY DEF Shrinks, WaitingAreClosed

LEMMA ReloginFailedStep ==
  ASSUME IInv, NEW c \in Sockets, NEW p \in Sockets, ReloginFailed(c, p)
  PROVE  IInv' /\ Quiet
<1> DEFINE there == p \in DOMAIN portal.dock
           old == portal.dock[p].conn
           K == [portal.conn[old] EXCEPT !.timer = FALSE]
           P == IF there THEN [portal EXCEPT !.conn[old].timer = FALSE] ELSE portal
           F == ForceClientLeave(P, c)
           Q == Disconnect(F, c)
<1>1. /\ portal \in PortalType /\ portal.conn \in [Sockets -> ConnectionType]
      /\ portal.conn[c].state = "initialized" /\ (there => ~portal.conn[old].enabled)
      /\ Becomes(Q, calls) /\ UNCHANGED <<joined, clients, past, bound>>
  BY DEF IInv, Types, PortalType, ReloginFailed
<1>2. /\ Shrinks(portal, P) /\ (Clean => Leaves(portal, P, {})) /\ P.link = portal.link
      /\ Served(portal) => Served(P)
  <2>1. CASE there
    <3>1. old \in Sockets
      BY <1>1, <2>1, DockType
    <3>2. portal.conn[old] \in ConnectionType /\ portal.link[old] \in Links
      BY <1>1, <3>1 DEF PortalType
    <3>3. /\ K \in ConnectionType /\ Ends(portal, old, K, portal.link[old])
          /\ K.state = portal.conn[old].state
      BY <3>2 DEF ConnectionType, Ends, Lessens
    <3>4. P = [portal EXCEPT !.conn[old] = K]
      BY <2>1
    <3> HIDE DEF K, P
    <3>a. P.link = portal.link
      BY <1>1, <3>1, <3>3, <3>4, WithConnection
    <3>b. P = Changed(portal, old, K, portal.link[old])
      BY <1>1, <3>1, <3>3, <3>4, ChangeForms
    <3>5. P = Changed(portal, old, K, portal.link[old]) /\ P.link = portal.link
      BY <3>a, <3>b
    <3>6. Shrinks(portal, P) /\ (Served(portal) => Served(P))
      BY <1>1, <3>1, <3>3, <3>5, EndShrinks, ChangedServed
    <3>7. ASSUME Clean
          PROVE  Leaves(portal, P, {})
      <4>1. Owned(portal)
        BY <3>7 DEF IInv
      <4>2. K.state \in InService
        BY <2>1, <3>3, <4>1 DEF Owned
      <4>3. portal.link[old] = "closed" => ~Awaited(portal)
        BY <1>1, <2>1 DEF Awaited
      <4> QED
        BY <1>1, <3>1, <3>3, <3>5, <4>1, <4>2, <4>3, EndLeaves
    <3> QED
      BY <3>5, <3>6, <3>7
  <2>2. CASE ~there
    BY <1>1, <2>2, NothingShrinks DEF IInv
  <2> QED
    BY <2>1, <2>2
<1> HIDE DEF P
<1>3. P \in PortalType
  BY <1>2 DEF Shrinks
<1>4. Shrinks(P, F) /\ F \in PortalType /\ F.link = P.link
  BY <1>3, ForceClientLeaveShrinks, ForceClientLeaveLinks DEF Shrinks
<1>5. Shrinks(F, Q) /\ \A d \in Sockets : d # c => Q.link[d] = F.link[d]
  <2> HIDE DEF F
  <2> QED
    BY <1>4, DisconnectLeaves, DisconnectLinks
<1>a. Served(portal) => Served(Q)
  <2>1. Served(P) => Served(F)
    BY <1>3, ForceClientLeaveServed
  <2> HIDE DEF F
  <2> QED
    BY <1>2, <1>4, <2>1, DisconnectLeaves
<1>6. Shrinks(portal, F) /\ Shrinks(portal, Q)
  BY <1>2, <1>4, <1>5, ShrinksTransitive
<1>7. ASSUME Clean
      PROVE  \E G : Leaves(portal, Q, G)
  <2>1. Leaves(portal, P, {}) /\ Owned(P)
    BY <1>2, <1>7 DEF Leaves
  <2>2. PICK G : Leaves(P, F, G)
    BY <1>3, <2>1, ForceClientLeaveLeaves DEF Owned
  <2>3. Owned(F) /\ WaitingAreClosed(F)
    BY <1>6, <2>2, ShrinksWaiting DEF Leaves, IInv
  <2> HIDE DEF F
  <2>4. PICK H : Leaves(F, Q, H)
    BY <1>4, <2>3, DisconnectLeaves
  <2> HIDE DEF Q
  <2>5. Leaves(portal, F, {} \cup G)
    BY <1>2, <2>1, <2>2, LeavesTransitive
  <2>6. Leaves(portal, Q, ({} \cup G) \cup H)
    BY <1>6, <2>4, <2>5, LeavesTransitive
  <2> QED
    BY <2>6
<1>8. \A d \in Sockets : Q.conn[d].state = "connecting" => Q.link[d] = portal.link[d]
  BY <1>1, <1>2, <1>4, <1>5, <1>6 DEF Shrinks, Lessens
<1> HIDE DEF Q
<1> QED
  BY <1>1, <1>6, <1>7, <1>8, <1>a, JustEnds

LEMMA NotJoinedStep ==
  ASSUME IInv, NEW d \in calls, NotJoined(d)
  PROVE  IInv' /\ Quiet
<1> DEFINE c == d.id
           K == [portal.conn[c] EXCEPT !.state = "initialized"]
           R == [portal EXCEPT !.conn[c].state = "initialized"]
           Q == Disconnect(R, c)
<1>1. /\ d.call = "join" /\ d.waited /\ portal' = Q /\ UNCHANGED <<joined, clients, bound>>
      /\ portal \in PortalType /\ portal.conn \in [Sockets -> ConnectionType]
      /\ portal.leaving = {} /\ calls \subseteq Calls
  BY DEF IInv, Types, PortalType, NotJoined
<1>2. d \in JoinCalls /\ c \in Sockets
  BY <1>1 DEF Calls, JoinCalls
<1>3. portal.conn[c] \in ConnectionType /\ portal.link[c] \in Links
  BY <1>1, <1>2 DEF PortalType
<1>4. K \in ConnectionType /\ K.state = "initialized" /\ Ends(portal, c, K, portal.link[c])
  BY <1>3 DEF ConnectionType, Ends, Lessens, States, InService
<1>5. R = [portal EXCEPT !.conn[c] = K]
  OBVIOUS
<1> HIDE DEF K, R, c
<1>6. /\ R = Changed(portal, c, K, portal.link[c]) /\ R \in PortalType /\ R.link = portal.link
      /\ R.conn = [portal.conn EXCEPT ![c] = K] /\ R.dock = portal.dock /\ R.leaving = portal.leaving
  <2>1. R = Changed(portal, c, K, portal.link[c])
    BY <1>1, <1>2, <1>4, <1>5, ChangeForms
  <2>2. /\ R \in PortalType /\ R.link = portal.link
        /\ R.conn = [portal.conn EXCEPT ![c] = K] /\ R.dock = portal.dock /\ R.leaving = portal.leaving
    BY <1>1, <1>2, <1>4, <1>5, WithConnection
  <2> QED
    BY <2>1, <2>2
<1>7. Shrinks(portal, R)
  BY <1>1, <1>2, <1>4, <1>6, EndShrinks
<1>8. Shrinks(R, Q) /\ \A e \in Sockets : e # c => Q.link[e] = R.link[e]
  BY <1>2, <1>6, DisconnectLeaves, DisconnectLinks
<1>9. Shrinks(portal, Q)
  BY <1>7, <1>8, ShrinksTransitive
<1>10. R.conn[c].state = "initialized"
  BY <1>1, <1>2, <1>4, <1>6
<1>a. Served(portal) => Served(Q)
  <2> SUFFICES ASSUME Served(portal) PROVE Served(Q)
    OBVIOUS
  <2>1. Closed(R, c).conn = R.conn
    BY <1>2, <1>6, ClosedFacts
  <2>2. CASE portal.link[c] \in {"up", "broken"}
    <3>1. Q = Closed(R, c)
      BY <1>6, <1>10, <2>1, <2>2 DEF Disconnect, OnDisconnect, Closed
    <3>2. Closed(R, c) = Changed(portal, c, K, "closed")
      BY <1>5 DEF Closed, Changed
    <3>3. Ends(portal, c, K, "closed")
      BY <1>4 DEF Ends
    <3> HIDE DEF Q
    <3> QED
      BY <1>1, <1>2, <3>1, <3>2, <3>3, ChangedServed
  <2>3. CASE portal.link[c] \notin {"up", "broken"}
    <3>1. Q = R
      BY <1>6, <2>3 DEF Disconnect
    <3>2. portal.link[c] \in {"closed", "none"}
      BY <1>3, <2>3 DEF Links
    <3> HIDE DEF Q
    <3> QED
      BY <1>1, <1>2, <1>4, <1>6, <3>1, <3>2, ChangedServed
  <2> QED
    BY <2>2, <2>3
<1>11. Q.leaving = {}
  <2>1. Q = R \/ Q = Closed(R, c)
    <3>1. Closed(R, c).conn = R.conn
      BY <1>2, <1>6, ClosedFacts
    <3> QED
      BY <1>10, <3>1 DEF Disconnect, OnDisconnect, Closed
  <2>2. Closed(R, c).leaving = {} /\ R.leaving = {}
    BY <1>1, <1>2, <1>6, ClosedFacts
  <2> HIDE DEF Q
  <2> QED
    BY <2>1, <2>2
<1>12. ASSUME Clean
       PROVE  Leaves(portal, Q, {})
  <2>1. Owned(portal) /\ portal.conn[c].state \notin InService
    BY <1>1, <1>2, <1>12 DEF IInv, LoginsApart, Waited, c
  <2>2. ~\E p \in DOMAIN portal.dock : portal.dock[p].conn = c
    BY <2>1 DEF Owned
  <2>3. Leaves(portal, R, {}) /\ Owned(R)
    BY <1>1, <1>2, <1>4, <1>6, <2>1, <2>2, EndLeaves DEF Leaves
  <2>4. WaitingAreClosed(R)
    BY <1>7, ShrinksWaiting DEF IInv
  <2>5. {p \in DOMAIN R.dock : R.dock[p].conn = c} = {}
    BY <1>6, <2>2
  <2>6. Leaves(R, Q, {})
    <3>1. \E G \in SUBSET {p \in DOMAIN R.dock : R.dock[p].conn = c} : Leaves(R, Q, G)
      BY <1>2, <1>6, <2>3, <2>4, DisconnectLeaves
    <3> QED
      BY <2>5, <3>1
  <2> HIDE DEF Q
  <2>7. Leaves(portal, Q, {} \cup {})
    BY <1>7, <2>3, <2>6, LeavesTransitive
  <2> QED
    BY <2>7
<1> HIDE DEF Q
<1>13. /\ calls' \subseteq Calls /\ JoinsAmong(calls')
       /\ past.mishaps \subseteq past'.mishaps /\ past'.logins = past.logins /\ DOMAIN past' = DOMAIN past
       /\ \/ calls' = calls \ {d} /\ d.step # "joined"
          \/ "half_joined" \in past'.mishaps
  <2>0. DOMAIN past = {"logins", "breaks", "pauses", "drops", "faults", "mishaps"}
    BY DEF IInv, Types
  <2>1. CASE d.step \in {"asked", "lost"} /\ calls' = calls \ {d} /\ UNCHANGED past
    BY <1>1, <2>1 DEF JoinsAmong
  <2>2. CASE calls' = (calls \ {d}) \cup {[d EXCEPT !.waited = FALSE]} /\ SpendNoting("faults", {"half_joined"})
    <3>1. [d EXCEPT !.waited = FALSE] \in JoinCalls
      BY <1>2 DEF JoinCalls
    <3>2. calls' \subseteq Calls
      BY <1>1, <2>2, <3>1 DEF Calls
    <3>3. JoinsAmong(calls')
      <4>1. /\ [d EXCEPT !.waited = FALSE].id = d.id /\ [d EXCEPT !.waited = FALSE].token = d.token
            /\ ~[d EXCEPT !.waited = FALSE].waited
        BY <1>2 DEF JoinCalls
      <4> QED
        BY <1>1, <2>2, <4>1 DEF JoinsAmong
    <3> QED
      BY <2>0, <2>2, <3>2, <3>3 DEF SpendNoting
  <2>3. CASE calls' = calls \ {d} /\ SpendNoting("faults", {"half_joined"})
    BY <1>1, <2>0, <2>3 DEF JoinsAmong, SpendNoting
  <2> QED
    BY <2>1, <2>2, <2>3 DEF NotJoined
<1>14. Becomes(Q, calls')
  <2>1. [Q EXCEPT !.leaving = {}] = Q
    BY <1>9, <1>11 DEF Shrinks, PortalType
  <2> QED
    BY <1>1, <1>11, <2>1 DEF Becomes
<1>15. Ending(Q, calls')
  BY <1>1, <1>9, <1>12, <1>13, <1>14, <1>a DEF Ending, IInv, Types
<1>16. LoginsOpen'
  <2> SUFFICES ASSUME Timely', NEW e \in Sockets, portal'.conn[e].state = "connecting"
               PROVE  portal'.link[e] # "closed"
    BY DEF LoginsOpen
  <2>1. e # c
    BY <1>1, <1>8, <1>10 DEF Shrinks, Lessens
  <2>2. Timely /\ portal.conn[e].state = "connecting" /\ portal'.link[e] = portal.link[e]
    BY <1>1, <1>6, <1>8, <1>9, <1>13, <2>1 DEF Shrinks, Lessens, Timely
  <2> QED
    BY <2>2 DEF IInv, LoginsOpen
<1>17. ConferenceFollows'
  <2> SUFFICES ASSUME Undisturbed'
               PROVE  ConferenceFollows'
    BY DEF ConferenceFollows
  <2>1. Undisturbed /\ Clean /\ calls' = calls \ {d} /\ d.step # "joined"
    BY <1>13 DEF Undisturbed, Clean
  <2>2. portal'.participants = portal.participants
    BY <1>1, <1>12, <2>1 DEF Leaves
  <2>3. \A p : Waited(p)' = Waited(p) \ {d}
    BY <2>1 DEF Waited
  <2> QED
    BY <1>1, <2>1, <2>2, <2>3 DEF IInv, ConferenceFollows
<1> QED
  BY <1>15, <1>16, <1>17, Ended

(* Clients are dropped.                                                    *)
LEMMA DropClientsLeaves ==
  ASSUME NEW P \in PortalType, NEW S
  PROVE  LET Q == DropClients(P, S)
         IN /\ Shrinks(P, Q)
            /\ Owned(P) => Leaves(P, Q, S \cap DOMAIN P.dock)
            /\ Owned(P) => \A c \in Sockets : Q.conn[c].state = "connecting" => Q.link[c] = P.link[c]
            /\ Served(P) => Served(Q)
<1> DEFINE told == S \cap DOMAIN P.dock
           closed == {P.dock[p].conn : p \in told}
           gone == {p \in DOMAIN P.dock : P.dock[p].conn \in closed /\ P.conn[P.dock[p].conn].client = p}
           ended == {P.dock[p].conn : p \in gone}
           left == [P EXCEPT !.participants = @ \ (told \cup gone),
                             !.leaving = @ \cup (P.participants \cap (told \cup gone)),
                             !.tasks = @ \ {P.dock[p].token : p \in gone},
                             !.dock = Restrict(@, DOMAIN @ \ gone),
                             !.conn = [c \in Sockets |->
                               IF c \in ended
                               THEN [@[c] EXCEPT !.state = "initialized", !.client = None] ELSE @[c]]]
           Q == [left EXCEPT !.conn = [c \in Sockets |-> IF c \in closed THEN Close(left, c, FALSE).conn[c] ELSE @[c]],
                             !.link = [c \in Sockets |-> IF c \in closed THEN Close(left, c, FALSE).link[c] ELSE @[c]]]
<1>1. DropClients(P, S) = Q
  BY DEF DropClients
<1>2. /\ P.conn \in [Sockets -> ConnectionType] /\ P.link \in [Sockets -> Links] /\ P.dock \in Docks
      /\ P.participants \subseteq Sockets /\ P.tasks \subseteq Nat /\ P.leaving \subseteq Sockets
      /\ \A p \in DOMAIN P.dock : P.dock[p].conn \in Sockets
      /\ closed \subseteq Sockets
  BY DockType DEF PortalType
<1>3. /\ Restrict(P.dock, DOMAIN P.dock \ gone) \in Docks
      /\ DOMAIN Restrict(P.dock, DOMAIN P.dock \ gone) = DOMAIN P.dock \ gone
      /\ \A p \in DOMAIN P.dock \ gone : Restrict(P.dock, DOMAIN P.dock \ gone)[p] = P.dock[p]
  BY ONLY <1>2, RestrictType
<1>4. \A c \in Sockets : [P.conn[c] EXCEPT !.state = "initialized", !.client = None] \in ConnectionType
  <2> TAKE c \in Sockets
  <2>1. P.conn[c] \in ConnectionType
    BY <1>2
  <2> QED
    BY <2>1 DEF ConnectionType, States
<1> DEFINE conns == [c \in Sockets |-> IF c \in ended
                      THEN [P.conn[c] EXCEPT !.state = "initialized", !.client = None] ELSE P.conn[c]]
<1>5. conns \in [Sockets -> ConnectionType]
  BY <1>2, <1>4
<1> HIDE DEF told, closed, gone, ended
<1>6. /\ left \in PortalType /\ left.conn = conns /\ left.dock = Restrict(P.dock, DOMAIN P.dock \ gone)
      /\ left.link = P.link /\ left.wire = P.wire
      /\ left.participants = P.participants \ (told \cup gone)
      /\ left.leaving = P.leaving \cup (P.participants \cap (told \cup gone))
      /\ left.tasks = P.tasks \ {P.dock[p].token : p \in gone}
  BY <1>2, <1>3, <1>5 DEF PortalType
<1> HIDE DEF left
<1>7. ASSUME NEW c \in Sockets
      PROVE  Lessens(P.conn[c], left.conn[c]) /\
             (left.conn[c].state = "waiting_for_reconnecting" => P.conn[c].state = "waiting_for_reconnecting")
  <2>1. P.conn[c] \in ConnectionType
    BY <1>2
  <2>2. CASE c \in ended
    <3>1. left.conn[c] = [P.conn[c] EXCEPT !.state = "initialized", !.client = None]
      BY <1>6, <2>2
    <3> QED
      BY <2>1, <3>1 DEF Lessens, ConnectionType, InService
  <2>3. CASE c \notin ended
    <3>1. left.conn[c] = P.conn[c]
      BY <1>6, <2>3
    <3> QED
      BY <3>1 DEF Lessens
  <2> QED
    BY <2>2, <2>3
<1>8. Shrinks(P, left)
  <2> HIDE DEF conns
  <2> QED
    BY <1>3, <1>6, <1>7 DEF Shrinks
<1>9. \A c \in Sockets : Shrinks(left, Close(left, c, FALSE))
  BY <1>6, CloseLeaves
<1>10. /\ \A c \in Sockets : Close(left, c, FALSE).conn[c] \in ConnectionType /\ Close(left, c, FALSE).link[c] \in Links
       /\ \A c \in Sockets : left.conn[c] \in ConnectionType /\ left.link[c] \in Links
  <2>1. \A X \in PortalType : \A c \in Sockets : X.conn[c] \in ConnectionType /\ X.link[c] \in Links
    BY DEF PortalType
  <2>2. \A c \in Sockets : Close(left, c, FALSE) \in PortalType
    BY <1>9 DEF Shrinks
  <2> QED
    BY <1>6, <2>1, <2>2
<1> DEFINE qconn == [c \in Sockets |-> IF c \in closed THEN Close(left, c, FALSE).conn[c] ELSE left.conn[c]]
           qlink == [c \in Sockets |-> IF c \in closed THEN Close(left, c, FALSE).link[c] ELSE left.link[c]]
<1>11. qconn \in [Sockets -> ConnectionType] /\ qlink \in [Sockets -> Links]
  BY <1>10
<1>12. /\ Q \in PortalType /\ Q.conn = qconn /\ Q.link = qlink /\ Q.dock = left.dock /\ Q.tasks = left.tasks
       /\ Q.participants = left.participants /\ Q.leaving = left.leaving /\ Q.wire = left.wire
  <2> HIDE DEF conns
  <2>1. Q = [left EXCEPT !.conn = qconn, !.link = qlink]
    BY <1>6 DEF PortalType
  <2> HIDE DEF Q, qconn, qlink
  <2> QED
    BY <1>6, <1>11, <2>1 DEF PortalType
<1> HIDE DEF Q
<1>13. Shrinks(left, Q)
  <2> SUFFICES ASSUME NEW c \in Sockets
               PROVE  /\ Lessens(left.conn[c], Q.conn[c])
                      /\ Q.link[c] \in {left.link[c], "closed"}
                      /\ Q.conn[c].state = "waiting_for_reconnecting" =>
                           left.conn[c].state = "waiting_for_reconnecting" \/ Q.link[c] = "closed"
    BY <1>12 DEF Shrinks
  <2>1. CASE c \in closed
    <3> DEFINE C == Close(left, c, FALSE)
    <3>1. Q.conn[c] = C.conn[c] /\ Q.link[c] = C.link[c]
      BY <1>12, <2>1
    <3>2. Shrinks(left, C)
      BY <1>9
    <3> HIDE DEF C
    <3> QED
      BY <3>1, <3>2 DEF Shrinks
  <2>2. CASE c \notin closed
    BY <1>12, <2>2 DEF Lessens
  <2> QED
    BY <2>1, <2>2
<1>14. Shrinks(P, Q)
  BY <1>8, <1>13, ShrinksTransitive
<1>15. ASSUME Owned(P)
       PROVE  /\ Leaves(P, Q, told)
              /\ \A c \in Sockets : Q.conn[c].state = "connecting" => Q.link[c] = P.link[c]
  <2>1. gone = told
    BY <1>15 DEF gone, told, closed, Owned
  <2>2. ended = closed
    BY <2>1 DEF ended, closed
  <2>3. \A p \in DOMAIN Q.dock : Q.dock[p] = P.dock[p] /\ p \in DOMAIN P.dock /\ p \notin told
    BY <1>3, <1>6, <1>12, <2>1
  <2>4. \A p \in DOMAIN Q.dock : P.dock[p].conn \notin closed
    BY <1>15, <2>3 DEF closed, told, Owned
  <2>5. \A c \in Sockets \ closed : Q.conn[c] = P.conn[c] /\ Q.link[c] = P.link[c]
    <3> TAKE c \in Sockets \ closed
    <3>1. Q.conn[c] = left.conn[c] /\ Q.link[c] = left.link[c]
      BY <1>12
    <3>2. left.conn[c] = P.conn[c]
      BY <1>6, <2>2
    <3> QED
      BY <1>6, <3>1, <3>2
  <2>6. Owned(Q) /\ (Awaited(P) => Awaited(Q))
    BY <1>2, <1>15, <2>3, <2>4, <2>5 DEF Owned, Awaited
  <2>7. \A c \in closed : P.conn[c].state \in InService
    BY <1>15 DEF closed, told, Owned
  <2>8. \A c \in Sockets : Q.conn[c].state = "connecting" => Q.link[c] = P.link[c]
    BY <1>14, <2>5, <2>7 DEF Shrinks, Lessens, InService
  <2>9. Leaves(P, Q, told)
    <3> HIDE DEF conns, qconn, qlink
    <3>1. told \subseteq DOMAIN P.dock
      BY DEF told
    <3> QED
      BY <1>3, <1>6, <1>12, <2>1, <2>6, <3>1 DEF Leaves
  <2> QED
    BY <2>8, <2>9
<1>16. ASSUME Served(P)
       PROVE  Served(Q)
  <2>1. \A p \in DOMAIN Q.dock : Q.dock[p] = P.dock[p] /\ p \in DOMAIN P.dock /\ p \notin gone
    BY <1>3, <1>6, <1>12
  <2>2. ended \subseteq closed
    BY DEF ended, gone
  <2>3. \A c \in Sockets \ closed : Q.conn[c] = P.conn[c] /\ Q.link[c] = P.link[c]
    <3> TAKE c \in Sockets \ closed
    <3>1. Q.conn[c] = left.conn[c] /\ Q.link[c] = left.link[c]
      BY <1>12
    <3>2. left.conn[c] = P.conn[c]
      BY <1>6, <2>2
    <3> QED
      BY <1>6, <3>1, <3>2
  <2>4. \A c \in Sockets : Q.link[c] \in {P.link[c], "closed"}
    BY <1>14 DEF Shrinks
  <2>5. ASSUME NEW p \in DOMAIN Q.dock, NEW c \in Sockets, c = Q.dock[p].conn
        PROVE  /\ Q.link[c] # "none"
               /\ Q.link[c] # "closed" => Q.conn[c].state = "connected" /\ Q.conn[c].client = p
    <3>1. P.link[c] # "none" /\ (P.link[c] # "closed" => P.conn[c].state = "connected" /\ P.conn[c].client = p)
      BY <1>16, <2>1, <2>5 DEF Served
    <3>2. CASE c \in closed
      <4>1. P.conn[c].client # p
        BY <2>1, <2>5, <3>2 DEF gone
      <4> QED
        BY <2>4, <3>1, <4>1
    <3>3. CASE c \notin closed
      BY <2>3, <3>1, <3>3
    <3> QED
      BY <3>2, <3>3
  <2> QED
    BY <1>2, <2>1, <2>5 DEF Served
<1> QED
  BY <1>1, <1>14, <1>15, <1>16 DEF told

LEMMA SpentFacts ==
  ASSUME IInv, NEW what \in {"breaks", "pauses", "drops", "faults"}, Spend(what)
  PROVE  past'.mishaps = past.mishaps /\ past'.logins = past.logins /\ DOMAIN past' = DOMAIN past
  BY DEF IInv, Types, Spend

(* The steps in which clients are dropped.                                 *)
LEMMA DropStep ==
  ASSUME IInv, NEW S, NEW Rest, Becomes(DropClients(portal, S), Rest),
         Rest \subseteq calls, \A d \in calls : d.call \in {"join", "leave"} => d \in Rest,
         past.mishaps \subseteq past'.mishaps, past'.logins = past.logins, DOMAIN past' = DOMAIN past,
         UNCHANGED <<clients, bound>>, joined' \subseteq joined,
         joined \ joined' \subseteq S,
         [call |-> "conference_lost"] \in calls =>
           [call |-> "conference_lost"] \in Rest \/ portal.participants \subseteq S
  PROVE  IInv' /\ Quiet
<1> DEFINE Q == DropClients(portal, S)
<1>1. portal \in PortalType /\ calls \subseteq Calls
  BY DEF IInv, Types
<1>2. /\ Shrinks(portal, Q)
      /\ Clean => Leaves(portal, Q, S \cap DOMAIN portal.dock)
      /\ Clean => \A c \in Sockets : Q.conn[c].state = "connecting" => Q.link[c] = portal.link[c]
      /\ Served(portal) => Served(Q)
  BY <1>1, DropClientsLeaves DEF IInv
<1> HIDE DEF Q
<1>3. Ending(Q, Rest)
  BY <1>1, <1>2 DEF Ending, JoinsAmong, Q, IInv, Types
<1>4. Timely' => Clean
  BY DEF Timely, Clean
<1>5. ASSUME Undisturbed', NEW G, Leaves(portal, Q, G)
      PROVE  /\ portal.participants \cap (joined \ joined') \subseteq G
             /\ \/ [call |-> "conference_lost"] \in Rest \/ portal.participants \subseteq G
                \/ [call |-> "conference_lost"] \notin calls
  <2>1. Clean
    BY <1>5 DEF Undisturbed, Clean
  <2>2. G = S \cap DOMAIN portal.dock
    BY <1>2, <1>5, <2>1 DEF Leaves
  <2>3. portal.participants = DOMAIN portal.dock
    BY <2>1 DEF IInv, Participants
  <2> QED
    BY <2>2, <2>3
<1> QED
  BY <1>2, <1>3, <1>4, <1>5, PlainEnd

LEMMA DroppedStep ==
  ASSUME IInv, NEW d \in calls, Dropped(d)
  PROVE  IInv' /\ Quiet
  BY DropStep DEF Dropped

LEMMA OnConferenceLostStep ==
  ASSUME IInv, NEW d \in calls, OnConferenceLost(d)
  PROVE  IInv' /\ Quiet
  BY DropStep DEF OnConferenceLost

LEMMA DropAllStep ==
  ASSUME IInv, DropAll
  PROVE  IInv' /\ Quiet
  BY SpentFacts, DropStep DEF DropAll

-----------------------------------------------------------------------------
(* The steps that change no client and no connection's state.              *)

Alike(P, Q) ==
  /\ Q \in PortalType /\ Q.wire = <<>> /\ Q.leaving = {}
  /\ Q.dock = P.dock /\ Q.tasks = P.tasks /\ Q.participants = P.participants
  /\ \A c \in Sockets :
       /\ Len(Q.conn[c].buffer) <= Q.conn[c].seq
       /\ Q.conn[c].state = P.conn[c].state /\ Q.conn[c].client = P.conn[c].client
       /\ Q.conn[c].timer = P.conn[c].timer /\ Q.conn[c].enabled = P.conn[c].enabled
       /\ Q.link[c] = "closed" <=> P.link[c] = "closed"

LEMMA AlikeStep ==
  ASSUME IInv, Alike(portal, portal'), UNCHANGED <<calls, joined, bound>>,
         past'.mishaps = past.mishaps, past'.logins = past.logins, DOMAIN past' = DOMAIN past,
         DOMAIN clients' = DOMAIN clients, clients'.tickets = clients.tickets, clients'.sent \in [Sockets -> Nat]
  PROVE  IInv'
<1> USE DEF IInv
<1>0. /\ portal'.dock = portal.dock /\ portal'.tasks = portal.tasks /\ portal'.participants = portal.participants
      /\ \A p \in DOMAIN portal.dock : portal.dock[p].conn \in Sockets
      /\ Clean' = Clean /\ Timely' = Timely /\ Undisturbed' = Undisturbed
      /\ \A c : Waited(c)' = Waited(c)
  BY DockType DEF Alike, Types, Clean, Timely, Undisturbed, Waited
<1>1. Types'
  BY DEF Types, Alike
<1>2. (Clean => Owned(portal))'
  BY <1>0 DEF Owned, Alike
<1>3. (Timely => Awaited(portal))'
  BY <1>0 DEF Awaited, Alike
<1>4. WaitingAreClosed(portal)' /\ LoginsNamed' /\ LoginsOpen'
  BY <1>0 DEF WaitingAreClosed, LoginsNamed, LoginsOpen, Alike
<1>5. LoginsApart'
  BY <1>0 DEF LoginsApart, Alike
<1>6. Participants' /\ TokensOwn' /\ TasksOwned' /\ ConferenceFollows'
  BY <1>0 DEF Participants, TokensOwn, TasksOwned, ConferenceFollows
<1> QED
  BY <1>1, <1>2, <1>3, <1>4, <1>5, <1>6

LEMMA LinkStep ==
  ASSUME IInv, NEW c \in Sockets, NEW l \in {"up", "broken"}, portal.link[c] # "closed",
         portal' = [portal EXCEPT !.link[c] = l]
  PROVE  Alike(portal, portal')
<1>1. /\ portal \in PortalType /\ portal.wire = <<>> /\ portal.leaving = {}
      /\ \A d \in Sockets : Len(portal.conn[d].buffer) <= portal.conn[d].seq
      /\ portal.link \in [Sockets -> Links]
  BY DEF IInv, Types, PortalType
<1>2. /\ portal' \in PortalType /\ portal'.link = [portal.link EXCEPT ![c] = l]
      /\ portal'.conn = portal.conn /\ portal'.dock = portal.dock /\ portal'.tasks = portal.tasks
      /\ portal'.participants = portal.participants /\ portal'.leaving = portal.leaving /\ portal'.wire = portal.wire
  BY <1>1 DEF PortalType, Links
<1> QED
  BY <1>1, <1>2 DEF Alike

LEMMA ConnectStep ==
  ASSUME IInv, NEW c \in Sockets, Connect(c)
  PROVE  IInv'
<1>1. Alike(portal, portal')
  BY LinkStep DEF Connect
<1> QED
  BY <1>1, AlikeStep DEF Connect, IInv, Types

LEMMA BreakStep ==
  ASSUME IInv, NEW c \in Sockets, Break(c)
  PROVE  IInv'
<1>1. Alike(portal, portal')
  BY LinkStep DEF Break
<1> QED
  BY <1>1, AlikeStep, SpentFacts DEF Break, IInv, Types

(* Trimming keeps the end of a buffer.                                     *)
LEMMA TrimType ==
  ASSUME NEW b \in Seq(Entries)
  PROVE  Trim(b) \in Seq(Entries) /\ Len(Trim(b)) <= Len(b)
<1> DEFINE stays(k) == ~(b[k].old /\ b[k].timed)
           first == {k \in DOMAIN b : stays(k) /\ \A i \in 1 .. k - 1 : ~stays(i)}
           k0 == CHOOSE k \in first : TRUE
<1>1. CASE first = {}
  BY <1>1 DEF Trim
<1>2. CASE first # {}
  <2>1. k0 \in 1 .. Len(b)
    BY <1>2
  <2>2. Trim(b) = SubSeq(b, k0, Len(b))
    BY <1>2 DEF Trim
  <2> HIDE DEF k0
  <2>3. SubSeq(b, k0, Len(b)) \in Seq(Entries) /\ Len(SubSeq(b, k0, Len(b))) = Len(b) - k0 + 1
    BY <2>1
  <2> QED
    BY <2>1, <2>2, <2>3
<1> QED
  BY <1>1, <1>2

(* A connection with another buffer.                                       *)
LEMMA NewBufferType ==
  ASSUME NEW K \in ConnectionType, NEW b \in Seq(Entries)
  PROVE  LET L == [K EXCEPT !.buffer = b]
         IN /\ L \in ConnectionType /\ L.buffer = b /\ L.seq = K.seq
            /\ L.state = K.state /\ L.client = K.client /\ L.timer = K.timer /\ L.enabled = K.enabled
            /\ L.version = K.version
  BY DEF ConnectionType

(* The entry of a message that is sent.                                    *)
Sent(m, n) == [m |-> m, seq |-> n, timed |-> TRUE, old |-> FALSE]

(* A message changes no more than what is pending, the buffer and the      *)
(* wire.                                                                   *)
LEMMA SendMessageFacts ==
  ASSUME NEW P \in PortalType, NEW c \in Sockets, NEW m \in Nat, Len(P.conn[c].buffer) <= P.conn[c].seq
  PROVE  LET Q == SendMessage(P, c, m)
         IN /\ Q \in PortalType
            /\ Q.dock = P.dock /\ Q.tasks = P.tasks /\ Q.participants = P.participants
            /\ Q.leaving = P.leaving /\ Q.link = P.link
            /\ \A d \in Sockets : d # c => Q.conn[d] = P.conn[d]
            /\ Len(Q.conn[c].buffer) <= Q.conn[c].seq
            /\ Q.conn[c].state = P.conn[c].state /\ Q.conn[c].client = P.conn[c].client
            /\ Q.conn[c].timer = P.conn[c].timer /\ Q.conn[c].enabled = P.conn[c].enabled
            /\ Q.conn[c].version = P.conn[c].version /\ Q.conn[c].seq = P.conn[c].seq + 1
            /\ Q.conn[c].buffer = Trim(Append(P.conn[c].buffer, Sent(m, P.conn[c].seq + 1)))
            /\ Q.conn[c].pending = IF P.conn[c].state = "connected" THEN P.conn[c].pending
                                   ELSE Append(P.conn[c].pending, m)
            /\ Q.wire = IF P.conn[c].state = "connected" /\ P.link[c] = "up" THEN Append(P.wire, m) ELSE P.wire
<1> DEFINE C == P.conn[c]
           e == Sent(m, C.seq + 1)
           b == Trim(Append(C.buffer, e))
           R == IF C.state # "connected" THEN [P EXCEPT !.conn[c].pending = Append(@, m)]
                ELSE IF P.link[c] = "up" THEN [P EXCEPT !.wire = Append(@, m)] ELSE P
           D == [R.conn[c] EXCEPT !.seq = C.seq + 1, !.buffer = b]
           Q == SendMessage(P, c, m)
<1>1. C \in ConnectionType /\ P.conn \in [Sockets -> ConnectionType]
  BY DEF PortalType
<1>2. /\ C.buffer \in Seq(Entries) /\ C.seq \in Nat /\ C.pending \in Seq(Nat) /\ e \in Entries
  BY <1>1 DEF ConnectionType, Entries, Sent
<1>3. Append(C.buffer, e) \in Seq(Entries) /\ Len(Append(C.buffer, e)) = Len(C.buffer) + 1
  BY <1>2
<1>4. b \in Seq(Entries) /\ Len(b) <= C.seq + 1
  <2>1. b \in Seq(Entries) /\ Len(b) <= Len(Append(C.buffer, e))
    BY <1>3, TrimType
  <2>2. Len(b) \in Nat /\ Len(C.buffer) \in Nat
    BY <1>2, <2>1
  <2> QED
    BY <1>2, <1>3, <2>1, <2>2
<1>5. /\ R \in PortalType /\ R.conn[c] \in ConnectionType
      /\ R.dock = P.dock /\ R.tasks = P.tasks /\ R.participants = P.participants
      /\ R.leaving = P.leaving /\ R.link = P.link
      /\ \A d \in Sockets : d # c => R.conn[d] = P.conn[d]
      /\ R.conn[c].state = C.state /\ R.conn[c].client = C.client /\ R.conn[c].seq = C.seq
      /\ R.conn[c].timer = C.timer /\ R.conn[c].enabled = C.enabled /\ R.conn[c].version = C.version
      /\ R.conn[c].pending = IF C.state = "connected" THEN C.pending ELSE Append(C.pending, m)
      /\ R.wire = IF C.state = "connected" /\ P.link[c] = "up" THEN Append(P.wire, m) ELSE P.wire
  <2>1. CASE C.state # "connected"
    <3> DEFINE K == [C EXCEPT !.pending = Append(@, m)]
    <3>1. /\ K \in ConnectionType /\ K.state = C.state /\ K.client = C.client /\ K.seq = C.seq
          /\ K.timer = C.timer /\ K.enabled = C.enabled /\ K.version = C.version
          /\ K.pending = Append(C.pending, m)
      <4>1. Append(C.pending, m) \in Seq(Nat)
        BY <1>2
      <4> QED
        BY <1>1, <4>1 DEF ConnectionType
    <3>2. R = [P EXCEPT !.conn[c] = K]
      BY <2>1
    <3> HIDE DEF K, R
    <3>3. /\ R \in PortalType /\ R.conn = [P.conn EXCEPT ![c] = K]
          /\ R.dock = P.dock /\ R.tasks = P.tasks /\ R.link = P.link /\ R.wire = P.wire
          /\ R.participants = P.participants /\ R.leaving = P.leaving
      BY <3>1, <3>2, WithConnection
    <3> QED
      BY <1>1, <2>1, <3>1, <3>3
  <2>2. CASE C.state = "connected"
    <3>1. P.wire \in Seq(Nat) /\ Append(P.wire, m) \in Seq(Nat)
      BY DEF PortalType
    <3>2. CASE P.link[c] = "up"
      <4>1. R = [P EXCEPT !.wire = Append(P.wire, m)]
        BY <2>2, <3>2
      <4> HIDE DEF R
      <4> QED
        BY <1>1, <2>2, <3>1, <3>2, <4>1 DEF PortalType
    <3>3. CASE P.link[c] # "up"
      BY <1>1, <2>2, <3>3
    <3> QED
      BY <3>2, <3>3
  <2> QED
    BY <2>1, <2>2
<1>7. Q = [R EXCEPT !.conn[c] = D]
  BY DEF SendMessage, Sent
<1> HIDE DEF R, b, Q, e
<1>8. /\ D \in ConnectionType /\ D.buffer = b /\ D.seq = C.seq + 1
      /\ D.state = C.state /\ D.client = C.client /\ D.timer = C.timer /\ D.enabled = C.enabled
      /\ D.version = C.version /\ D.pending = R.conn[c].pending
  <2>1. C.seq + 1 \in Nat
    BY <1>2
  <2> DEFINE K == R.conn[c]
             n == C.seq + 1
  <2>2. D = [K EXCEPT !.seq = n, !.buffer = b]
    OBVIOUS
  <2>3. K \in ConnectionType /\ n \in Nat /\ b \in Seq(Entries)
    BY <1>4, <1>5, <2>1
  <2>4. K.state = C.state /\ K.client = C.client /\ K.timer = C.timer /\ K.enabled = C.enabled
        /\ K.version = C.version
    BY <1>5
  <2> HIDE DEF D, K, n
  <2>5. /\ D \in ConnectionType /\ D.buffer = b /\ D.seq = n
        /\ D.state = K.state /\ D.client = K.client /\ D.timer = K.timer /\ D.enabled = K.enabled
        /\ D.version = K.version /\ D.pending = K.pending
    BY <2>2, <2>3 DEF ConnectionType
  <2> QED
    BY <2>4, <2>5 DEF n, K
<1> HIDE DEF D
<1>9. /\ Q \in PortalType /\ Q.conn = [R.conn EXCEPT ![c] = D]
      /\ Q.dock = R.dock /\ Q.tasks = R.tasks /\ Q.link = R.link /\ Q.wire = R.wire
      /\ Q.participants = R.participants /\ Q.leaving = R.leaving
  BY <1>5, <1>7, <1>8, WithConnection
<1>10. R.conn \in [Sockets -> ConnectionType]
  BY <1>5 DEF PortalType
<1>11. Q.conn[c] = D /\ \A d \in Sockets : d # c => Q.conn[d] = R.conn[d]
  BY <1>9, <1>10
<1>12. /\ Q \in PortalType
       /\ Q.dock = P.dock /\ Q.tasks = P.tasks /\ Q.participants = P.participants
       /\ Q.leaving = P.leaving /\ Q.link = P.link
       /\ \A d \in Sockets : d # c => Q.conn[d] = P.conn[d]
       /\ Len(Q.conn[c].buffer) <= Q.conn[c].seq
       /\ Q.conn[c].state = P.conn[c].state /\ Q.conn[c].client = P.conn[c].client
       /\ Q.conn[c].timer = P.conn[c].timer /\ Q.conn[c].enabled = P.conn[c].enabled
  BY <1>4, <1>5, <1>8, <1>9, <1>11
<1>13. /\ Q.conn[c].version = C.version /\ Q.conn[c].seq = C.seq + 1 /\ Q.conn[c].buffer = b
       /\ Q.conn[c].pending = IF C.state = "connected" THEN C.pending ELSE Append(C.pending, m)
       /\ Q.wire = IF C.state = "connected" /\ P.link[c] = "up" THEN Append(P.wire, m) ELSE P.wire
  BY <1>5, <1>8, <1>9, <1>11
<1> QED
  BY <1>12, <1>13 DEF Q, b, e

(* What was on the wire is received.                                       *)
LEMMA WireFacts ==
  ASSUME NEW P \in PortalType
  PROVE  LET Q == [P EXCEPT !.wire = <<>>]
         IN /\ Q \in PortalType /\ Q.wire = <<>>
            /\ Q.conn = P.conn /\ Q.link = P.link /\ Q.dock = P.dock /\ Q.tasks = P.tasks
            /\ Q.participants = P.participants /\ Q.leaving = P.leaving
<1>1. <<>> \in Seq(Nat)
  OBVIOUS
<1> QED
  BY <1>1 DEF PortalType

LEMMA NotifyStep ==
  ASSUME IInv, NEW p \in Sockets, Notify(p)
  PROVE  IInv'
<1> DEFINE c == portal.dock[p].conn
           m == clients.sent[p] + 1
           Q == SendMessage(portal, c, m)
<1>1. /\ portal \in PortalType /\ portal.leaving = {} /\ p \in DOMAIN portal.dock
      /\ clients.sent \in [Sockets -> Nat] /\ DOMAIN clients = {"tickets", "sent", "lost", "got"}
      /\ \A d \in Sockets : Len(portal.conn[d].buffer) <= portal.conn[d].seq
      /\ UNCHANGED <<joined, past, bound>>
  BY DEF IInv, Types, Notify
<1>2. c \in Sockets /\ m \in Nat
  BY <1>1, DockType
<1> HIDE DEF c, m
<1>3. /\ Q \in PortalType
      /\ Q.dock = portal.dock /\ Q.tasks = portal.tasks /\ Q.participants = portal.participants
      /\ Q.leaving = portal.leaving /\ Q.link = portal.link
      /\ \A d \in Sockets : d # c => Q.conn[d] = portal.conn[d]
      /\ Len(Q.conn[c].buffer) <= Q.conn[c].seq
      /\ Q.conn[c].state = portal.conn[c].state /\ Q.conn[c].client = portal.conn[c].client
      /\ Q.conn[c].timer = portal.conn[c].timer /\ Q.conn[c].enabled = portal.conn[c].enabled
  BY <1>1, <1>2, SendMessageFacts
<1>4. Becomes([Q EXCEPT !.wire = <<>>], calls)
  BY DEF Notify, c, m
<1>5. /\ DOMAIN clients' = DOMAIN clients /\ clients'.tickets = clients.tickets
      /\ clients'.sent = [clients.sent EXCEPT ![p] = m]
  BY <1>1 DEF Notify, m
<1> HIDE DEF Q
<1>6. clients'.sent \in [Sockets -> Nat]
  BY <1>1, <1>2, <1>5
<1> DEFINE E == [Q EXCEPT !.wire = <<>>]
<1>7. /\ E \in PortalType /\ E.wire = <<>> /\ E.leaving = {}
      /\ E.conn = Q.conn /\ E.link = Q.link /\ E.dock = Q.dock /\ E.tasks = Q.tasks /\ E.participants = Q.participants
  BY <1>1, <1>3, WireFacts
<1>8. calls' = calls /\ portal' = E
  BY <1>4, <1>7 DEF Becomes, PortalType
<1> HIDE DEF E
<1>9. \A d \in Sockets :
        /\ Len(E.conn[d].buffer) <= E.conn[d].seq
        /\ E.conn[d].state = portal.conn[d].state /\ E.conn[d].client = portal.conn[d].client
        /\ E.conn[d].timer = portal.conn[d].timer /\ E.conn[d].enabled = portal.conn[d].enabled
        /\ E.link[d] = portal.link[d]
  BY <1>1, <1>2, <1>3, <1>7
<1>10. Alike(portal, portal')
  BY <1>3, <1>7, <1>8, <1>9 DEF Alike
<1> QED
  BY <1>1, <1>5, <1>6, <1>8, <1>10, AlikeStep

LEMMA SameLength ==
  ASSUME NEW n \in Nat, NEW S, NEW f \in [1 .. n -> S]
  PROVE  f \in Seq(S) /\ Len(f) = n
  OBVIOUS

LEMMA PauseStep ==
  ASSUME IInv, Pause
  PROVE  IInv'
<1> DEFINE aged(c) == Aged(portal.conn[c].buffer)
           K(c) == [portal.conn[c] EXCEPT !.buffer = aged(c)]
           conns == [c \in Sockets |-> K(c)]
<1>1. /\ portal \in PortalType /\ portal.leaving = {} /\ portal.wire = <<>>
      /\ portal.conn \in [Sockets -> ConnectionType]
      /\ \A d \in Sockets : Len(portal.conn[d].buffer) <= portal.conn[d].seq
      /\ past'.mishaps = past.mishaps /\ past'.logins = past.logins /\ DOMAIN past' = DOMAIN past
      /\ UNCHANGED <<calls, joined, clients, bound>>
  BY SpentFacts DEF IInv, Types, PortalType, Pause
<1>2. ASSUME NEW c \in Sockets
      PROVE  /\ K(c) \in ConnectionType /\ Len(K(c).buffer) <= K(c).seq
             /\ K(c).state = portal.conn[c].state /\ K(c).client = portal.conn[c].client
             /\ K(c).timer = portal.conn[c].timer /\ K(c).enabled = portal.conn[c].enabled
  <2>1. portal.conn[c] \in ConnectionType /\ portal.conn[c].buffer \in Seq(Entries)
    BY <1>1 DEF ConnectionType
  <2>2. \A e \in Entries : [e EXCEPT !.old = TRUE] \in Entries
    BY DEF Entries
  <2>3. aged(c) \in Seq(Entries) /\ Len(aged(c)) = Len(portal.conn[c].buffer)
    <3> DEFINE b == portal.conn[c].buffer
    <3>1. \A k \in 1 .. Len(b) : b[k] \in Entries
      BY <2>1
    <3>2. aged(c) = [k \in 1 .. Len(b) |-> [b[k] EXCEPT !.old = TRUE]]
      BY <2>1 DEF Aged
    <3>3. aged(c) \in [1 .. Len(b) -> Entries] /\ Len(b) \in Nat
      BY <2>1, <2>2, <3>1, <3>2
    <3> QED
      BY <3>3, SameLength
  <2>4. Len(aged(c)) <= portal.conn[c].seq
    BY <1>1, <2>3
  <2> HIDE DEF aged
  <2> QED
    BY <2>1, <2>3, <2>4, NewBufferType
<1>3. portal' = [portal EXCEPT !.conn = conns]
  BY <1>1 DEF Pause, PortalType
<1>4. conns \in [Sockets -> ConnectionType] /\ \A c \in Sockets : conns[c] = K(c)
  BY <1>2
<1> HIDE DEF conns, K
<1>5. /\ portal' \in PortalType /\ portal'.conn = conns /\ portal'.link = portal.link
      /\ portal'.dock = portal.dock /\ portal'.tasks = portal.tasks
      /\ portal'.participants = portal.participants /\ portal'.leaving = portal.leaving /\ portal'.wire = portal.wire
  BY <1>1, <1>3, <1>4 DEF PortalType
<1>6. Alike(portal, portal')
  BY <1>1, <1>2, <1>4, <1>5 DEF Alike
<1> QED
  BY <1>1, <1>6, AlikeStep DEF IInv, Types

-----------------------------------------------------------------------------
(* The steps of the conference, in which the portal does nothing.          *)
LEMMA CallsStep ==
  ASSUME IInv, UNCHANGED <<portal, clients, bound>>, joined' \subseteq Sockets, calls' \subseteq Calls,
         past'.mishaps = past.mishaps, past'.logins = past.logins, DOMAIN past' = DOMAIN past,
         \A d \in calls' : d.call = "join" =>
           \E e \in calls : /\ e.call = "join" /\ e.id = d.id /\ e.token = d.token /\ e.waited = d.waited
                           /\ \A f \in calls' : f.call = "join" /\ f.token = d.token => f = d \/ ~f.waited \/ ~d.waited \/ ~Clean,
         ConferenceFollows'
  PROVE  IInv'
<1> USE DEF IInv
<1>0. /\ Clean' = Clean /\ Timely' = Timely
  BY DEF Clean, Timely
<1>1. Types'
  BY DEF Types
<1>2. /\ (Clean => Owned(portal))' /\ (Timely => Awaited(portal))' /\ WaitingAreClosed(portal)'
      /\ LoginsNamed' /\ LoginsOpen' /\ Participants'
  BY <1>0 DEF Owned, Awaited, WaitingAreClosed, LoginsNamed, LoginsOpen, Participants
<1>3. LoginsApart'
  <2> SUFFICES ASSUME Clean, NEW c \in Sockets, NEW d \in Waited(c)'
               PROVE  /\ Waited(c)' = {d}
                      /\ portal.conn[c].state \notin InService /\ c \notin DOMAIN portal.dock
    BY <1>0 DEF LoginsApart
  <2>1. d \in calls' /\ d.call = "join" /\ d.waited /\ d.id = c
    BY DEF Waited
  <2>2. PICK e \in calls : e.call = "join" /\ e.id = d.id /\ e.token = d.token /\ e.waited = d.waited
    BY <2>1
  <2>3. e \in Waited(c)
    BY <2>1, <2>2 DEF Waited
  <2>4. Waited(c) = {e} /\ portal.conn[c].state \notin InService /\ c \notin DOMAIN portal.dock
    BY <2>3 DEF LoginsApart
  <2>5. ASSUME NEW f \in Waited(c)'
        PROVE  f = d
    <3>1. f \in calls' /\ f.call = "join" /\ f.waited /\ f.id = c
      BY <2>5 DEF Waited
    <3>2. PICK g \in calls : g.call = "join" /\ g.id = f.id /\ g.token = f.token /\ g.waited = f.waited
      BY <3>1
    <3>3. g = e
      <4>1. g \in Waited(c)
        BY <3>1, <3>2 DEF Waited
      <4> QED
        BY <2>4, <4>1
    <3> QED
      BY <2>1, <2>2, <3>1, <3>2, <3>3
  <2> QED
    BY <2>4, <2>5
<1>4. TokensOwn'
  BY DEF TokensOwn
<1>5. TasksOwned'
  BY <1>0 DEF TasksOwned
<1> QED
  BY <1>1, <1>2, <1>3, <1>4, <1>5

(* Logins that are waited for differ in their tokens.                      *)
LEMMA TokensDiffer ==
  ASSUME IInv, Clean, NEW d \in calls, NEW e \in calls,
         d.call = "join", e.call = "join", d.waited, e.waited, d.token = e.token
  PROVE  d = e
<1>1. d.id = e.id
  BY DEF IInv, TokensOwn
<1>2. d.id \in Sockets
  BY DEF IInv, Types, Calls, JoinCalls
<1>3. d \in Waited(d.id) /\ e \in Waited(d.id)
  BY <1>1 DEF Waited
<1> QED
  BY <1>2, <1>3 DEF IInv, LoginsApart

LEMMA ConferenceJoinsStep ==
  ASSUME IInv, NEW d \in calls, ConferenceJoins(d)
  PROVE  IInv'
<1> DEFINE n == [d EXCEPT !.step = "joined"]
<1>1. /\ d.call = "join" /\ d.step = "asked" /\ [call |-> "leave", id |-> d.id] \notin calls
      /\ joined' = joined \cup {d.id}
      /\ calls' = (calls \ {d}) \cup (IF d.waited THEN {n} ELSE {})
      /\ UNCHANGED <<portal, clients, past, bound>>
      /\ calls \subseteq Calls /\ joined \subseteq Sockets
  BY DEF ConferenceJoins, IInv, Types
<1>2. d \in JoinCalls
  BY <1>1 DEF Calls, JoinCalls
<1>3. n \in JoinCalls /\ n.call = "join" /\ n.id = d.id /\ n.token = d.token /\ n.waited = d.waited /\ n.step = "joined"
  BY <1>2 DEF JoinCalls
<1> HIDE DEF n
<1>4. calls' \subseteq Calls /\ joined' \subseteq Sockets
  BY <1>1, <1>2, <1>3 DEF Calls, JoinCalls
<1>5. ASSUME NEW e \in calls', e.call = "join"
      PROVE  \E f \in calls :
               /\ f.call = "join" /\ f.id = e.id /\ f.token = e.token /\ f.waited = e.waited
               /\ \A g \in calls' : g.call = "join" /\ g.token = e.token => g = e \/ ~g.waited \/ ~e.waited \/ ~Clean
  <2> DEFINE of(x) == IF x = n /\ n \notin calls THEN d ELSE x
  <2>1. \A x \in calls' : x.call = "join" =>
          of(x) \in calls /\ of(x).call = "join" /\ of(x).id = x.id /\ of(x).token = x.token /\ of(x).waited = x.waited
    BY <1>1, <1>3
  <2>2. ASSUME NEW g \in calls', g.call = "join", g.token = e.token, g.waited, e.waited, Clean
        PROVE  g = e
    <3>1. of(g) = of(e)
      <4> HIDE DEF of
      <4> QED
        BY <1>5, <2>1, <2>2, TokensDiffer
    <3> QED
      BY <1>1, <1>3, <1>5, <2>2, <3>1, TokensDiffer
  <2> HIDE DEF of
  <2> QED
    BY <1>5, <2>1, <2>2
<1>6. ConferenceFollows'
  <2> SUFFICES ASSUME Undisturbed'
               PROVE  ConferenceFollows'
    BY DEF ConferenceFollows
  <2>1. Undisturbed /\ Clean
    BY <1>1 DEF Undisturbed, Clean
  <2>2. /\ \A e \in calls : e.call = "join" => e.waited
        /\ \A p \in portal.participants : p \in joined \/ [call |-> "conference_lost"] \in calls
        /\ \A p \in Sockets : [call |-> "leave", id |-> p] \in calls =>
             /\ p \notin portal.participants
             /\ \A e \in Waited(p) : e.step # "joined"
        /\ \A p \in joined : \/ p \in portal.participants
                             \/ [call |-> "leave", id |-> p] \in calls
                             \/ \E e \in Waited(p) : e.step = "joined"
    BY <2>1 DEF IInv, ConferenceFollows
  <2>3. d.waited /\ calls' = (calls \ {d}) \cup {n} /\ portal' = portal
    BY <1>1, <2>2
  <2>4. \A p : Waited(p)' = IF p = d.id THEN (Waited(p) \ {d}) \cup {n} ELSE Waited(p)
    BY <1>1, <1>3, <2>3 DEF Waited
  <2>5. \A p : [call |-> "leave", id |-> p] \in calls' <=> [call |-> "leave", id |-> p] \in calls
    BY <1>1, <1>3, <2>3
  <2>6. [call |-> "conference_lost"] \in calls' <=> [call |-> "conference_lost"] \in calls
    BY <1>1, <1>3, <2>3
  <2>7. \A e \in calls' : e.call = "join" => e.waited
    BY <1>3, <2>2, <2>3
  <2>8. \A p \in portal.participants : p \in joined' \/ [call |-> "conference_lost"] \in calls'
    BY <1>1, <2>2, <2>6
  <2>9. \A p \in Sockets : [call |-> "leave", id |-> p] \in calls' =>
          p \notin portal.participants /\ \A e \in Waited(p)' : e.step # "joined"
    BY <1>1, <2>2, <2>4, <2>5
  <2>10. \A p \in joined' : \/ p \in portal.participants
                            \/ [call |-> "leave", id |-> p] \in calls'
                            \/ \E e \in Waited(p)' : e.step = "joined"
    BY <1>1, <1>3, <2>2, <2>4, <2>5
  <2> QED
    BY <2>3, <2>7, <2>8, <2>9, <2>10 DEF ConferenceFollows
<1> QED
  BY <1>1, <1>4, <1>5, <1>6, CallsStep

LEMMA ConferenceLeftStep ==
  ASSUME IInv, NEW d \in calls, ConferenceLeft(d)
  PROVE  IInv'
<1>1. /\ d.call = "leave" /\ joined' = joined \ {d.id} /\ calls' = calls \ {d}
      /\ UNCHANGED <<portal, clients, past, bound>>
      /\ calls \subseteq Calls /\ joined \subseteq Sockets
  BY DEF ConferenceLeft, IInv, Types
<1>2. d = [call |-> "leave", id |-> d.id] /\ d.id \in Sockets
  BY <1>1 DEF Calls, JoinCalls
<1>3. ConferenceFollows'
  <2> SUFFICES ASSUME Undisturbed'
               PROVE  ConferenceFollows'
    BY DEF ConferenceFollows
  <2>1. Undisturbed
    BY <1>1 DEF Undisturbed
  <2>2. \A p : Waited(p)' = Waited(p)
    BY <1>1 DEF Waited
  <2>3. \A p : p # d.id => ([call |-> "leave", id |-> p] \in calls' <=> [call |-> "leave", id |-> p] \in calls)
    <3> TAKE p
    <3>1. p # d.id => [call |-> "leave", id |-> p] # d
      BY <1>2
    <3> QED
      BY <1>1, <3>1
  <2>4. [call |-> "leave", id |-> d.id] \notin calls'
    BY <1>1, <1>2
  <2>5. [call |-> "conference_lost"] \in calls' <=> [call |-> "conference_lost"] \in calls
    BY <1>1
  <2>6. d.id \notin portal.participants
    BY <1>2, <2>1 DEF IInv, ConferenceFollows
  <2> QED
    BY <1>1, <2>1, <2>2, <2>3, <2>4, <2>5, <2>6 DEF IInv, ConferenceFollows
<1>4. \A e \in calls' : e.call = "join" =>
        \E f \in calls : /\ f.call = "join" /\ f.id = e.id /\ f.token = e.token /\ f.waited = e.waited
                        /\ \A g \in calls' : g.call = "join" /\ g.token = e.token => g = e \/ ~g.waited \/ ~e.waited \/ ~Clean
  BY <1>1, TokensDiffer
<1> QED
  BY <1>1, <1>3, <1>4, CallsStep

LEMMA DropCallStep ==
  ASSUME IInv, NEW p \in Sockets, Drop(p)
  PROVE  IInv'
<1> DEFINE n == [call |-> "drop", id |-> p]
<1>1. /\ calls' = calls \cup {n} /\ UNCHANGED <<portal, joined, clients, bound>>
      /\ past'.mishaps = past.mishaps /\ past'.logins = past.logins /\ DOMAIN past' = DOMAIN past
      /\ calls \subseteq Calls /\ joined \subseteq Sockets
  BY SpentFacts DEF Drop, IInv, Types
<1>2. n \in Calls /\ n.call = "drop"
  BY DEF Calls
<1> HIDE DEF n
<1>3. ConferenceFollows'
  <2> SUFFICES ASSUME Undisturbed'
               PROVE  ConferenceFollows'
    BY DEF ConferenceFollows
  <2>1. Undisturbed
    BY <1>1 DEF Undisturbed
  <2>2. \A x : Waited(x)' = Waited(x)
    BY <1>1, <1>2 DEF Waited
  <2>3. \A x : ([call |-> "leave", id |-> x] \in calls' <=> [call |-> "leave", id |-> x] \in calls)
    BY <1>1, <1>2
  <2>4. [call |-> "conference_lost"] \in calls => [call |-> "conference_lost"] \in calls'
    BY <1>1
  <2>5. \A e \in calls' : e.call = "join" => e \in calls
    BY <1>1, <1>2
  <2> QED
    BY <1>1, <2>1, <2>2, <2>3, <2>4, <2>5 DEF IInv, ConferenceFollows
<1>4. \A e \in calls' : e.call = "join" =>
        \E f \in calls : /\ f.call = "join" /\ f.id = e.id /\ f.token = e.token /\ f.waited = e.waited
                        /\ \A g \in calls' : g.call = "join" /\ g.token = e.token => g = e \/ ~g.waited \/ ~e.waited \/ ~Clean
  BY <1>1, <1>2, TokensDiffer
<1> QED
  BY <1>1, <1>2, <1>3, <1>4, CallsStep

LEMMA ConferenceLostStep ==
  ASSUME IInv, ConferenceLost
  PROVE  IInv'
<1> DEFINE of(d) == IF d.call = "join" /\ d.step = "asked" THEN [d EXCEPT !.step = "lost"] ELSE d
           n == [call |-> "conference_lost"]
<1>1. /\ calls' = {of(d) : d \in calls} \cup {n} /\ joined' = {} /\ UNCHANGED <<portal, clients, bound>>
      /\ past'.mishaps = past.mishaps /\ past'.logins = past.logins /\ DOMAIN past' = DOMAIN past
      /\ calls \subseteq Calls
  BY SpentFacts DEF ConferenceLost, IInv, Types
<1>2. ASSUME NEW d \in calls
      PROVE  /\ of(d) \in Calls /\ of(d).call = d.call
             /\ d.call = "join" =>
                  /\ of(d).id = d.id /\ of(d).token = d.token /\ of(d).waited = d.waited
                  /\ of(d).step = "joined" <=> d.step = "joined"
             /\ d.call # "join" => of(d) = d
  <2>1. CASE d.call = "join"
    <3>1. d \in JoinCalls
      BY <1>1, <2>1 DEF Calls, JoinCalls
    <3> QED
      BY <2>1, <3>1 DEF Calls, JoinCalls
  <2>2. CASE d.call # "join"
    BY <1>1, <2>2
  <2> QED
    BY <2>1, <2>2
<1>3. n \in Calls /\ n.call = "conference_lost"
  BY DEF Calls
<1> HIDE DEF of, n
<1>4. calls' \subseteq Calls
  BY <1>1, <1>2, <1>3
<1>5. ConferenceFollows'
  <2> SUFFICES ASSUME Undisturbed'
               PROVE  ConferenceFollows'
    BY DEF ConferenceFollows
  <2>1. Undisturbed
    BY <1>1 DEF Undisturbed
  <2>2. \A e \in calls' : e.call = "join" => e.waited
    BY <1>1, <1>2, <1>3, <2>1 DEF IInv, ConferenceFollows
  <2>3. n \in calls'
    BY <1>1
  <2>4. ASSUME NEW p \in Sockets, [call |-> "leave", id |-> p] \in calls'
        PROVE  p \notin portal.participants /\ \A e \in Waited(p)' : e.step # "joined"
    <3>1. [call |-> "leave", id |-> p] \in calls
      BY <1>1, <1>2, <1>3, <2>4
    <3>2. p \notin portal.participants /\ \A e \in Waited(p) : e.step # "joined"
      BY <2>1, <3>1 DEF IInv, ConferenceFollows
    <3>3. ASSUME NEW e \in Waited(p)'
          PROVE  e.step # "joined"
      <4>1. e \in calls' /\ e.call = "join" /\ e.waited /\ e.id = p
        BY <3>3 DEF Waited
      <4>2. PICK d \in calls : e = of(d)
        BY <1>1, <1>3, <4>1
      <4>3. d \in Waited(p)
        BY <1>2, <4>1, <4>2 DEF Waited
      <4>4. d.step # "joined" /\ d.call = "join"
        BY <3>2, <4>3 DEF Waited
      <4> QED
        BY <1>2, <4>2, <4>4
    <3> QED
      BY <3>2, <3>3
  <2> QED
    BY <1>1, <2>2, <2>3, <2>4 DEF ConferenceFollows, n
<1>6. ASSUME NEW e \in calls', e.call = "join"
      PROVE  \E f \in calls :
               /\ f.call = "join" /\ f.id = e.id /\ f.token = e.token /\ f.waited = e.waited
               /\ \A g \in calls' : g.call = "join" /\ g.token = e.token => g = e \/ ~g.waited \/ ~e.waited \/ ~Clean
  <2>1. \A x \in calls' : x.call = "join" =>
          \E d \in calls : /\ x = of(d) /\ d.call = "join" /\ d.id = x.id
                          /\ d.token = x.token /\ d.waited = x.waited
    BY <1>1, <1>2, <1>3
  <2>2. PICK f \in calls : e = of(f) /\ f.call = "join" /\ f.id = e.id /\ f.token = e.token /\ f.waited = e.waited
    BY <1>6, <2>1
  <2>3. ASSUME NEW g \in calls', g.call = "join", g.token = e.token, g.waited, e.waited, Clean
        PROVE  g = e
    <3>1. PICK h \in calls : g = of(h) /\ h.call = "join" /\ h.id = g.id /\ h.token = g.token /\ h.waited = g.waited
      BY <2>1, <2>3
    <3>2. h = f
      BY <2>2, <2>3, <3>1, TokensDiffer
    <3> QED
      BY <2>2, <3>1, <3>2
  <2> QED
    BY <2>2, <2>3
<1> QED
  BY <1>1, <1>4, <1>5, <1>6, CallsStep

-----------------------------------------------------------------------------
(* The steps in which connections and clients begin.                       *)
LEMMA LoginStep ==
  ASSUME IInv, NEW c \in Sockets, Login(c)
  PROVE  IInv'
<1> USE DEF IInv
<1> DEFINE n == [call |-> "join", id |-> c, token |-> past.logins + 1, step |-> "asked", waited |-> TRUE]
<1>1. /\ portal.link[c] = "up" /\ portal.conn[c].state = "initialized" /\ c \notin portal.participants
      /\ calls' = calls \cup {n} /\ UNCHANGED <<joined, bound>>
      /\ portal \in PortalType /\ portal.conn \in [Sockets -> ConnectionType]
      /\ portal.wire = <<>> /\ portal.leaving = {}
      /\ \A d \in Sockets : Len(portal.conn[d].buffer) <= portal.conn[d].seq
      /\ calls \subseteq Calls /\ past.logins \in Nat /\ bound \in Bounds
  BY DEF Types, PortalType, Login
<1>2. PICK v \in bound.versions, e \in BOOLEAN :
        portal' = [portal EXCEPT !.conn[c] = [@ EXCEPT !.state = "connecting", !.client = c, !.version = v, !.enabled = e]]
  BY DEF Login
<1> DEFINE K == [portal.conn[c] EXCEPT !.state = "connecting", !.client = c, !.version = v, !.enabled = e]
<1>3. v \in {"1.1", "1.2"}
  BY <1>1, <1>2, BoundsAssumption
<1>4. portal.conn[c] \in ConnectionType
  BY <1>1
<1>5. /\ K \in ConnectionType /\ K.state = "connecting" /\ K.client = c
      /\ K.buffer = portal.conn[c].buffer /\ K.seq = portal.conn[c].seq
  BY <1>2, <1>3, <1>4 DEF ConnectionType, States
<1>6. portal' = [portal EXCEPT !.conn[c] = K]
  BY <1>2
<1> HIDE DEF K
<1>7. /\ portal' \in PortalType /\ portal'.conn = [portal.conn EXCEPT ![c] = K]
      /\ portal'.dock = portal.dock /\ portal'.tasks = portal.tasks /\ portal'.link = portal.link
      /\ portal'.wire = portal.wire /\ portal'.participants = portal.participants /\ portal'.leaving = portal.leaving
  BY <1>1, <1>5, <1>6, WithConnection
<1>8. portal'.conn[c] = K /\ \A d \in Sockets : d # c => portal'.conn[d] = portal.conn[d]
  BY <1>1, <1>7
<1>9. /\ past.mishaps \subseteq past'.mishaps /\ past'.logins = past.logins + 1 /\ DOMAIN past' = DOMAIN past
      /\ Waited(c) # {} => "reused" \in past'.mishaps
  <2>1. past' = [past EXCEPT !["logins"] = @ + 1, !.mishaps = @ \cup (Reused(c) \cup Inherited(c))]
    BY DEF Login, SpendNoting
  <2>2. DOMAIN past = {"logins", "breaks", "pauses", "drops", "faults", "mishaps"}
    BY DEF Types
  <2>3. Waited(c) # {} => "reused" \in Reused(c)
    BY DEF Reused, Waited
  <2> QED
    BY <2>1, <2>2, <2>3
<1>10. n \in JoinCalls /\ n.call = "join" /\ n.id = c /\ n.token = past.logins + 1 /\ n.step = "asked" /\ n.waited
  BY <1>1 DEF JoinCalls
<1> HIDE DEF n
<1>11. n \notin calls
  BY <1>1, <1>10 DEF TokensOwn
<1>12. /\ Clean' => Clean /\ Waited(c) = {}
       /\ Timely' => Timely /\ Clean'
       /\ Undisturbed' => Undisturbed /\ Clean'
  BY <1>9 DEF Clean, Timely, Undisturbed
<1>13. \A x : Waited(x)' = IF x = c THEN Waited(x) \cup {n} ELSE Waited(x)
  BY <1>1, <1>10 DEF Waited
<1>14. \A p \in DOMAIN portal.dock : portal.dock[p].conn \in Sockets
  BY <1>1, DockType
<1>15. ASSUME Clean'
       PROVE  \A p \in DOMAIN portal.dock : portal.dock[p].conn # c
  BY <1>1, <1>12, <1>15 DEF Owned, InService
<1>a. DOMAIN clients' = DOMAIN clients /\ clients'.tickets = clients.tickets /\ clients'.sent \in [Sockets -> Nat]
  <2>1. DOMAIN clients = {"tickets", "sent", "lost", "got"} /\ clients.sent \in [Sockets -> Nat]
    BY DEF Types
  <2>2. /\ DOMAIN clients' = DOMAIN clients /\ clients'.tickets = clients.tickets
        /\ clients'.sent = [clients.sent EXCEPT ![c] = 0]
    BY <2>1 DEF Login
  <2> QED
    BY <2>1, <2>2
<1>16. Types'
  BY <1>1, <1>5, <1>7, <1>8, <1>9, <1>10, <1>a DEF Types, Calls
<1>17. (Clean => Owned(portal))'
  BY <1>7, <1>8, <1>12, <1>14, <1>15 DEF Owned
<1>18. (Timely => Awaited(portal))'
  BY <1>7, <1>8, <1>12, <1>14, <1>15 DEF Awaited
<1>19. WaitingAreClosed(portal)' /\ LoginsNamed'
  BY <1>5, <1>7, <1>8 DEF WaitingAreClosed, LoginsNamed
<1>20. LoginsOpen'
  BY <1>1, <1>7, <1>8, <1>12 DEF LoginsOpen
<1>21. Participants'
  BY <1>7, <1>12 DEF Participants
<1>22. LoginsApart'
  <2> SUFFICES ASSUME Clean', NEW x \in Sockets, NEW d \in Waited(x)'
               PROVE  /\ Waited(x)' = {d}
                      /\ portal'.conn[x].state \notin InService /\ x \notin DOMAIN portal'.dock
    BY DEF LoginsApart
  <2>1. CASE x = c
    <3>1. Waited(c)' = {n}
      BY <1>12, <1>13
    <3>2. c \notin DOMAIN portal.dock
      BY <1>1, <1>12 DEF Participants
    <3> QED
      BY <1>5, <1>7, <1>8, <2>1, <3>1, <3>2 DEF InService
  <2>2. CASE x # c
    BY <1>7, <1>8, <1>12, <1>13, <2>2 DEF LoginsApart
  <2> QED
    BY <2>1, <2>2
<1>23. TokensOwn'
  <2>1. \A d \in calls : d.call = "join" => d.token \in Nat /\ d.token <= past.logins
    BY <1>1 DEF TokensOwn, Calls, JoinCalls
  <2>2. \A d \in calls' : d.call = "join" => d.token <= past'.logins
    BY <1>1, <1>9, <1>10, <2>1
  <2>3. \A p \in DOMAIN portal'.dock : portal'.dock[p].token <= past'.logins
    <3>1. \A p \in DOMAIN portal.dock : portal.dock[p].token \in Nat /\ portal.dock[p].token <= past.logins
      BY <1>1, DockType DEF TokensOwn
    <3> QED
      BY <1>1, <1>7, <1>9, <3>1
  <2>4. \A d, e2 \in calls' : d.call = "join" /\ e2.call = "join" /\ d.token = e2.token => d.id = e2.id
    BY <1>1, <1>10, <2>1 DEF TokensOwn
  <2> QED
    BY <2>2, <2>3, <2>4 DEF TokensOwn
<1>24. TasksOwned'
  <2>1. \A p \in DOMAIN portal.dock : portal.dock[p].token \in Nat /\ portal.dock[p].token <= past.logins
    BY <1>1, DockType DEF TokensOwn
  <2>2. \A p \in DOMAIN portal.dock : n.token # portal.dock[p].token
    BY <1>1, <1>10, <2>1
  <2> QED
    BY <1>1, <1>7, <1>12, <2>2 DEF TasksOwned
<1>25. ConferenceFollows'
  <2> SUFFICES ASSUME Undisturbed'
               PROVE  ConferenceFollows'
    BY DEF ConferenceFollows
  <2>1. Undisturbed /\ Waited(c) = {}
    BY <1>12
  <2>2. \A x : [call |-> "leave", id |-> x] \in calls' <=> [call |-> "leave", id |-> x] \in calls
    BY <1>1, <1>10
  <2>3. [call |-> "conference_lost"] \in calls => [call |-> "conference_lost"] \in calls'
    BY <1>1
  <2>4. \A x : \A d \in Waited(x) : d \in Waited(x)'
    BY <1>13
  <2>5. \A x : \A d \in Waited(x)' : d.step = "joined" => d \in Waited(x)
    BY <1>10, <1>13
  <2> QED
    BY <1>1, <1>7, <1>10, <2>1, <2>2, <2>3, <2>4, <2>5 DEF ConferenceFollows
<1> QED
  BY <1>16, <1>17, <1>18, <1>19, <1>20, <1>21, <1>22, <1>23, <1>24, <1>25

(* A dictionary with another entry.                                        *)
LEMMA AddedType ==
  ASSUME NEW f \in Docks, NEW p \in Sockets, NEW v \in [conn : Sockets, token : Nat]
  PROVE  /\ With(f, p, v) \in Docks /\ DOMAIN With(f, p, v) = DOMAIN f \cup {p} /\ With(f, p, v)[p] = v
         /\ \A x \in DOMAIN f : x # p => With(f, p, v)[x] = f[x]
<1>1. PICK S \in SUBSET Sockets : f \in [S -> [conn : Sockets, token : Nat]]
  BY DEF Docks
<1>2. With(f, p, v) \in [S \cup {p} -> [conn : Sockets, token : Nat]]
  BY <1>1 DEF With
<1>3. S \cup {p} \in SUBSET Sockets
  BY <1>1
<1> QED
  BY <1>1, <1>2, <1>3 DEF With, Docks

(* What the answer to a login finds.                                       *)
LEMMA JoinedFacts ==
  ASSUME IInv, NEW d \in calls, Joined(d)
  PROVE  /\ d \in JoinCalls /\ d.call = "join" /\ d.step = "joined" /\ d.id \in Sockets /\ d.token \in Nat
         /\ UNCHANGED <<joined, bound>>
         /\ past.mishaps \subseteq past'.mishaps /\ past'.logins = past.logins /\ DOMAIN past' = DOMAIN past
         /\ Undisturbed' => d.id \in joined
         /\ DOMAIN clients' = DOMAIN clients /\ clients'.tickets \subseteq Sockets /\ clients'.sent = clients.sent
         /\ Becomes(LoggedIn([portal EXCEPT !.participants = @ \cup {d.id}], d.id, d.token), calls \ {d})
<1>1. d.call = "join" /\ d.step = "joined" /\ UNCHANGED <<joined, bound>> /\ calls \subseteq Calls
      /\ Becomes(LoggedIn([portal EXCEPT !.participants = @ \cup {d.id}], d.id, d.token), calls \ {d})
  BY DEF Joined, IInv, Types
<1>2. d \in JoinCalls /\ d.id \in Sockets /\ d.token \in Nat
  BY <1>1 DEF Calls, JoinCalls
<1>3. /\ DOMAIN clients = {"tickets", "sent", "lost", "got"} /\ clients.tickets \subseteq Sockets
      /\ clients' = [clients EXCEPT !.tickets = @ \cup {d.id}] \/ clients' = clients
  BY DEF Joined, IInv, Types
<1>4. DOMAIN clients' = DOMAIN clients /\ clients'.tickets \subseteq Sockets /\ clients'.sent = clients.sent
  BY <1>2, <1>3
<1>5. Noting(IF d.id \in joined THEN {} ELSE {"late_answer"})
  BY DEF Joined
<1>6. past'.mishaps = past.mishaps \cup (IF d.id \in joined THEN {} ELSE {"late_answer"})
      /\ past'.logins = past.logins /\ DOMAIN past' = DOMAIN past
  BY <1>5, NotedFacts
<1>7. Undisturbed' => d.id \in joined
  BY <1>6 DEF Undisturbed
<1> QED
  BY <1>1, <1>2, <1>4, <1>6, <1>7

(* The login is answered: the participant has a client.                    *)
LEMMA JoinedPortal ==
  ASSUME IInv, NEW d \in calls, Joined(d), portal.conn[d.id].state = "connecting"
  PROVE  LET c == d.id
             K == [portal.conn[c] EXCEPT !.state = "connected"]
             v == [conn |-> c, token |-> d.token]
             g == With(portal.dock, c, v)
         IN /\ K \in ConnectionType /\ K.state = "connected" /\ K.client = portal.conn[c].client
            /\ K.buffer = portal.conn[c].buffer /\ K.seq = portal.conn[c].seq
            /\ K.pending = portal.conn[c].pending /\ K.version = portal.conn[c].version
            /\ g \in Docks /\ DOMAIN g = DOMAIN portal.dock \cup {c} /\ g[c] = v
            /\ \A x \in DOMAIN portal.dock : x # c => g[x] = portal.dock[x]
            /\ portal' \in PortalType /\ portal'.leaving = {} /\ portal'.wire = <<>>
            /\ portal'.conn = [portal.conn EXCEPT ![c] = K] /\ portal'.link = portal.link /\ portal'.dock = g
            /\ portal'.tasks = portal.tasks \cup {d.token} /\ portal'.participants = portal.participants \cup {c}
            /\ calls' = calls \ {d}
<1> USE DEF IInv
<1> DEFINE c == d.id
           v == [conn |-> c, token |-> d.token]
           K == [portal.conn[c] EXCEPT !.state = "connected"]
           P == [portal EXCEPT !.participants = @ \cup {c}]
           S == [P EXCEPT !.conn[c].state = "connected"]
           Q == OnClientJoined(S, c, c, d.token)
<1>1. /\ d \in JoinCalls /\ d.call = "join" /\ d.step = "joined" /\ c \in Sockets /\ d.token \in Nat
      /\ UNCHANGED <<joined, bound>>
      /\ past.mishaps \subseteq past'.mishaps /\ past'.logins = past.logins /\ DOMAIN past' = DOMAIN past
      /\ Undisturbed' => c \in joined
      /\ DOMAIN clients' = DOMAIN clients /\ clients'.tickets \subseteq Sockets /\ clients'.sent = clients.sent
      /\ Becomes(LoggedIn(P, c, d.token), calls \ {d})
  BY JoinedFacts
<1>2. /\ portal \in PortalType /\ portal.wire = <<>> /\ portal.leaving = {}
      /\ portal.conn \in [Sockets -> ConnectionType] /\ portal.dock \in Docks
      /\ \A x \in Sockets : Len(portal.conn[x].buffer) <= portal.conn[x].seq
      /\ portal.tasks \subseteq Nat /\ portal.participants \subseteq Sockets
      /\ calls \subseteq Calls /\ v \in [conn : Sockets, token : Nat]
  BY <1>1 DEF Types, PortalType
<1>3. /\ K \in ConnectionType /\ K.state = "connected" /\ K.client = portal.conn[c].client
      /\ K.buffer = portal.conn[c].buffer /\ K.seq = portal.conn[c].seq
      /\ K.pending = portal.conn[c].pending /\ K.version = portal.conn[c].version
  <2>1. portal.conn[c] \in ConnectionType
    BY <1>1, <1>2
  <2> QED
    BY <2>1 DEF ConnectionType, States
<1>4. /\ P \in PortalType /\ P.conn = portal.conn /\ P.participants = portal.participants \cup {c}
      /\ P.dock = portal.dock /\ P.tasks = portal.tasks /\ P.link = portal.link /\ P.wire = portal.wire
      /\ P.leaving = portal.leaving
  BY <1>1, <1>2 DEF PortalType
<1>5. LoggedIn(P, c, d.token) = Q
  BY <1>4 DEF LoggedIn
<1> HIDE DEF P
<1>6. S = [P EXCEPT !.conn[c] = K]
  BY <1>4
<1> HIDE DEF K, S
<1>7. /\ S \in PortalType /\ S.conn = [portal.conn EXCEPT ![c] = K] /\ S.participants = portal.participants \cup {c}
      /\ S.dock = portal.dock /\ S.tasks = portal.tasks /\ S.link = portal.link /\ S.wire = portal.wire
      /\ S.leaving = portal.leaving
  BY <1>1, <1>3, <1>4, <1>6, WithConnection
<1> DEFINE g == With(portal.dock, c, v)
<1>8. /\ g \in Docks /\ DOMAIN g = DOMAIN portal.dock \cup {c} /\ g[c] = v
      /\ \A x \in DOMAIN portal.dock : x # c => g[x] = portal.dock[x]
  <2> HIDE DEF v, c
  <2>1. c \in Sockets /\ portal.dock \in Docks /\ v \in [conn : Sockets, token : Nat]
    BY <1>1, <1>2
  <2> QED
    BY ONLY <2>1, AddedType
<1>9. Q = [S EXCEPT !.dock = g, !.tasks = @ \cup {d.token}]
  BY <1>7 DEF OnClientJoined
<1> HIDE DEF g, v, Q
<1>10. /\ Q \in PortalType /\ Q.conn = S.conn /\ Q.link = S.link /\ Q.wire = S.wire /\ Q.leaving = S.leaving
       /\ Q.participants = S.participants /\ Q.dock = g /\ Q.tasks = S.tasks \cup {d.token}
  BY <1>1, <1>7, <1>8, <1>9 DEF PortalType
<1>11. /\ portal' \in PortalType /\ portal'.leaving = {} /\ portal'.wire = <<>>
       /\ portal'.conn = [portal.conn EXCEPT ![c] = K] /\ portal'.link = portal.link /\ portal'.dock = g
       /\ portal'.tasks = portal.tasks \cup {d.token} /\ portal'.participants = portal.participants \cup {c}
  BY <1>1, <1>2, <1>5, <1>7, <1>10, BecomesFacts
<1>12. calls' = calls \ {d}
  BY <1>1, <1>2, <1>5, <1>7, <1>10 DEF Becomes
<1> QED
  BY <1>3, <1>8, <1>11, <1>12 DEF K, g, v

LEMMA JoinedStep ==
  ASSUME IInv, NEW d \in calls, Joined(d), portal.conn[d.id].state = "connecting", d.waited
  PROVE  IInv'
<1> USE DEF IInv
<1> DEFINE c == d.id
           v == [conn |-> c, token |-> d.token]
           K == [portal.conn[c] EXCEPT !.state = "connected"]
           P == [portal EXCEPT !.participants = @ \cup {c}]
           g == With(portal.dock, c, v)
<1>1. /\ d \in JoinCalls /\ d.call = "join" /\ d.step = "joined" /\ c \in Sockets /\ d.token \in Nat
      /\ UNCHANGED <<joined, bound>>
      /\ past.mishaps \subseteq past'.mishaps /\ past'.logins = past.logins /\ DOMAIN past' = DOMAIN past
      /\ Undisturbed' => c \in joined
      /\ DOMAIN clients' = DOMAIN clients /\ clients'.tickets \subseteq Sockets /\ clients'.sent = clients.sent
      /\ Becomes(LoggedIn(P, c, d.token), calls \ {d})
  BY JoinedFacts
<1>2. /\ portal \in PortalType /\ portal.wire = <<>> /\ portal.leaving = {}
      /\ portal.conn \in [Sockets -> ConnectionType] /\ portal.dock \in Docks
      /\ \A x \in Sockets : Len(portal.conn[x].buffer) <= portal.conn[x].seq
      /\ portal.tasks \subseteq Nat /\ portal.participants \subseteq Sockets
      /\ calls \subseteq Calls /\ v \in [conn : Sockets, token : Nat]
  BY <1>1 DEF Types, PortalType
<1>3. /\ K \in ConnectionType /\ K.state = "connected" /\ K.client = portal.conn[c].client
      /\ K.buffer = portal.conn[c].buffer /\ K.seq = portal.conn[c].seq
  BY JoinedPortal
<1>8. /\ g \in Docks /\ DOMAIN g = DOMAIN portal.dock \cup {c} /\ g[c] = v
      /\ \A x \in DOMAIN portal.dock : x # c => g[x] = portal.dock[x]
  BY JoinedPortal
<1>11. /\ portal' \in PortalType /\ portal'.leaving = {} /\ portal'.wire = <<>>
       /\ portal'.conn = [portal.conn EXCEPT ![c] = K] /\ portal'.link = portal.link /\ portal'.dock = g
       /\ portal'.tasks = portal.tasks \cup {d.token} /\ portal'.participants = portal.participants \cup {c}
  BY JoinedPortal
<1>12. calls' = calls \ {d}
  BY JoinedPortal
<1> HIDE DEF P, K, g, v
<1> HIDE DEF c
<1>13. portal'.conn[c] = K /\ \A x \in Sockets : x # c => portal'.conn[x] = portal.conn[x]
  BY <1>1, <1>2, <1>11
<1>14. Clean' => Clean /\ Waited(c) = {d} /\ c \notin DOMAIN portal.dock /\ portal.conn[c].state \notin InService
  <2>1. Clean' => Clean
    BY <1>1 DEF Clean
  <2>2. d \in Waited(c)
    BY <1>1 DEF Waited, c
  <2> QED
    BY <1>1, <2>1, <2>2 DEF LoginsApart
<1>15. \A x : Waited(x)' = Waited(x) \ {d}
  BY <1>12 DEF Waited
<1>16. K.client = c
  BY <1>1, <1>3 DEF LoginsNamed, c
<1>17. \A p \in DOMAIN portal.dock : portal.dock[p].conn \in Sockets /\ portal.dock[p].token \in Nat
  BY <1>2, DockType
<1>18. ASSUME Clean'
       PROVE  \A p \in DOMAIN portal.dock : portal.dock[p].conn # c
  BY <1>14, <1>18 DEF Owned
<1>19. Types'
  <2>1. \A x \in Sockets : Len(portal'.conn[x].buffer) <= portal'.conn[x].seq
    BY <1>2, <1>3, <1>13
  <2> QED
    BY <1>1, <1>2, <1>11, <1>12, <2>1 DEF Types
<1>20. (Clean => Owned(portal))'
  BY <1>3, <1>8, <1>11, <1>13, <1>14, <1>16, <1>17, <1>18 DEF Owned, InService, v
<1>21. (Timely => Awaited(portal))'
  <2> SUFFICES ASSUME Timely' PROVE Awaited(portal')
    OBVIOUS
  <2>1. Timely /\ Clean'
    BY <1>1 DEF Timely, Clean
  <2>2. portal.link[c] # "closed"
    BY <1>1, <2>1 DEF LoginsOpen, c
  <2> QED
    BY <1>8, <1>11, <1>13, <1>17, <1>18, <2>1, <2>2 DEF Awaited, v
<1>22. WaitingAreClosed(portal)' /\ LoginsNamed'
  BY <1>3, <1>11, <1>13 DEF WaitingAreClosed, LoginsNamed
<1>23. LoginsOpen'
  <2>1. Timely' => Timely
    BY <1>1 DEF Timely
  <2> QED
    BY <1>3, <1>11, <1>13, <2>1 DEF LoginsOpen
<1>24. Participants'
  BY <1>8, <1>11, <1>14 DEF Participants
<1>25. LoginsApart'
  <2> SUFFICES ASSUME Clean', NEW x \in Sockets, NEW e \in Waited(x)'
               PROVE  /\ Waited(x)' = {e}
                      /\ portal'.conn[x].state \notin InService /\ x \notin DOMAIN portal'.dock
    BY DEF LoginsApart
  <2>1. x # c
    BY <1>14, <1>15
  <2>2. e \in Waited(x)
    BY <1>15
  <2>3. Waited(x) = {e} /\ portal.conn[x].state \notin InService /\ x \notin DOMAIN portal.dock
    BY <1>14, <2>2 DEF LoginsApart
  <2>4. Waited(x)' = {e}
    BY <1>15, <2>3
  <2> QED
    BY <1>8, <1>11, <1>13, <2>1, <2>3, <2>4
<1>26. TokensOwn'
  <2>1. \A p \in DOMAIN portal'.dock : portal'.dock[p].token <= past'.logins
    BY <1>1, <1>8, <1>11 DEF TokensOwn, v
  <2> QED
    BY <1>1, <1>12, <2>1 DEF TokensOwn
<1>27. TasksOwned'
  <2> SUFFICES ASSUME Clean'
               PROVE  /\ portal'.tasks = {portal'.dock[p].token : p \in DOMAIN portal'.dock}
                      /\ \A p, q \in DOMAIN portal'.dock : portal'.dock[p].token = portal'.dock[q].token => p = q
                      /\ \A e \in calls', p \in DOMAIN portal'.dock :
                           e.call = "join" /\ e.waited => e.token # portal'.dock[p].token
    BY DEF TasksOwned
  <2>1. /\ portal.tasks = {portal.dock[p].token : p \in DOMAIN portal.dock}
        /\ \A p, q \in DOMAIN portal.dock : portal.dock[p].token = portal.dock[q].token => p = q
        /\ \A e \in calls, p \in DOMAIN portal.dock :
             e.call = "join" /\ e.waited => e.token # portal.dock[p].token
    BY <1>14 DEF TasksOwned
  <2>2. DOMAIN g = DOMAIN portal.dock \cup {c} /\ g[c].token = d.token
        /\ \A p \in DOMAIN portal.dock : g[p] = portal.dock[p]
    BY <1>8, <1>14 DEF v
  <2>3. {g[p].token : p \in DOMAIN g} = portal.tasks \cup {d.token}
    BY <2>1, <2>2
  <2>4. \A p \in DOMAIN portal.dock : d.token # portal.dock[p].token
    BY <1>1, <2>1
  <2>5. \A p, q \in DOMAIN g : g[p].token = g[q].token => p = q
    BY <2>1, <2>2, <2>4
  <2>6. \A e \in calls' : e.call = "join" /\ e.waited => e.token # d.token
    BY <1>1, <1>12, <1>14, TokensDiffer
  <2>7. \A e \in calls', p \in DOMAIN g : e.call = "join" /\ e.waited => e.token # g[p].token
    BY <1>12, <2>1, <2>2, <2>6
  <2> QED
    BY <1>11, <2>3, <2>5, <2>7
<1>28. ConferenceFollows'
  <2> SUFFICES ASSUME Undisturbed'
               PROVE  ConferenceFollows'
    BY DEF ConferenceFollows
  <2>1. Undisturbed /\ Clean' /\ c \in joined
    BY <1>1 DEF Undisturbed, Clean, c
  <2>2. \A x : [call |-> "leave", id |-> x] \in calls' <=> [call |-> "leave", id |-> x] \in calls
    BY <1>1, <1>12
  <2>3. [call |-> "conference_lost"] \in calls => [call |-> "conference_lost"] \in calls'
    BY <1>1, <1>12
  <2>4. [call |-> "leave", id |-> c] \notin calls
    BY <1>1, <1>14, <2>1 DEF ConferenceFollows, c
  <2>5. \A x : x # c => Waited(x)' = Waited(x)
    BY <1>15 DEF Waited, c
  <2>6. \A e \in calls' : e.call = "join" => e.waited
    BY <1>12, <2>1 DEF ConferenceFollows
  <2>7. \A p \in portal'.participants : p \in joined' \/ [call |-> "conference_lost"] \in calls'
    BY <1>1, <1>11, <2>1, <2>3 DEF ConferenceFollows
  <2>8. \A p \in Sockets : [call |-> "leave", id |-> p] \in calls' =>
          p \notin portal'.participants /\ \A e \in Waited(p)' : e.step # "joined"
    BY <1>11, <1>15, <2>1, <2>2, <2>4 DEF ConferenceFollows
  <2>9. \A p \in joined' : \/ p \in portal'.participants
                           \/ [call |-> "leave", id |-> p] \in calls'
                           \/ \E e \in Waited(p)' : e.step = "joined"
    <3> TAKE p \in joined'
    <3>1. CASE p = c
      BY <1>11, <3>1
    <3>2. CASE p # c
      <4>1. \/ p \in portal.participants
            \/ [call |-> "leave", id |-> p] \in calls
            \/ \E e \in Waited(p) : e.step = "joined"
        BY <1>1, <2>1 DEF ConferenceFollows
      <4> QED
        BY <1>11, <2>2, <2>5, <3>2, <4>1
    <3> QED
      BY <3>1, <3>2
  <2> QED
    BY <2>6, <2>7, <2>8, <2>9 DEF ConferenceFollows
<1> QED
  BY <1>19, <1>20, <1>21, <1>22, <1>23, <1>24, <1>25, <1>26, <1>27, <1>28

(* The login is answered after the connection was logged out: the          *)
(* participant leaves, and the socket is closed.                           *)
LEMMA JoinedLateStep ==
  ASSUME IInv, NEW d \in calls, Joined(d), portal.conn[d.id].state # "connecting", d.waited
  PROVE  IInv' /\ Quiet
<1> DEFINE c == d.id
           K == [portal.conn[c] EXCEPT !.state = "initialized"]
           P == [portal EXCEPT !.participants = @ \cup {c}]
           L == PortalLeave(P, c)
           S == [L EXCEPT !.conn[c].state = "initialized"]
           Q == Disconnect(S, c)
           leave == [call |-> "leave", id |-> c]
<1>1. /\ d \in JoinCalls /\ d.call = "join" /\ d.step = "joined" /\ c \in Sockets /\ d.token \in Nat
      /\ UNCHANGED <<joined, bound>>
      /\ past.mishaps \subseteq past'.mishaps /\ past'.logins = past.logins /\ DOMAIN past' = DOMAIN past
      /\ Undisturbed' => c \in joined
      /\ Becomes(LoggedIn(P, c, d.token), calls \ {d})
  BY JoinedFacts
<1>2. /\ portal \in PortalType /\ portal.wire = <<>> /\ portal.leaving = {}
      /\ portal.conn \in [Sockets -> ConnectionType] /\ portal.link \in [Sockets -> Links]
      /\ portal.participants \subseteq Sockets /\ calls \subseteq Calls
  BY DEF IInv, Types, PortalType
<1>3. portal.conn[c] \in ConnectionType /\ portal.link[c] \in Links
  BY <1>1, <1>2
<1>4. K \in ConnectionType /\ K.state = "initialized"
      /\ Ends(portal, c, K, portal.link[c]) /\ Ends(portal, c, K, "closed")
  BY <1>3 DEF ConnectionType, States, Ends, Lessens, InService
<1>5. /\ P \in PortalType /\ P.conn = portal.conn /\ P.participants = portal.participants \cup {c}
      /\ P.dock = portal.dock /\ P.tasks = portal.tasks /\ P.link = portal.link /\ P.wire = portal.wire
      /\ P.leaving = {}
  BY <1>1, <1>2 DEF PortalType
<1>6. LoggedIn(P, c, d.token) = Q
  BY <1>5 DEF LoggedIn
<1> HIDE DEF P
<1>7. L = [P EXCEPT !.participants = @ \ {c}, !.leaving = @ \cup {c}]
  BY <1>5 DEF PortalLeave
<1> HIDE DEF L
<1>8. /\ L \in PortalType /\ L.conn = portal.conn /\ L.participants = portal.participants \ {c}
      /\ L.dock = portal.dock /\ L.tasks = portal.tasks /\ L.link = portal.link /\ L.wire = portal.wire
      /\ L.leaving = {c}
  BY <1>1, <1>2, <1>5, <1>7 DEF PortalType
<1>9. S = [L EXCEPT !.conn[c] = K]
  BY <1>8
<1> HIDE DEF K, S, c
<1>10. /\ S \in PortalType /\ S.conn = [portal.conn EXCEPT ![c] = K] /\ S.participants = portal.participants \ {c}
       /\ S.dock = portal.dock /\ S.tasks = portal.tasks /\ S.link = portal.link /\ S.wire = portal.wire
       /\ S.leaving = {c}
  BY <1>1, <1>4, <1>8, <1>9, WithConnection
<1>11. \/ Q = S /\ portal.link[c] \notin {"up", "broken"}
       \/ Q = Closed(S, c)
  <2>1. S.conn[c].state = "initialized"
    BY <1>1, <1>2, <1>4, <1>10
  <2>2. Closed(S, c).conn = S.conn
    BY <1>1, <1>10, ClosedFacts
  <2> QED
    BY <1>10, <2>1, <2>2 DEF Disconnect, OnDisconnect, Closed
<1>12. PICK l \in {portal.link[c], "closed"} :
         /\ l \in {"closed", "none"}
         /\ Q \in PortalType /\ Q.conn = S.conn /\ Q.dock = S.dock /\ Q.tasks = S.tasks /\ Q.wire = S.wire
         /\ Q.participants = S.participants /\ Q.leaving = S.leaving /\ Q.link = [portal.link EXCEPT ![c] = l]
  <2>1. portal.link = [portal.link EXCEPT ![c] = portal.link[c]]
    BY <1>2
  <2>2. /\ Closed(S, c) \in PortalType /\ Closed(S, c).link = [S.link EXCEPT ![c] = "closed"]
        /\ Closed(S, c).dock = S.dock /\ Closed(S, c).tasks = S.tasks /\ Closed(S, c).conn = S.conn
        /\ Closed(S, c).wire = S.wire
        /\ Closed(S, c).participants = S.participants /\ Closed(S, c).leaving = S.leaving
    BY <1>1, <1>10, ClosedFacts
  <2> HIDE DEF Q
  <2>3. CASE Q = S /\ portal.link[c] \notin {"up", "broken"}
    <3>1. portal.link[c] \in {"closed", "none"}
      BY <1>3, <2>3 DEF Links
    <3> QED
      BY <1>10, <2>1, <2>3, <3>1
  <2>4. CASE Q = Closed(S, c)
    BY <1>10, <2>2, <2>4
  <2> QED
    BY <1>11, <2>3, <2>4
<1> HIDE DEF Q
<1>13. /\ portal' \in PortalType /\ portal'.leaving = {} /\ portal'.wire = portal.wire
       /\ portal'.conn = [portal.conn EXCEPT ![c] = K] /\ portal'.link = [portal.link EXCEPT ![c] = l]
       /\ portal'.dock = portal.dock /\ portal'.tasks = portal.tasks
       /\ portal'.participants = portal.participants \ {c}
  BY <1>1, <1>6, <1>10, <1>12, BecomesFacts
<1>14. calls' = (calls \ {d}) \cup {leave}
  BY <1>1, <1>6, <1>10, <1>12 DEF Becomes
<1>15. leave \in Calls /\ leave.call = "leave" /\ leave.id = c
  BY <1>1 DEF Calls
<1> DEFINE T == Changed(portal, c, K, l)
<1>16. l \in Links /\ Ends(portal, c, K, l)
  BY <1>3, <1>4 DEF Links
<1>17. /\ T \in PortalType /\ Shrinks(portal, T)
       /\ T.conn = [portal.conn EXCEPT ![c] = K] /\ T.link = [portal.link EXCEPT ![c] = l]
       /\ T.dock = portal.dock /\ T.tasks = portal.tasks /\ T.wire = portal.wire
       /\ T.participants = portal.participants /\ T.leaving = portal.leaving
  <2>1. Shrinks(portal, T)
    BY <1>1, <1>2, <1>16, EndShrinks
  <2> QED
    BY <1>1, <1>2, <1>4, <1>16, <2>1, ChangedFacts
<1>18. Shrinks(portal, portal')
  <2> HIDE DEF T
  <2> QED
    BY <1>13, <1>17 DEF Shrinks
<1>19. d \in Waited(c)
  BY <1>1 DEF Waited, c
<1>20. ASSUME Clean
       PROVE  /\ Waited(c) = {d} /\ c \notin portal.participants
              /\ Leaves(portal, portal', {})
  <2>1. Owned(portal) /\ Waited(c) = {d} /\ portal.conn[c].state \notin InService /\ c \notin DOMAIN portal.dock
    BY <1>1, <1>19, <1>20 DEF IInv, LoginsApart
  <2>2. ~\E p \in DOMAIN portal.dock : portal.dock[p].conn = c
    BY <2>1 DEF Owned
  <2>3. Leaves(portal, T, {})
    BY <1>1, <1>2, <1>16, <2>1, <2>2, EndLeaves
  <2>4. c \notin portal.participants
    BY <1>20, <2>1 DEF IInv, Participants
  <2> HIDE DEF T
  <2>5. portal' = T
    <3>1. portal.participants \ {c} = portal.participants
      BY <2>4
    <3>2. /\ portal'.conn = T.conn /\ portal'.link = T.link /\ portal'.dock = T.dock /\ portal'.tasks = T.tasks
          /\ portal'.participants = T.participants /\ portal'.leaving = T.leaving /\ portal'.wire = T.wire
      BY <1>2, <1>13, <1>17, <3>1
    <3>3. portal' \in PortalType /\ T \in PortalType
      BY <1>13, <1>17
    <3> QED
      BY ONLY <3>2, <3>3, SamePortal
  <2> QED
    BY <2>1, <2>3, <2>4, <2>5
<1>21. Becomes(portal', calls')
  <2>1. [portal' EXCEPT !.leaving = {}] = portal'
    BY <1>13 DEF PortalType
  <2> QED
    BY <1>13, <2>1 DEF Becomes
<1> HIDE DEF leave
<1>22. JoinsAmong(calls') /\ calls' \subseteq Calls
  BY <1>2, <1>14, <1>15 DEF JoinsAmong
<1>a. Served(portal) => Served(portal')
  <2>1. Served(portal) => Served(T)
    BY <1>1, <1>2, <1>12, <1>16, ChangedServed
  <2> HIDE DEF T
  <2> QED
    BY <1>13, <1>17, <2>1 DEF Served
<1>23. Ending(portal', calls')
  BY <1>1, <1>18, <1>20, <1>21, <1>22, <1>a, JoinedFacts DEF Ending
<1>24. LoginsOpen'
  <2> SUFFICES ASSUME Timely', NEW e \in Sockets, portal'.conn[e].state = "connecting"
               PROVE  portal'.link[e] # "closed"
    BY DEF LoginsOpen
  <2>1. e # c
    BY <1>1, <1>2, <1>4, <1>13
  <2>2. Timely /\ portal.conn[e].state = "connecting" /\ portal'.link[e] = portal.link[e]
    BY <1>1, <1>2, <1>13, <2>1 DEF Timely
  <2> QED
    BY <2>2 DEF IInv, LoginsOpen
<1>25. ConferenceFollows'
  <2> SUFFICES ASSUME Undisturbed'
               PROVE  ConferenceFollows'
    BY DEF ConferenceFollows
  <2>1. Undisturbed /\ Clean /\ c \in joined
    BY <1>1 DEF Undisturbed, Clean
  <2>2. portal'.participants = portal.participants /\ c \notin portal.participants
    BY <1>13, <1>20, <2>1
  <2>3. \A x : x # c => ([call |-> "leave", id |-> x] \in calls' <=> [call |-> "leave", id |-> x] \in calls)
    <3> TAKE x
    <3>1. x # c => [call |-> "leave", id |-> x] # leave
      BY <1>15
    <3> QED
      BY <1>1, <1>14, <3>1
  <2>4. leave \in calls' /\ leave = [call |-> "leave", id |-> c]
    BY <1>14 DEF leave
  <2>5. [call |-> "conference_lost"] \in calls => [call |-> "conference_lost"] \in calls'
    BY <1>1, <1>14
  <2>6. \A x : Waited(x)' = Waited(x) \ {d}
    BY <1>14, <1>15 DEF Waited
  <2>7. Waited(c)' = {} /\ \A x : x # c => Waited(x)' = Waited(x)
    BY <1>20, <2>1, <2>6 DEF Waited, c
  <2>8. \A e \in calls' : e.call = "join" => e.waited
    BY <1>14, <1>15, <2>1 DEF IInv, ConferenceFollows
  <2>9. \A p \in portal'.participants : p \in joined' \/ [call |-> "conference_lost"] \in calls'
    BY <1>1, <2>1, <2>2, <2>5 DEF IInv, ConferenceFollows
  <2>10. \A p \in Sockets : [call |-> "leave", id |-> p] \in calls' =>
           p \notin portal'.participants /\ \A e \in Waited(p)' : e.step # "joined"
    <3> TAKE p \in Sockets
    <3>1. CASE p = c
      BY <2>2, <2>7, <3>1
    <3>2. CASE p # c
      BY <2>1, <2>2, <2>3, <2>7, <3>2 DEF IInv, ConferenceFollows
    <3> QED
      BY <3>1, <3>2
  <2>11. \A p \in joined' : \/ p \in portal'.participants
                            \/ [call |-> "leave", id |-> p] \in calls'
                            \/ \E e \in Waited(p)' : e.step = "joined"
    <3> TAKE p \in joined'
    <3>1. CASE p = c
      BY <2>4, <3>1
    <3>2. CASE p # c
      <4>1. \/ p \in portal.participants
            \/ [call |-> "leave", id |-> p] \in calls
            \/ \E e \in Waited(p) : e.step = "joined"
        BY <1>1, <2>1 DEF IInv, ConferenceFollows
      <4> QED
        BY <2>2, <2>3, <2>7, <3>2, <4>1
    <3> QED
      BY <3>1, <3>2
  <2> QED
    BY <2>8, <2>9, <2>10, <2>11 DEF ConferenceFollows
<1> QED
  BY <1>23, <1>24, <1>25, Ended

(* The entries of messages that have been sent again.                      *)
LEMMA TimelessType ==
  ASSUME NEW b \in Seq(Entries)
  PROVE  Timeless(b) \in Seq(Entries) /\ Len(Timeless(b)) = Len(b)
<1>1. \A e \in Entries : [e EXCEPT !.timed = FALSE] \in Entries
  BY DEF Entries
<1>2. \A k \in 1 .. Len(b) : b[k] \in Entries
  OBVIOUS
<1>3. Timeless(b) = [k \in 1 .. Len(b) |-> [b[k] EXCEPT !.timed = FALSE]]
  BY DEF Timeless
<1>4. Timeless(b) \in [1 .. Len(b) -> Entries] /\ Len(b) \in Nat
  BY <1>1, <1>2, <1>3
<1> QED
  BY <1>4, SameLength

(* What was pending is sent and buffered; nothing else changes.            *)
LEMMA ResumedFacts ==
  ASSUME NEW P \in PortalType, NEW c \in Sockets, Len(P.conn[c].buffer) <= P.conn[c].seq
  PROVE  LET Q == Resumed(P, c)
         IN /\ Q \in PortalType
            /\ Q.dock = P.dock /\ Q.tasks = P.tasks /\ Q.participants = P.participants
            /\ Q.leaving = P.leaving /\ Q.link = P.link
            /\ \A d \in Sockets : d # c => Q.conn[d] = P.conn[d]
            /\ Len(Q.conn[c].buffer) <= Q.conn[c].seq
            /\ Q.conn[c].state = P.conn[c].state /\ Q.conn[c].client = P.conn[c].client
            /\ Q.conn[c].timer = P.conn[c].timer /\ Q.conn[c].enabled = P.conn[c].enabled
            /\ Q.conn[c].version = P.conn[c].version
            /\ P.conn[c].version = "1.2" => Q = P
            /\ P.conn[c].version # "1.2" =>
                 Q.conn[c].pending = <<>> /\ Q.wire = P.wire \o P.conn[c].pending
<1> DEFINE C == P.conn[c]
           entry(k) == [m |-> C.pending[k], seq |-> C.seq + k, timed |-> TRUE, old |-> FALSE]
           sent == [k \in DOMAIN C.pending |-> entry(k)]
           b == IF sent = <<>> THEN C.buffer ELSE Trim(C.buffer \o sent)
           n == C.seq + Len(sent)
           K == [C EXCEPT !.seq = n, !.pending = <<>>, !.buffer = b]
           w == P.wire \o C.pending
           Q == [P EXCEPT !.wire = w, !.conn[c] = K]
<1>1. /\ C \in ConnectionType /\ P.conn \in [Sockets -> ConnectionType] /\ P.wire \in Seq(Nat)
  BY DEF PortalType
<1>2. C.buffer \in Seq(Entries) /\ C.seq \in Nat /\ C.pending \in Seq(Nat)
  BY <1>1 DEF ConnectionType
<1>3. CASE C.version = "1.2"
  <2>1. Resumed(P, c) = P
    BY <1>3 DEF Resumed
  <2> QED
    BY <1>1, <1>3, <2>1
<1>4. CASE C.version # "1.2"
  <2>1. Resumed(P, c) = Q
    BY <1>4 DEF Resumed, Drained
  <2>2. sent \in Seq(Entries) /\ Len(sent) \in Nat
    <3>1. \A k \in 1 .. Len(C.pending) : entry(k) \in Entries
      <4> HIDE DEF C
      <4> TAKE k \in 1 .. Len(C.pending)
      <4>1. C.pending[k] \in Nat
        BY <1>2
      <4>2. C.seq + k \in Nat
        BY <1>2
      <4> QED
        BY <4>1, <4>2 DEF Entries
    <3>2. sent = [k \in 1 .. Len(C.pending) |-> entry(k)]
      BY <1>2
    <3> HIDE DEF entry
    <3>3. sent \in [1 .. Len(C.pending) -> Entries] /\ Len(C.pending) \in Nat
      BY <1>2, <3>1, <3>2
    <3> QED
      BY <3>3, SameLength
  <2> HIDE DEF sent
  <2>3. b \in Seq(Entries) /\ Len(b) <= n /\ n \in Nat
    <3>1. C.buffer \o sent \in Seq(Entries) /\ Len(C.buffer \o sent) = Len(C.buffer) + Len(sent)
      BY <1>2, <2>2
    <3>2. Trim(C.buffer \o sent) \in Seq(Entries) /\ Len(Trim(C.buffer \o sent)) <= Len(C.buffer) + Len(sent)
      BY <3>1, TrimType
    <3>3. Len(C.buffer) \in Nat /\ Len(Trim(C.buffer \o sent)) \in Nat
      BY <1>2, <3>2
    <3> QED
      BY <1>2, <2>2, <3>2, <3>3
  <2> HIDE DEF b, n
  <2>4. /\ K \in ConnectionType /\ K.buffer = b /\ K.seq = n
        /\ K.state = C.state /\ K.client = C.client /\ K.timer = C.timer /\ K.enabled = C.enabled
        /\ K.version = C.version /\ K.pending = <<>>
    <3>1. <<>> \in Seq(Nat)
      OBVIOUS
    <3> QED
      BY <1>1, <2>3, <3>1 DEF ConnectionType
  <2>5. w \in Seq(Nat)
    BY <1>1, <1>2
  <2> HIDE DEF K, w
  <2>6. /\ Q \in PortalType /\ Q.conn = [P.conn EXCEPT ![c] = K]
        /\ Q.dock = P.dock /\ Q.tasks = P.tasks /\ Q.participants = P.participants
        /\ Q.leaving = P.leaving /\ Q.link = P.link /\ Q.wire = w
    BY <2>4, <2>5 DEF PortalType
  <2>7. Q.conn[c] = K /\ \A d \in Sockets : d # c => Q.conn[d] = P.conn[d]
    BY <1>1, <2>6
  <2> HIDE DEF Q
  <2> QED
    BY <1>4, <2>1, <2>3, <2>4, <2>6, <2>7 DEF w
<1> QED
  BY <1>3, <1>4

(* A connection in service whose client may come back has a timer started, *)
(* if its socket was open, and is closed.                                  *)
LEMMA CloseInService ==
  ASSUME NEW P \in PortalType, NEW c \in Sockets, P.conn[c].enabled,
         P.conn[c].state \in InService \/ P.link[c] = "closed", WaitingAreClosed(P)
  PROVE  LET Q == Close(P, c, FALSE)
         IN /\ Q \in PortalType
            /\ Q.dock = P.dock /\ Q.tasks = P.tasks /\ Q.participants = P.participants
            /\ Q.leaving = P.leaving /\ Q.wire = P.wire
            /\ \A d \in Sockets : d # c => Q.conn[d] = P.conn[d] /\ Q.link[d] = P.link[d]
            /\ P.conn[c].state \in InService => Q.conn[c].state \in InService
            /\ P.link[c] # "none" => Q.link[c] = "closed"
<1> DEFINE K == [P.conn[c] EXCEPT !.timer = FALSE]
           T == [P EXCEPT !.conn[c].timer = FALSE]
           L == [K EXCEPT !.state = "waiting_for_reconnecting", !.timer = TRUE]
           D == Disconnect(T, c)
           M == [D.conn[c] EXCEPT !.enabled = FALSE]
           Q == Close(P, c, FALSE)
<1>0. P.conn \in [Sockets -> ConnectionType] /\ P.conn[c] \in ConnectionType /\ P.link \in [Sockets -> Links]
  BY DEF PortalType
<1>1. K \in ConnectionType /\ K.state = P.conn[c].state /\ K.enabled /\ T = [P EXCEPT !.conn[c] = K]
  BY <1>0 DEF ConnectionType
<1>2. L \in ConnectionType /\ L.state \in InService
  BY <1>1 DEF ConnectionType, States, InService
<1> HIDE DEF K, L, T
<1>3. /\ T \in PortalType /\ T.conn = [P.conn EXCEPT ![c] = K]
      /\ T.dock = P.dock /\ T.tasks = P.tasks /\ T.link = P.link /\ T.wire = P.wire
      /\ T.participants = P.participants /\ T.leaving = P.leaving
  BY <1>1, WithConnection
<1>4. T.conn[c] = K
  BY <1>0, <1>3
<1>5. /\ D \in PortalType
      /\ D.dock = P.dock /\ D.tasks = P.tasks /\ D.participants = P.participants
      /\ D.leaving = P.leaving /\ D.wire = P.wire
      /\ \A d \in Sockets : d # c => D.conn[d] = P.conn[d] /\ D.link[d] = P.link[d]
      /\ P.conn[c].state \in InService => D.conn[c].state \in InService
      /\ P.link[c] # "none" => D.link[c] = "closed"
  <2>1. CASE T.link[c] \notin {"up", "broken"}
    <3>1. D = T
      BY <2>1 DEF Disconnect
    <3> HIDE DEF D
    <3>2. T.conn[c].state = P.conn[c].state
      BY <1>1, <1>4
    <3>3. \A d \in Sockets : d # c => T.conn[d] = P.conn[d] /\ T.link[d] = P.link[d]
      BY <1>0, <1>3
    <3>4. P.link[c] # "none" => T.link[c] = "closed"
      BY <1>0, <1>3, <2>1 DEF Links
    <3> QED
      BY <1>3, <3>1, <3>2, <3>3, <3>4
  <2>2. CASE T.link[c] \in {"up", "broken"}
    <3> DEFINE X == Closed(T, c)
    <3>1. K.state = "connected"
      BY <1>1, <1>3, <2>2 DEF WaitingAreClosed, InService
    <3>2. X.conn = T.conn
      BY <1>3, ClosedFacts
    <3>3. D = [X EXCEPT !.conn[c] = [X.conn[c] EXCEPT !.state = "waiting_for_reconnecting", !.timer = TRUE]]
      BY <1>1, <1>4, <2>2, <3>1, <3>2 DEF Disconnect, OnDisconnect, Closed
    <3> HIDE DEF D
    <3>4. D = [X EXCEPT !.conn[c] = L]
      BY <1>4, <3>2, <3>3 DEF L
    <3>5. D = Changed(T, c, L, "closed")
      BY <1>3, <3>4 DEF Changed, Closed, PortalType
    <3>6. /\ D \in PortalType
          /\ D.conn = [T.conn EXCEPT ![c] = L] /\ D.link = [T.link EXCEPT ![c] = "closed"]
          /\ D.dock = T.dock /\ D.tasks = T.tasks /\ D.wire = T.wire
          /\ D.participants = T.participants /\ D.leaving = T.leaving
      <4>1. "closed" \in Links
        BY DEF Links
      <4> HIDE DEF X
      <4> QED
        BY <1>2, <1>3, <3>5, <4>1, ChangedFacts
    <3>7. D.conn[c] = L /\ D.link[c] = "closed" /\ \A d \in Sockets : d # c => D.conn[d] = P.conn[d] /\ D.link[d] = P.link[d]
      BY <1>0, <1>3, <3>6
    <3> QED
      BY <1>2, <1>3, <3>6, <3>7
  <2> QED
    BY <2>1, <2>2
<1> HIDE DEF D
<1>6. D.conn \in [Sockets -> ConnectionType] /\ D.conn[c] \in ConnectionType
  BY <1>5 DEF PortalType
<1>7. M \in ConnectionType /\ M.state = D.conn[c].state
  BY <1>6 DEF ConnectionType
<1>8. Q = [D EXCEPT !.conn[c] = M]
  BY DEF Close, D, T
<1> HIDE DEF Q, M
<1>9. /\ Q \in PortalType /\ Q.conn = [D.conn EXCEPT ![c] = M]
      /\ Q.dock = D.dock /\ Q.tasks = D.tasks /\ Q.link = D.link /\ Q.wire = D.wire
      /\ Q.participants = D.participants /\ Q.leaving = D.leaving
  BY <1>5, <1>7, <1>8, WithConnection
<1>10. Q.conn[c] = M /\ \A d \in Sockets : d # c => Q.conn[d] = D.conn[d]
  BY <1>6, <1>9
<1>11. /\ Q \in PortalType
       /\ Q.dock = P.dock /\ Q.tasks = P.tasks /\ Q.participants = P.participants
       /\ Q.leaving = P.leaving /\ Q.wire = P.wire
       /\ \A d \in Sockets : d # c => Q.conn[d] = P.conn[d] /\ Q.link[d] = P.link[d]
       /\ P.conn[c].state \in InService => Q.conn[c].state \in InService
       /\ P.link[c] # "none" => Q.link[c] = "closed"
  BY <1>5, <1>7, <1>9, <1>10
<1> QED
  BY <1>11 DEF Q

(* A connection of a client is replaced.                                   *)
LEMMA DockedFacts ==
  ASSUME NEW P \in PortalType, NEW p, NEW c \in Sockets
  PROVE  LET Q == [P EXCEPT !.dock[p].conn = c]
         IN /\ Q \in PortalType /\ DOMAIN Q.dock = DOMAIN P.dock
            /\ Q.conn = P.conn /\ Q.tasks = P.tasks /\ Q.link = P.link /\ Q.wire = P.wire
            /\ Q.participants = P.participants /\ Q.leaving = P.leaving
            /\ \A q \in DOMAIN P.dock : Q.dock[q].token = P.dock[q].token /\ (q # p => Q.dock[q] = P.dock[q])
            /\ p \in DOMAIN P.dock => Q.dock[p].conn = c
<1> DEFINE Q == [P EXCEPT !.dock[p].conn = c]
<1>1. PICK S \in SUBSET Sockets : P.dock \in [S -> [conn : Sockets, token : Nat]]
  BY DEF PortalType, Docks
<1> DEFINE D == [P.dock EXCEPT ![p].conn = c]
<1>2. Q.dock = D
  BY DEF PortalType
<1>3. D \in [S -> [conn : Sockets, token : Nat]]
  <2>1. CASE p \in S
    <3>1. [P.dock[p] EXCEPT !.conn = c] \in [conn : Sockets, token : Nat]
      BY <1>1, <2>1
    <3> QED
      BY <1>1, <2>1, <3>1
  <2>2. CASE p \notin S
    BY <1>1, <2>2
  <2> QED
    BY <2>1, <2>2
<1>4. Q.dock \in Docks
  BY <1>1, <1>2, <1>3 DEF Docks
<1>5. /\ Q \in PortalType
      /\ Q.conn = P.conn /\ Q.tasks = P.tasks /\ Q.link = P.link /\ Q.wire = P.wire
      /\ Q.participants = P.participants /\ Q.leaving = P.leaving
  BY <1>4 DEF PortalType
<1>6. \A q \in S : Q.dock[q].token = P.dock[q].token /\ (q # p => Q.dock[q] = P.dock[q])
  BY <1>1, <1>2
<1>7. p \in S => Q.dock[p].conn = c
  BY <1>1, <1>2
<1> QED
  BY <1>1, <1>2, <1>3, <1>5, <1>6, <1>7

(* A new connection takes the place of the old one.  When the old one was  *)
(* in service, nothing else changes.                                       *)
TakenOver(P, p, c) == [TakeOver(P, p, c) EXCEPT !.conn[c].buffer = Timeless(@)]

LEMMA TakeOverFacts ==
  ASSUME NEW P \in PortalType, NEW p \in DOMAIN P.dock, NEW c \in Sockets,
         P.conn[c].state = "initialized", P.conn[P.dock[p].conn].enabled, WaitingAreClosed(P),
         \A d \in Sockets : Len(P.conn[d].buffer) <= P.conn[d].seq
  PROVE  LET Q == TakenOver(P, p, c)
             o == P.dock[p].conn
         IN /\ Q \in PortalType /\ WaitingAreClosed(Q)
            /\ DOMAIN Q.dock \subseteq DOMAIN P.dock
            /\ \A q \in DOMAIN Q.dock : Q.dock[q].token = P.dock[q].token
            /\ \A d \in Sockets : d # c => Lessens(P.conn[d], Q.conn[d])
            /\ Q.conn[c].state = "connected" /\ Len(Q.conn[c].buffer) <= Q.conn[c].seq
            /\ o # c /\ (P.conn[o].state \in InService \/ P.link[o] = "closed") =>
                 /\ Q.tasks = P.tasks /\ Q.participants = P.participants /\ Q.leaving = P.leaving
                 /\ DOMAIN Q.dock = DOMAIN P.dock /\ Q.dock[p].conn = c
                 /\ \A q \in DOMAIN P.dock : q # p => Q.dock[q] = P.dock[q]
                 /\ \A d \in Sockets : d \notin {o, c} => Q.conn[d] = P.conn[d] /\ Q.link[d] = P.link[d]
                 /\ P.conn[o].state \in InService => Q.conn[o].state \in InService
                 /\ P.link[o] # "none" => Q.link[o] = "closed"
                 /\ Q.link[c] = P.link[c] /\ Q.conn[c].client = p /\ Q.wire = P.wire
                 /\ Q.conn[c].version = P.conn[o].version /\ Q.conn[c].pending = P.conn[o].pending
                 /\ Q.conn[c].seq = P.conn[o].seq /\ Q.conn[c].buffer = Timeless(P.conn[o].buffer)
<1> DEFINE o == P.dock[p].conn
           O == P.conn[o]
           K == [O EXCEPT !.timer = FALSE]
           A == [P EXCEPT !.conn[o].timer = FALSE]
           L == [A.conn[c] EXCEPT !.client = p, !.version = O.version, !.pending = O.pending,
                                  !.seq = O.seq, !.buffer = O.buffer, !.enabled = TRUE]
           N == [A EXCEPT !.conn[c] = L]
           X == Close(N, o, FALSE)
           Y == [X EXCEPT !.dock[p].conn = c]
           U == [Y EXCEPT !.conn[c].state = "connected"]
           Q == TakenOver(P, p, c)
<1>1. o \in Sockets /\ p \in Sockets /\ P.conn \in [Sockets -> ConnectionType] /\ O \in ConnectionType
  BY DockType DEF PortalType
<1>2. N.dock = P.dock
  OBVIOUS
<1>3. TakeOver(P, p, c) = U
  BY <1>2 DEF TakeOver, ResetConnection
<1>4. Q = [U EXCEPT !.conn[c].buffer = Timeless(U.conn[c].buffer)]
  BY <1>3 DEF TakenOver
<1> HIDE DEF Q, U, Y, X
<1>5. A = [P EXCEPT !.conn[o] = K]
  OBVIOUS
<1> HIDE DEF N, L, A
<1>6. /\ K \in ConnectionType /\ K.state = O.state /\ K.enabled = O.enabled /\ K.client = O.client
      /\ K.seq = O.seq /\ K.buffer = O.buffer /\ K.pending = O.pending /\ K.version = O.version
  BY <1>1 DEF ConnectionType
<1> HIDE DEF K
<1>7. /\ A \in PortalType /\ A.conn = [P.conn EXCEPT ![o] = K]
      /\ A.dock = P.dock /\ A.tasks = P.tasks /\ A.link = P.link /\ A.wire = P.wire
      /\ A.participants = P.participants /\ A.leaving = P.leaving
  BY <1>1, <1>5, <1>6, WithConnection
<1>8. A.conn[c] \in ConnectionType /\ A.conn[c].state = "initialized"
  BY <1>1, <1>6, <1>7
<1>9. /\ L \in ConnectionType /\ L.state = "initialized" /\ L.client = p /\ L.enabled
      /\ Len(L.buffer) <= L.seq /\ L.buffer = O.buffer /\ L.seq = O.seq
      /\ L.pending = O.pending /\ L.version = O.version
  BY <1>1, <1>8 DEF ConnectionType, L
<1>10. /\ N \in PortalType /\ N.conn = [A.conn EXCEPT ![c] = L]
       /\ N.dock = A.dock /\ N.tasks = A.tasks /\ N.link = A.link /\ N.wire = A.wire
       /\ N.participants = A.participants /\ N.leaving = A.leaving
  BY <1>7, <1>9, WithConnection DEF N
<1>a. N.conn[c] = L /\ \A d \in Sockets : d # c => N.conn[d] = A.conn[d]
  BY <1>7, <1>10 DEF PortalType
<1>b. \A d \in Sockets : d # o => A.conn[d] = P.conn[d]
  BY <1>1, <1>7
<1>d. A.conn[o] = K
  BY <1>1, <1>7
<1>11. WaitingAreClosed(N) /\ \A d \in Sockets : d # c => Lessens(P.conn[d], N.conn[d])
  <2>1. \A d \in Sockets : A.conn[d].state = P.conn[d].state /\ Lessens(P.conn[d], A.conn[d])
    BY <1>6, <1>b, <1>d DEF Lessens
  <2>2. WaitingAreClosed(N)
    BY <1>7, <1>9, <1>10, <1>a, <2>1 DEF WaitingAreClosed
  <2> QED
    BY <1>a, <2>1, <2>2
<1>12. Shrinks(N, X)
  BY <1>1, <1>10, CloseLeaves DEF X
<1>13. /\ X \in PortalType /\ WaitingAreClosed(X) /\ DOMAIN X.dock \subseteq DOMAIN P.dock
       /\ \A q \in DOMAIN X.dock : X.dock[q] = P.dock[q]
       /\ \A d \in Sockets : Lessens(N.conn[d], X.conn[d])
  <2>1. WaitingAreClosed(X)
    BY <1>11, <1>12, ShrinksWaiting
  <2> QED
    BY <1>2, <1>7, <1>10, <1>12, <2>1 DEF Shrinks
<1>14. Len(X.conn[c].buffer) <= X.conn[c].seq
  <2>1. N.conn[c] = L
    BY <1>1, <1>7, <1>10
  <2>2. X.conn[c].buffer = L.buffer /\ X.conn[c].seq = L.seq
    BY <1>13, <2>1 DEF Lessens
  <2> QED
    BY <1>9, <2>2
<1>15. /\ Y \in PortalType /\ DOMAIN Y.dock = DOMAIN X.dock
       /\ Y.conn = X.conn /\ Y.tasks = X.tasks /\ Y.link = X.link /\ Y.wire = X.wire
       /\ Y.participants = X.participants /\ Y.leaving = X.leaving
       /\ \A q \in DOMAIN X.dock : Y.dock[q].token = X.dock[q].token /\ (q # p => Y.dock[q] = X.dock[q])
       /\ p \in DOMAIN X.dock => Y.dock[p].conn = c
  <2>1. X \in PortalType
    BY <1>13
  <2> QED
    BY ONLY <2>1, c \in Sockets, DockedFacts DEF Y
<1> DEFINE V == [Y.conn[c] EXCEPT !.state = "connected"]
           W == [V EXCEPT !.buffer = Timeless(V.buffer)]
<1>16. Y.conn \in [Sockets -> ConnectionType] /\ Y.conn[c] \in ConnectionType
  BY <1>15 DEF PortalType
<1>17. V \in ConnectionType /\ V.state = "connected" /\ V.client = Y.conn[c].client
       /\ V.buffer = Y.conn[c].buffer /\ V.seq = Y.conn[c].seq
       /\ V.pending = Y.conn[c].pending /\ V.version = Y.conn[c].version
  BY <1>16 DEF ConnectionType, States
<1>18. U = [Y EXCEPT !.conn[c] = V]
  BY DEF U
<1> HIDE DEF V
<1>19. /\ U \in PortalType /\ U.conn = [Y.conn EXCEPT ![c] = V]
       /\ U.dock = Y.dock /\ U.tasks = Y.tasks /\ U.link = Y.link /\ U.wire = Y.wire
       /\ U.participants = Y.participants /\ U.leaving = Y.leaving
  BY <1>15, <1>17, <1>18, WithConnection
<1>20. U.conn[c] = V
  BY <1>16, <1>19
<1>21. Q = [U EXCEPT !.conn[c] = W]
  BY <1>4, <1>20
<1>22. /\ W \in ConnectionType /\ W.state = "connected" /\ W.client = Y.conn[c].client
       /\ Len(W.buffer) = Len(Y.conn[c].buffer) /\ W.seq = Y.conn[c].seq
       /\ W.buffer = Timeless(Y.conn[c].buffer)
       /\ W.pending = Y.conn[c].pending /\ W.version = Y.conn[c].version
  <2>1. V.buffer \in Seq(Entries)
    BY <1>17 DEF ConnectionType
  <2>2. Timeless(V.buffer) \in Seq(Entries) /\ Len(Timeless(V.buffer)) = Len(V.buffer)
    BY <2>1, TimelessType
  <2> QED
    BY <1>17, <2>2 DEF ConnectionType
<1> HIDE DEF W
<1>23. /\ Q \in PortalType /\ Q.conn = [U.conn EXCEPT ![c] = W]
       /\ Q.dock = Y.dock /\ Q.tasks = Y.tasks /\ Q.link = Y.link /\ Q.wire = Y.wire
       /\ Q.participants = Y.participants /\ Q.leaving = Y.leaving
  BY <1>19, <1>21, <1>22, WithConnection
<1>24. Q.conn[c] = W /\ \A d \in Sockets : d # c => Q.conn[d] = X.conn[d]
  BY <1>15, <1>16, <1>19, <1>23
<1>25. WaitingAreClosed(Q)
  BY <1>13, <1>15, <1>22, <1>23, <1>24 DEF WaitingAreClosed
<1>26. \A d \in Sockets : d # c => Lessens(P.conn[d], Q.conn[d])
  BY <1>11, <1>13, <1>24 DEF Lessens
<1>27. /\ DOMAIN Q.dock \subseteq DOMAIN P.dock
       /\ \A q \in DOMAIN Q.dock : Q.dock[q].token = P.dock[q].token
  BY <1>13, <1>15, <1>23
<1>28. Q.conn[c].state = "connected" /\ Len(Q.conn[c].buffer) <= Q.conn[c].seq
  BY <1>14, <1>15, <1>22, <1>24
<1>29. ASSUME o # c, O.state \in InService \/ P.link[o] = "closed"
       PROVE  /\ Q.tasks = P.tasks /\ Q.participants = P.participants /\ Q.leaving = P.leaving
              /\ DOMAIN Q.dock = DOMAIN P.dock /\ Q.dock[p].conn = c
              /\ \A q \in DOMAIN P.dock : q # p => Q.dock[q] = P.dock[q]
              /\ \A d \in Sockets : d \notin {o, c} => Q.conn[d] = P.conn[d] /\ Q.link[d] = P.link[d]
              /\ O.state \in InService => Q.conn[o].state \in InService
              /\ P.link[o] # "none" => Q.link[o] = "closed"
              /\ Q.link[c] = P.link[c] /\ Q.conn[c].client = p /\ Q.wire = P.wire
              /\ Q.conn[c].version = O.version /\ Q.conn[c].pending = O.pending
              /\ Q.conn[c].seq = O.seq /\ Q.conn[c].buffer = Timeless(O.buffer)
  <2>1. N.conn[o] = K /\ N.conn[c] = L /\ \A d \in Sockets : d \notin {o, c} => N.conn[d] = P.conn[d]
    BY <1>1, <1>7, <1>10, <1>29
  <2>2. /\ N.conn[o].enabled /\ N.conn[o].state = O.state /\ N.link[o] = P.link[o]
        /\ N.conn[o].state \in InService \/ N.link[o] = "closed"
    <3>1. N.link = P.link
      BY <1>7, <1>10
    <3>2. N.conn[o].state = O.state /\ N.conn[o].enabled
      BY <1>6, <2>1
    <3> QED
      BY <1>29, <3>1, <3>2
  <2>3. /\ X.dock = N.dock /\ X.tasks = N.tasks /\ X.participants = N.participants
        /\ X.leaving = N.leaving /\ X.wire = N.wire
        /\ \A d \in Sockets : d # o => X.conn[d] = N.conn[d] /\ X.link[d] = N.link[d]
        /\ N.conn[o].state \in InService => X.conn[o].state \in InService
        /\ N.link[o] # "none" => X.link[o] = "closed"
    BY <1>1, <1>10, <1>11, <2>2, CloseInService DEF X
  <2>4. X.dock = P.dock /\ X.tasks = P.tasks /\ X.participants = P.participants /\ X.leaving = P.leaving
    BY <1>7, <1>10, <2>3
  <2>5. /\ Q.tasks = P.tasks /\ Q.participants = P.participants /\ Q.leaving = P.leaving
        /\ DOMAIN Q.dock = DOMAIN P.dock /\ Q.dock[p].conn = c
        /\ \A q \in DOMAIN P.dock : q # p => Q.dock[q] = P.dock[q]
    BY <1>15, <1>23, <2>4
  <2>6. \A d \in Sockets : d \notin {o, c} => Q.conn[d] = P.conn[d] /\ Q.link[d] = P.link[d]
    BY <1>7, <1>10, <1>15, <1>23, <1>24, <2>1, <2>3
  <2>7. O.state \in InService => Q.conn[o].state \in InService
    BY <1>1, <1>24, <1>29, <2>2, <2>3
  <2>8. Q.link[c] = P.link[c] /\ Q.conn[c].client = p
    BY <1>7, <1>9, <1>10, <1>15, <1>22, <1>23, <1>24, <1>29, <2>1, <2>3
  <2>9. P.link[o] # "none" => Q.link[o] = "closed"
    BY <1>15, <1>23, <2>2, <2>3
  <2>10. Q.wire = P.wire
    BY <1>7, <1>10, <1>15, <1>23, <2>3
  <2>11. Y.conn[c] = L
    BY <1>15, <1>29, <2>1, <2>3
  <2>12. /\ Q.conn[c].version = O.version /\ Q.conn[c].pending = O.pending
         /\ Q.conn[c].seq = O.seq /\ Q.conn[c].buffer = Timeless(O.buffer)
    BY <1>9, <1>22, <1>24, <2>11
  <2> QED
    BY <2>5, <2>6, <2>7, <2>8, <2>9, <2>10, <2>12
<1> HIDE DEF O, o
<1>30. /\ Q \in PortalType /\ WaitingAreClosed(Q)
       /\ DOMAIN Q.dock \subseteq DOMAIN P.dock
       /\ \A q \in DOMAIN Q.dock : Q.dock[q].token = P.dock[q].token
       /\ \A d \in Sockets : d # c => Lessens(P.conn[d], Q.conn[d])
       /\ Q.conn[c].state = "connected" /\ Len(Q.conn[c].buffer) <= Q.conn[c].seq
  BY <1>23, <1>25, <1>26, <1>27, <1>28
<1> QED
  BY <1>29, <1>30 DEF O, o, Q

LEMMA ReloginStep ==
  ASSUME IInv, NEW c \in Sockets, NEW p \in Sockets, Relogin(c, p)
  PROVE  IInv'
<1> DEFINE o == portal.dock[p].conn
           W == TakenOver(portal, p, c)
           Q == Resumed(W, c)
           R == [Q EXCEPT !.wire = <<>>]
<1>1. /\ portal \in PortalType /\ portal.conn[c].state = "initialized" /\ portal.link[c] = "up"
      /\ p \in DOMAIN portal.dock /\ portal.conn[o].enabled /\ portal.leaving = {}
      /\ \A d \in Sockets : Len(portal.conn[d].buffer) <= portal.conn[d].seq
      /\ WaitingAreClosed(portal) /\ UNCHANGED <<joined, bound>> /\ DOMAIN clients = {"tickets", "sent", "lost", "got"}
      /\ calls \subseteq Calls
  BY DEF IInv, Types, Relogin
<1>2. Becomes(R, calls)
  BY DEF Relogin, TakenOver
<1>3. /\ DOMAIN clients' = DOMAIN clients /\ clients'.tickets = clients.tickets /\ clients'.sent = clients.sent
  BY <1>1 DEF Relogin
<1>4. /\ past'.mishaps = past.mishaps \cup Reused(c)
      /\ past'.logins = past.logins /\ DOMAIN past' = DOMAIN past
  BY NotedFacts DEF Relogin
<1>5. o \in Sockets
  BY <1>1, DockType
<1>6. /\ W \in PortalType /\ WaitingAreClosed(W)
      /\ DOMAIN W.dock \subseteq DOMAIN portal.dock
      /\ \A q \in DOMAIN W.dock : W.dock[q].token = portal.dock[q].token
      /\ \A d \in Sockets : d # c => Lessens(portal.conn[d], W.conn[d])
      /\ W.conn[c].state = "connected" /\ Len(W.conn[c].buffer) <= W.conn[c].seq
      /\ o # c /\ portal.conn[o].state \in InService =>
           /\ W.tasks = portal.tasks /\ W.participants = portal.participants /\ W.leaving = portal.leaving
           /\ DOMAIN W.dock = DOMAIN portal.dock /\ W.dock[p].conn = c
           /\ \A q \in DOMAIN portal.dock : q # p => W.dock[q] = portal.dock[q]
           /\ \A d \in Sockets : d \notin {o, c} => W.conn[d] = portal.conn[d] /\ W.link[d] = portal.link[d]
           /\ W.conn[o].state \in InService
           /\ W.link[c] = portal.link[c] /\ W.conn[c].client = p
  BY <1>1, TakeOverFacts
<1> HIDE DEF W
<1>7. /\ Q \in PortalType
      /\ Q.dock = W.dock /\ Q.tasks = W.tasks /\ Q.participants = W.participants
      /\ Q.leaving = W.leaving /\ Q.link = W.link
      /\ \A d \in Sockets : d # c => Q.conn[d] = W.conn[d]
      /\ Len(Q.conn[c].buffer) <= Q.conn[c].seq
      /\ Q.conn[c].state = W.conn[c].state /\ Q.conn[c].client = W.conn[c].client
      /\ Q.conn[c].timer = W.conn[c].timer /\ Q.conn[c].enabled = W.conn[c].enabled
  BY <1>6, ResumedFacts
<1> HIDE DEF Q
<1>8. /\ R \in PortalType /\ R.wire = <<>>
      /\ R.conn = Q.conn /\ R.link = Q.link /\ R.dock = Q.dock /\ R.tasks = Q.tasks
      /\ R.participants = Q.participants /\ R.leaving = Q.leaving
  BY <1>7, WireFacts
<1> HIDE DEF R
<1>9. /\ portal' \in PortalType /\ portal'.leaving = {} /\ portal'.wire = <<>>
      /\ portal'.conn = Q.conn /\ portal'.link = W.link /\ portal'.dock = W.dock /\ portal'.tasks = W.tasks
      /\ portal'.participants = W.participants
  BY <1>2, <1>7, <1>8, BecomesFacts
<1>10. \A d \in Sockets : d # c => portal'.conn[d] = W.conn[d]
  BY <1>7, <1>9
<1>11. portal'.conn[c].state = "connected" /\ portal'.conn[c].client = W.conn[c].client
  BY <1>6, <1>7, <1>9
<1>12. Types'
  <2>1. calls' \subseteq Calls
    BY <1>1, <1>2, <1>8, LeaveType
  <2>2. \A d \in Sockets : Len(portal'.conn[d].buffer) <= portal'.conn[d].seq
    <3> TAKE d \in Sockets
    <3>1. CASE d = c
      BY <1>7, <1>9, <3>1
    <3>2. CASE d # c
      <4>1. portal'.conn[d] = W.conn[d] /\ Lessens(portal.conn[d], W.conn[d])
        BY <1>6, <1>10, <3>2
      <4> QED
        BY <1>1, <4>1 DEF Lessens
    <3> QED
      BY <3>1, <3>2
  <2> QED
    BY <1>1, <1>3, <1>4, <1>9, <2>1, <2>2 DEF IInv, Types
<1>13. WaitingAreClosed(portal)'
  BY <1>6, <1>9, <1>10, <1>11 DEF WaitingAreClosed
<1>14. LoginsNamed'
  BY <1>6, <1>10, <1>11 DEF LoginsNamed, Lessens, IInv
<1>15. \A d \in calls' : d.call = "join" => d \in calls
  BY <1>2, LeaveCalls
<1>16. TokensOwn'
  BY <1>4, <1>6, <1>9, <1>15 DEF TokensOwn, IInv
<1>17. /\ Clean' => Clean /\ \A d \in calls : ~(d.call = "join" /\ d.id = c /\ d.waited)
       /\ Timely' => Timely /\ Clean'
       /\ Undisturbed' => Undisturbed /\ Clean'
  BY <1>4 DEF Clean, Timely, Undisturbed, Reused
<1>18. ASSUME Clean'
       PROVE  /\ Clean /\ o # c /\ portal.conn[o].state \in InService /\ portal.conn[o].client = p
              /\ Waited(c) = {} /\ Waited(o) = {} /\ calls' = calls
              /\ \A q \in DOMAIN portal.dock : q # p => portal.dock[q].conn \notin {o, c}
  <2>1. Clean /\ Owned(portal) /\ Waited(c) = {}
    BY <1>17, <1>18 DEF Waited, IInv
  <2>2. portal.conn[o].state \in InService /\ portal.conn[o].client = p /\ portal.conn[c].state \notin InService
    BY <1>1, <2>1 DEF Owned, InService
  <2>3. Waited(o) = {}
    BY <1>5, <2>1, <2>2 DEF IInv, LoginsApart
  <2>4. R.leaving = {}
    BY <1>1, <1>6, <1>7, <1>8, <2>2
  <2>5. calls' = calls
    BY <1>2, <2>4 DEF Becomes
  <2>6. \A q \in DOMAIN portal.dock : q # p => portal.dock[q].conn \notin {o, c}
    BY <2>1, <2>2 DEF Owned
  <2> QED
    BY <2>1, <2>2, <2>3, <2>5, <2>6
<1>19. ASSUME Clean'
       PROVE  /\ portal'.tasks = portal.tasks /\ portal'.participants = portal.participants
              /\ DOMAIN portal'.dock = DOMAIN portal.dock /\ portal'.dock[p].conn = c
              /\ \A q \in DOMAIN portal.dock : portal'.dock[q].token = portal.dock[q].token
              /\ \A q \in DOMAIN portal.dock : q # p => portal'.dock[q] = portal.dock[q]
              /\ \A d \in Sockets : d \notin {o, c} => portal'.conn[d] = portal.conn[d] /\ portal'.link[d] = portal.link[d]
              /\ portal'.conn[o].state \in InService
              /\ portal'.link[c] = portal.link[c] /\ portal'.conn[c].client = p
  <2>1. o # c /\ portal.conn[o].state \in InService
    BY <1>18, <1>19
  <2> QED
    BY <1>5, <1>6, <1>9, <1>10, <1>11, <2>1
<1>20. (Clean => Owned(portal))'
  <2> SUFFICES ASSUME Clean', NEW q \in DOMAIN portal'.dock
               PROVE  /\ portal'.conn[portal'.dock[q].conn].client = q
                      /\ portal'.conn[portal'.dock[q].conn].state \in InService
    BY DEF Owned
  <2>1. CASE q = p
    BY <1>11, <1>19, <2>1 DEF InService
  <2>2. CASE q # p
    <3>1. portal.dock[q].conn \notin {o, c} /\ portal'.dock[q] = portal.dock[q] /\ q \in DOMAIN portal.dock
      BY <1>18, <1>19, <2>2
    <3>2. portal.dock[q].conn \in Sockets /\ Owned(portal)
      BY <1>1, <1>17, <3>1, DockType DEF IInv
    <3> QED
      BY <1>19, <3>1, <3>2 DEF Owned
  <2> QED
    BY <2>1, <2>2
<1>21. (Timely => Awaited(portal))'
  <2> SUFFICES ASSUME Timely', NEW q \in DOMAIN portal'.dock, portal'.link[portal'.dock[q].conn] = "closed"
               PROVE  /\ portal'.conn[portal'.dock[q].conn].timer
                      /\ portal'.conn[portal'.dock[q].conn].enabled
    BY DEF Awaited
  <2>0. Clean' /\ Awaited(portal)
    BY <1>17 DEF IInv
  <2>1. q # p
    BY <1>1, <1>19, <2>0
  <2>2. portal.dock[q].conn \notin {o, c} /\ portal'.dock[q] = portal.dock[q] /\ q \in DOMAIN portal.dock
    BY <1>18, <1>19, <2>0, <2>1
  <2>3. portal.dock[q].conn \in Sockets
    BY <1>1, <2>2, DockType
  <2> QED
    BY <1>19, <2>0, <2>2, <2>3 DEF Awaited
<1>22. LoginsApart'
  <2> SUFFICES ASSUME Clean', NEW e \in Sockets, NEW d \in Waited(e)'
               PROVE  /\ Waited(e)' = {d}
                      /\ portal'.conn[e].state \notin InService /\ e \notin DOMAIN portal'.dock
    BY DEF LoginsApart
  <2>1. Waited(e)' = Waited(e)
    BY <1>18 DEF Waited
  <2>2. e \notin {o, c}
    BY <1>18, <2>1
  <2>3. Waited(e) = {d} /\ portal.conn[e].state \notin InService /\ e \notin DOMAIN portal.dock
    BY <1>18, <2>1 DEF IInv, LoginsApart
  <2> QED
    BY <1>19, <2>1, <2>2, <2>3
<1>23. LoginsOpen'
  <2> SUFFICES ASSUME Timely', NEW e \in Sockets, portal'.conn[e].state = "connecting"
               PROVE  portal'.link[e] # "closed"
    BY DEF LoginsOpen
  <2>0. Clean' /\ Timely
    BY <1>17
  <2>1. e \notin {o, c}
    BY <1>11, <1>19, <2>0 DEF InService
  <2> QED
    BY <1>19, <2>0, <2>1 DEF IInv, LoginsOpen
<1>24. Participants'
  BY <1>18, <1>19 DEF Participants, IInv
<1>25. TasksOwned'
  <2> SUFFICES ASSUME Clean'
               PROVE  /\ portal'.tasks = {portal'.dock[q].token : q \in DOMAIN portal'.dock}
                      /\ \A q, r \in DOMAIN portal'.dock : portal'.dock[q].token = portal'.dock[r].token => q = r
                      /\ \A d \in calls', q \in DOMAIN portal'.dock :
                           d.call = "join" /\ d.waited => d.token # portal'.dock[q].token
    BY DEF TasksOwned
  <2> QED
    BY <1>18, <1>19 DEF TasksOwned, IInv
<1>26. ConferenceFollows'
  <2> SUFFICES ASSUME Undisturbed'
               PROVE  ConferenceFollows'
    BY DEF ConferenceFollows
  <2>1. Undisturbed /\ Clean'
    BY <1>17
  <2>2. calls' = calls /\ portal'.participants = portal.participants /\ \A e : Waited(e)' = Waited(e)
    BY <1>18, <1>19, <2>1 DEF Waited
  <2> QED
    BY <1>1, <2>1, <2>2 DEF ConferenceFollows, IInv
<1> QED
  BY <1>12, <1>13, <1>14, <1>16, <1>20, <1>21, <1>22, <1>23, <1>24, <1>25, <1>26 DEF IInv

-----------------------------------------------------------------------------
(* The invariant holds from the start and is kept by every step.           *)

LEMMA Initial ==
  ASSUME Init
  PROVE  IInv
<1>1. /\ portal = NewPortal /\ calls = {} /\ joined = {} /\ bound \in Bounds
      /\ clients = [tickets |-> {}, sent |-> [p \in Sockets |-> 0], lost |-> [p \in Sockets |-> {}],
                     got |-> [p \in Sockets |-> <<>>]]
      /\ past = [logins |-> 0, breaks |-> 0, pauses |-> 0, drops |-> 0, faults |-> 0, mishaps |-> {}]
  BY DEF Init
<1>2. NoConnection \in ConnectionType
  <2>1. <<>> \in Seq(Nat) /\ <<>> \in Seq(Entries)
    OBVIOUS
  <2> QED
    BY <2>1 DEF NoConnection, ConnectionType, States
<1>3. Nothing \in Docks /\ DOMAIN Nothing = {}
  <2>1. Nothing \in [{} -> [conn : Sockets, token : Nat]] /\ DOMAIN Nothing = {}
    BY DEF Nothing
  <2> QED
    BY <2>1 DEF Docks
<1>4. /\ portal \in PortalType /\ portal.wire = <<>> /\ portal.leaving = {} /\ portal.tasks = {}
      /\ portal.participants = {} /\ DOMAIN portal.dock = {}
      /\ portal.conn = [c \in Sockets |-> NoConnection]
  <2>1. <<>> \in Seq(Nat)
    OBVIOUS
  <2> QED
    BY <1>1, <1>2, <1>3, <2>1 DEF NewPortal, PortalType, Links
<1>5. \A c \in Sockets : /\ portal.conn[c].state = "initialized"
                         /\ Len(portal.conn[c].buffer) <= portal.conn[c].seq
  BY <1>4 DEF NoConnection
<1>6. Types
  BY <1>1, <1>4, <1>5 DEF Types
<1>7. Owned(portal) /\ Awaited(portal) /\ WaitingAreClosed(portal) /\ LoginsNamed /\ LoginsOpen
  BY <1>4, <1>5 DEF Owned, Awaited, WaitingAreClosed, LoginsNamed, LoginsOpen
<1>8. LoginsApart /\ Participants /\ TokensOwn /\ TasksOwned /\ ConferenceFollows
  BY <1>1, <1>4 DEF LoginsApart, Participants, TokensOwn, TasksOwned, ConferenceFollows, Waited
<1> QED
  BY <1>6, <1>7, <1>8 DEF IInv

LEMMA HandledStep ==
  ASSUME IInv, NEW d \in calls, Handled(d)
  PROVE  IInv'
<1>1. CASE ConferenceJoins(d)
  BY <1>1, ConferenceJoinsStep
<1>2. CASE Joined(d)
  <2>1. CASE portal.conn[d.id].state = "connecting"
    BY <1>2, <2>1, JoinedStep DEF Joined
  <2>2. CASE portal.conn[d.id].state # "connecting"
    BY <1>2, <2>2, JoinedLateStep DEF Joined
  <2> QED
    BY <2>1, <2>2
<1>3. CASE NotJoined(d)
  BY <1>3, NotJoinedStep
<1>4. CASE ConferenceLeft(d)
  BY <1>4, ConferenceLeftStep
<1>5. CASE Dropped(d)
  BY <1>5, DroppedStep
<1>6. CASE OnConferenceLost(d)
  BY <1>6, OnConferenceLostStep
<1> QED
  BY <1>1, <1>2, <1>3, <1>4, <1>5, <1>6 DEF Handled

LEMMA SocketStep ==
  ASSUME IInv, NEW c \in Sockets,
         \/ Connect(c) \/ Login(c) \/ Logout(c) \/ Break(c) \/ Disconnected(c)
         \/ WaitingTimeout(c) \/ NotInService(c) \/ Notify(c) \/ Drop(c)
         \/ \E p \in Sockets : Relogin(c, p) \/ ReloginFailed(c, p)
  PROVE  IInv'
<1>1. CASE Connect(c)
  BY <1>1, ConnectStep
<1>2. CASE Login(c)
  BY <1>2, LoginStep
<1>3. CASE Logout(c)
  BY <1>3, LogoutStep
<1>4. CASE Break(c)
  BY <1>4, BreakStep
<1>5. CASE Disconnected(c)
  BY <1>5, DisconnectedStep
<1>6. CASE WaitingTimeout(c)
  BY <1>6, WaitingTimeoutStep
<1>7. CASE NotInService(c)
  BY <1>7, NotInServiceStep
<1>8. CASE Notify(c)
  BY <1>8, NotifyStep
<1>9. CASE Drop(c)
  BY <1>9, DropCallStep
<1>10. ASSUME NEW p \in Sockets, Relogin(c, p) PROVE IInv'
  BY <1>10, ReloginStep
<1>11. ASSUME NEW p \in Sockets, ReloginFailed(c, p) PROVE IInv'
  BY <1>11, ReloginFailedStep
<1> QED
  BY <1>1, <1>2, <1>3, <1>4, <1>5, <1>6, <1>7, <1>8, <1>9, <1>10, <1>11

LEMMA Stuttering ==
  ASSUME IInv, UNCHANGED vars
  PROVE  IInv'
<1>1. /\ portal' = portal /\ UNCHANGED <<calls, joined, bound>> /\ clients' = clients /\ past' = past
  BY DEF vars
<1>2. Alike(portal, portal')
  BY <1>1 DEF Alike, IInv, Types
<1> QED
  BY <1>1, <1>2, AlikeStep DEF IInv, Types

(* Whatever a portal does, its tables agree: the inductive invariant.      *)
THEOREM TablesConsistent == Spec => []IInv
<1>1. Init => IInv
  BY Initial
<1>2. IInv /\ [Next]_vars => IInv'
  <2> SUFFICES ASSUME IInv, [Next]_vars PROVE IInv'
    OBVIOUS
  <2>1. CASE UNCHANGED vars
    BY <2>1, Stuttering
  <2>2. ASSUME NEW c \in Sockets,
               \/ Connect(c) \/ Login(c) \/ Logout(c) \/ Break(c) \/ Disconnected(c)
               \/ WaitingTimeout(c) \/ NotInService(c) \/ Notify(c) \/ Drop(c)
               \/ \E p \in Sockets : Relogin(c, p) \/ ReloginFailed(c, p)
        PROVE  IInv'
    BY <2>2, SocketStep
  <2>3. ASSUME NEW d \in calls, Handled(d) PROVE IInv'
    BY <2>3, HandledStep
  <2>4. CASE Pause
    BY <2>4, PauseStep
  <2>5. CASE ConferenceLost
    BY <2>5, ConferenceLostStep
  <2>6. CASE DropAll
    BY <2>6, DropAllStep
  <2> QED
    BY <2>1, <2>2, <2>3, <2>4, <2>5, <2>6 DEF Next
<1> QED
  BY <1>1, <1>2, PTL DEF Spec

(* However connections are taken over, broken and timed out, a client has  *)
(* a connection that knows it and is in service, and one whose socket is   *)
(* lost is waited for.                                                     *)
THEOREM ClientsAreFollowed == Spec => []ClientsFollowed
<1>1. IInv => ClientsFollowed
  BY DEF IInv, Clean, Timely, Owned, Awaited, InService, ClientsFollowed, ConnectionsOwned,
         JoinedLostAreAwaited, LostAreAwaited
<1> QED
  BY <1>1, TablesConsistent, PTL

(* With no call under way the conference has the participants the portal   *)
(* has, each with a client and a task of the cluster of its own.           *)
THEOREM RoomsAgreeAtRest == Spec => []RoomAgrees
<1>1. IInv => TypeOK
  <2> SUFFICES ASSUME IInv PROVE TypeOK
    OBVIOUS
  <2>1. /\ portal \in PortalType /\ portal.wire = <<>> /\ portal.leaving = {}
        /\ \A c \in Sockets : Len(portal.conn[c].buffer) <= portal.conn[c].seq
    BY DEF IInv, Types
  <2>2. \A c \in Sockets : portal.conn[c] \in ConnectionType /\ portal.link[c] \in Links
    BY <2>1 DEF PortalType
  <2>3. portal.participants \subseteq Sockets
    BY <2>1 DEF PortalType
  <2> QED
    BY <2>1, <2>2, <2>3, DockType DEF TypeOK, ConnectionType, Links, States
<1>2. IInv => RoomAgrees
  <2> SUFFICES ASSUME IInv, calls = {}, Undisturbed
               PROVE  /\ joined = portal.participants /\ joined = DOMAIN portal.dock
                      /\ portal.tasks = {portal.dock[p].token : p \in joined}
    BY <1>1 DEF RoomAgrees
  <2>1. Clean
    BY DEF Undisturbed, Clean
  <2>2. portal.participants \subseteq joined
    BY DEF IInv, ConferenceFollows
  <2>3. joined \subseteq portal.participants
    BY DEF IInv, ConferenceFollows, Waited
  <2>4. portal.participants = DOMAIN portal.dock
    BY <2>1 DEF IInv, Participants
  <2>5. portal.tasks = {portal.dock[p].token : p \in DOMAIN portal.dock}
    BY <2>1 DEF IInv, TasksOwned
  <2> QED
    BY <2>2, <2>3, <2>4, <2>5
<1> QED
  BY <1>2, TablesConsistent, PTL

(* A step of a connection that was taken over, the timer of a lost one or  *)
(* the end of its socket, makes nobody leave but its own client.           *)
LEMMA LeavesOthers ==
  ASSUME NEW P \in PortalType, NEW c \in Sockets, NEW p \in DOMAIN P.dock, P.dock[p].conn # c
  PROVE  p \in DOMAIN ForceClientLeave(P, c).dock
<1>1. P.dock \in Docks
  BY DockType
<1>2. CASE ~Owns(P, c)
  BY <1>2, ForceClientLeaveFacts
<1>3. CASE Owns(P, c)
  <2>1. p # P.conn[c].client
    BY <1>3 DEF Owns
  <2>2. ForceClientLeave(P, c).dock = Restrict(P.dock, DOMAIN P.dock \ {P.conn[c].client})
    BY <1>3, ForceClientLeaveFacts
  <2>3. DOMAIN Restrict(P.dock, DOMAIN P.dock \ {P.conn[c].client}) = DOMAIN P.dock \ {P.conn[c].client}
    BY ONLY <1>1, RestrictType
  <2> QED
    BY <2>1, <2>2, <2>3
<1> QED
  BY <1>2, <1>3

THEOREM OthersAreLeftAlone == Spec => OldConnectionsHarmless
<1> DEFINE Harmless == \A c \in Sockets : WaitingTimeout(c) \/ Disconnected(c) =>
                         \A p \in DOMAIN portal.dock : portal.dock[p].conn # c => p \in DOMAIN portal'.dock
<1>1. IInv /\ [Next]_vars => [Harmless]_vars
  <2> SUFFICES ASSUME IInv, NEW c \in Sockets, WaitingTimeout(c) \/ Disconnected(c),
                      NEW p \in DOMAIN portal.dock, portal.dock[p].conn # c
               PROVE  p \in DOMAIN portal'.dock
    OBVIOUS
  <2>1. portal \in PortalType /\ portal.conn \in [Sockets -> ConnectionType]
    BY DEF IInv, Types, PortalType
  <2>2. CASE WaitingTimeout(c)
    <3> DEFINE K == [portal.conn[c] EXCEPT !.timer = FALSE]
               T == [portal EXCEPT !.conn[c].timer = FALSE]
    <3>1. portal.conn[c] \in ConnectionType
      BY <2>1
    <3>2. K \in ConnectionType /\ T = [portal EXCEPT !.conn[c] = K]
      BY <3>1 DEF ConnectionType
    <3> HIDE DEF K, T
    <3>3. T \in PortalType /\ T.dock = portal.dock
      BY <2>1, <3>2, WithConnection
    <3>4. p \in DOMAIN ForceClientLeave(T, c).dock /\ ForceClientLeave(T, c) \in PortalType
      BY <3>3, LeavesOthers, ForceClientLeaveFacts
    <3>5. Becomes(ForceClientLeave(T, c), calls)
      BY <2>2 DEF WaitingTimeout, T
    <3> QED
      BY <3>4, <3>5, BecomesFacts
  <2>3. CASE Disconnected(c)
    <3> DEFINE C == Closed(portal, c)
               Q == Disconnect(portal, c)
    <3>1. C \in PortalType /\ C.dock = portal.dock
      BY <2>1, ClosedFacts
    <3>2. p \in DOMAIN ForceClientLeave(C, c).dock
      BY <3>1, LeavesOthers
    <3>3. [C EXCEPT !.conn[c] = [@ EXCEPT !.state = "waiting_for_reconnecting", !.timer = TRUE]].dock = C.dock
      BY <3>1 DEF PortalType
    <3>4. p \in DOMAIN Q.dock
      BY <2>1, <3>1, <3>2, <3>3, DisconnectFacts
    <3>5. Q \in PortalType
      BY <2>1, DisconnectLeaves DEF Shrinks
    <3> HIDE DEF Q
    <3>6. Becomes(Q, calls)
      BY <2>3 DEF Disconnected, Q
    <3> QED
      BY <3>4, <3>5, <3>6, BecomesFacts
  <2> QED
    BY <2>2, <2>3
<1> QED
  BY <1>1, TablesConsistent, PTL DEF Spec, OldConnectionsHarmless

-----------------------------------------------------------------------------
(* The messages of a client are with it, in the buffer of its connection   *)
(* or pending there.                                                       *)

(* A socket is not used before, with the messages of that time kept.       *)
Fresh == "inherited" \notin past.mishaps

(* A client that has moved to another connection left a closed socket.     *)
Moved == \A p \in DOMAIN portal.dock : portal.dock[p].conn # p => portal.link[p] = "closed"

(* No connection is that of two clients, and one that logs in has a socket *)
(* and is nobody's, nor has its participant a client.                      *)
Unshared ==
  /\ \A p, q \in DOMAIN portal.dock : portal.dock[p].conn = portal.dock[q].conn => p = q
  /\ \A c \in Sockets : portal.conn[c].state = "connecting" =>
       portal.link[c] # "none" /\ c \notin DOMAIN portal.dock /\ \A p \in DOMAIN portal.dock : portal.dock[p].conn # c

(* Messages that are pending are numbered.                                 *)
Numbered == \A c \in Sockets : portal.conn[c].seq = 0 => portal.conn[c].pending = <<>>

(* A connection that logs in starts with nothing.                          *)
Starts ==
  Fresh => \A c \in Sockets : portal.conn[c].state = "connecting" =>
    /\ portal.conn[c].seq = 0 /\ portal.conn[c].pending = <<>> /\ portal.conn[c].buffer = <<>>
    /\ clients.sent[c] = 0 /\ clients.got[c] = <<>> /\ clients.lost[c] = {}

(* A buffer of all messages up to n.                                       *)
Whole(b, n) == Len(b) = n /\ \A k \in 1 .. n : b[k].m = k /\ b[k].seq = k /\ ~b[k].old

(* What a client of version 1.2 has not got is in its connection's buffer, *)
(* for a connection C with the link l, when n messages were sent and g of  *)
(* them got.                                                               *)
Buffered(C, l, n, g) ==
  /\ C.seq = n /\ Whole(C.buffer, n)
  /\ Len(g) <= n /\ \A k \in 1 .. Len(g) : g[k] = k
  /\ l = "up" /\ C.state = "connected" => Len(g) = n

(* What any other client has not got is pending, but for the lost x.       *)
Pends(C, n, x, g) ==
  /\ x \subseteq 1 .. n
  /\ InOrder(g \o C.pending, (1 .. n) \ x)
  /\ C.state = "connected" => C.pending = <<>>

(* The entries of a buffer grow old together.                              *)
Uniform(b) == \A k \in 1 .. Len(b) : b[k].timed /\ \A j \in 1 .. Len(b) : b[j].old = b[k].old

Keeps(p) ==
  LET c == portal.dock[p].conn
      C == portal.conn[c]
  IN /\ C.version = "1.2" /\ past.pauses = 0 => Buffered(C, portal.link[c], clients.sent[p], clients.got[p])
     /\ C.version = "1.1" => Pends(C, clients.sent[p], clients.lost[p], clients.got[p])
     /\ c = p => Uniform(C.buffer)

MessagesType ==
  /\ clients.got \in [Sockets -> Seq(Nat)] /\ clients.lost \in [Sockets -> SUBSET Nat]
  /\ past.pauses \in Nat

MInv ==
  /\ MessagesType
  /\ Served(portal) /\ Moved /\ Unshared /\ Numbered
  /\ Starts
  /\ Fresh => \A p \in DOMAIN portal.dock : Keeps(p)

LEMMA PastKept ==
  ASSUME Types, NEW X,
         \/ UNCHANGED past \/ Noting(X)
         \/ \E what \in {"logins", "breaks", "drops", "faults"} : Spend(what) \/ SpendNoting(what, X)
  PROVE  past'.pauses = past.pauses /\ past.mishaps \subseteq past'.mishaps
<1>1. DOMAIN past = {"logins", "breaks", "pauses", "drops", "faults", "mishaps"}
  BY DEF Types
<1>2. CASE UNCHANGED past
  BY <1>2
<1>3. CASE Noting(X)
  BY <1>1, <1>3 DEF Noting
<1>4. ASSUME NEW what \in {"logins", "breaks", "drops", "faults"}, Spend(what) \/ SpendNoting(what, X)
      PROVE  past'.pauses = past.pauses /\ past.mishaps \subseteq past'.mishaps
  BY <1>1, <1>4 DEF Spend, SpendNoting
<1> QED
  BY <1>2, <1>3, <1>4

(* A step in which no message passes, and nobody begins to be served.      *)
Steady ==
  /\ \A p \in DOMAIN portal'.dock : p \in DOMAIN portal.dock /\ portal'.dock[p] = portal.dock[p]
  /\ \A c \in Sockets :
       /\ Lessens(portal.conn[c], portal'.conn[c])
       /\ portal'.link[c] = "up" => portal.link[c] \in {"up", "none"}
       /\ portal.link[c] = "closed" => portal'.link[c] = "closed"
       /\ portal'.link[c] = "none" => portal.link[c] = "none"
  /\ Served(portal) => Served(portal')
  /\ clients'.sent = clients.sent /\ clients'.got = clients.got /\ clients'.lost = clients.lost
  /\ past'.pauses = past.pauses /\ past.mishaps \subseteq past'.mishaps

LEMMA SteadyStep ==
  ASSUME IInv, MInv, Steady
  PROVE  MInv'
<1>1. portal \in PortalType /\ \A p \in DOMAIN portal.dock : p \in Sockets /\ portal.dock[p].conn \in Sockets
  BY DockType DEF IInv, Types
<1>2. MessagesType'
  BY DEF MInv, MessagesType, Steady
<1>3. Served(portal)' /\ Served(portal)
  BY DEF MInv, Steady, Served
<1>4. Moved'
  BY <1>1 DEF MInv, Moved, Steady
<1>5. Unshared'
  BY DEF MInv, Unshared, Steady, Lessens
<1>6. Numbered'
  BY DEF MInv, Numbered, Steady, Lessens
<1>7. Fresh' => Fresh
  BY DEF Fresh, Steady
<1>8. Starts'
  BY <1>7 DEF MInv, Starts, Steady, Lessens
<1>9. ASSUME Fresh', NEW p \in DOMAIN portal'.dock
      PROVE  Keeps(p)'
  <2>1. Keeps(p) /\ p \in DOMAIN portal.dock /\ portal'.dock[p] = portal.dock[p]
    BY <1>7, <1>9 DEF MInv, Steady
  <2>2. PICK c \in Sockets : c = portal.dock[p].conn
    BY <1>1, <2>1
  <2>3. PICK C : C = portal.conn[c]
    OBVIOUS
  <2>4. PICK D : D = portal'.conn[c]
    OBVIOUS
  <2>5. Lessens(C, D)
    BY <2>3, <2>4 DEF Steady
  <2>6. portal'.link[c] = "up" => portal.link[c] = "up"
    <3>1. portal.link[c] # "none"
      BY <1>3, <2>1, <2>2 DEF Served
    <3> QED
      BY <3>1 DEF Steady
  <2>7. /\ C.version = "1.2" /\ past.pauses = 0 => Buffered(C, portal.link[c], clients.sent[p], clients.got[p])
        /\ C.version = "1.1" => Pends(C, clients.sent[p], clients.lost[p], clients.got[p])
        /\ c = p => Uniform(C.buffer)
    BY <2>1, <2>2, <2>3 DEF Keeps
  <2>8. /\ D.version = "1.2" /\ past'.pauses = 0 => Buffered(D, portal'.link[c], clients.sent[p], clients.got[p])
        /\ D.version = "1.1" => Pends(D, clients.sent[p], clients.lost[p], clients.got[p])
        /\ c = p => Uniform(D.buffer)
    BY <2>5, <2>6, <2>7 DEF Steady, Buffered, Pends, Lessens
  <2> QED
    BY <2>1, <2>2, <2>4, <2>8 DEF Keeps, Steady
<1> QED
  BY <1>2, <1>3, <1>4, <1>5, <1>6, <1>8, <1>9 DEF MInv

(* The steps that end connections and clients.                             *)
LEMMA QuietStep ==
  ASSUME IInv, MInv, Quiet,
         clients'.sent = clients.sent, clients'.got = clients.got, clients'.lost = clients.lost,
         past'.pauses = past.pauses, past.mishaps \subseteq past'.mishaps
  PROVE  MInv'
  BY SteadyStep DEF Steady, Quiet

LEMMA QuietSocketStep ==
  ASSUME IInv, MInv, NEW c \in Sockets,
         \/ Logout(c) \/ Disconnected(c) \/ WaitingTimeout(c) \/ NotInService(c)
         \/ \E p \in Sockets : ReloginFailed(c, p)
  PROVE  MInv'
<1>1. Quiet
  BY LogoutStep, DisconnectedStep, WaitingTimeoutStep, NotInServiceStep, ReloginFailedStep
<1>2. UNCHANGED clients
  BY DEF Logout, Disconnected, WaitingTimeout, NotInService, ReloginFailed
<1>3. UNCHANGED past \/ \E X : Noting(X)
  BY DEF Logout, Disconnected, WaitingTimeout, NotInService, ReloginFailed
<1>4. past'.pauses = past.pauses /\ past.mishaps \subseteq past'.mishaps
  BY <1>3, PastKept DEF IInv
<1> QED
  BY <1>1, <1>2, <1>4, QuietStep

LEMMA QuietCallStep ==
  ASSUME IInv, MInv,
         \/ \E d \in calls : NotJoined(d) \/ Dropped(d) \/ OnConferenceLost(d)
         \/ DropAll
  PROVE  MInv'
<1>1. Quiet
  BY NotJoinedStep, DroppedStep, OnConferenceLostStep, DropAllStep
<1>2. UNCHANGED clients
  BY DEF NotJoined, Dropped, OnConferenceLost, DropAll
<1>3. UNCHANGED past \/ \E X : \E what \in {"faults"} : Spend(what) \/ SpendNoting(what, X)
  BY DEF NotJoined, Dropped, OnConferenceLost, DropAll
<1>4. past'.pauses = past.pauses /\ past.mishaps \subseteq past'.mishaps
  BY <1>3, PastKept DEF IInv
<1> QED
  BY <1>1, <1>2, <1>4, QuietStep

(* The steps that make no client do anything.                              *)
LEMMA ConnectedSteady ==
  ASSUME IInv, MInv, NEW c \in Sockets, Connect(c) \/ Break(c)
  PROVE  MInv'
<1>1. /\ portal \in PortalType /\ portal.link \in [Sockets -> Links]
      /\ \A p \in DOMAIN portal.dock : portal.dock[p].conn \in Sockets
  BY DockType DEF IInv, Types, PortalType
<1>2. PICK l \in {"up", "broken"} :
        /\ portal' = [portal EXCEPT !.link[c] = l]
        /\ \/ portal.link[c] = "none" /\ l = "up"
           \/ portal.link[c] = "up" /\ l = "broken"
        /\ UNCHANGED clients
        /\ UNCHANGED past \/ \E what \in {"breaks"} : Spend(what)
  BY DEF Connect, Break
<1>3. portal'.conn = portal.conn /\ portal'.dock = portal.dock /\ portal'.link = [portal.link EXCEPT ![c] = l]
  BY <1>1, <1>2 DEF PortalType
<1>4. past'.pauses = past.pauses /\ past.mishaps \subseteq past'.mishaps
  BY <1>2, PastKept DEF IInv
<1>5. \A x \in Sockets : Lessens(portal.conn[x], portal'.conn[x])
  BY <1>3 DEF Lessens
<1>6. \A x \in Sockets :
        /\ portal'.link[x] = "up" => portal.link[x] \in {"up", "none"}
        /\ portal.link[x] = "closed" => portal'.link[x] = "closed"
        /\ portal'.link[x] = "none" => portal.link[x] = "none"
  BY <1>1, <1>2, <1>3
<1>7. Served(portal) => Served(portal')
  BY <1>1, <1>2, <1>3 DEF Served
<1> QED
  BY <1>2, <1>3, <1>4, <1>5, <1>6, <1>7, SteadyStep DEF Steady

LEMMA CallsSteady ==
  ASSUME IInv, MInv, UNCHANGED <<portal, clients>>, past'.pauses = past.pauses,
         past.mishaps \subseteq past'.mishaps
  PROVE  MInv'
<1>1. \A x \in Sockets : Lessens(portal.conn[x], portal'.conn[x])
  BY DEF Lessens
<1> QED
  BY <1>1, SteadyStep DEF Steady, Served

LEMMA ConferenceSteady ==
  ASSUME IInv, MInv,
         \/ \E d \in calls : ConferenceJoins(d) \/ ConferenceLeft(d)
         \/ \E c \in Sockets : Drop(c)
         \/ ConferenceLost \/ UNCHANGED vars
  PROVE  MInv'
<1>1. UNCHANGED <<portal, clients>>
  BY DEF ConferenceJoins, ConferenceLeft, Drop, ConferenceLost, vars
<1>2. UNCHANGED past \/ \E what \in {"drops", "faults"} : Spend(what)
  BY DEF ConferenceJoins, ConferenceLeft, Drop, ConferenceLost, vars
<1>3. past'.pauses = past.pauses /\ past.mishaps \subseteq past'.mishaps
  BY <1>2, PastKept DEF IInv
<1> QED
  BY <1>1, <1>3, CallsSteady

(* An answer that comes too late.                                          *)
LEMMA LateSteady ==
  ASSUME IInv, MInv, NEW d \in calls, Joined(d), portal.conn[d.id].state # "connecting"
  PROVE  MInv'
<1>1. Quiet
  BY JoinedLateStep DEF Joined
<1>2. clients' = [clients EXCEPT !.tickets = @ \cup {d.id}] \/ clients' = clients
  BY DEF Joined
<1>3. \E X : Noting(X)
  BY DEF Joined
<1>4. past'.pauses = past.pauses /\ past.mishaps \subseteq past'.mishaps
  BY <1>3, PastKept DEF IInv
<1>5. DOMAIN clients = {"tickets", "sent", "lost", "got"}
  BY DEF IInv, Types
<1>6. clients'.sent = clients.sent /\ clients'.got = clients.got /\ clients'.lost = clients.lost
  BY <1>2, <1>5
<1> QED
  BY <1>1, <1>4, <1>6, QuietStep

(* Who has a connection whose socket is open is connected: a connection    *)
(* that begins is nobody's, nor has its socket a client elsewhere.         *)
LEMMA IdleIsNobodys ==
  ASSUME IInv, MInv, NEW c \in Sockets, portal.link[c] = "up", portal.conn[c].state = "initialized"
  PROVE  c \notin DOMAIN portal.dock /\ \A p \in DOMAIN portal.dock : portal.dock[p].conn # c
<1>1. \A p \in DOMAIN portal.dock : portal.dock[p].conn # c
  BY DEF MInv, Served
<1>2. c \notin DOMAIN portal.dock
  BY <1>1 DEF MInv, Moved
<1> QED
  BY <1>1, <1>2

(* A login begins with nothing.                                            *)
LEMMA LoginMessages ==
  ASSUME IInv, MInv, NEW c \in Sockets, Login(c)
  PROVE  MInv'
<1>1. /\ portal \in PortalType /\ portal.conn \in [Sockets -> ConnectionType]
      /\ portal.link[c] = "up" /\ portal.conn[c].state = "initialized"
      /\ \A x \in Sockets : Len(portal.conn[x].buffer) <= portal.conn[x].seq
      /\ \A p \in DOMAIN portal.dock : p \in Sockets /\ portal.dock[p].conn \in Sockets
  BY DockType DEF IInv, Types, PortalType, Login
<1>2. PICK v \in bound.versions, e \in BOOLEAN :
        portal' = [portal EXCEPT !.conn[c] = [@ EXCEPT !.state = "connecting", !.client = c, !.version = v, !.enabled = e]]
  BY DEF Login
<1> DEFINE C == portal.conn[c]
           K == [C EXCEPT !.state = "connecting", !.client = c, !.version = v, !.enabled = e]
<1>3. portal'.conn = [portal.conn EXCEPT ![c] = K] /\ portal'.link = portal.link /\ portal'.dock = portal.dock
  BY <1>1, <1>2 DEF PortalType
<1>4. C \in ConnectionType /\ C.seq \in Nat /\ C.buffer \in Seq(Entries)
  BY <1>1 DEF ConnectionType
<1>5. K.state = "connecting" /\ K.pending = C.pending /\ K.seq = C.seq /\ K.buffer = C.buffer
  BY <1>4 DEF ConnectionType
<1> HIDE DEF K
<1>6. portal'.conn[c] = K /\ \A x \in Sockets : x # c => portal'.conn[x] = portal.conn[x]
  BY <1>1, <1>3
<1>7. /\ DOMAIN clients = {"tickets", "sent", "lost", "got"} /\ clients.sent \in [Sockets -> Nat]
      /\ clients.got \in [Sockets -> Seq(Nat)] /\ clients.lost \in [Sockets -> SUBSET Nat]
      /\ clients' = [clients EXCEPT !.sent[c] = 0, !.got[c] = <<>>, !.lost[c] = {}]
  BY DEF IInv, Types, MInv, MessagesType, Login
<1>8. /\ clients'.sent = [clients.sent EXCEPT ![c] = 0] /\ clients'.got = [clients.got EXCEPT ![c] = <<>>]
      /\ clients'.lost = [clients.lost EXCEPT ![c] = {}]
  BY <1>7
<1>9. SpendNoting("logins", Reused(c) \cup Inherited(c))
  BY DEF Login
<1>10. past'.pauses = past.pauses /\ past.mishaps \subseteq past'.mishaps
  <2>1. \E what \in {"logins"} : SpendNoting(what, Reused(c) \cup Inherited(c))
    BY <1>9
  <2> QED
    BY <2>1, PastKept DEF IInv
<1>11. MessagesType'
  <2>1. <<>> \in Seq(Nat) /\ {} \in SUBSET Nat
    OBVIOUS
  <2> QED
    BY <1>7, <1>8, <1>10, <2>1 DEF MInv, MessagesType
<1>12. c \notin DOMAIN portal.dock /\ \A p \in DOMAIN portal.dock : portal.dock[p].conn # c
  BY <1>1, IdleIsNobodys
<1>13. Served(portal)'
  BY <1>1, <1>3, <1>6, <1>12 DEF MInv, Served
<1>14. Moved'
  BY <1>3 DEF MInv, Moved
<1>15. Unshared'
  BY <1>1, <1>3, <1>5, <1>6, <1>12 DEF MInv, Unshared
<1>16. Numbered'
  BY <1>5, <1>6 DEF MInv, Numbered
<1>17. Fresh' => Fresh /\ C.seq = 0
  <2>1. DOMAIN past = {"logins", "breaks", "pauses", "drops", "faults", "mishaps"}
    BY DEF IInv, Types
  <2>2. Inherited(c) \subseteq past'.mishaps
    BY <1>9, <2>1 DEF SpendNoting
  <2> QED
    BY <1>4, <1>10, <2>2 DEF Fresh, Inherited
<1>18. Starts'
  <2> SUFFICES ASSUME Fresh', NEW x \in Sockets, portal'.conn[x].state = "connecting"
               PROVE  /\ portal'.conn[x].seq = 0 /\ portal'.conn[x].pending = <<>> /\ portal'.conn[x].buffer = <<>>
                      /\ clients'.sent[x] = 0 /\ clients'.got[x] = <<>> /\ clients'.lost[x] = {}
    BY DEF Starts
  <2>1. CASE x = c
    <3>1. C.pending = <<>>
      BY <1>17 DEF MInv, Numbered
    <3>2. C.buffer = <<>>
      BY <1>1, <1>4, <1>17
    <3> QED
      BY <1>5, <1>6, <1>7, <1>8, <1>17, <2>1, <3>1, <3>2
  <2>2. CASE x # c
    BY <1>6, <1>7, <1>8, <1>17, <2>2 DEF MInv, Starts
  <2> QED
    BY <2>1, <2>2
<1>19. ASSUME Fresh', NEW p \in DOMAIN portal'.dock
       PROVE  Keeps(p)'
  <2>1. Keeps(p) /\ p # c /\ portal.dock[p].conn # c /\ p \in Sockets /\ portal.dock[p].conn \in Sockets
    BY <1>1, <1>3, <1>12, <1>17, <1>19 DEF MInv
  <2>2. /\ clients'.sent[p] = clients.sent[p] /\ clients'.got[p] = clients.got[p]
        /\ clients'.lost[p] = clients.lost[p]
    BY <1>7, <1>8, <2>1
  <2>3. portal'.conn[portal.dock[p].conn] = portal.conn[portal.dock[p].conn]
    BY <1>6, <2>1
  <2> QED
    BY <1>3, <1>10, <2>1, <2>2, <2>3 DEF Keeps
<1> QED
  BY <1>11, <1>13, <1>14, <1>15, <1>16, <1>18, <1>19 DEF MInv

(* Nothing was sent to a client that has just joined.                      *)
LEMMA NothingKept ==
  ASSUME NEW C, NEW l, C.seq = 0, C.pending = <<>>, C.buffer = <<>>
  PROVE  /\ Buffered(C, l, 0, <<>>)
         /\ Pends(C, 0, {}, <<>>)
         /\ Uniform(C.buffer)
<1>1. Len(<<>>) = 0 /\ 1 .. 0 = {} /\ <<>> \o <<>> = <<>> /\ DOMAIN <<>> = {}
  OBVIOUS
<1>2. Whole(<<>>, 0)
  BY <1>1 DEF Whole
<1>3. InOrder(<<>>, {})
  BY <1>1 DEF InOrder
<1>4. Pends(C, 0, {}, <<>>)
  <2>1. (1 .. 0) \ {} = {} /\ <<>> \o C.pending = <<>>
    BY <1>1
  <2> QED
    BY <1>1, <1>3, <2>1 DEF Pends
<1>5. Buffered(C, l, 0, <<>>)
  BY <1>1, <1>2 DEF Buffered
<1>6. Uniform(C.buffer)
  BY <1>1 DEF Uniform
<1> QED
  BY <1>4, <1>5, <1>6

LEMMA JoinedMessages ==
  ASSUME IInv, MInv, NEW d \in calls, Joined(d), portal.conn[d.id].state = "connecting"
  PROVE  MInv'
<1> DEFINE c == d.id
           K == [portal.conn[c] EXCEPT !.state = "connected"]
           v == [conn |-> c, token |-> d.token]
           g == With(portal.dock, c, v)
<1>1. /\ portal \in PortalType /\ portal.conn \in [Sockets -> ConnectionType]
      /\ \A p \in DOMAIN portal.dock : p \in Sockets /\ portal.dock[p].conn \in Sockets
  BY DockType DEF IInv, Types, PortalType
<1>2. c \in Sockets
  BY JoinedFacts
<1>3. /\ K.state = "connected" /\ K.client = portal.conn[c].client
      /\ K.buffer = portal.conn[c].buffer /\ K.seq = portal.conn[c].seq
      /\ K.pending = portal.conn[c].pending /\ K.version = portal.conn[c].version
      /\ DOMAIN g = DOMAIN portal.dock \cup {c} /\ g[c].conn = c
      /\ \A x \in DOMAIN portal.dock : x # c => g[x] = portal.dock[x]
      /\ portal'.conn = [portal.conn EXCEPT ![c] = K] /\ portal'.link = portal.link /\ portal'.dock = g
  <2>1. /\ K.state = "connected" /\ K.client = portal.conn[c].client
        /\ K.buffer = portal.conn[c].buffer /\ K.seq = portal.conn[c].seq
        /\ K.pending = portal.conn[c].pending /\ K.version = portal.conn[c].version
        /\ portal'.conn = [portal.conn EXCEPT ![c] = K] /\ portal'.link = portal.link
    BY JoinedPortal
  <2>2. /\ DOMAIN g = DOMAIN portal.dock \cup {c} /\ g[c] = v /\ portal'.dock = g
        /\ \A x \in DOMAIN portal.dock : x # c => g[x] = portal.dock[x]
    BY JoinedPortal
  <2>3. v.conn = c
    OBVIOUS
  <2> HIDE DEF K, v, g, c
  <2> QED
    BY <2>1, <2>2, <2>3
<1> HIDE DEF K, v, g
<1>4. portal'.conn[c] = K /\ \A x \in Sockets : x # c => portal'.conn[x] = portal.conn[x]
  BY <1>1, <1>2, <1>3
<1>5. clients' = [clients EXCEPT !.tickets = @ \cup {c}] \/ clients' = clients
  BY DEF Joined
<1>6. DOMAIN clients = {"tickets", "sent", "lost", "got"}
  BY DEF IInv, Types
<1>7. clients'.sent = clients.sent /\ clients'.got = clients.got /\ clients'.lost = clients.lost
  BY <1>5, <1>6
<1>8. \E X : Noting(X)
  BY DEF Joined
<1>9. past'.pauses = past.pauses /\ past.mishaps \subseteq past'.mishaps
  BY <1>8, PastKept DEF IInv
<1>10. /\ K.client = c /\ portal.conn[c].state = "connecting"
       /\ portal.link[c] # "none" /\ c \notin DOMAIN portal.dock
       /\ \A p \in DOMAIN portal.dock : portal.dock[p].conn # c
  BY <1>2, <1>3 DEF IInv, LoginsNamed, MInv, Unshared, c
<1> HIDE DEF c
<1>11. MessagesType'
  BY <1>7, <1>9 DEF MInv, MessagesType
<1>12. \A p \in DOMAIN portal'.dock :
         \/ p = c /\ portal'.dock[p].conn = c
         \/ /\ p # c /\ p \in DOMAIN portal.dock /\ portal'.dock[p] = portal.dock[p] /\ p \in Sockets
            /\ portal.dock[p].conn \in Sockets /\ portal.dock[p].conn # c
  BY <1>1, <1>3, <1>10
<1>13. Served(portal)'
  BY <1>2, <1>3, <1>4, <1>10, <1>12 DEF MInv, Served
<1>14. Moved'
  BY <1>3, <1>12 DEF MInv, Moved
<1>15. Unshared'
  <2>1. \A p, q \in DOMAIN portal'.dock : portal'.dock[p].conn = portal'.dock[q].conn => p = q
    BY <1>12 DEF MInv, Unshared
  <2>2. ASSUME NEW x \in Sockets, portal'.conn[x].state = "connecting"
        PROVE  /\ portal'.link[x] # "none" /\ x \notin DOMAIN portal'.dock
               /\ \A p \in DOMAIN portal'.dock : portal'.dock[p].conn # x
    <3>1. x # c /\ portal.conn[x].state = "connecting"
      BY <1>3, <1>4, <2>2
    <3> QED
      BY <1>3, <1>12, <3>1 DEF MInv, Unshared
  <2> QED
    BY <2>1, <2>2 DEF Unshared
<1>16. Numbered'
  BY <1>2, <1>3, <1>4 DEF MInv, Numbered
<1>17. Fresh' => Fresh
  BY <1>9 DEF Fresh
<1>18. Starts'
  BY <1>3, <1>4, <1>7, <1>17 DEF MInv, Starts
<1>19. ASSUME Fresh', NEW p \in DOMAIN portal'.dock
       PROVE  Keeps(p)'
  <2>1. CASE p = c
    <3>1. /\ K.seq = 0 /\ K.pending = <<>> /\ K.buffer = <<>>
          /\ clients.sent[c] = 0 /\ clients.got[c] = <<>> /\ clients.lost[c] = {}
      BY <1>2, <1>3, <1>10, <1>17, <1>19 DEF MInv, Starts
    <3>2. /\ Buffered(K, portal.link[c], 0, <<>>)
          /\ Pends(K, 0, {}, <<>>)
          /\ Uniform(K.buffer)
      BY <3>1, NothingKept
    <3>3. portal'.dock[p].conn = c
      BY <1>12, <1>19, <2>1
    <3> QED
      BY <1>3, <1>4, <1>7, <2>1, <3>1, <3>2, <3>3 DEF Keeps
  <2>2. CASE p # c
    <3>1. /\ p \in DOMAIN portal.dock /\ portal'.dock[p] = portal.dock[p]
          /\ portal'.conn[portal.dock[p].conn] = portal.conn[portal.dock[p].conn]
      BY <1>4, <1>12, <1>19, <2>2
    <3>2. Keeps(p)
      BY <1>17, <1>19, <3>1 DEF MInv
    <3> QED
      BY <1>3, <1>7, <1>9, <3>1, <3>2 DEF Keeps
  <2> QED
    BY <2>1, <2>2
<1> QED
  BY <1>11, <1>13, <1>14, <1>15, <1>16, <1>18, <1>19 DEF MInv

(* A buffer without old messages is not trimmed.                           *)
LEMMA TrimFresh ==
  ASSUME NEW b \in Seq(Entries), \A k \in 1 .. Len(b) : ~b[k].old
  PROVE  Trim(b) = b
<1> DEFINE stays(k) == ~(b[k].old /\ b[k].timed)
           first == {k \in DOMAIN b : stays(k) /\ \A i \in 1 .. k - 1 : ~stays(i)}
<1>1. DOMAIN b = 1 .. Len(b) /\ Len(b) \in Nat
  OBVIOUS
<1>2. \A k \in 1 .. Len(b) : stays(k)
  OBVIOUS
<1>3. CASE Len(b) = 0
  <2>1. first = {} /\ b = <<>>
    BY <1>1, <1>3
  <2> QED
    BY <2>1 DEF Trim
<1>4. CASE Len(b) # 0
  <2>1. first = {1}
    <3>1. 1 \in first
      BY <1>1, <1>2, <1>4
    <3>2. ASSUME NEW k \in first PROVE k = 1
      <4>1. k \in 1 .. Len(b) /\ \A i \in 1 .. k - 1 : ~stays(i)
        BY <1>1, <3>2
      <4> QED
        BY <1>1, <1>2, <4>1
    <3> QED
      BY <3>1, <3>2
  <2> HIDE DEF first
  <2>2. first # {} /\ (CHOOSE k \in first : TRUE) = 1
    BY <2>1
  <2>3. Trim(b) = SubSeq(b, 1, Len(b))
    BY <2>2 DEF Trim, first
  <2> QED
    BY <1>1, <2>3
<1> QED
  BY <1>3, <1>4

(* One all of whose messages are old, but for the last, is trimmed to that.*)
LEMMA TrimOld ==
  ASSUME NEW b \in Seq(Entries), NEW n \in Nat, Len(b) = n + 1, ~b[n + 1].old,
         \A k \in 1 .. n : b[k].old /\ b[k].timed
  PROVE  Trim(b) = <<b[n + 1]>>
<1> DEFINE stays(k) == ~(b[k].old /\ b[k].timed)
           first == {k \in DOMAIN b : stays(k) /\ \A i \in 1 .. k - 1 : ~stays(i)}
<1>1. DOMAIN b = 1 .. n + 1
  OBVIOUS
<1>2. first = {n + 1}
  <2>1. n + 1 \in first
    BY <1>1
  <2>2. ASSUME NEW k \in first PROVE k = n + 1
    <3>1. k \in 1 .. n + 1 /\ stays(k)
      BY <1>1, <2>2
    <3> QED
      BY <3>1
  <2> QED
    BY <2>1, <2>2
<1> HIDE DEF first
<1>3. first # {} /\ (CHOOSE k \in first : TRUE) = n + 1
  BY <1>2
<1>4. Trim(b) = SubSeq(b, n + 1, Len(b))
  BY <1>3 DEF Trim, first
<1>5. SubSeq(b, n + 1, n + 1) = <<b[n + 1]>>
  <2>1. SubSeq(b, n + 1, n + 1) = [i \in 1 .. (n + 1) - (n + 1) + 1 |-> b[n + 1 + i - 1]]
    BY DEF SubSeq
  <2>2. (n + 1) - (n + 1) + 1 = 1 /\ \A i \in 1 .. 1 : n + 1 + i - 1 = n + 1
    OBVIOUS
  <2>3. SubSeq(b, n + 1, n + 1) = [i \in 1 .. 1 |-> b[n + 1]]
    BY <2>1, <2>2
  <2>4. \A e : <<e>> = [i \in 1 .. 1 |-> e]
    OBVIOUS
  <2> QED
    BY <2>3, <2>4
<1> QED
  BY <1>4, <1>5

LEMMA SentFacts ==
  ASSUME NEW m \in Nat, NEW n \in Nat
  PROVE  /\ Sent(m, n) \in Entries /\ Sent(m, n).m = m /\ Sent(m, n).seq = n
         /\ Sent(m, n).timed /\ ~Sent(m, n).old
  BY DEF Sent, Entries

(* A buffer that grows old together does so when another message is added. *)
LEMMA UniformNext ==
  ASSUME NEW b \in Seq(Entries), Uniform(b), NEW m \in Nat, NEW n \in Nat
  PROVE  Uniform(Trim(Append(b, Sent(m, n))))
<1> DEFINE e == Sent(m, n)
           a == Append(b, e)
<1>1. e \in Entries /\ e.timed /\ ~e.old
  BY SentFacts
<1> HIDE DEF e
<1>2. /\ a \in Seq(Entries) /\ Len(b) \in Nat /\ Len(a) = Len(b) + 1 /\ a[Len(b) + 1] = e
      /\ \A k \in 1 .. Len(b) : a[k] = b[k]
  BY <1>1
<1>3. \A k \in 1 .. Len(b) : b[k] \in Entries
  OBVIOUS
<1> HIDE DEF a
<1>4. CASE \A k \in 1 .. Len(b) : ~b[k].old
  <2>1. \A k \in 1 .. Len(a) : a[k].timed /\ ~a[k].old
    <3> TAKE k \in 1 .. Len(a)
    <3>1. k \in 1 .. Len(b) \/ k = Len(b) + 1
      BY <1>2
    <3>2. CASE k \in 1 .. Len(b)
      BY <1>2, <1>4, <3>2 DEF Uniform
    <3>3. CASE k = Len(b) + 1
      BY <1>1, <1>2, <3>3
    <3> QED
      BY <3>1, <3>2, <3>3
  <2>2. Trim(a) = a
    BY <1>2, <2>1, TrimFresh
  <2>3. \A k \in 1 .. Len(a) : a[k] \in Entries
    BY <1>2
  <2>4. \A j, k \in 1 .. Len(a) : a[j].old = a[k].old
    BY <2>1, <2>3 DEF Entries
  <2> QED
    BY <2>1, <2>2, <2>4 DEF Uniform, a, e
<1>5. CASE ~\A k \in 1 .. Len(b) : ~b[k].old
  <2>1. \A k \in 1 .. Len(b) : b[k].old /\ b[k].timed
    BY <1>5 DEF Uniform
  <2>2. Trim(a) = <<e>>
    BY <1>1, <1>2, <2>1, TrimOld
  <2>3. Len(<<e>>) = 1 /\ <<e>>[1] = e
    OBVIOUS
  <2>4. Uniform(<<e>>)
    BY <1>1, <2>3 DEF Uniform
  <2> QED
    BY <2>2, <2>4 DEF a, e
<1> QED
  BY <1>4, <1>5

(* A buffer of all messages is one with the next message.                  *)
LEMMA WholeNext ==
  ASSUME NEW b \in Seq(Entries), NEW n \in Nat, Whole(b, n)
  PROVE  Whole(Trim(Append(b, Sent(n + 1, n + 1))), n + 1)
<1> DEFINE e == Sent(n + 1, n + 1)
           a == Append(b, e)
<1>1. e \in Entries /\ ~e.old /\ e.m = n + 1 /\ e.seq = n + 1
  BY SentFacts
<1> HIDE DEF e
<1>2. Len(b) = n /\ \A k \in 1 .. n : b[k].m = k /\ b[k].seq = k /\ ~b[k].old
  BY DEF Whole
<1>3. /\ a \in Seq(Entries) /\ Len(a) = n + 1 /\ a[n + 1] = e
      /\ \A k \in 1 .. n : a[k] = b[k]
  BY <1>1, <1>2
<1> HIDE DEF a
<1>4. \A k \in 1 .. n + 1 : k \in 1 .. n \/ k = n + 1
  OBVIOUS
<1>5. \A k \in 1 .. n + 1 : a[k].m = k /\ a[k].seq = k /\ ~a[k].old
  BY <1>1, <1>2, <1>3, <1>4
<1>6. Trim(a) = a
  BY <1>3, <1>5, TrimFresh
<1> QED
  BY <1>3, <1>5, <1>6 DEF Whole, a, e

(* A list in order is so with a later message at its end.                  *)
LEMMA InOrderNext ==
  ASSUME NEW s \in Seq(Nat), NEW S, InOrder(s, S), NEW m \in Nat, \A x \in S : x < m
  PROVE  InOrder(Append(s, m), S \cup {m})
<1> DEFINE a == Append(s, m)
<1>1. /\ a \in Seq(Nat) /\ Len(s) \in Nat /\ Len(a) = Len(s) + 1 /\ a[Len(s) + 1] = m
      /\ DOMAIN s = 1 .. Len(s) /\ DOMAIN a = 1 .. Len(s) + 1
      /\ \A k \in 1 .. Len(s) : a[k] = s[k]
  OBVIOUS
<1> HIDE DEF a
<1>2. \A k \in 1 .. Len(s) + 1 : k \in 1 .. Len(s) \/ k = Len(s) + 1
  BY <1>1
<1>3. {s[k] : k \in 1 .. Len(s)} = S /\ \A i, j \in 1 .. Len(s) : i < j => s[i] < s[j]
  BY <1>1 DEF InOrder
<1>4. {a[k] : k \in 1 .. Len(s) + 1} = S \cup {m}
  <2>1. ASSUME NEW k \in 1 .. Len(s) + 1 PROVE a[k] \in S \cup {m}
    BY <1>1, <1>2, <1>3
  <2>2. ASSUME NEW x \in S PROVE \E k \in 1 .. Len(s) + 1 : a[k] = x
    <3>1. PICK k \in 1 .. Len(s) : s[k] = x
      BY <1>3
    <3>2. k \in 1 .. Len(s) + 1 /\ a[k] = x
      BY <1>1, <3>1
    <3> QED
      BY <3>2
  <2>3. Len(s) + 1 \in 1 .. Len(s) + 1
    BY <1>1
  <2> QED
    BY <1>1, <2>1, <2>2, <2>3
<1>5. \A i, j \in 1 .. Len(s) + 1 : i < j => a[i] < a[j]
  <2> TAKE i, j \in 1 .. Len(s) + 1
  <2> HAVE i < j
  <2>1. i \in 1 .. Len(s) /\ a[i] = s[i] /\ s[i] \in S
    BY <1>1, <1>3
  <2>2. CASE j \in 1 .. Len(s)
    BY <1>1, <1>3, <2>1, <2>2
  <2>3. CASE j = Len(s) + 1
    BY <1>1, <2>1, <2>3
  <2> QED
    BY <1>2, <2>2, <2>3
<1> QED
  BY <1>1, <1>4, <1>5 DEF InOrder, a

(* Lists with the same elements are the same.                              *)
LEMMA SameList ==
  ASSUME NEW s \in Seq(Nat), NEW t \in Seq(Nat), Len(s) = Len(t), \A k \in 1 .. Len(s) : s[k] = t[k]
  PROVE  s = t
<1>1. s = [k \in 1 .. Len(s) |-> s[k]] /\ t = [k \in 1 .. Len(t) |-> t[k]]
  OBVIOUS
<1> QED
  BY <1>1

(* A message at the end of the second of two lists is at the end of both.  *)
LEMMA AppendLast ==
  ASSUME NEW g \in Seq(Nat), NEW h \in Seq(Nat), NEW m \in Nat
  PROVE  g \o Append(h, m) = Append(g \o h, m)
<1> DEFINE s == g \o Append(h, m)
           t == Append(g \o h, m)
<1>1. Append(h, m) \in Seq(Nat) /\ g \o h \in Seq(Nat) /\ Len(g) \in Nat /\ Len(h) \in Nat
  OBVIOUS
<1>2. s \in Seq(Nat) /\ t \in Seq(Nat) /\ Len(s) = Len(g) + Len(h) + 1 /\ Len(t) = Len(g) + Len(h) + 1
  BY <1>1
<1>3. ASSUME NEW k \in 1 .. Len(g) + Len(h) + 1
      PROVE  s[k] = t[k]
  <2>1. CASE k \in 1 .. Len(g)
    BY <1>1, <2>1
  <2>2. CASE k \in Len(g) + 1 .. Len(g) + Len(h)
    <3>1. k - Len(g) \in 1 .. Len(h) /\ k \in 1 .. Len(g \o h)
      BY <1>1, <2>2
    <3>2. s[k] = Append(h, m)[k - Len(g)] /\ Append(h, m)[k - Len(g)] = h[k - Len(g)]
      BY <1>1, <2>2, <3>1
    <3>3. t[k] = (g \o h)[k] /\ (g \o h)[k] = h[k - Len(g)]
      BY <1>1, <2>2, <3>1
    <3> QED
      BY <3>2, <3>3
  <2>3. CASE k = Len(g) + Len(h) + 1
    <3>1. s[k] = Append(h, m)[Len(h) + 1]
      BY <1>1, <2>3
    <3> QED
      BY <1>1, <2>3, <3>1
  <2> QED
    BY <1>1, <2>1, <2>2, <2>3
<1> HIDE DEF s, t
<1>4. s = t
  BY <1>2, <1>3, SameList
<1> QED
  BY <1>4 DEF s, t

(* A connection C with the link l that has sent another message: what came *)
(* of it, what was emitted, and what was lost.                             *)
SentOn(C, D, l, n, x, w, y) ==
  /\ D.state = C.state /\ D.seq = C.seq + 1
  /\ D.buffer = Trim(Append(C.buffer, Sent(n + 1, C.seq + 1)))
  /\ D.pending = IF C.state = "connected" THEN C.pending ELSE Append(C.pending, n + 1)
  /\ w = IF C.state = "connected" /\ l = "up" THEN <<n + 1>> ELSE <<>>
  /\ y = IF C.state = "connected" /\ w = <<>> THEN x \cup {n + 1} ELSE x

LEMMA NextKept ==
  ASSUME NEW C \in ConnectionType, NEW D, NEW l, NEW n \in Nat, NEW g \in Seq(Nat), NEW x, NEW w, NEW y,
         SentOn(C, D, l, n, x, w, y)
  PROVE  /\ Buffered(C, l, n, g) => Buffered(D, l, n + 1, g \o w)
         /\ Pends(C, n, x, g) => Pends(D, n + 1, y, g \o w)
         /\ Uniform(C.buffer) => Uniform(D.buffer)
<1>0. /\ D.state = C.state /\ D.seq = C.seq + 1
      /\ D.buffer = Trim(Append(C.buffer, Sent(n + 1, C.seq + 1)))
      /\ D.pending = IF C.state = "connected" THEN C.pending ELSE Append(C.pending, n + 1)
      /\ w = IF C.state = "connected" /\ l = "up" THEN <<n + 1>> ELSE <<>>
      /\ y = IF C.state = "connected" /\ w = <<>> THEN x \cup {n + 1} ELSE x
  BY DEF SentOn
<1>1. C.seq \in Nat /\ C.buffer \in Seq(Entries) /\ C.pending \in Seq(Nat)
  BY DEF ConnectionType
<1>2. Uniform(C.buffer) => Uniform(D.buffer)
  BY <1>0, <1>1, UniformNext
<1>3. <<n + 1>> # <<>> /\ g \o <<>> = g /\ g \o <<n + 1>> = Append(g, n + 1)
  OBVIOUS
<1>4. ASSUME Buffered(C, l, n, g)
      PROVE  Buffered(D, l, n + 1, g \o w)
  <2>1. C.seq = n /\ Whole(C.buffer, n) /\ Len(g) <= n /\ \A k \in 1 .. Len(g) : g[k] = k
    BY <1>4 DEF Buffered
  <2>2. D.seq = n + 1 /\ Whole(D.buffer, n + 1)
    BY <1>0, <1>1, <2>1, WholeNext
  <2>3. CASE C.state = "connected" /\ l = "up"
    <3>1. Len(g) = n /\ g \o w = Append(g, n + 1)
      BY <1>0, <1>3, <1>4, <2>3 DEF Buffered
    <3>2. Len(Append(g, n + 1)) = n + 1 /\ \A k \in 1 .. n + 1 : Append(g, n + 1)[k] = k
      <4>1. \A k \in 1 .. n + 1 : k \in 1 .. n \/ k = n + 1
        OBVIOUS
      <4> QED
        BY <2>1, <3>1, <4>1
    <3> QED
      BY <2>2, <3>1, <3>2 DEF Buffered
  <2>4. CASE ~(C.state = "connected" /\ l = "up")
    <3>1. g \o w = g
      BY <1>0, <1>3, <2>4
    <3>2. Len(g) <= n + 1
      BY <2>1
    <3> QED
      BY <1>0, <2>1, <2>2, <2>4, <3>1, <3>2 DEF Buffered
  <2> QED
    BY <2>3, <2>4
<1>5. ASSUME Pends(C, n, x, g)
      PROVE  Pends(D, n + 1, y, g \o w)
  <2>1. /\ x \subseteq 1 .. n /\ InOrder(g \o C.pending, (1 .. n) \ x)
        /\ C.state = "connected" => C.pending = <<>>
    BY <1>5 DEF Pends
  <2>2. \A z \in (1 .. n) \ x : z < n + 1
    OBVIOUS
  <2>3. ((1 .. n) \ x) \cup {n + 1} = (1 .. n + 1) \ x /\ x \subseteq 1 .. n + 1
    BY <2>1
  <2>4. g \o C.pending \in Seq(Nat)
    BY <1>1
  <2>5. CASE C.state = "connected" /\ l = "up"
    <3>1. y = x /\ D.pending = <<>> /\ g \o w = Append(g, n + 1) /\ C.pending = <<>>
      BY <1>0, <1>3, <2>1, <2>5
    <3>2. InOrder(g, (1 .. n) \ x)
      BY <1>3, <2>1, <3>1
    <3>3. InOrder(Append(g, n + 1), (1 .. n + 1) \ x)
      BY <2>2, <2>3, <3>2, InOrderNext
    <3>4. (g \o w) \o D.pending = Append(g, n + 1)
      <4>1. Append(g, n + 1) \in Seq(Nat)
        OBVIOUS
      <4>2. Append(g, n + 1) \o <<>> = Append(g, n + 1)
        BY <4>1
      <4> QED
        BY <3>1, <4>2
    <3> QED
      BY <2>3, <3>1, <3>3, <3>4 DEF Pends
  <2>6. CASE C.state = "connected" /\ l # "up"
    <3>1. y = x \cup {n + 1} /\ D.pending = <<>> /\ g \o w = g /\ C.pending = <<>>
      BY <1>0, <1>3, <2>1, <2>6
    <3>2. (1 .. n + 1) \ y = (1 .. n) \ x /\ y \subseteq 1 .. n + 1
      BY <2>1, <3>1
    <3>3. (g \o w) \o D.pending = g \o C.pending
      BY <3>1
    <3> QED
      BY <2>1, <3>1, <3>2, <3>3 DEF Pends
  <2>7. CASE C.state # "connected"
    <3>1. y = x /\ D.pending = Append(C.pending, n + 1) /\ g \o w = g
      BY <1>0, <1>3, <2>7
    <3>2. g \o Append(C.pending, n + 1) = Append(g \o C.pending, n + 1)
      <4>1. n + 1 \in Nat
        OBVIOUS
      <4> QED
        BY ONLY g \in Seq(Nat), <1>1, <4>1, AppendLast
    <3>3. (g \o w) \o D.pending = Append(g \o C.pending, n + 1)
      BY ONLY <3>1, <3>2
    <3>4. InOrder(Append(g \o C.pending, n + 1), (1 .. n + 1) \ x)
      <4>1. PICK h \in Seq(Nat) : h = g \o C.pending
        BY <2>4
      <4>2. InOrder(h, (1 .. n) \ x)
        BY <2>1, <4>1
      <4>3. InOrder(Append(h, n + 1), (1 .. n + 1) \ x)
        BY <2>2, <2>3, <4>2, InOrderNext
      <4> QED
        BY <4>1, <4>3
    <3>5. InOrder((g \o w) \o D.pending, (1 .. n + 1) \ y)
      BY ONLY <3>1, <3>3, <3>4
    <3>6. D.state # "connected" /\ y \subseteq 1 .. n + 1
      BY <1>0, <2>3, <2>7, <3>1
    <3> QED
      BY ONLY <3>5, <3>6 DEF Pends
  <2> QED
    BY <2>5, <2>6, <2>7
<1> QED
  BY <1>2, <1>4, <1>5

LEMMA NotifyMessages ==
  ASSUME IInv, MInv, NEW p \in Sockets, Notify(p)
  PROVE  MInv'
<1> DEFINE c == portal.dock[p].conn
           C == portal.conn[c]
           n == clients.sent[p]
           g == clients.got[p]
           Q == SendMessage(portal, c, n + 1)
           E == [Q EXCEPT !.wire = <<>>]
<1>1. /\ portal \in PortalType /\ portal.wire = <<>> /\ portal.leaving = {} /\ p \in DOMAIN portal.dock
      /\ portal.conn \in [Sockets -> ConnectionType]
      /\ clients.sent \in [Sockets -> Nat] /\ DOMAIN clients = {"tickets", "sent", "lost", "got"}
      /\ clients.got \in [Sockets -> Seq(Nat)] /\ clients.lost \in [Sockets -> SUBSET Nat]
      /\ \A d \in Sockets : Len(portal.conn[d].buffer) <= portal.conn[d].seq
      /\ UNCHANGED past
  BY DEF IInv, Types, MInv, MessagesType, Notify, PortalType
<1>2. c \in Sockets /\ n \in Nat /\ g \in Seq(Nat) /\ n + 1 \in Nat
      /\ \A q \in DOMAIN portal.dock : q \in Sockets /\ portal.dock[q].conn \in Sockets
  BY <1>1, DockType
<1>3. C \in ConnectionType
  BY <1>1, <1>2
<1>4. Becomes(E, calls)
  BY DEF Notify
<1>5. clients' = [clients EXCEPT !.sent[p] = n + 1, !.got[p] = @ \o Q.wire,
                    !.lost[p] = IF C.state = "connected" /\ Q.wire = <<>> THEN @ \cup {n + 1} ELSE @]
  BY DEF Notify
<1> HIDE DEF c
<1>6. /\ Q \in PortalType /\ Q.dock = portal.dock /\ Q.link = portal.link
      /\ \A d \in Sockets : d # c => Q.conn[d] = portal.conn[d]
      /\ Q.conn[c].state = C.state /\ Q.conn[c].client = C.client
      /\ Q.conn[c].version = C.version /\ Q.conn[c].seq = C.seq + 1
      /\ Q.conn[c].buffer = Trim(Append(C.buffer, Sent(n + 1, C.seq + 1)))
      /\ Q.conn[c].pending = (IF C.state = "connected" THEN C.pending ELSE Append(C.pending, n + 1))
      /\ Q.wire = (IF C.state = "connected" /\ portal.link[c] = "up" THEN Append(portal.wire, n + 1) ELSE portal.wire)
  <2> HIDE DEF n
  <2>1. c \in Sockets /\ n + 1 \in Nat /\ portal \in PortalType /\ Len(portal.conn[c].buffer) <= portal.conn[c].seq
    BY <1>1, <1>2
  <2> QED
    BY ONLY <2>1, SendMessageFacts DEF Q, C
<1> HIDE DEF Q, E
<1>7. /\ E \in PortalType /\ E.conn = Q.conn /\ E.link = Q.link /\ E.dock = Q.dock
  BY <1>6, WireFacts DEF E
<1>8. portal'.conn = Q.conn /\ portal'.link = portal.link /\ portal'.dock = portal.dock
  BY <1>4, <1>6, <1>7, BecomesFacts
<1>9. PICK D : D = portal'.conn[c]
  OBVIOUS
<1>10. PICK w : w = Q.wire
  OBVIOUS
<1>11. PICK y : y = IF C.state = "connected" /\ w = <<>> THEN clients.lost[p] \cup {n + 1} ELSE clients.lost[p]
  OBVIOUS
<1> HIDE DEF C, n, g
<1>12. /\ clients'.sent = [clients.sent EXCEPT ![p] = n + 1] /\ clients'.got = [clients.got EXCEPT ![p] = g \o w]
       /\ clients'.lost = [clients.lost EXCEPT ![p] = y]
  BY <1>1, <1>5, <1>10, <1>11 DEF g
<1>13. w = IF C.state = "connected" /\ portal.link[c] = "up" THEN <<n + 1>> ELSE <<>>
  <2>1. Append(<<>>, n + 1) = <<n + 1>>
    OBVIOUS
  <2> QED
    BY <1>1, <1>6, <1>10, <2>1
<1>14. w \in Seq(Nat) /\ y \in SUBSET Nat
  BY <1>1, <1>2, <1>11, <1>13
<1>15. MessagesType'
  <2>1. g \o w \in Seq(Nat)
    BY <1>2, <1>14
  <2> QED
    BY <1>1, <1>12, <1>14, <2>1 DEF MInv, MessagesType
<1>16. /\ D.state = C.state /\ D.client = C.client /\ D.version = C.version /\ D.seq = C.seq + 1
       /\ D.buffer = Trim(Append(C.buffer, Sent(n + 1, C.seq + 1)))
       /\ D.pending = (IF C.state = "connected" THEN C.pending ELSE Append(C.pending, n + 1))
       /\ \A d \in Sockets : d # c => portal'.conn[d] = portal.conn[d]
  BY <1>6, <1>8, <1>9
<1>17. \A d \in Sockets : portal'.conn[d].state = portal.conn[d].state /\ portal'.conn[d].client = portal.conn[d].client
  BY <1>9, <1>16 DEF C
<1>18. Served(portal)' /\ Moved' /\ Unshared'
  BY <1>2, <1>8, <1>17 DEF MInv, Served, Moved, Unshared
<1>19. Numbered'
  <2>1. D.seq # 0
    BY <1>3, <1>16 DEF ConnectionType
  <2> QED
    BY <1>9, <1>16, <2>1 DEF MInv, Numbered
<1>20. Starts'
  <2> SUFFICES ASSUME Fresh', NEW d \in Sockets, portal'.conn[d].state = "connecting"
               PROVE  /\ portal'.conn[d].seq = 0 /\ portal'.conn[d].pending = <<>> /\ portal'.conn[d].buffer = <<>>
                      /\ clients'.sent[d] = 0 /\ clients'.got[d] = <<>> /\ clients'.lost[d] = {}
    BY DEF Starts
  <2>1. portal.conn[d].state = "connecting" /\ Fresh
    BY <1>1, <1>17 DEF Fresh
  <2>2. d # p /\ d # c
    BY <1>1, <2>1 DEF MInv, Unshared, c
  <2> QED
    BY <1>1, <1>12, <1>16, <2>1, <2>2 DEF MInv, Starts
<1>21. ASSUME Fresh', NEW q \in DOMAIN portal'.dock
       PROVE  Keeps(q)'
  <2>1. Keeps(q) /\ q \in DOMAIN portal.dock /\ q \in Sockets /\ portal'.dock[q] = portal.dock[q]
    BY <1>1, <1>2, <1>8, <1>21 DEF MInv, Fresh
  <2>2. CASE q = p
    <3>1. /\ C.version = "1.2" /\ past.pauses = 0 => Buffered(C, portal.link[c], n, g)
          /\ C.version = "1.1" => Pends(C, n, clients.lost[p], g)
          /\ c = p => Uniform(C.buffer)
      BY <2>1, <2>2 DEF Keeps, c, C, n, g
    <3>2. /\ Buffered(C, portal.link[c], n, g) => Buffered(D, portal.link[c], n + 1, g \o w)
          /\ Pends(C, n, clients.lost[p], g) => Pends(D, n + 1, y, g \o w)
          /\ Uniform(C.buffer) => Uniform(D.buffer)
      <4>1. SentOn(C, D, portal.link[c], n, clients.lost[p], w, y)
        BY <1>11, <1>13, <1>16 DEF SentOn
      <4> QED
        BY ONLY <1>2, <1>3, <4>1, NextKept
    <3>3. /\ D.version = "1.2" /\ past.pauses = 0 => Buffered(D, portal.link[c], n + 1, g \o w)
          /\ D.version = "1.1" => Pends(D, n + 1, y, g \o w)
          /\ c = p => Uniform(D.buffer)
      BY <1>16, <3>1, <3>2
    <3>4. clients'.sent[p] = n + 1 /\ clients'.got[p] = g \o w /\ clients'.lost[p] = y
      BY <1>1, <1>12
    <3>5. portal'.dock[p].conn = c /\ portal'.conn[c] = D /\ portal'.link[c] = portal.link[c]
      BY <1>8, <1>9 DEF c
    <3> QED
      BY <1>1, <2>2, <3>3, <3>4, <3>5 DEF Keeps
  <2>3. CASE q # p
    <3>1. portal.dock[q].conn # c /\ portal.dock[q].conn \in Sockets
      BY <1>1, <1>2, <2>1, <2>3 DEF MInv, Unshared, c
    <3>2. portal'.conn[portal.dock[q].conn] = portal.conn[portal.dock[q].conn]
      BY <1>16, <3>1
    <3>3. /\ clients'.sent[q] = clients.sent[q] /\ clients'.got[q] = clients.got[q]
          /\ clients'.lost[q] = clients.lost[q]
      BY <1>1, <1>12, <2>1, <2>3
    <3> QED
      BY <1>1, <1>8, <2>1, <3>2, <3>3 DEF Keeps
  <2> QED
    BY <2>2, <2>3
<1> QED
  BY <1>15, <1>18, <1>19, <1>20, <1>21 DEF MInv

(* Time makes all messages of a buffer old.                                *)
LEMMA AgedFacts ==
  ASSUME NEW b \in Seq(Entries)
  PROVE  /\ Uniform(b) => Uniform(Aged(b))
         /\ b = <<>> => Aged(b) = <<>>
<1>1. \A k \in 1 .. Len(b) : b[k] \in Entries
  OBVIOUS
<1>2. Aged(b) = [k \in 1 .. Len(b) |-> [b[k] EXCEPT !.old = TRUE]] /\ Len(b) \in Nat
  BY DEF Aged
<1>3. \A k \in 1 .. Len(b) : Aged(b)[k].old = TRUE /\ Aged(b)[k].timed = b[k].timed
  BY <1>1, <1>2 DEF Entries
<1>4. Len(Aged(b)) = Len(b)
  BY <1>2
<1>5. Uniform(b) => Uniform(Aged(b))
  BY <1>3, <1>4 DEF Uniform
<1>6. ASSUME b = <<>> PROVE Aged(b) = <<>>
  <2>1. Len(b) = 0
    BY <1>6
  <2> QED
    BY <1>2, <2>1
<1> QED
  BY <1>5, <1>6

LEMMA PauseMessages ==
  ASSUME IInv, MInv, Pause
  PROVE  MInv'
<1> DEFINE K(c) == [portal.conn[c] EXCEPT !.buffer = Aged(portal.conn[c].buffer)]
           conns == [c \in Sockets |-> K(c)]
<1>1. /\ portal \in PortalType /\ portal.conn \in [Sockets -> ConnectionType]
      /\ UNCHANGED clients /\ past.pauses \in Nat
      /\ \A p \in DOMAIN portal.dock : p \in Sockets /\ portal.dock[p].conn \in Sockets
  BY DockType DEF IInv, Types, PortalType, Pause, MInv, MessagesType
<1>2. past'.pauses = past.pauses + 1 /\ past'.mishaps = past.mishaps
  <2>1. DOMAIN past = {"logins", "breaks", "pauses", "drops", "faults", "mishaps"}
    BY DEF IInv, Types
  <2> QED
    BY <2>1 DEF Pause, Spend
<1>3. portal'.conn = conns /\ portal'.link = portal.link /\ portal'.dock = portal.dock
  BY <1>1 DEF Pause, PortalType
<1>4. ASSUME NEW c \in Sockets
      PROVE  /\ portal.conn[c].buffer \in Seq(Entries) /\ portal'.conn[c].buffer = Aged(portal.conn[c].buffer)
             /\ portal'.conn[c].state = portal.conn[c].state /\ portal'.conn[c].client = portal.conn[c].client
             /\ portal'.conn[c].seq = portal.conn[c].seq /\ portal'.conn[c].pending = portal.conn[c].pending
             /\ portal'.conn[c].version = portal.conn[c].version
  <2>1. portal.conn[c] \in ConnectionType
    BY <1>1
  <2> QED
    BY <1>3, <2>1 DEF ConnectionType
<1> HIDE DEF conns, K
<1>5. MessagesType'
  BY <1>1, <1>2 DEF MInv, MessagesType
<1>6. Served(portal)' /\ Moved' /\ Unshared' /\ Numbered'
  BY <1>1, <1>3, <1>4 DEF MInv, Served, Moved, Unshared, Numbered
<1>7. Fresh' => Fresh
  BY <1>2 DEF Fresh
<1>8. Starts'
  BY <1>1, <1>4, <1>7, AgedFacts DEF MInv, Starts
<1>9. ASSUME Fresh', NEW p \in DOMAIN portal'.dock
      PROVE  Keeps(p)'
  <2>1. Keeps(p) /\ p \in DOMAIN portal.dock
    BY <1>3, <1>7, <1>9 DEF MInv
  <2>2. PICK c \in Sockets : c = portal.dock[p].conn
    BY <1>1, <2>1
  <2>3. past'.pauses # 0
    BY <1>1, <1>2
  <2>4. c = p => Uniform(portal'.conn[c].buffer)
    BY <1>4, <2>1, <2>2, AgedFacts DEF Keeps
  <2>5. portal'.conn[c].version = "1.1" =>
          Pends(portal'.conn[c], clients.sent[p], clients.lost[p], clients.got[p])
    BY <1>4, <2>1, <2>2 DEF Keeps, Pends
  <2> QED
    BY <1>1, <1>3, <2>2, <2>3, <2>4, <2>5 DEF Keeps
<1> QED
  BY <1>5, <1>6, <1>8, <1>9 DEF MInv

LEMMA Counted ==
  ASSUME NEW n \in Nat
  PROVE  IsFiniteSet(1 .. n) /\ Cardinality(1 .. n) = n
<1>1. 1 \in Int /\ n \in Int
  OBVIOUS
<1>2. IsFiniteSet(1 .. n) /\ Cardinality(1 .. n) = IF 1 > n THEN 0 ELSE n - 1 + 1
  BY ONLY <1>1, FS_Interval
<1>3. (IF 1 > n THEN 0 ELSE n - 1 + 1) = n
  OBVIOUS
<1> QED
  BY <1>2, <1>3

(* The first numbers of many.                                              *)
LEMMA CountFirst ==
  ASSUME NEW n \in Nat, NEW l \in Nat, l <= n
  PROVE  Cardinality({k \in 1 .. n : k <= l}) = l
<1>1. {k \in 1 .. n : k <= l} = 1 .. l
  OBVIOUS
<1> QED
  BY <1>1, Counted

(* What a client has missed are messages of the buffer, and, when it is    *)
(* whole, those the client needs.                                          *)
LEMMA MissedType ==
  ASSUME NEW p \in Sockets, NEW b \in Seq(Entries), clients.got[p] \in Seq(Nat)
  PROVE  Missed(p, b) \in Seq(Nat)
<1> DEFINE S == {k \in DOMAIN b : b[k].seq <= Len(clients.got[p])}
           n == Cardinality(S)
<1>1. S \subseteq 1 .. Len(b) /\ Len(b) \in Nat
  OBVIOUS
<1>2. IsFiniteSet(1 .. Len(b)) /\ Cardinality(1 .. Len(b)) = Len(b)
  BY <1>1, Counted
<1> HIDE DEF S
<1>3. n \in Nat /\ n <= Len(b)
  BY <1>1, <1>2, FS_Subset, FS_CardinalityType
<1> HIDE DEF n
<1>4. Len(b) - n \in Nat
  BY <1>1, <1>3
<1>5. Missed(p, b) = [k \in 1 .. Len(b) - n |-> b[n + k].m]
  BY DEF Missed, n, S
<1>6. \A k \in 1 .. Len(b) - n : b[n + k].m \in Nat
  <2> TAKE k \in 1 .. Len(b) - n
  <2>1. n + k \in 1 .. Len(b)
    BY <1>1, <1>3
  <2>2. b[n + k] \in Entries
    BY <2>1
  <2> QED
    BY <2>2 DEF Entries
<1> QED
  BY <1>4, <1>5, <1>6, SameLength

(* The first messages of n, and all of them.                               *)
Firsts(g, n) == Len(g) <= n /\ \A k \in 1 .. Len(g) : g[k] = k

All(g, n) == Len(g) = n /\ \A k \in 1 .. n : g[k] = k

LEMMA MissedWhole ==
  ASSUME NEW p \in Sockets, NEW b \in Seq(Entries), NEW n \in Nat, Whole(b, n),
         NEW g \in Seq(Nat), g = clients.got[p], Firsts(g, n)
  PROVE  All(g \o Missed(p, b), n)
<1> USE DEF Firsts, All
<1> PICK l \in Nat : l = Len(g)
  OBVIOUS
<1> DEFINE S == {k \in DOMAIN b : b[k].seq <= Len(clients.got[p])}
<1>1. l <= n /\ Len(b) = n /\ DOMAIN b = 1 .. n /\ \A k \in 1 .. n : b[k].m = k /\ b[k].seq = k
  BY DEF Whole
<1>2. S = {k \in 1 .. n : k <= l}
  BY <1>1
<1>3. Cardinality(S) = l
  BY <1>1, <1>2, CountFirst
<1>4. Missed(p, b) = [k \in 1 .. n - l |-> b[l + k].m]
  BY <1>1, <1>3 DEF Missed
<1> DEFINE w == Missed(p, b)
<1>5. w \in Seq(Nat)
  BY MissedType
<1>6. n - l \in Nat
  BY <1>1
<1>7. Len(w) = n - l /\ \A k \in 1 .. n - l : w[k] = l + k
  <2>1. \A k \in 1 .. n - l : l + k \in 1 .. n
    BY <1>1
  <2>2. \A k \in 1 .. n - l : w[k] = l + k
    BY <1>1, <1>4, <2>1
  <2>3. Len(w) = n - l
    BY <1>4, <1>6
  <2> QED
    BY <2>2, <2>3
<1> HIDE DEF w
<1>8. Len(g \o w) = n
  BY <1>1, <1>5, <1>7
<1>9. ASSUME NEW k \in 1 .. n PROVE (g \o w)[k] = k
  <2>1. CASE k \in 1 .. l
    BY <1>1, <1>5, <2>1
  <2>2. CASE k \in l + 1 .. n
    <3>1. k - l \in 1 .. n - l
      BY <1>1, <2>2
    <3>2. (g \o w)[k] = w[k - l]
      BY <1>1, <1>5, <1>7, <2>2, <3>1
    <3>3. w[k - l] = l + (k - l)
      BY <1>7, <3>1
    <3>4. l + (k - l) = k
      BY <1>1, <2>2
    <3> QED
      BY <3>2, <3>3, <3>4
  <2>3. k \in 1 .. l \/ k \in l + 1 .. n
    BY <1>1
  <2> QED
    BY <2>1, <2>2, <2>3
<1> QED
  BY <1>8, <1>9 DEF w

(* Sending again keeps the messages of a buffer.                           *)
LEMMA TimelessWhole ==
  ASSUME NEW b \in Seq(Entries), NEW n, Whole(b, n)
  PROVE  Whole(Timeless(b), n)
<1>1. \A k \in 1 .. Len(b) : b[k] \in Entries
  OBVIOUS
<1>2. Timeless(b) = [k \in 1 .. Len(b) |-> [b[k] EXCEPT !.timed = FALSE]] /\ Len(b) \in Nat
  BY DEF Timeless
<1>3. \A k \in 1 .. Len(b) : /\ Timeless(b)[k].m = b[k].m /\ Timeless(b)[k].seq = b[k].seq
                             /\ Timeless(b)[k].old = b[k].old
  BY <1>1, <1>2 DEF Entries
<1>4. Len(Timeless(b)) = Len(b)
  BY <1>2
<1> QED
  BY <1>3, <1>4 DEF Whole

(* A client that has come back, on a connection D in place of C, has got w *)
(* and with that everything.                                               *)
ResumedOn(C, D, p, w) ==
  /\ D.state = "connected" /\ D.version = C.version
  /\ C.version = "1.2" =>
       /\ D.seq = C.seq /\ D.pending = C.pending /\ D.buffer = Timeless(C.buffer)
       /\ w = Missed(p, Timeless(C.buffer))
  /\ C.version # "1.2" => D.pending = <<>> /\ w = C.pending

LEMMA ResumedKept ==
  ASSUME NEW C \in ConnectionType, NEW D, NEW p \in Sockets, NEW w, ResumedOn(C, D, p, w),
         NEW n \in Nat, NEW x, NEW g \in Seq(Nat), g = clients.got[p], NEW k, NEW l
  PROVE  /\ w \in Seq(Nat)
         /\ C.version = "1.2" /\ Buffered(C, k, n, g) => Buffered(D, l, n, g \o w)
         /\ C.version = "1.1" /\ Pends(C, n, x, g) => Pends(D, n, x, g \o w)
<1>1. C.buffer \in Seq(Entries) /\ C.pending \in Seq(Nat) /\ C.version \in {"1.1", "1.2"}
  BY DEF ConnectionType
<1>2. Timeless(C.buffer) \in Seq(Entries)
  BY <1>1, TimelessType
<1>3. w \in Seq(Nat)
  <2>1. Missed(p, Timeless(C.buffer)) \in Seq(Nat)
    BY <1>2, MissedType
  <2> QED
    BY <1>1, <2>1 DEF ResumedOn
<1>4. ASSUME C.version = "1.2", Buffered(C, k, n, g)
      PROVE  Buffered(D, l, n, g \o w)
  <2>1. C.seq = n /\ Whole(C.buffer, n) /\ Len(g) <= n /\ \A i \in 1 .. Len(g) : g[i] = i
    BY <1>4 DEF Buffered
  <2>2. Whole(Timeless(C.buffer), n)
    BY <1>1, <2>1, TimelessWhole
  <2>3. D.seq = n /\ D.buffer = Timeless(C.buffer) /\ w = Missed(p, Timeless(C.buffer))
    BY <1>4, <2>1 DEF ResumedOn
  <2>4. Len(g \o w) = n /\ \A i \in 1 .. n : (g \o w)[i] = i
    <3>1. PICK b \in Seq(Entries) : b = Timeless(C.buffer)
      BY <1>2
    <3>2. Whole(b, n) /\ w = Missed(p, b)
      BY <2>2, <2>3, <3>1
    <3>3. Len(g \o Missed(p, b)) = n /\ \A i \in 1 .. n : (g \o Missed(p, b))[i] = i
      <4>1. Firsts(g, n)
        BY <2>1 DEF Firsts
      <4>2. All(g \o Missed(p, b), n)
        BY ONLY p \in Sockets, n \in Nat, g \in Seq(Nat), g = clients.got[p], <3>2, <4>1, b \in Seq(Entries), MissedWhole
      <4> QED
        BY <4>2 DEF All
    <3> QED
      BY <3>2, <3>3
  <2>5. Whole(D.buffer, n)
    BY <2>2, <2>3
  <2>6. n <= n
    OBVIOUS
  <2> QED
    BY <2>3, <2>4, <2>5, <2>6 DEF Buffered
<1>5. ASSUME C.version = "1.1", Pends(C, n, x, g)
      PROVE  Pends(D, n, x, g \o w)
  <2>1. x \subseteq 1 .. n /\ InOrder(g \o C.pending, (1 .. n) \ x)
    BY <1>5 DEF Pends
  <2>2. D.pending = <<>> /\ w = C.pending
    BY <1>5 DEF ResumedOn
  <2>3. (g \o C.pending) \o <<>> = g \o C.pending
    BY <1>1
  <2>4. InOrder((g \o w) \o D.pending, (1 .. n) \ x)
    BY <2>1, <2>2, <2>3
  <2> QED
    BY <2>1, <2>2, <2>4 DEF Pends
<1> QED
  BY <1>3, <1>4, <1>5

(* What relogin makes of the portal.                                       *)
LEMMA ReloginPortal ==
  ASSUME IInv, MInv, NEW c \in Sockets, NEW p \in Sockets, Relogin(c, p)
  PROVE  LET o == portal.dock[p].conn
         IN /\ p \in DOMAIN portal.dock /\ o \in Sockets /\ o # c /\ p # c
            /\ portal.link[c] = "up"
            /\ DOMAIN portal'.dock = DOMAIN portal.dock /\ portal'.dock[p].conn = c
            /\ \A q \in DOMAIN portal.dock : q # p => portal'.dock[q] = portal.dock[q]
            /\ \A d \in Sockets : d # c => Lessens(portal.conn[d], portal'.conn[d])
            /\ \A d \in Sockets : d \notin {o, c} => portal'.conn[d] = portal.conn[d] /\ portal'.link[d] = portal.link[d]
            /\ portal'.link[o] = "closed" /\ portal'.link[c] = "up"
            /\ portal'.conn[c].state = "connected" /\ portal'.conn[c].client = p
            /\ \E w : /\ ResumedOn(portal.conn[o], portal'.conn[c], p, w)
                      /\ clients' = [clients EXCEPT !.got[p] = @ \o w]
<1> DEFINE o == portal.dock[p].conn
           O == portal.conn[o]
           W == TakenOver(portal, p, c)
           Q == Resumed(W, c)
           R == [Q EXCEPT !.wire = <<>>]
           w == IF Q.conn[c].version = "1.2" THEN Missed(p, Q.conn[c].buffer) ELSE Q.wire
<1>1. /\ portal \in PortalType /\ portal.conn[c].state = "initialized" /\ portal.link[c] = "up"
      /\ p \in DOMAIN portal.dock /\ portal.conn[o].enabled /\ portal.wire = <<>>
      /\ \A d \in Sockets : Len(portal.conn[d].buffer) <= portal.conn[d].seq
      /\ WaitingAreClosed(portal) /\ portal.conn \in [Sockets -> ConnectionType]
  BY DEF IInv, Types, Relogin, PortalType
<1>2. Becomes(R, calls) /\ clients' = [clients EXCEPT !.got[p] = @ \o w]
  BY DEF Relogin, TakenOver
<1>3. o \in Sockets
  BY <1>1, DockType
<1>4. o # c /\ p # c
  BY <1>1, IdleIsNobodys
<1>5. portal.link[o] # "none" /\ (O.state \in InService \/ portal.link[o] = "closed")
  BY <1>1 DEF MInv, Served, InService
<1> HIDE DEF Q, R
<1>6. /\ W \in PortalType
      /\ \A d \in Sockets : d # c => Lessens(portal.conn[d], W.conn[d])
      /\ W.conn[c].state = "connected" /\ Len(W.conn[c].buffer) <= W.conn[c].seq
      /\ o # c /\ (O.state \in InService \/ portal.link[o] = "closed") =>
           /\ DOMAIN W.dock = DOMAIN portal.dock /\ W.dock[p].conn = c
           /\ \A q \in DOMAIN portal.dock : q # p => W.dock[q] = portal.dock[q]
           /\ \A d \in Sockets : d \notin {o, c} => W.conn[d] = portal.conn[d] /\ W.link[d] = portal.link[d]
           /\ portal.link[o] # "none" => W.link[o] = "closed"
           /\ W.link[c] = portal.link[c] /\ W.conn[c].client = p /\ W.wire = portal.wire
           /\ W.conn[c].version = O.version /\ W.conn[c].pending = O.pending
           /\ W.conn[c].seq = O.seq /\ W.conn[c].buffer = Timeless(O.buffer)
  BY <1>1, TakeOverFacts
<1> HIDE DEF W, o, O
<1>7. /\ DOMAIN W.dock = DOMAIN portal.dock /\ W.dock[p].conn = c
      /\ \A q \in DOMAIN portal.dock : q # p => W.dock[q] = portal.dock[q]
      /\ \A d \in Sockets : d \notin {o, c} => W.conn[d] = portal.conn[d] /\ W.link[d] = portal.link[d]
      /\ W.link[o] = "closed"
      /\ W.link[c] = portal.link[c] /\ W.conn[c].client = p /\ W.wire = <<>>
      /\ W.conn[c].version = O.version /\ W.conn[c].pending = O.pending
      /\ W.conn[c].seq = O.seq /\ W.conn[c].buffer = Timeless(O.buffer)
  BY <1>1, <1>4, <1>5, <1>6
<1>8. /\ Q \in PortalType /\ Q.dock = W.dock /\ Q.link = W.link
      /\ \A d \in Sockets : d # c => Q.conn[d] = W.conn[d]
      /\ Q.conn[c].state = W.conn[c].state /\ Q.conn[c].client = W.conn[c].client
      /\ Q.conn[c].version = W.conn[c].version
      /\ W.conn[c].version = "1.2" => Q = W
      /\ W.conn[c].version # "1.2" => Q.conn[c].pending = <<>> /\ Q.wire = W.wire \o W.conn[c].pending
  BY <1>6, ResumedFacts DEF Q
<1>9. R \in PortalType /\ R.conn = Q.conn /\ R.link = Q.link /\ R.dock = Q.dock
  BY <1>8, WireFacts DEF R
<1>10. portal'.conn = Q.conn /\ portal'.link = W.link /\ portal'.dock = W.dock
  BY <1>2, <1>8, <1>9, BecomesFacts
<1>11. ResumedOn(O, portal'.conn[c], p, w)
  <2>1. portal'.conn[c] = Q.conn[c] /\ portal'.conn[c].state = "connected"
        /\ portal'.conn[c].version = O.version
    BY <1>6, <1>7, <1>8, <1>10
  <2>2. CASE O.version = "1.2"
    <3>1. Q.conn[c] = W.conn[c] /\ w = Missed(p, W.conn[c].buffer)
      BY <1>7, <1>8, <2>2
    <3> QED
      BY <1>7, <2>1, <2>2, <3>1 DEF ResumedOn
  <2>3. CASE O.version # "1.2"
    <3>1. O.pending \in Seq(Nat)
      BY <1>1, <1>3 DEF O, ConnectionType
    <3>2. <<>> \o O.pending = O.pending
      BY <3>1
    <3>3. Q.conn[c].pending = <<>> /\ w = O.pending
      BY <1>7, <1>8, <2>3, <3>2
    <3> QED
      BY <2>1, <2>3, <3>3 DEF ResumedOn
  <2> QED
    BY <2>2, <2>3
<1>12. \A d \in Sockets : d # c => portal'.conn[d] = W.conn[d]
  BY <1>8, <1>10
<1>13. \E z : ResumedOn(O, portal'.conn[c], p, z) /\ clients' = [clients EXCEPT !.got[p] = @ \o z]
  BY <1>2, <1>11
<1>14. portal'.conn[c].state = "connected" /\ portal'.conn[c].client = p
  BY <1>6, <1>7, <1>8, <1>10
<1> HIDE DEF w
<1>15. /\ \A d \in Sockets : d # c => Lessens(portal.conn[d], portal'.conn[d])
       /\ \A d \in Sockets : d \notin {o, c} => portal'.conn[d] = portal.conn[d] /\ portal'.link[d] = portal.link[d]
       /\ portal'.link[o] = "closed" /\ portal'.link[c] = "up"
  BY <1>1, <1>6, <1>7, <1>10, <1>12
<1>16. /\ DOMAIN portal'.dock = DOMAIN portal.dock /\ portal'.dock[p].conn = c
       /\ \A q \in DOMAIN portal.dock : q # p => portal'.dock[q] = portal.dock[q]
  BY <1>7, <1>10
<1> QED
  BY <1>1, <1>3, <1>4, <1>13, <1>14, <1>15, <1>16 DEF o, O

(* A client that comes back gets what it missed, and no other is disturbed.*)
LEMMA ReloginMessages ==
  ASSUME IInv, MInv, NEW c \in Sockets, NEW p \in Sockets, Relogin(c, p)
  PROVE  MInv'
<1> DEFINE o == portal.dock[p].conn
           C == portal.conn[o]
           D == portal'.conn[c]
           n == clients.sent[p]
           g == clients.got[p]
<1>1. /\ portal.conn \in [Sockets -> ConnectionType]
      /\ clients.sent \in [Sockets -> Nat] /\ DOMAIN clients = {"tickets", "sent", "lost", "got"}
      /\ clients.got \in [Sockets -> Seq(Nat)] /\ clients.lost \in [Sockets -> SUBSET Nat]
      /\ \A q \in DOMAIN portal.dock : q \in Sockets /\ portal.dock[q].conn \in Sockets
  BY DockType DEF IInv, Types, MInv, MessagesType, PortalType
<1>2. /\ p \in DOMAIN portal.dock /\ o \in Sockets /\ o # c /\ p # c
      /\ portal.link[c] = "up"
      /\ DOMAIN portal'.dock = DOMAIN portal.dock /\ portal'.dock[p].conn = c
      /\ \A q \in DOMAIN portal.dock : q # p => portal'.dock[q] = portal.dock[q]
      /\ \A d \in Sockets : d # c => Lessens(portal.conn[d], portal'.conn[d])
      /\ \A d \in Sockets : d \notin {o, c} => portal'.conn[d] = portal.conn[d] /\ portal'.link[d] = portal.link[d]
      /\ portal'.link[o] = "closed" /\ portal'.link[c] = "up"
      /\ D.state = "connected" /\ D.client = p
      /\ \E w : ResumedOn(C, D, p, w) /\ clients' = [clients EXCEPT !.got[p] = @ \o w]
  BY ReloginPortal
<1>3. PICK w : ResumedOn(C, D, p, w) /\ clients' = [clients EXCEPT !.got[p] = @ \o w]
  BY <1>2
<1>4. C \in ConnectionType /\ n \in Nat /\ g \in Seq(Nat)
  BY <1>1, <1>2
<1>5. \A x, k, l :
        /\ w \in Seq(Nat)
        /\ C.version = "1.2" /\ Buffered(C, k, n, g) => Buffered(D, l, n, g \o w)
        /\ C.version = "1.1" /\ Pends(C, n, x, g) => Pends(D, n, x, g \o w)
  BY ONLY p \in Sockets, <1>3, <1>4, ResumedKept
<1>6. C.version \in {"1.1", "1.2"} /\ D.version = C.version
  BY <1>3, <1>4 DEF ConnectionType, ResumedOn
<1> HIDE DEF g
<1>7. /\ clients'.sent = clients.sent /\ clients'.lost = clients.lost
      /\ clients'.got = [clients.got EXCEPT ![p] = g \o w]
  BY <1>1, <1>3 DEF g
<1>8. past'.pauses = past.pauses /\ past.mishaps \subseteq past'.mishaps
  <2>1. Noting(Reused(c))
    BY DEF Relogin
  <2> QED
    BY <2>1, PastKept DEF IInv
<1>9. c \notin DOMAIN portal.dock /\ \A q \in DOMAIN portal.dock : portal.dock[q].conn # c
  BY <1>2, IdleIsNobodys DEF Relogin
<1>10. \A q \in DOMAIN portal.dock : q # p => portal.dock[q].conn # o
  BY <1>2 DEF MInv, Unshared
<1> HIDE DEF o, C, D, n
<1>11. \A q \in DOMAIN portal'.dock :
         \/ q = p
         \/ /\ q # p /\ q \in DOMAIN portal.dock /\ q \in Sockets /\ portal'.dock[q] = portal.dock[q]
            /\ portal.dock[q].conn \in Sockets /\ portal.dock[q].conn \notin {o, c}
            /\ portal'.conn[portal.dock[q].conn] = portal.conn[portal.dock[q].conn]
            /\ portal'.link[portal.dock[q].conn] = portal.link[portal.dock[q].conn]
  BY <1>1, <1>2, <1>9, <1>10
<1>12. MessagesType'
  <2>1. g \o w \in Seq(Nat)
    BY <1>4, <1>5
  <2> QED
    BY <1>1, <1>7, <1>8, <2>1 DEF MInv, MessagesType
<1>13. Served(portal)'
  <2> SUFFICES ASSUME NEW q \in DOMAIN portal'.dock
               PROVE  /\ portal'.link[portal'.dock[q].conn] # "none"
                      /\ portal'.link[portal'.dock[q].conn] # "closed" =>
                           /\ portal'.conn[portal'.dock[q].conn].state = "connected"
                           /\ portal'.conn[portal'.dock[q].conn].client = q
    BY DEF Served
  <2>1. CASE q = p
    BY <1>2, <2>1 DEF D
  <2>2. CASE q # p
    BY <1>11, <2>2 DEF MInv, Served
  <2> QED
    BY <2>1, <2>2
<1>14. \A d \in Sockets : d # c /\ portal.link[d] = "closed" => portal'.link[d] = "closed"
  BY <1>2
<1>15. Moved'
  <2> SUFFICES ASSUME NEW q \in DOMAIN portal'.dock, portal'.dock[q].conn # q
               PROVE  portal'.link[q] = "closed"
    BY DEF Moved
  <2>1. CASE q = p
    <3>1. CASE o = p
      BY <1>2, <2>1, <3>1
    <3>2. CASE o # p
      <4>1. portal.link[p] = "closed"
        BY <1>2, <3>2 DEF MInv, Moved, o
      <4> QED
        BY <1>2, <1>14, <2>1, <4>1
    <3> QED
      BY <3>1, <3>2
  <2>2. CASE q # p
    <3>1. q \in DOMAIN portal.dock /\ q \in Sockets /\ portal.dock[q].conn # q /\ q # c
      BY <1>9, <1>11, <2>2
    <3>2. portal.link[q] = "closed"
      BY <3>1 DEF MInv, Moved
    <3> QED
      BY <1>14, <3>1, <3>2
  <2> QED
    BY <2>1, <2>2
<1>16. ASSUME NEW d \in Sockets, portal'.conn[d].state = "connecting"
       PROVE  d # c /\ d # o /\ portal.conn[d].state = "connecting"
  <2>1. d # c
    BY <1>2, <1>16 DEF D
  <2>2. portal.conn[d].state = "connecting"
    BY <1>2, <1>16, <2>1 DEF Lessens
  <2>3. d # o
    BY <1>2, <2>2 DEF MInv, Unshared, o
  <2> QED
    BY <2>1, <2>2, <2>3
<1>17. Unshared'
  <2>1. \A q, r \in DOMAIN portal'.dock : portal'.dock[q].conn = portal'.dock[r].conn => q = r
    BY <1>2, <1>11 DEF MInv, Unshared
  <2>2. ASSUME NEW d \in Sockets, portal'.conn[d].state = "connecting"
        PROVE  /\ portal'.link[d] # "none" /\ d \notin DOMAIN portal'.dock
               /\ \A q \in DOMAIN portal'.dock : portal'.dock[q].conn # d
    <3>1. d \notin {o, c} /\ portal.conn[d].state = "connecting"
      BY <1>16, <2>2
    <3>2. /\ portal.link[d] # "none" /\ d \notin DOMAIN portal.dock
          /\ \A q \in DOMAIN portal.dock : portal.dock[q].conn # d
      BY <3>1 DEF MInv, Unshared
    <3> QED
      BY <1>2, <1>11, <3>1, <3>2
  <2> QED
    BY <2>1, <2>2 DEF Unshared
<1>18. Numbered'
  <2> SUFFICES ASSUME NEW d \in Sockets, portal'.conn[d].seq = 0
               PROVE  portal'.conn[d].pending = <<>>
    BY DEF Numbered
  <2>1. CASE d = c
    <3>1. CASE C.version = "1.2"
      <4>1. D.seq = C.seq /\ D.pending = C.pending
        BY <1>3, <3>1 DEF ResumedOn
      <4> QED
        BY <1>2, <2>1, <4>1 DEF MInv, Numbered, C, D
    <3>2. CASE C.version # "1.2"
      BY <1>3, <2>1, <3>2 DEF ResumedOn, D
    <3> QED
      BY <3>1, <3>2
  <2>2. CASE d # c
    BY <1>2, <2>2 DEF MInv, Numbered, Lessens
  <2> QED
    BY <2>1, <2>2
<1>19. Fresh' => Fresh
  BY <1>8 DEF Fresh
<1>20. Starts'
  <2> SUFFICES ASSUME Fresh', NEW d \in Sockets, portal'.conn[d].state = "connecting"
               PROVE  /\ portal'.conn[d].seq = 0 /\ portal'.conn[d].pending = <<>> /\ portal'.conn[d].buffer = <<>>
                      /\ clients'.sent[d] = 0 /\ clients'.got[d] = <<>> /\ clients'.lost[d] = {}
    BY DEF Starts
  <2>1. d \notin {o, c} /\ portal.conn[d].state = "connecting" /\ Fresh
    BY <1>16, <1>19
  <2>2. d # p
    BY <1>2, <2>1 DEF MInv, Unshared
  <2> QED
    BY <1>1, <1>2, <1>7, <2>1, <2>2 DEF MInv, Starts
<1>21. ASSUME Fresh', NEW q \in DOMAIN portal'.dock
       PROVE  Keeps(q)'
  <2>1. CASE q = p
    <3>1. Keeps(p)
      BY <1>2, <1>19, <1>21 DEF MInv
    <3>2. /\ C.version = "1.2" /\ past.pauses = 0 => Buffered(C, portal.link[o], n, g)
          /\ C.version = "1.1" => Pends(C, n, clients.lost[p], g)
      BY <3>1 DEF Keeps, o, C, n, g
    <3>3. /\ D.version = "1.2" /\ past.pauses = 0 => Buffered(D, portal'.link[c], n, g \o w)
          /\ D.version = "1.1" => Pends(D, n, clients.lost[p], g \o w)
      BY <1>5, <1>6, <3>2
    <3>4. clients'.sent[p] = n /\ clients'.lost[p] = clients.lost[p] /\ clients'.got[p] = g \o w
      BY <1>1, <1>7 DEF n
    <3> QED
      BY <1>2, <1>8, <2>1, <3>3, <3>4 DEF Keeps, D
  <2>2. CASE q # p
    <3>1. Keeps(q) /\ q \in Sockets
      BY <1>11, <1>19, <1>21, <2>2 DEF MInv
    <3>2. /\ clients'.sent[q] = clients.sent[q] /\ clients'.got[q] = clients.got[q]
          /\ clients'.lost[q] = clients.lost[q]
      BY <1>1, <1>7, <2>2, <3>1
    <3> QED
      BY <1>8, <1>11, <1>21, <2>2, <3>1, <3>2 DEF Keeps
  <2> QED
    BY <2>1, <2>2
<1> QED
  BY <1>12, <1>13, <1>15, <1>17, <1>18, <1>20, <1>21 DEF MInv

LEMMA MessagesInitial ==
  ASSUME Init
  PROVE  MInv
<1>1. /\ portal = NewPortal
      /\ clients = [tickets |-> {}, sent |-> [p \in Sockets |-> 0], lost |-> [p \in Sockets |-> {}],
                     got |-> [p \in Sockets |-> <<>>]]
      /\ past.pauses = 0
  BY DEF Init
<1>2. portal.conn = [c \in Sockets |-> NoConnection] /\ portal.dock = Nothing
  BY <1>1 DEF NewPortal
<1>3. DOMAIN portal.dock = {}
  BY <1>2 DEF Nothing
<1>4. \A c \in Sockets : portal.conn[c].state = "initialized" /\ portal.conn[c].pending = <<>>
  BY <1>2 DEF NoConnection
<1>5. MessagesType
  <2>1. <<>> \in Seq(Nat)
    OBVIOUS
  <2> QED
    BY <1>1, <2>1 DEF MessagesType
<1>6. Served(portal) /\ Moved /\ Unshared /\ Numbered
  BY <1>3, <1>4 DEF Served, Moved, Unshared, Numbered
<1>7. Starts
  BY <1>4 DEF Starts
<1> QED
  BY <1>3, <1>5, <1>6, <1>7 DEF MInv

LEMMA MessagesHandled ==
  ASSUME IInv, MInv, NEW d \in calls, Handled(d)
  PROVE  MInv'
<1>1. CASE Joined(d)
  BY <1>1, JoinedMessages, LateSteady
<1>2. CASE ConferenceJoins(d) \/ ConferenceLeft(d)
  BY <1>2, ConferenceSteady
<1>3. CASE NotJoined(d) \/ Dropped(d) \/ OnConferenceLost(d)
  BY <1>3, QuietCallStep
<1> QED
  BY <1>1, <1>2, <1>3 DEF Handled

LEMMA MessagesStep ==
  ASSUME IInv, MInv, [Next]_vars
  PROVE  MInv'
<1>1. ASSUME NEW c \in Sockets,
             \/ Logout(c) \/ Disconnected(c) \/ WaitingTimeout(c) \/ NotInService(c)
             \/ \E p \in Sockets : ReloginFailed(c, p)
      PROVE  MInv'
  BY <1>1, QuietSocketStep
<1>2. ASSUME NEW c \in Sockets, Connect(c) \/ Break(c)
      PROVE  MInv'
  BY <1>2, ConnectedSteady
<1>3. ASSUME NEW c \in Sockets, Login(c)
      PROVE  MInv'
  BY <1>3, LoginMessages
<1>4. ASSUME NEW c \in Sockets, Notify(c)
      PROVE  MInv'
  BY <1>4, NotifyMessages
<1>5. ASSUME NEW c \in Sockets, NEW p \in Sockets, Relogin(c, p)
      PROVE  MInv'
  BY <1>5, ReloginMessages
<1>6. CASE \/ \E c \in Sockets : Drop(c)
           \/ ConferenceLost \/ UNCHANGED vars
  BY <1>6, ConferenceSteady
<1>7. ASSUME NEW d \in calls, Handled(d)
      PROVE  MInv'
  BY <1>7, MessagesHandled
<1>8. CASE Pause
  BY <1>8, PauseMessages
<1>9. CASE DropAll
  BY <1>9, QuietCallStep
<1> QED
  BY <1>1, <1>2, <1>3, <1>4, <1>5, <1>6, <1>7, <1>8, <1>9 DEF Next

(* The inductive invariant of the messages.                                *)
THEOREM MessagesInvariant == Spec => []MInv
<1>1. Init => MInv
  BY MessagesInitial
<1>2. IInv /\ MInv /\ [Next]_vars => MInv'
  BY MessagesStep
<1> QED
  BY <1>1, <1>2, TablesConsistent, PTL DEF Spec

LEMMA KeptArrive ==
  ASSUME IInv, MInv
  PROVE  MessagesArrive
<1> SUFFICES ASSUME Fresh, NEW p \in DOMAIN portal.dock,
                    portal.link[portal.dock[p].conn] = "up",
                    portal.conn[portal.dock[p].conn].state = "connected",
                    portal.conn[portal.dock[p].conn].version = "1.2" => past.pauses = 0
             PROVE  InOrder(clients.got[p],
                            IF portal.conn[portal.dock[p].conn].version = "1.2" THEN 1 .. clients.sent[p]
                            ELSE (1 .. clients.sent[p]) \ clients.lost[p])
  BY Zenon DEF MessagesArrive, Fresh
<1>1. p \in Sockets /\ portal.dock[p].conn \in Sockets
  BY DockType DEF IInv, Types
<1>2. PICK c \in Sockets : c = portal.dock[p].conn
  BY <1>1
<1>3. PICK C \in ConnectionType : C = portal.conn[c]
  BY DEF IInv, Types, PortalType
<1>4. PICK g \in Seq(Nat) : g = clients.got[p]
  BY <1>1 DEF MInv, MessagesType
<1>5. PICK n \in Nat : n = clients.sent[p]
  BY <1>1 DEF IInv, Types
<1>6. portal.link[c] = "up" /\ C.state = "connected" /\ (C.version = "1.2" => past.pauses = 0)
  BY <1>2, <1>3
<1>7. Keeps(p)
  BY DEF MInv
<1>8. /\ C.version = "1.2" => Buffered(C, portal.link[c], n, g)
      /\ C.version = "1.1" => Pends(C, n, clients.lost[p], g)
  BY <1>2, <1>3, <1>4, <1>5, <1>6, <1>7 DEF Keeps
<1>9. CASE C.version = "1.2"
  <2>1. Len(g) = n /\ \A k \in 1 .. n : g[k] = k
    BY <1>6, <1>8, <1>9 DEF Buffered
  <2>2. DOMAIN g = 1 .. n
    BY <2>1
  <2>3. InOrder(g, 1 .. n)
    BY <2>1, <2>2 DEF InOrder
  <2> QED
    BY <1>2, <1>3, <1>4, <1>5, <1>9, <2>3
<1>10. CASE C.version = "1.1"
  <2>1. InOrder(g \o C.pending, (1 .. n) \ clients.lost[p]) /\ C.pending = <<>>
    BY <1>6, <1>8, <1>10 DEF Pends
  <2>2. g \o <<>> = g
    OBVIOUS
  <2>3. InOrder(g, (1 .. n) \ clients.lost[p])
    BY <2>1, <2>2
  <2> QED
    BY <1>2, <1>3, <1>4, <1>5, <1>10, <2>3
<1> QED
  BY <1>9, <1>10 DEF ConnectionType

LEMMA KeptTrimmed ==
  ASSUME IInv, MInv
  PROVE  BufferTrimmed
<1> SUFFICES ASSUME Fresh, NEW p \in DOMAIN portal.dock, portal.dock[p].conn = p
             PROVE  \A i, j \in DOMAIN portal.conn[p].buffer :
                      i < j /\ portal.conn[p].buffer[i].old => portal.conn[p].buffer[j].old
  BY Zenon DEF BufferTrimmed, Fresh
<1>1. p \in Sockets
  BY DockType DEF IInv, Types
<1>2. PICK b \in Seq(Entries) : b = portal.conn[p].buffer
  BY <1>1 DEF IInv, Types, PortalType, ConnectionType
<1>3. Uniform(b)
  BY <1>2 DEF MInv, Keeps
<1>4. DOMAIN b = 1 .. Len(b)
  OBVIOUS
<1> QED
  BY <1>2, <1>3, <1>4 DEF Uniform

(* Whatever breaks, and however often a client comes back on another       *)
(* socket, it has got every message sent to it once it is back, in order:  *)
(* on version 1.2 unless a pause emptied the buffer, on any other but for  *)
(* those emitted on a broken socket; and a connection's buffer keeps no    *)
(* message that was old when a later one came.                             *)
THEOREM MessagesAreKept == Spec => []MessagesKept
<1>1. IInv /\ MInv => MessagesKept
  BY KeptArrive, KeptTrimmed DEF MessagesKept
<1> QED
  BY <1>1, TablesConsistent, MessagesInvariant, PTL
=============================================================================
