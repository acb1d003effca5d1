------------------------------ MODULE SipPortal -----------------------------
(***************************************************************************)
(* The SIP portal: it keeps a SIP node, registered with the room's SIP     *)
(* account, for every room that has one.  Changes of a room reach it as    *)
(* updates from the management API, which wrote them to the database       *)
(* before.  The work for a room is a chain of promises; a node is obtained *)
(* from an agent, initialised, watched and given back.  Calls fail or are  *)
(* answered too late, nodes die, and the portal is restarted.              *)
(***************************************************************************)
EXTENDS Integers, Sequences, FiniteSets, Functions, TLC

CONSTANTS
  None,
  Rooms,
  Sips,         \* the SIP accounts rooms may have
  Bounds        \* what the environment does: [requests, faults, restarts]

VARIABLES
  db,           \* room -> its SIP account or None (external: the database)
  requests,     \* changes the management API works on (external)
  inbox,        \* the updates sent to the portal, oldest first
  portal,       \* [state, rooms]: what became of the query for the rooms
  roomInfo,     \* room -> the account it was last told
  chain,        \* room -> roomPromises, the work that is not done yet
  erizos,       \* room -> its node
  watched,      \* the helper's table: node -> room
  nodes,        \* the agent's: node -> [room, tasks, sip] (external)
  past,
  bound

vars == <<db, requests, inbox, portal, roomInfo, chain, erizos, watched, nodes, past, bound>>

Work(do, sip) == [do |-> do, sip |-> sip, at |-> "start", node |-> None]

NotAsked == [state |-> "down", rooms |-> << >>]

(* Nodes are numbered as they are started.                                 *)
Nodes == 1 .. past.nodes

TypeOK ==
  /\ db \in [Rooms -> Sips \cup {None}]
  /\ portal.state \in {"down", "asking", "told", "up"}
  /\ DOMAIN roomInfo \subseteq Rooms
  /\ \A r \in Rooms : \A i \in DOMAIN chain[r] :
       /\ chain[r][i].at \in {"start", "allocate", "init", "sleep"}
       /\ i > 1 => chain[r][i].at = "start"
  /\ DOMAIN erizos \subseteq Rooms /\ Range(erizos) \subseteq Nodes
  /\ DOMAIN watched \subseteq Nodes /\ DOMAIN nodes \subseteq Nodes
  /\ \A n \in DOMAIN nodes : nodes[n].tasks > 0

Init ==
  /\ db = [r \in Rooms |-> None] /\ requests = {} /\ inbox = << >>
  /\ portal = NotAsked /\ roomInfo = << >> /\ chain = [r \in Rooms |-> << >>]
  /\ erizos = << >> /\ watched = << >> /\ nodes = << >>
  /\ past = [nodes |-> 0, requests |-> 0, faults |-> 0, restarts |-> 0, crossed |-> {}, read |-> {},
             requeued |-> {}, twice |-> {}, kept |-> {}, failed |-> {}]
  /\ bound \in Bounds

Without(f, x) == Restrict(f, DOMAIN f \ {x})

Fault ==
  /\ past.faults < bound.faults
  /\ past' = [past EXCEPT !.faults = @ + 1]

-----------------------------------------------------------------------------
(* The management API: it reads the room, writes it, and only then says    *)
(* what kind of change that was.  Requests for one room may overlap.       *)
Request(r, new) ==
  /\ past.requests < bound.requests
  /\ requests' = requests \cup {[nr |-> past.requests, room |-> r, new |-> new, old |-> db[r]]}
  /\ past' = [past EXCEPT !.requests = @ + 1,
                          !.crossed = IF \E q \in requests : q.room = r THEN @ \cup {r} ELSE @]
  /\ UNCHANGED <<db, inbox, portal, roomInfo, chain, erizos, watched, nodes>>

Change(old, new) ==
  IF old = new THEN "none" ELSE IF old = None THEN "create" ELSE IF new = None THEN "delete" ELSE "update"

(* What is sent while the portal is down is lost.                          *)
Save(q) ==
  LET type == Change(q.old, q.new)
  IN /\ db' = [db EXCEPT ![q.room] = q.new]
     /\ requests' = requests \ {q}
     /\ inbox' = IF type = "none" \/ portal.state = "down" THEN inbox
                 ELSE Append(inbox, [type |-> type, room |-> q.room, sip |-> q.new])
     /\ UNCHANGED <<portal, roomInfo, chain, erizos, watched, nodes, past>>

-----------------------------------------------------------------------------
(* Updates.                                                                *)

Queue(r, works) == [chain EXCEPT ![r] = @ \o works]

(* handleSipUpdate.                                                        *)
HandleUpdate ==
  /\ inbox # << >>
  /\ LET u == Head(inbox)
     IN /\ roomInfo' = IF u.type = "delete" THEN Without(roomInfo, u.room)
                       ELSE (u.room :> u.sip) @@ roomInfo
        /\ chain' = Queue(u.room,
             CASE u.type = "create" -> <<Work("create", u.sip)>>
               [] u.type = "update" -> <<Work("delete", None), Work("create", u.sip)>>
               [] u.type = "delete" -> <<Work("delete", None)>>)
        /\ past' = [past EXCEPT !.read = IF portal.state = "told" THEN @ \cup {u.room} ELSE @]
  /\ inbox' = Tail(inbox)
  /\ UNCHANGED <<db, requests, portal, erizos, watched, nodes>>

(* startup: updates are taken from now on, and the rooms are asked for.    *)
Start ==
  /\ portal.state = "down"
  /\ portal' = [portal EXCEPT !.state = "asking"]
  /\ UNCHANGED <<db, requests, inbox, roomInfo, chain, erizos, watched, nodes, past>>

(* The database answers the query; the answer is on its way.               *)
RoomsRead ==
  /\ portal.state = "asking"
  /\ portal' = [state |-> "told", rooms |-> Restrict(db, {r \in Rooms : db[r] # None})]
  /\ UNCHANGED <<db, requests, inbox, roomInfo, chain, erizos, watched, nodes, past>>

(* initSipRooms, with the rooms.                                           *)
initSipRooms ==
  /\ portal.state = "told"
  /\ LET rooms == portal.rooms
     IN /\ roomInfo' = rooms @@ roomInfo
        /\ chain' = [r \in Rooms |-> IF r \in DOMAIN rooms
                                     THEN Append(chain[r], Work("create", rooms[r])) ELSE chain[r]]
  /\ portal' = [state |-> "up", rooms |-> << >>]
  /\ UNCHANGED <<db, requests, inbox, erizos, watched, nodes, past>>

(* The portal ends and starts with nothing; its nodes stay.                *)
Crash ==
  /\ portal.state # "down" /\ past.restarts < bound.restarts
  /\ past' = [past EXCEPT !.restarts = @ + 1, !.failed = {},
                          !.kept = @ \cup {nodes[n].room : n \in DOMAIN nodes}]
  /\ portal' = NotAsked /\ inbox' = << >> /\ roomInfo' = << >> /\ chain' = [r \in Rooms |-> << >>]
  /\ erizos' = << >> /\ watched' = << >>
  /\ UNCHANGED <<db, requests, nodes>>

-----------------------------------------------------------------------------
(* The agent (external): one node for the tasks of a room, which gives a   *)
(* task as often as it is asked, and takes back one at a time.             *)
NodesOf(r) == {n \in DOMAIN nodes : nodes[n].room = r}

Given(r) ==
  IF NodesOf(r) # {} THEN [nodes EXCEPT ![CHOOSE n \in NodesOf(r) : TRUE].tasks = @ + 1]
  ELSE nodes @@ (past.nodes + 1 :> [room |-> r, tasks |-> 1, sip |-> None])

recycleNode(N, n) ==
  IF n \notin DOMAIN N THEN N
  ELSE IF N[n].tasks = 1 THEN Without(N, n) ELSE [N EXCEPT ![n].tasks = @ - 1]

(* The agent's node has one task more than the portal knows of.            *)
Twice(r) == IF NodesOf(r) # {} THEN past.twice \cup {r} ELSE past.twice

-----------------------------------------------------------------------------
(* The work for a room.                                                    *)

At(r, do, at) == chain[r] # << >> /\ Head(chain[r]).do = do /\ Head(chain[r]).at = at

NextWork(r) == chain' = [chain EXCEPT ![r] = Tail(@)]

Goes(r, w) == chain' = [chain EXCEPT ![r] = <<w>> \o Tail(@)]

(* createSipConnectivity: nothing to do when there is a node.              *)
Create(r) ==
  /\ At(r, "create", "start")
  /\ IF r \in DOMAIN erizos THEN NextWork(r) ELSE Goes(r, [Head(chain[r]) EXCEPT !.at = "allocate"])
  /\ UNCHANGED <<db, requests, inbox, portal, roomInfo, erizos, watched, nodes, past>>

(* allocateSipErizo.                                                       *)
Allocated(r) ==
  /\ At(r, "create", "allocate")
  /\ nodes' = Given(r)
  /\ LET n == CHOOSE n \in DOMAIN nodes' : nodes'[n].room = r
     IN /\ Goes(r, [Head(chain[r]) EXCEPT !.at = "init", !.node = n])
        /\ watched' = (n :> r) @@ watched
        /\ past' = [past EXCEPT !.nodes = IF n > @ THEN n ELSE @, !.twice = Twice(r)]
  /\ UNCHANGED <<db, requests, inbox, portal, roomInfo, erizos>>

(* No node, or the agent gave one and its answer comes too late.           *)
AllocateFails(r) ==
  /\ At(r, "create", "allocate") /\ past.faults < bound.faults
  /\ \E given \in BOOLEAN :
       /\ nodes' = IF given THEN Given(r) ELSE nodes
       /\ past' = [past EXCEPT !.faults = @ + 1, !.nodes = @ + Cardinality(DOMAIN nodes' \ DOMAIN nodes),
                               !.twice = IF given THEN @ \cup {r} ELSE @]
  /\ Goes(r, [Head(chain[r]) EXCEPT !.at = "sleep"])
  /\ UNCHANGED <<db, requests, inbox, portal, roomInfo, erizos, watched>>

(* After AllocateInterval the same again, behind what was queued meanwhile.*)
Retry(r) ==
  /\ At(r, "create", "sleep")
  /\ chain' = [chain EXCEPT ![r] = Append(Tail(@), Work("create", Head(@).sip))]
  /\ past' = [past EXCEPT !.requeued = IF Len(chain[r]) > 1 THEN @ \cup {r} ELSE @]
  /\ UNCHANGED <<db, requests, inbox, portal, roomInfo, erizos, watched, nodes>>

(* init: a node that has a gateway ignores the account.                    *)
InitOk(r) ==
  /\ At(r, "create", "init") /\ Head(chain[r]).node \in DOMAIN nodes
  /\ LET w == Head(chain[r])
     IN /\ nodes' = [nodes EXCEPT ![w.node].sip = IF @ = None THEN w.sip ELSE @]
        /\ erizos' = (r :> w.node) @@ erizos
  /\ NextWork(r)
  /\ past' = [past EXCEPT !.failed = @ \ {r}]
  /\ UNCHANGED <<db, requests, inbox, portal, roomInfo, watched>>

(* The registration fails, or is done too late: the node is given back and *)
(* nobody tries again.                                                     *)
InitFails(r) ==
  /\ At(r, "create", "init")
  /\ LET w == Head(chain[r])
         there == w.node \in DOMAIN nodes
     IN /\ there => past.faults < bound.faults
        /\ past' = [past EXCEPT !.faults = IF there THEN @ + 1 ELSE @, !.failed = @ \cup {r}]
        /\ \E late \in BOOLEAN :
             LET tried == IF there /\ late /\ nodes[w.node].sip = None
                          THEN [nodes EXCEPT ![w.node].sip = w.sip] ELSE nodes
             IN nodes' = recycleNode(tried, w.node)
        /\ watched' = Without(watched, w.node)
  /\ NextWork(r)
  /\ UNCHANGED <<db, requests, inbox, portal, roomInfo, erizos>>

(* deleteSipConnectivity; its clean goes to a node of the room's name,     *)
(* which there never is.                                                   *)
Delete(r) ==
  /\ At(r, "delete", "start")
  /\ IF r \in DOMAIN erizos
     THEN /\ nodes' = recycleNode(nodes, erizos[r])
          /\ watched' = Without(watched, erizos[r])
          /\ erizos' = Without(erizos, r)
     ELSE UNCHANGED <<nodes, watched, erizos>>
  /\ NextWork(r)
  /\ past' = [past EXCEPT !.failed = @ \ {r}]
  /\ UNCHANGED <<db, requests, inbox, portal, roomInfo>>

-----------------------------------------------------------------------------
(* Nodes that fail.                                                        *)
NodeDies(n) ==
  /\ Fault
  /\ nodes' = Without(nodes, n)
  /\ UNCHANGED <<db, requests, inbox, portal, roomInfo, chain, erizos, watched>>

(* Five keep-alives of a node were missed, which takes longer than init:   *)
(* it is given back, and its room gets another one.                        *)
GivenUp(n) ==
  /\ \A r \in Rooms : ~(At(r, "create", "init") /\ Head(chain[r]).node = n)
  /\ IF n \in DOMAIN nodes THEN Fault ELSE UNCHANGED past
  /\ nodes' = recycleNode(nodes, n)
  /\ watched' = Without(watched, n)
  /\ LET broken == {r \in DOMAIN erizos : erizos[r] = n}
     IN /\ erizos' = Restrict(erizos, DOMAIN erizos \ broken)
        /\ chain' = [r \in Rooms |-> IF r \in broken \cap DOMAIN roomInfo
                                     THEN Append(chain[r], Work("create", roomInfo[r])) ELSE chain[r]]
  /\ UNCHANGED <<db, requests, inbox, portal, roomInfo>>

Step ==
  \/ \E r \in Rooms : \/ \E new \in Sips \cup {None} : Request(r, new)
                      \/ Create(r) \/ Allocated(r) \/ AllocateFails(r) \/ Retry(r) \/ InitOk(r)
                      \/ InitFails(r) \/ Delete(r)
  \/ \E q \in requests : Save(q)
  \/ HandleUpdate
  \/ Start \/ RoomsRead \/ initSipRooms \/ Crash
  \/ \E n \in DOMAIN nodes : NodeDies(n)
  \/ \E n \in DOMAIN watched : GivenUp(n)

Next == Step /\ UNCHANGED bound

Spec == Init /\ [][Next]_vars

-----------------------------------------------------------------------------
(* Nothing is under way, and what failed was noticed.                      *)
AtRest ==
  /\ portal.state = "up" /\ requests = {} /\ inbox = << >>
  /\ \A r \in Rooms : chain[r] = << >>
  /\ DOMAIN watched \subseteq DOMAIN nodes

(* Overlapping requests, an update handled while the list of the rooms was *)
(* on its way, a retry that went behind later updates: the portal does not *)
(* know what the room is last said to be.                                  *)
Misled == past.crossed \cup past.read \cup past.requeued

(* At rest every SIP room is bound to a node that is watched and           *)
(* registered with the account it has now, unless its last init failed.    *)
(* An older account is possible when the portal was misled, or when the    *)
(* agent kept a node that was given twice.                                 *)
RoomsServed ==
  AtRest => \A r \in Rooms \ past.failed : db[r] # None /\ r \notin Misled =>
    /\ r \in DOMAIN erizos /\ erizos[r] \in DOMAIN watched
    /\ nodes[erizos[r]].room = r
    /\ r \notin past.twice => nodes[erizos[r]].sip = db[r]

(* At rest a room without SIP has no node: no node but those bound is held,*)
(* each for one task, and none is bound for a room that was deleted.  A    *)
(* node given twice is taken back once, and one from before a restart may  *)
(* be one nobody knows of.                                                 *)
DeletedIsGone ==
  AtRest => /\ \A r \in DOMAIN erizos : db[r] # None \/ r \in Misled
            /\ \A n \in DOMAIN nodes : \/ nodes[n].room \in past.twice \cup past.kept
                                       \/ <<nodes[n].room, n>> \in {<<r, erizos[r]>> : r \in DOMAIN erizos}

(* The nodes watched are those of the rooms, and one that is being         *)
(* initialised: no failure can go unnoticed and none is watched for ever.  *)
BoundIsWatched ==
  DOMAIN watched = Range(erizos) \cup
    {Head(chain[r]).node : r \in {x \in Rooms : At(x, "create", "init")}}
=============================================================================
