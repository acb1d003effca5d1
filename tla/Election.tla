------------------------------ MODULE Election ------------------------------
(***************************************************************************)
(* The election of the serving cluster manager among its replicas, and the *)
(* replication of the manager's data (cluster_manager/clusterManager.js,   *)
(* runAsFollower, runAsCandidate, runAsLeader).                            *)
(*                                                                         *)
(* Every node owns one queue on the topic exchange and handles one message *)
(* at a time (a mutex).  A message is published to a role, or to one node  *)
(* in a role; it is queued at the nodes bound to that role at that moment  *)
(* and dropped when its receiver has another role by the time it is taken  *)
(* out.  A node that is between two roles is bound to nothing, so any      *)
(* message may be lost.  Timeouts are randomised: they may fire any time.  *)
(*                                                                         *)
(* The manager's data is the sequence of the updates applied to it; an     *)
(* update is named by the leader that made it and its term.  prevLogIndex  *)
(* always equals commitId between two messages, so only appendEntry holds  *)
(* it.  A restarted manager draws a new random id: it is another node.     *)
(***************************************************************************)
EXTENDS Integers, Sequences, FiniteSets

CONSTANTS
  Node,        \* manager ids, those of processes started later included
  NoNode,      \* leaderId 0, lastVoteFor -1
  TotalNode,   \* manager.totalNode
  MaxTerm,     \* bound on terms
  MaxUpdates,  \* bound on the length of the data
  MaxInbox,    \* bound on a queue; a message for a full queue is lost
  MaxCrashes   \* bound on crashes

ASSUME ElectionAssumption ==
  /\ NoNode \notin Node
  /\ IsFiniteSet(Node)
  /\ TotalNode \in Nat \ {0}
  /\ MaxTerm \in Nat
  /\ MaxUpdates \in Nat
  /\ MaxInbox \in Nat
  /\ MaxCrashes \in Nat

NoTerm == -1
Term == NoTerm..MaxTerm

VARIABLES
  alive,         \* running processes
  started,       \* processes that were ever started
  role,          \* state.role
  term,          \* state.term
  leaderId,      \* state.leaderId
  lastVoteTerm,  \* state.lastVoteTerm
  lastVoteFor,   \* state.lastVoteFor
  voters,        \* state.voters; voteNum is its size
  commitId,      \* state.commitId and, at rest, state.prevLogIndex
  prevLogTerm,   \* state.prevLogTerm
  serving,       \* has runAsLeader reached registerDataUpdate?
  is_freshman,   \* the manager's flag: updates are ignored
  data,          \* the manager's data
  inbox,         \* the node's queue on the topic exchange
  voted,         \* history: [node -> the <<term, candidate>> it granted]
  elected,       \* history: the <<term, node>> that became leader
  mishaps        \* history: the kinds of incidents that ever happened

place == <<alive, started>>
votes == <<lastVoteTerm, lastVoteFor, voters>>
log == <<commitId, prevLogTerm, serving, is_freshman, data>>
history == <<voted, elected, mishaps>>
vars == <<place, role, term, leaderId, votes, log, inbox, history>>

Mishap == {"term_went_back", "stepped_down", "unregistered_update", "late_update"}
Update == Node \X Term

RequestVote == [type : {"requestVote"}, to : {"follower", "candidate"}, id : Node, term : Term,
                commitId : Int, prevLogTerm : Term]
ResponseVote == [type : {"responseVote"}, to : {"candidate"}, id : Node, term : Term,
                 voteForTerm : Term, voter : Node, voteGranted : BOOLEAN]
Heartbeat == [type : {"heartbeart"}, to : {"follower", "candidate", "leader"}, id : Node,
              term : Term, commitId : Int, prevLogTerm : Term]
AppendEntry == [type : {"appendEntry"}, to : {"follower"}, id : Node, term : Term,
                prevLogIndex : Int, prevLogTerm : Term, data : Update]
SnapshotRequest == [type : {"installSnapshot"}, to : {"leader"}, id : Node, leaderId : Node]
Snapshot == [type : {"installSnapshot"}, to : {"follower"}, id : Node, term : Term,
             commitId : Int, data : Seq(Update)]
Message == RequestVote \cup ResponseVote \cup Heartbeat \cup AppendEntry \cup SnapshotRequest
             \cup Snapshot

TypeOK ==
  /\ alive \subseteq started /\ started \subseteq Node
  /\ role \in [Node -> {"follower", "candidate", "leader"}]
  /\ term \in [Node -> Term]
  /\ leaderId \in [Node -> Node \cup {NoNode}]
  /\ lastVoteTerm \in [Node -> Term]
  /\ lastVoteFor \in [Node -> Node \cup {NoNode}]
  /\ voters \in [Node -> SUBSET Node]
  /\ commitId \in [Node -> Int]
  /\ prevLogTerm \in [Node -> Term]
  /\ serving \in [Node -> BOOLEAN]
  /\ is_freshman \in [Node -> BOOLEAN]
  /\ data \in [Node -> Seq(Update)]
  /\ inbox \in [Node -> Seq(Message)]
  /\ voted \in [Node -> SUBSET (Term \X Node)]
  /\ elected \in SUBSET (Term \X Node)
  /\ mishaps \in SUBSET Mishap

Init ==
  /\ started \in SUBSET Node /\ Cardinality(started) = TotalNode
  /\ alive = started
  /\ role = [n \in Node |-> "follower"]
  /\ term = [n \in Node |-> NoTerm]
  /\ leaderId = [n \in Node |-> NoNode]
  /\ lastVoteTerm = [n \in Node |-> NoTerm]
  /\ lastVoteFor = [n \in Node |-> NoNode]
  /\ voters = [n \in Node |-> {}]
  /\ commitId = [n \in Node |-> -1]
  /\ prevLogTerm = [n \in Node |-> NoTerm]
  /\ serving = [n \in Node |-> FALSE]
  /\ is_freshman = [n \in Node |-> TRUE]
  /\ data = [n \in Node |-> <<>>]
  /\ inbox = [n \in Node |-> <<>>]
  /\ voted = [n \in Node |-> {}]
  /\ elected = {}
  /\ mishaps = {}

-----------------------------------------------------------------------------
(* The topic exchange.  Publish adds a message to the queues of the nodes  *)
(* of a set that have the role it is addressed to; Taken is what is left   *)
(* when a node takes the head of its queue.                                *)
Publish(queues, nodes, to, msg) ==
  [n \in Node |-> IF n \in nodes \cap alive /\ role[n] = to /\ Len(queues[n]) < MaxInbox
                    THEN Append(queues[n], msg) ELSE queues[n]]

Taken(n) == [inbox EXCEPT ![n] = Tail(@)]

Receives(n, type, as) ==
  /\ n \in alive
  /\ inbox[n] # <<>>
  /\ role[n] = as
  /\ Head(inbox[n]).type = type
  /\ Head(inbox[n]).to = as

(* Dropped: lost at the exchange, or addressed to a role left meanwhile.   *)
Lose(n) ==
  /\ n \in alive
  /\ inbox[n] # <<>>
  /\ inbox' = Taken(n)
  /\ UNCHANGED <<place, role, term, leaderId, votes, log, history>>

-----------------------------------------------------------------------------
(* Whose log is older: the sender's term counts as equal to the receiver's *)
(* when both logs have the same length.                                    *)
OlderTerm(n, d) ==
  /\ commitId[n] # -1
  /\ commitId[n] # d.commitId
  /\ prevLogTerm[n] > d.prevLogTerm

OlderLog(n, d) ==
  \/ OlderTerm(n, d)
  \/ /\ commitId[n] # -1
     /\ prevLogTerm[n] <= d.prevLogTerm
     /\ commitId[n] > d.commitId

(* Lost the leader's heartbeat, or no majority in time: runAsCandidate's   *)
(* init, and the vote requests.                                            *)
BecomeCandidate(n) ==
  /\ n \in alive
  /\ role[n] \in {"follower", "candidate"}
  /\ term[n] < MaxTerm
  /\ role' = [role EXCEPT ![n] = "candidate"]
  /\ term' = [term EXCEPT ![n] = @ + 1]
  /\ leaderId' = [leaderId EXCEPT ![n] = NoNode]
  /\ lastVoteFor' = [lastVoteFor EXCEPT ![n] = NoNode]
  /\ voters' = [voters EXCEPT ![n] = {}]
  /\ UNCHANGED <<place, lastVoteTerm, log, history>>
  /\ LET request(to) == [type |-> "requestVote", to |-> to, id |-> n, term |-> term[n] + 1,
                         commitId |-> commitId[n], prevLogTerm |-> prevLogTerm[n]]
         own == IF Len(inbox[n]) < MaxInbox
                  THEN [inbox EXCEPT ![n] = Append(@, request("candidate"))] ELSE inbox
         others == Node \ {n}
     IN inbox' = Publish(Publish(own, others, "follower", request("follower")),
                         others, "candidate", request("candidate"))

Responded(n, d, t, granted) ==
  Publish(Taken(n), {d.id}, "candidate",
          [type |-> "responseVote", to |-> "candidate", id |-> d.id, term |-> t,
           voteForTerm |-> d.term, voter |-> n, voteGranted |-> granted])

\* Mutated: votes are not remembered.
AlreadyVoted_forgotten(n, d) == FALSE

AlreadyVoted(n, d) == lastVoteFor[n] # NoNode /\ lastVoteTerm[n] = d.term

(* A vote request of an acceptable term, to a follower or a candidate.  A  *)
(* follower that voted for another node in this term does not answer.      *)
Vote(n, d) ==
  LET granted == IF AlreadyVoted(n, d) THEN lastVoteFor[n] = d.id ELSE ~OlderLog(n, d)
      silent == AlreadyVoted(n, d) /\ role[n] = "follower"
  IN /\ term' = [term EXCEPT ![n] = d.term]
     /\ IF granted
          THEN /\ lastVoteTerm' = [lastVoteTerm EXCEPT ![n] = d.term]
               /\ lastVoteFor' = [lastVoteFor EXCEPT ![n] = d.id]
               /\ voted' = [voted EXCEPT ![n] = @ \cup {<<d.term, d.id>>}]
          ELSE UNCHANGED <<lastVoteTerm, lastVoteFor, voted>>
     /\ inbox' = IF granted \/ ~silent THEN Responded(n, d, d.term, granted) ELSE Taken(n)

Reject(n, d) ==
  /\ inbox' = Responded(n, d, term[n], FALSE)
  /\ UNCHANGED <<role, term, lastVoteTerm, lastVoteFor, voted>>

\* Mutated: the follower follows the candidate it voted for.
FollowerRequestVote_follows(n) ==
  /\ Receives(n, "requestVote", "follower")
  /\ LET d == Head(inbox[n])
         refused == (leaderId[n] # NoNode /\ leaderId[n] # d.id) \/ d.term < term[n]
     IN \/ refused /\ Reject(n, d) /\ UNCHANGED leaderId
        \/ ~refused /\ Vote(n, d) /\ UNCHANGED role /\ leaderId' = [leaderId EXCEPT ![n] = d.id]
  /\ UNCHANGED <<place, voters, log, elected, mishaps>>

FollowerRequestVote(n) ==
  /\ Receives(n, "requestVote", "follower")
  /\ LET d == Head(inbox[n])
         refused == (leaderId[n] # NoNode /\ leaderId[n] # d.id) \/ d.term < term[n]
     IN \/ refused /\ Reject(n, d)
        \/ ~refused /\ Vote(n, d) /\ UNCHANGED role
  /\ UNCHANGED <<place, leaderId, voters, log, elected, mishaps>>

(* A newer term makes the candidate a follower first.                      *)
CandidateRequestVote(n) ==
  /\ Receives(n, "requestVote", "candidate")
  /\ LET d == Head(inbox[n])
     IN \/ d.term < term[n] /\ Reject(n, d)
        \/ /\ d.term >= term[n]
           /\ Vote(n, d)
           /\ role' = [role EXCEPT ![n] = IF d.term > term[n] THEN "follower" ELSE @]
  /\ UNCHANGED <<place, leaderId, voters, log, elected, mishaps>>

CandidateResponseVote(n) ==
  /\ Receives(n, "responseVote", "candidate")
  /\ inbox' = Taken(n)
  /\ LET d == Head(inbox[n])
         counts == d.voteGranted /\ d.voteForTerm = term[n] /\ d.voter \notin voters[n]
         newer == d.term > term[n] /\ d.voteForTerm = term[n]
         supporters == voters[n] \cup {d.voter}
         wins == Cardinality(supporters) > TotalNode \div 2
     IN \/ /\ newer
           /\ role' = [role EXCEPT ![n] = "follower"]
           /\ term' = [term EXCEPT ![n] = d.term]
           /\ UNCHANGED <<voters, elected>>
        \/ /\ ~newer /\ counts
           /\ voters' = [voters EXCEPT ![n] = supporters]
           /\ role' = [role EXCEPT ![n] = IF wins THEN "leader" ELSE @]
           /\ elected' = IF wins THEN elected \cup {<<term[n], n>>} ELSE elected
           /\ UNCHANGED term
        \/ ~newer /\ ~counts /\ UNCHANGED <<role, term, voters, elected>>
  /\ UNCHANGED <<place, leaderId, lastVoteTerm, lastVoteFor, log, voted, mishaps>>

-----------------------------------------------------------------------------
(* sendHeartbeat, at any time while the node is leader.  The heartbeat to  *)
(* itself only keeps its own observer from firing.                         *)
SendHeartbeat(n) ==
  /\ n \in alive
  /\ role[n] = "leader"
  /\ LET beat(to) == [type |-> "heartbeart", to |-> to, id |-> n, term |-> term[n],
                      commitId |-> commitId[n], prevLogTerm |-> prevLogTerm[n]]
         others == Node \ {n}
     IN inbox' = Publish(Publish(Publish(inbox, others, "leader", beat("leader")),
                                 others, "follower", beat("follower")),
                         others, "candidate", beat("candidate"))
  /\ UNCHANGED <<place, role, term, leaderId, votes, log, history>>

FollowerHeartbeat(n) ==
  /\ Receives(n, "heartbeart", "follower")
  /\ inbox' = Taken(n)
  /\ LET d == Head(inbox[n])
         accepted == leaderId[n] \in {NoNode, d.id} /\ d.term >= term[n] /\ ~OlderTerm(n, d)
     IN \/ /\ accepted
           /\ leaderId' = [leaderId EXCEPT ![n] = d.id]
           /\ term' = [term EXCEPT ![n] = d.term]
        \/ ~accepted /\ UNCHANGED <<leaderId, term>>
  /\ UNCHANGED <<place, role, votes, log, history>>

(* The candidate takes over the heartbeat's term, be it lower than its own.*)
CandidateHeartbeat(n) ==
  /\ Receives(n, "heartbeart", "candidate")
  /\ inbox' = Taken(n)
  /\ LET d == Head(inbox[n])
     IN \/ /\ ~OlderLog(n, d)
           /\ role' = [role EXCEPT ![n] = "follower"]
           /\ term' = [term EXCEPT ![n] = d.term]
           /\ mishaps' = IF d.term < term[n] THEN mishaps \cup {"term_went_back"} ELSE mishaps
        \/ OlderLog(n, d) /\ UNCHANGED <<role, term, mishaps>>
  /\ UNCHANGED <<place, leaderId, votes, log, voted, elected>>

(* changeRole of the leader: unserve makes the manager a freshman again;   *)
(* a call that arrives before the RPC server is removed is still served.   *)
StepDown(n, t) ==
  /\ role' = [role EXCEPT ![n] = "follower"]
  /\ term' = [term EXCEPT ![n] = t]
  /\ leaderId' = [leaderId EXCEPT ![n] = NoNode]
  /\ serving' = [serving EXCEPT ![n] = FALSE]
  /\ is_freshman' = [is_freshman EXCEPT ![n] = TRUE]
  /\ \/ /\ UNCHANGED data
        /\ mishaps' = mishaps \cup {"stepped_down"}
     \/ /\ Len(data[n]) < MaxUpdates
        /\ data' = [data EXCEPT ![n] = Append(@, <<n, term[n]>>)]
        /\ mishaps' = mishaps \cup {"stepped_down", "late_update"}
  /\ UNCHANGED <<place, votes, commitId, prevLogTerm, voted, elected>>

LeaderHeartbeat(n) ==
  /\ Receives(n, "heartbeart", "leader")
  /\ serving[n]
  /\ inbox' = Taken(n)
  /\ LET d == Head(inbox[n])
     IN \/ d.term > term[n] /\ StepDown(n, d.term)
        \/ d.term <= term[n] /\ UNCHANGED <<place, role, term, leaderId, votes, log, history>>

(* The leader has not received its own heartbeat for a while.              *)
LeaderLosesItself(n) ==
  /\ n \in alive
  /\ role[n] = "leader"
  /\ serving[n]
  /\ StepDown(n, term[n])
  /\ UNCHANGED inbox

-----------------------------------------------------------------------------
(* runAsLeader has its RPC server up before it registers for updates.      *)
Serve(n) ==
  /\ n \in alive
  /\ role[n] = "leader"
  /\ ~serving[n]
  /\ serving' = [serving EXCEPT ![n] = TRUE]
  /\ is_freshman' = [is_freshman EXCEPT ![n] = FALSE]
  /\ UNCHANGED <<place, role, term, leaderId, votes, commitId, prevLogTerm, data, inbox, history>>

UpdateUnregistered(n) ==
  /\ n \in alive
  /\ role[n] = "leader"
  /\ ~serving[n]
  /\ Len(data[n]) < MaxUpdates
  /\ data' = [data EXCEPT ![n] = Append(@, <<n, term[n]>>)]
  /\ mishaps' = mishaps \cup {"unregistered_update"}
  /\ UNCHANGED <<place, role, term, leaderId, votes, commitId, prevLogTerm, serving, is_freshman,
                 inbox, voted, elected>>

(* The callback of registerDataUpdate: the position before the update goes *)
(* with it.                                                                *)
UpdateData(n) ==
  /\ n \in alive
  /\ role[n] = "leader"
  /\ serving[n]
  /\ Len(data[n]) < MaxUpdates
  /\ data' = [data EXCEPT ![n] = Append(@, <<n, term[n]>>)]
  /\ commitId' = [commitId EXCEPT ![n] = @ + 1]
  /\ prevLogTerm' = [prevLogTerm EXCEPT ![n] = term[n]]
  /\ inbox' = Publish(inbox, Node \ {n}, "follower",
                [type |-> "appendEntry", to |-> "follower", id |-> n, term |-> term[n],
                 prevLogIndex |-> commitId[n], prevLogTerm |-> prevLogTerm[n],
                 data |-> <<n, term[n]>>])
  /\ UNCHANGED <<place, role, term, leaderId, votes, serving, is_freshman, history>>

\* Mutated: an empty log is continued like any other.
Continues_empty(n, d) == prevLogTerm[n] = d.prevLogTerm /\ commitId[n] = d.prevLogIndex

Continues(n, d) ==
  /\ commitId[n] # -1
  /\ prevLogTerm[n] = d.prevLogTerm
  /\ commitId[n] = d.prevLogIndex

(* An entry that continues the follower's log is applied; any other makes  *)
(* it ask its leader for a snapshot.                                       *)
FollowerAppendEntry(n) ==
  /\ Receives(n, "appendEntry", "follower")
  /\ LET d == Head(inbox[n])
         accepted == leaderId[n] \in {NoNode, d.id} /\ d.term >= term[n]
         request == [type |-> "installSnapshot", to |-> "leader", id |-> n, leaderId |-> d.id]
     IN \/ /\ accepted
           /\ leaderId' = [leaderId EXCEPT ![n] = d.id]
           /\ term' = [term EXCEPT ![n] = d.term]
           /\ \/ /\ Continues(n, d)
                 /\ commitId' = [commitId EXCEPT ![n] = @ + 1]
                 /\ prevLogTerm' = [prevLogTerm EXCEPT ![n] = d.term]
                 /\ data' = IF is_freshman[n] THEN data ELSE [data EXCEPT ![n] = Append(@, d.data)]
                 /\ inbox' = Taken(n)
              \/ /\ ~Continues(n, d)
                 /\ inbox' = Publish(Taken(n), {d.id}, "leader", request)
                 /\ UNCHANGED <<commitId, prevLogTerm, data>>
        \/ /\ ~accepted
           /\ inbox' = Taken(n)
           /\ UNCHANGED <<leaderId, term, commitId, prevLogTerm, data>>
  /\ UNCHANGED <<place, role, votes, serving, is_freshman, history>>

LeaderInstallSnapshot(n) ==
  /\ Receives(n, "installSnapshot", "leader")
  /\ serving[n]
  /\ LET d == Head(inbox[n])
         snapshot == [type |-> "installSnapshot", to |-> "follower", id |-> n, term |-> term[n],
                      commitId |-> commitId[n], data |-> data[n]]
     IN inbox' = IF d.leaderId = n THEN Publish(Taken(n), {d.id}, "follower", snapshot)
                 ELSE Taken(n)
  /\ UNCHANGED <<place, role, term, leaderId, votes, log, history>>

(* leaderId is checked before the lock is taken, when it may still be 0:   *)
(* the check excludes no sender.                                           *)
FollowerInstallSnapshot(n) ==
  /\ Receives(n, "installSnapshot", "follower")
  /\ inbox' = Taken(n)
  /\ LET d == Head(inbox[n])
         accepted == d.term >= term[n] /\ d.commitId >= commitId[n]
     IN \/ /\ accepted
           /\ commitId' = [commitId EXCEPT ![n] = d.commitId]
           /\ term' = [term EXCEPT ![n] = d.term]
           /\ prevLogTerm' = [prevLogTerm EXCEPT ![n] = d.term]
           /\ data' = [data EXCEPT ![n] = d.data]
           /\ is_freshman' = [is_freshman EXCEPT ![n] = FALSE]
        \/ ~accepted /\ UNCHANGED <<commitId, term, prevLogTerm, data, is_freshman>>
  /\ UNCHANGED <<place, role, leaderId, votes, serving, history>>

-----------------------------------------------------------------------------
(* A process dies; a new one is started in its place.                      *)
Crash(n) ==
  /\ n \in alive
  /\ Cardinality(started \ alive) < MaxCrashes
  /\ alive' = alive \ {n}
  /\ inbox' = [inbox EXCEPT ![n] = <<>>]
  /\ UNCHANGED <<started, role, term, leaderId, votes, log, history>>

Start(n) ==
  /\ n \notin started
  /\ Cardinality(alive) < TotalNode
  /\ started' = started \cup {n}
  /\ alive' = alive \cup {n}
  /\ UNCHANGED <<role, term, leaderId, votes, log, inbox, history>>

Handle(n) ==
  \/ FollowerRequestVote(n) \/ CandidateRequestVote(n) \/ CandidateResponseVote(n)
  \/ FollowerHeartbeat(n) \/ CandidateHeartbeat(n) \/ LeaderHeartbeat(n)
  \/ FollowerAppendEntry(n) \/ LeaderInstallSnapshot(n) \/ FollowerInstallSnapshot(n)

Lead(n) ==
  \/ SendHeartbeat(n) \/ LeaderLosesItself(n)
  \/ Serve(n) \/ UpdateUnregistered(n) \/ UpdateData(n)

Next ==
  \E n \in Node :
    Handle(n) \/ Lead(n) \/ BecomeCandidate(n) \/ Lose(n) \/ Crash(n) \/ Start(n)

Spec == Init /\ [][Next]_vars

-----------------------------------------------------------------------------
(* No two nodes are elected in the same term, as long as no candidate took *)
(* over a lower term from a heartbeat and no process was replaced by one   *)
(* that has forgotten its vote.                                            *)
TermsWonOnce == \A e, f \in elected : e[1] = f[1] => e[2] = f[2]

OneLeaderPerTerm ==
  "term_went_back" \notin mishaps /\ Cardinality(started) <= TotalNode => TermsWonOnce

(* A follower follows only a node that was elected, and no later than the  *)
(* follower's own term if no term went back.                               *)
LeaderWasElected ==
  \A n \in Node :
    leaderId[n] # NoNode =>
      \E e \in elected :
        /\ e[2] = leaderId[n]
        /\ "term_went_back" \notin mishaps => e[1] <= term[n]

SamePosition(m, n) ==
  /\ commitId[m] # -1
  /\ commitId[m] = commitId[n]
  /\ prevLogTerm[m] = prevLogTerm[n]

(* Two replicas at the same log position hold the same data, as long as    *)
(* none of the incidents happened and no term was won twice: what the next *)
(* leader serves from is what the last one had at that position, whatever  *)
(* was lost and whoever was restarted.                                     *)
ReplicasAgree ==
  mishaps = {} /\ TermsWonOnce =>
    \A m, n \in alive : SamePosition(m, n) => data[m] = data[n]

(* Server.md: one manager is elected master, the others are standby.       *)
OneMasterPerTerm ==
  \A m, n \in alive : role[m] = "leader" /\ role[n] = "leader" /\ term[m] = term[n] => m = n

(* Server.md: another manager takes over transparently.  A standby at the  *)
(* log position of the serving leader would have to hold its data.         *)
StandbyIsCurrent ==
  \A m, n \in alive :
    serving[m] /\ role[n] = "follower" /\ SamePosition(m, n) => data[m] = data[n]

CurrentAfterStepDown == mishaps = {"stepped_down"} => StandbyIsCurrent
=============================================================================
