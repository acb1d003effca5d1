--------------------------- MODULE ElectionProofs ---------------------------
(***************************************************************************)
(* One leader per term, for any number of managers, processes and updates: *)
(* the only ways to two leaders of one term are a candidate that takes     *)
(* over a lower term from a heartbeat and a process that is replaced.  And *)
(* one log: two replicas at the same position hold the same data, as long  *)
(* as no leader stepped down or took an update it did not spread.          *)
(***************************************************************************)
EXTENDS Election, FiniteSetTheorems, SequenceTheorems, TLAPS

Queued(queues, n) == {queues[n][i] : i \in 1..Len(queues[n])}

(* A queued message tells the truth: a granted vote was granted, and who   *)
(* sends heartbeats or entries in a term was elected in it.                *)
Sound(m, n) ==
  /\ m.type = "responseVote" /\ m.voteGranted =>
       m.voter \in started /\ <<m.voteForTerm, n>> \in voted[m.voter]
  /\ m.type \in {"heartbeart", "appendEntry"} => <<m.term, m.id>> \in elected

MessagesSound == \A n \in Node : \A m \in Queued(inbox, n) : Sound(m, n)

(* A candidate has the votes it counts.                                    *)
VotersGranted ==
  \A n \in Node : role[n] = "candidate" =>
    \A v \in voters[n] : v \in started /\ <<term[n], n>> \in voted[v]

(* Whoever was elected has the votes of a majority.                        *)
Majority(Q) == Q \subseteq started /\ Cardinality(Q) > TotalNode \div 2
ElectedBacked ==
  \A e \in elected : \E Q \in SUBSET Node : Majority(Q) /\ \A v \in Q : e \in voted[v]

(* A vote belongs to a term that is over for the voter, or is its last.    *)
VoteSpent(v, g) ==
  \/ g[1] < term[v]
  \/ g[1] = term[v] /\ lastVoteTerm[v] = term[v] /\ lastVoteFor[v] = g[2]
OneVote ==
  "term_went_back" \notin mishaps =>
    \A v \in Node : /\ \A g \in voted[v] : VoteSpent(v, g)
                    /\ \A g, h \in voted[v] : g[1] = h[1] => g[2] = h[2]

LeadersElected == \A n \in Node : role[n] = "leader" => <<term[n], n>> \in elected

VoteInv == VotersGranted /\ ElectedBacked /\ OneVote /\ LeadersElected /\ LeaderWasElected
IInv == TypeOK /\ MessagesSound /\ VoteInv

(* Terms are integers.                                                     *)
LEMMA TermFacts ==
  ASSUME ElectionAssumption
  PROVE  /\ \A t \in Term : t \in Int
         /\ \A t \in Term : t < MaxTerm => t + 1 \in Term
         /\ NoTerm \in Term
  BY DEF Term, NoTerm, ElectionAssumption

LEMMA VoteTypes ==
  ASSUME ElectionAssumption, TypeOK
  PROVE  /\ \A n \in Node : term[n] \in Int
         /\ \A v \in Node : \A g \in voted[v] : g[1] \in Int /\ g[2] \in Node
         /\ \A e \in elected : e[1] \in Int /\ e[2] \in Node
  BY TermFacts DEF TypeOK

(* The kind of a message, by its type.                                     *)
LEMMA MessageKinds ==
  ASSUME NEW m \in Message
  PROVE  /\ m.type = "requestVote" => m \in RequestVote
         /\ m.type = "responseVote" => m \in ResponseVote
         /\ m.type = "heartbeart" => m \in Heartbeat
         /\ m.type = "appendEntry" => m \in AppendEntry
         /\ m.type = "installSnapshot" /\ m.to = "leader" => m \in SnapshotRequest
         /\ m.type = "installSnapshot" /\ m.to = "follower" => m \in Snapshot
  BY DEF Message, RequestVote, ResponseVote, Heartbeat, AppendEntry, SnapshotRequest, Snapshot

(* Publishing adds at most the message, and only to the queues it is for.  *)
LEMMA PublishFacts ==
  ASSUME NEW queues \in [Node -> Seq(Message)], NEW nodes, NEW to, NEW msg \in Message
  PROVE  /\ Publish(queues, nodes, to, msg) \in [Node -> Seq(Message)]
         /\ \A n \in Node : \A m \in Queued(Publish(queues, nodes, to, msg), n) :
              m \in Queued(queues, n) \/ (m = msg /\ n \in nodes)
<1> DEFINE new == Publish(queues, nodes, to, msg)
<1>1. \A n \in Node : new[n] = queues[n] \/ (new[n] = Append(queues[n], msg) /\ n \in nodes)
  BY DEF Publish
<1>2. \A n \in Node : Append(queues[n], msg) \in Seq(Message)
  OBVIOUS
<1>3. new \in [Node -> Seq(Message)]
  BY <1>2 DEF Publish
<1> HIDE DEF new
<1>4. ASSUME NEW n \in Node, NEW m \in Queued(new, n)
      PROVE  m \in Queued(queues, n) \/ (m = msg /\ n \in nodes)
  <2>1. PICK i \in 1..Len(new[n]) : m = new[n][i]
    BY <1>4 DEF Queued
  <2>2. CASE new[n] = queues[n]
    BY <2>1, <2>2 DEF Queued
  <2>3. CASE new[n] = Append(queues[n], msg) /\ n \in nodes
    <3>1. queues[n] \in Seq(Message)
      OBVIOUS
    <3>2. i \in 1..Len(queues[n]) \/ i = Len(queues[n]) + 1
      BY <2>1, <2>3, <3>1
    <3>3. CASE i \in 1..Len(queues[n])
      BY <2>1, <2>3, <3>1, <3>3 DEF Queued
    <3>4. CASE i = Len(queues[n]) + 1
      BY <2>1, <2>3, <3>1, <3>4
    <3> QED
      BY <3>2, <3>3, <3>4
  <2> QED
    BY <1>1, <2>2, <2>3
<1> QED
  BY <1>3, <1>4 DEF new

(* Taking the head of a queue.                                             *)
LEMMA TakenFacts ==
  ASSUME inbox \in [Node -> Seq(Message)], NEW n \in Node, inbox[n] # <<>>
  PROVE  /\ Head(inbox[n]) \in Message
         /\ Head(inbox[n]) \in Queued(inbox, n)
         /\ Taken(n) \in [Node -> Seq(Message)]
         /\ \A k \in Node : Queued(Taken(n), k) \subseteq Queued(inbox, k)
<1>1. inbox[n] \in Seq(Message)
  OBVIOUS
<1>2. /\ Head(inbox[n]) \in Message
      /\ Tail(inbox[n]) \in Seq(Message)
      /\ Len(Tail(inbox[n])) = Len(inbox[n]) - 1
      /\ \A i \in 1..Len(Tail(inbox[n])) : Tail(inbox[n])[i] = inbox[n][i + 1]
  BY <1>1, HeadTailProperties
<1>3. Head(inbox[n]) \in Queued(inbox, n)
  <2>1. Head(inbox[n]) = inbox[n][1] /\ 1 \in 1..Len(inbox[n])
    BY <1>1
  <2> QED
    BY <2>1 DEF Queued
<1>4. Taken(n) \in [Node -> Seq(Message)]
  BY <1>2 DEF Taken
<1>5. ASSUME NEW k \in Node
      PROVE  Queued(Taken(n), k) \subseteq Queued(inbox, k)
  <2>1. CASE k # n
    BY <2>1 DEF Taken, Queued
  <2>2. CASE k = n
    <3>1. Taken(n)[k] = Tail(inbox[n])
      BY <2>2 DEF Taken
    <3>2. ASSUME NEW m \in Queued(Taken(n), k)
          PROVE  m \in Queued(inbox, k)
      <4>1. PICK i \in 1..Len(Tail(inbox[n])) : m = Tail(inbox[n])[i]
        BY <3>1, <3>2 DEF Queued
      <4>2. m = inbox[n][i + 1] /\ i + 1 \in 1..Len(inbox[n])
        BY <1>1, <1>2, <4>1
      <4> QED
        BY <2>2, <4>2 DEF Queued
    <3> QED
      BY <3>2
  <2> QED
    BY <2>1, <2>2
<1> QED
  BY <1>2, <1>3, <1>4, <1>5

(* What was said truly stays true: votes and elections are never undone.   *)
LEMMA SoundKept ==
  ASSUME TypeOK, MessagesSound,
         \A v \in Node : voted[v] \subseteq voted'[v],
         elected \subseteq elected', started \subseteq started',
         \A n \in Node : \A m \in Queued(inbox', n) : m \in Queued(inbox, n) \/ Sound(m, n)'
  PROVE  MessagesSound'
<1> SUFFICES ASSUME NEW n \in Node, NEW m \in Queued(inbox', n)
             PROVE  Sound(m, n)'
  BY DEF MessagesSound, Queued
<1>1. CASE m \in Queued(inbox, n)
  <2>1. Sound(m, n)
    BY <1>1 DEF MessagesSound
  <2> QED
    BY <2>1 DEF Sound, TypeOK
<1> QED
  BY <1>1

(* Steps in which nobody votes, is elected or becomes a candidate: a node  *)
(* keeps its role, or becomes a follower without going back in terms; it   *)
(* follows whom it followed, nobody, or a node that was elected.           *)
Calm(n) ==
  \/ role'[n] = role[n] /\ term'[n] = term[n] /\ leaderId'[n] = leaderId[n]
  \/ /\ role'[n] = "follower"
     /\ term'[n] >= term[n] \/ "term_went_back" \in mishaps'
     /\ leaderId'[n] \in {leaderId[n], NoNode} \/ <<term'[n], leaderId'[n]>> \in elected

LEMMA CalmStep ==
  ASSUME ElectionAssumption, TypeOK, \A n \in Node : term'[n] \in Int, VoteInv,
         UNCHANGED <<lastVoteTerm, lastVoteFor, voters, voted, elected>>,
         started \subseteq started', mishaps \subseteq mishaps',
         \A n \in Node : Calm(n)
  PROVE  VoteInv'
<1>1. VotersGranted'
  BY DEF VoteInv, VotersGranted, Calm, TypeOK
<1>2. ElectedBacked'
  BY DEF VoteInv, ElectedBacked, Majority
<1>3. OneVote'
  <2> SUFFICES ASSUME "term_went_back" \notin mishaps', NEW v \in Node
               PROVE  /\ \A g \in voted[v] : VoteSpent(v, g)'
                      /\ \A g, h \in voted[v] : g[1] = h[1] => g[2] = h[2]
    BY DEF OneVote
  <2>1. /\ \A g \in voted[v] : VoteSpent(v, g)
        /\ \A g, h \in voted[v] : g[1] = h[1] => g[2] = h[2]
    BY DEF VoteInv, OneVote
  <2>2. term'[v] >= term[v] /\ term[v] \in Int /\ term'[v] \in Int
    <3>1. term[v] \in Int /\ term'[v] \in Int
      BY VoteTypes
    <3>2. Calm(v)
      OBVIOUS
    <3> QED
      BY <3>1, <3>2 DEF Calm
  <2>3. \A g \in voted[v] : g[1] \in Int
    BY VoteTypes
  <2> QED
    BY <2>1, <2>2, <2>3 DEF VoteSpent
<1>4. LeadersElected'
  BY DEF VoteInv, LeadersElected, Calm
<1>5. LeaderWasElected'
  <2> SUFFICES ASSUME NEW n \in Node, leaderId'[n] # NoNode
               PROVE  \E e \in elected : /\ e[2] = leaderId'[n]
                                         /\ "term_went_back" \notin mishaps' => e[1] <= term'[n]
    BY DEF LeaderWasElected
  <2>1. CASE <<term'[n], leaderId'[n]>> \in elected
    <3>1. term'[n] <= term'[n]
      BY VoteTypes
    <3> QED
      BY <2>1, <3>1
  <2>2. CASE /\ leaderId'[n] = leaderId[n]
             /\ term'[n] >= term[n] \/ "term_went_back" \in mishaps'
    <3>1. PICK e \in elected : /\ e[2] = leaderId[n]
                               /\ "term_went_back" \notin mishaps => e[1] <= term[n]
      BY <2>2 DEF VoteInv, LeaderWasElected
    <3>2. e[1] \in Int /\ term[n] \in Int /\ term'[n] \in Int
      BY VoteTypes
    <3> QED
      BY <2>2, <3>1, <3>2
  <2>3. term[n] >= term[n]
    BY VoteTypes
  <2> QED
    BY <2>1, <2>2, <2>3 DEF Calm
<1> QED
  BY <1>1, <1>2, <1>3, <1>4, <1>5 DEF VoteInv

Grounds(n) == \A m \in Queued(inbox', n) : m \in Queued(inbox, n) \/ Sound(m, n)'

LEMMA CalmIInv ==
  ASSUME ElectionAssumption, IInv, TypeOK',
         UNCHANGED <<lastVoteTerm, lastVoteFor, voters, voted, elected>>,
         started \subseteq started', mishaps \subseteq mishaps',
         \A n \in Node : Calm(n), \A n \in Node : Grounds(n)
  PROVE  IInv'
<1>1. \A n \in Node : term'[n] \in Int
  <2>1. term' \in [Node -> Term]
    BY DEF TypeOK
  <2> QED
    BY <2>1, TermFacts
<1>2. VoteInv'
  BY <1>1, CalmStep DEF IInv
<1>3. MessagesSound'
  BY SoundKept DEF IInv, Grounds
<1> QED
  BY <1>2, <1>3 DEF IInv

(* The steps that only lose, or only touch what a leader serves from.      *)
LEMMA LoseIInv ==
  ASSUME ElectionAssumption, IInv, NEW n \in Node, Lose(n)
  PROVE  IInv'
<1>1. inbox' \in [Node -> Seq(Message)] /\ \A k \in Node : Queued(inbox', k) \subseteq Queued(inbox, k)
  BY TakenFacts DEF Lose, IInv, TypeOK
<1>2. TypeOK'
  BY <1>1 DEF Lose, IInv, TypeOK, place, votes, log, history
<1>3. \A k \in Node : Calm(k) /\ Grounds(k)
  BY <1>1 DEF Lose, Calm, Grounds
<1> QED
  BY <1>2, <1>3, CalmIInv DEF Lose, place, votes, history

LEMMA CrashIInv ==
  ASSUME ElectionAssumption, IInv, NEW n \in Node, Crash(n)
  PROVE  IInv'
<1>1. <<>> \in Seq(Message)
  OBVIOUS
<1>2. TypeOK'
  BY <1>1 DEF Crash, IInv, TypeOK, votes, log, history
<1>3. \A k \in Node : Queued(inbox', k) \subseteq Queued(inbox, k)
  BY DEF Crash, IInv, TypeOK, Queued
<1>4. \A k \in Node : Calm(k) /\ Grounds(k)
  BY <1>3 DEF Crash, Calm, Grounds
<1> QED
  BY <1>2, <1>4, CalmIInv DEF Crash, votes, history

LEMMA StartIInv ==
  ASSUME ElectionAssumption, IInv, NEW n \in Node, Start(n)
  PROVE  IInv'
<1>1. TypeOK'
  BY DEF Start, IInv, TypeOK, votes, log, history
<1>2. \A k \in Node : Calm(k) /\ Grounds(k)
  BY DEF Start, Calm, Grounds, Queued
<1> QED
  BY <1>1, <1>2, CalmIInv DEF Start, votes, history

(* One more update in a manager's data, one more incident.                 *)
LEMMA DataType ==
  ASSUME data \in [Node -> Seq(Update)], term \in [Node -> Term], NEW n \in Node, NEW k \in Node,
         NEW d, d = [data EXCEPT ![n] = Append(@, <<k, term[k]>>)]
  PROVE  d \in [Node -> Seq(Update)]
<1>1. <<k, term[k]>> \in Update
  BY DEF Update
<1>2. data[n] \in Seq(Update)
  OBVIOUS
<1>3. Append(data[n], <<k, term[k]>>) \in Seq(Update)
  BY <1>1, <1>2
<1> QED
  BY <1>3

LEMMA ServeIInv ==
  ASSUME ElectionAssumption, IInv, NEW n \in Node, Serve(n) \/ UpdateUnregistered(n)
  PROVE  IInv'
<1>1. data' \in [Node -> Seq(Update)]
  BY DataType DEF Serve, UpdateUnregistered, IInv, TypeOK
<1>2. mishaps' \in SUBSET Mishap
  BY DEF Serve, UpdateUnregistered, IInv, TypeOK, Mishap, history
<1>3. TypeOK'
  BY <1>1, <1>2 DEF Serve, UpdateUnregistered, IInv, TypeOK, place, votes, history, Mishap
<1>4. \A k \in Node : Calm(k) /\ Grounds(k)
  BY DEF Serve, UpdateUnregistered, Calm, Grounds, Queued
<1> QED
  BY <1>3, <1>4, CalmIInv DEF Serve, UpdateUnregistered, place, votes, history

(* The leader's messages.                                                  *)
LEMMA SendHeartbeatIInv ==
  ASSUME ElectionAssumption, IInv, NEW n \in Node, SendHeartbeat(n)
  PROVE  IInv'
<1> DEFINE beat(to) == [type |-> "heartbeart", to |-> to, id |-> n, term |-> term[n],
                        commitId |-> commitId[n], prevLogTerm |-> prevLogTerm[n]]
           others == Node \ {n}
           q1 == Publish(inbox, others, "leader", beat("leader"))
           q2 == Publish(q1, others, "follower", beat("follower"))
           q3 == Publish(q2, others, "candidate", beat("candidate"))
<1>1. \A to \in {"follower", "candidate", "leader"} : beat(to) \in Message
  BY DEF IInv, TypeOK, Message, Heartbeat
<1>2. inbox' = q3
  BY DEF SendHeartbeat
<1>3. \A k \in Node, to \in {"follower", "candidate", "leader"}, m \in Message :
        m = beat(to) => Sound(m, k)'
  BY DEF SendHeartbeat, Sound, IInv, VoteInv, LeadersElected, history
<1> HIDE DEF beat
<1>4. /\ q1 \in [Node -> Seq(Message)]
      /\ \A k \in Node : \A m \in Queued(q1, k) : m \in Queued(inbox, k) \/ m = beat("leader")
  <2>1. inbox \in [Node -> Seq(Message)] /\ beat("leader") \in Message
    BY <1>1 DEF IInv, TypeOK
  <2> QED
    BY <2>1, PublishFacts
<1> HIDE DEF q1
<1>5. /\ q2 \in [Node -> Seq(Message)]
      /\ \A k \in Node : \A m \in Queued(q2, k) : m \in Queued(q1, k) \/ m = beat("follower")
  BY <1>1, <1>4, PublishFacts
<1> HIDE DEF q2
<1>6. /\ q3 \in [Node -> Seq(Message)]
      /\ \A k \in Node : \A m \in Queued(q3, k) : m \in Queued(q2, k) \/ m = beat("candidate")
  BY <1>1, <1>5, PublishFacts
<1> HIDE DEF q3
<1>7. TypeOK'
  BY <1>2, <1>6 DEF SendHeartbeat, IInv, TypeOK, place, votes, log, history
<1>8. \A k \in Node : Grounds(k)
  <2> SUFFICES ASSUME NEW k \in Node, NEW m \in Queued(q3, k)
               PROVE  m \in Queued(inbox, k) \/ Sound(m, k)'
    BY <1>2 DEF Grounds
  <2>1. \/ m \in Queued(inbox, k)
        \/ \E to \in {"follower", "candidate", "leader"} : m = beat(to)
    BY <1>4, <1>5, <1>6
  <2> QED
    BY <1>1, <1>3, <2>1
<1>9. \A k \in Node : Calm(k)
  BY DEF SendHeartbeat, Calm
<1> QED
  BY <1>7, <1>8, <1>9, CalmIInv DEF SendHeartbeat, place, votes, history

LEMMA UpdateDataIInv ==
  ASSUME ElectionAssumption, IInv, NEW n \in Node, UpdateData(n)
  PROVE  IInv'
<1> DEFINE entry == [type |-> "appendEntry", to |-> "follower", id |-> n, term |-> term[n],
                     prevLogIndex |-> commitId[n], prevLogTerm |-> prevLogTerm[n],
                     data |-> <<n, term[n]>>]
           q1 == Publish(inbox, Node \ {n}, "follower", entry)
<1>1. <<n, term[n]>> \in Update
  BY DEF IInv, TypeOK, Update
<1>2. entry \in Message
  BY <1>1 DEF IInv, TypeOK, Message, AppendEntry
<1>3. inbox' = q1
  BY DEF UpdateData
<1>4. \A k \in Node, m \in Message : m = entry => Sound(m, k)'
  BY DEF UpdateData, Sound, IInv, VoteInv, LeadersElected, history
<1> HIDE DEF entry
<1>5. /\ q1 \in [Node -> Seq(Message)]
      /\ \A k \in Node : \A m \in Queued(q1, k) : m \in Queued(inbox, k) \/ m = entry
  <2>1. inbox \in [Node -> Seq(Message)]
    BY DEF IInv, TypeOK
  <2> QED
    BY <1>2, <2>1, PublishFacts
<1>6. data' \in [Node -> Seq(Update)]
  BY DataType DEF UpdateData, IInv, TypeOK
<1> HIDE DEF q1
<1>7. TypeOK'
  <2>1. commitId[n] + 1 \in Int /\ term[n] \in Term
    BY DEF IInv, TypeOK
  <2>2. /\ commitId' \in [Node -> Int]
        /\ prevLogTerm' \in [Node -> Term]
    BY <2>1 DEF UpdateData, IInv, TypeOK
  <2>3. inbox' \in [Node -> Seq(Message)]
    BY <1>3, <1>5
  <2> QED
    BY <1>6, <2>2, <2>3 DEF UpdateData, IInv, TypeOK, place, votes, history
<1>8. \A k \in Node : Grounds(k)
  <2> SUFFICES ASSUME NEW k \in Node, NEW m \in Queued(q1, k)
               PROVE  m \in Queued(inbox, k) \/ Sound(m, k)'
    BY <1>3 DEF Grounds
  <2> QED
    BY <1>2, <1>4, <1>5
<1>9. \A k \in Node : Calm(k)
  BY DEF UpdateData, Calm
<1> QED
  BY <1>7, <1>8, <1>9, CalmIInv DEF UpdateData, place, votes, history

LEMMA StepDownIInv ==
  ASSUME ElectionAssumption, IInv, NEW n \in Node, NEW t \in Term, t >= term[n], StepDown(n, t),
         inbox' \in [Node -> Seq(Message)],
         \A k \in Node : Queued(inbox', k) \subseteq Queued(inbox, k)
  PROVE  IInv'
<1>1. data' \in [Node -> Seq(Update)]
  BY DataType DEF StepDown, IInv, TypeOK
<1>2. mishaps' \in SUBSET Mishap
  BY DEF StepDown, IInv, TypeOK, Mishap
<1>3. TypeOK'
  BY <1>1, <1>2 DEF StepDown, IInv, TypeOK, place, votes
<1>4. \A k \in Node : Calm(k) /\ Grounds(k)
  BY DEF StepDown, Calm, Grounds, IInv, TypeOK
<1> QED
  BY <1>3, <1>4, CalmIInv DEF StepDown, place, votes

(* What a node takes from its queue.                                       *)
LEMMA ReceivedFacts ==
  ASSUME IInv, NEW n \in Node, inbox[n] # <<>>
  PROVE  /\ Head(inbox[n]) \in Message
         /\ Sound(Head(inbox[n]), n)
         /\ Taken(n) \in [Node -> Seq(Message)]
         /\ \A k \in Node : Queued(Taken(n), k) \subseteq Queued(inbox, k)
<1>1. inbox \in [Node -> Seq(Message)]
  BY DEF IInv, TypeOK
<1>2. /\ Head(inbox[n]) \in Message
      /\ Head(inbox[n]) \in Queued(inbox, n)
      /\ Taken(n) \in [Node -> Seq(Message)]
      /\ \A k \in Node : Queued(Taken(n), k) \subseteq Queued(inbox, k)
  BY <1>1, TakenFacts
<1> QED
  BY <1>2 DEF IInv, MessagesSound

(* A heartbeat of a term and a node that was elected in it.                *)
LEMMA BeatFacts ==
  ASSUME IInv, NEW n \in Node, NEW type \in {"heartbeart", "appendEntry"}, NEW as,
         Receives(n, type, as)
  PROVE  /\ inbox[n] # <<>>
         /\ Head(inbox[n]).term \in Term
         /\ Head(inbox[n]).id \in Node
         /\ <<Head(inbox[n]).term, Head(inbox[n]).id>> \in elected
         /\ type = "appendEntry" => Head(inbox[n]).data \in Update
<1>1. inbox[n] # <<>> /\ Head(inbox[n]).type = type
  BY DEF Receives
<1> DEFINE d == Head(inbox[n])
<1>2. d \in Message /\ Sound(d, n)
  BY <1>1, ReceivedFacts
<1> HIDE DEF d
<1>3. /\ type = "heartbeart" => d \in Heartbeat
      /\ type = "appendEntry" => d \in AppendEntry
  BY <1>1, <1>2, MessageKinds DEF d
<1>4. d.term \in Term /\ d.id \in Node /\ (type = "appendEntry" => d.data \in Update)
  BY <1>3 DEF Heartbeat, AppendEntry
<1>5. <<d.term, d.id>> \in elected
  BY <1>1, <1>2 DEF Sound, d
<1> QED
  BY <1>1, <1>4, <1>5 DEF d

LEMMA FollowerHeartbeatIInv ==
  ASSUME ElectionAssumption, IInv, NEW n \in Node, FollowerHeartbeat(n)
  PROVE  IInv'
<1> DEFINE d == Head(inbox[n])
<1>1. /\ inbox[n] # <<>>
      /\ d.term \in Term /\ d.id \in Node
      /\ <<d.term, d.id>> \in elected
  BY BeatFacts DEF FollowerHeartbeat
<1>2. /\ inbox' \in [Node -> Seq(Message)]
      /\ \A k \in Node : Queued(inbox', k) \subseteq Queued(inbox, k)
  BY <1>1, ReceivedFacts DEF FollowerHeartbeat
<1>3. \/ UNCHANGED <<leaderId, term>>
      \/ /\ leaderId' = [leaderId EXCEPT ![n] = d.id]
         /\ term' = [term EXCEPT ![n] = d.term]
         /\ d.term >= term[n]
  BY DEF FollowerHeartbeat
<1> HIDE DEF d
<1>4. leaderId' \in [Node -> Node \cup {NoNode}] /\ term' \in [Node -> Term]
  BY <1>1, <1>3 DEF IInv, TypeOK
<1>5. UNCHANGED <<place, role, votes, log, history>> /\ role[n] = "follower"
  BY DEF FollowerHeartbeat, Receives
<1>6. TypeOK'
  BY <1>2, <1>4, <1>5 DEF IInv, TypeOK, place, votes, log, history
<1>7. \A k \in Node : Calm(k)
  BY <1>1, <1>3, <1>5 DEF Calm, IInv, TypeOK
<1>8. \A k \in Node : Grounds(k)
  BY <1>2 DEF Grounds
<1> QED
  BY <1>5, <1>6, <1>7, <1>8, CalmIInv DEF place, votes, history

LEMMA CandidateHeartbeatIInv ==
  ASSUME ElectionAssumption, IInv, NEW n \in Node, CandidateHeartbeat(n)
  PROVE  IInv'
<1> DEFINE d == Head(inbox[n])
<1>1. inbox[n] # <<>> /\ d.term \in Term
  BY BeatFacts DEF CandidateHeartbeat
<1>2. /\ inbox' \in [Node -> Seq(Message)]
      /\ \A k \in Node : Queued(inbox', k) \subseteq Queued(inbox, k)
  BY <1>1, ReceivedFacts DEF CandidateHeartbeat
<1>3. \/ UNCHANGED <<role, term, mishaps>>
      \/ /\ role' = [role EXCEPT ![n] = "follower"]
         /\ term' = [term EXCEPT ![n] = d.term]
         /\ mishaps' = IF d.term < term[n] THEN mishaps \cup {"term_went_back"} ELSE mishaps
  BY DEF CandidateHeartbeat
<1> HIDE DEF d
<1>4. /\ role' \in [Node -> {"follower", "candidate", "leader"}]
      /\ term' \in [Node -> Term]
      /\ mishaps' \in SUBSET Mishap
  BY <1>1, <1>3 DEF IInv, TypeOK, Mishap
<1>5. UNCHANGED <<place, leaderId, votes, log, voted, elected>>
  BY DEF CandidateHeartbeat
<1>6. TypeOK'
  BY <1>2, <1>4, <1>5 DEF IInv, TypeOK, place, votes, log
<1>7. d.term < term[n] \/ d.term >= term[n]
  BY <1>1, TermFacts DEF IInv, TypeOK
<1>8. \A k \in Node : Calm(k)
  BY <1>3, <1>5, <1>7 DEF Calm, IInv, TypeOK
<1>9. \A k \in Node : Grounds(k)
  BY <1>2 DEF Grounds
<1>10. mishaps \subseteq mishaps'
  BY <1>3
<1> QED
  BY <1>5, <1>6, <1>8, <1>9, <1>10, CalmIInv DEF place, votes

LEMMA LeaderHeartbeatIInv ==
  ASSUME ElectionAssumption, IInv, NEW n \in Node, LeaderHeartbeat(n)
  PROVE  IInv'
<1> DEFINE d == Head(inbox[n])
<1>1. inbox[n] # <<>> /\ d.term \in Term
  BY BeatFacts DEF LeaderHeartbeat
<1>2. /\ inbox' \in [Node -> Seq(Message)]
      /\ \A k \in Node : Queued(inbox', k) \subseteq Queued(inbox, k)
  BY <1>1, ReceivedFacts DEF LeaderHeartbeat
<1>3. CASE d.term > term[n] /\ StepDown(n, d.term)
  <2>1. d.term >= term[n]
    BY <1>1, <1>3, TermFacts DEF IInv, TypeOK
  <2> QED
    BY <1>1, <1>2, <1>3, <2>1, StepDownIInv
<1>4. CASE UNCHANGED <<place, role, term, leaderId, votes, log, history>>
  <2>1. TypeOK'
    BY <1>2, <1>4 DEF IInv, TypeOK, place, votes, log, history
  <2>2. \A k \in Node : Calm(k) /\ Grounds(k)
    BY <1>2, <1>4 DEF Calm, Grounds
  <2> QED
    BY <1>4, <2>1, <2>2, CalmIInv DEF place, votes, history
<1> QED
  BY <1>3, <1>4 DEF LeaderHeartbeat

LEMMA LeaderLosesItselfIInv ==
  ASSUME ElectionAssumption, IInv, NEW n \in Node, LeaderLosesItself(n)
  PROVE  IInv'
<1>1. term[n] \in Term /\ inbox \in [Node -> Seq(Message)] /\ inbox' = inbox
  BY DEF LeaderLosesItself, IInv, TypeOK
<1>2. term[n] >= term[n]
  BY <1>1, TermFacts
<1> QED
  BY <1>1, <1>2, StepDownIInv DEF LeaderLosesItself

(* The follower's log.                                                     *)
LEMMA FollowerAppendEntryIInv ==
  ASSUME ElectionAssumption, IInv, NEW n \in Node, FollowerAppendEntry(n)
  PROVE  IInv'
<1> DEFINE d == Head(inbox[n])
           request == [type |-> "installSnapshot", to |-> "leader", id |-> n, leaderId |-> d.id]
           q == Publish(Taken(n), {d.id}, "leader", request)
<1>1. /\ inbox[n] # <<>>
      /\ d.term \in Term /\ d.id \in Node /\ d.data \in Update
      /\ <<d.term, d.id>> \in elected
  BY BeatFacts DEF FollowerAppendEntry
<1>2. /\ Taken(n) \in [Node -> Seq(Message)]
      /\ \A k \in Node : Queued(Taken(n), k) \subseteq Queued(inbox, k)
  BY <1>1, ReceivedFacts
<1>3. \/ UNCHANGED <<leaderId, term>>
      \/ /\ leaderId' = [leaderId EXCEPT ![n] = d.id]
         /\ term' = [term EXCEPT ![n] = d.term]
         /\ d.term >= term[n]
  BY DEF FollowerAppendEntry
<1>4. \/ UNCHANGED <<commitId, prevLogTerm, data>>
      \/ /\ commitId' = [commitId EXCEPT ![n] = @ + 1]
         /\ prevLogTerm' = [prevLogTerm EXCEPT ![n] = d.term]
         /\ data' = data \/ data' = [data EXCEPT ![n] = Append(@, d.data)]
  BY DEF FollowerAppendEntry
<1>5. inbox' = Taken(n) \/ inbox' = q
  BY DEF FollowerAppendEntry
<1>6. request \in Message
  BY <1>1 DEF Message, SnapshotRequest
<1> HIDE DEF d, request
<1>7. /\ q \in [Node -> Seq(Message)]
      /\ \A k \in Node : \A m \in Queued(q, k) : m \in Queued(Taken(n), k) \/ m = request
  BY <1>2, <1>6, PublishFacts
<1> HIDE DEF q
<1>8. \A k \in Node, m \in Message : m = request => Sound(m, k)'
  BY DEF request, Sound
<1>9. UNCHANGED <<place, role, votes, serving, is_freshman, history>> /\ role[n] = "follower"
  BY DEF FollowerAppendEntry, Receives
<1>10. TypeOK'
  <2>1. leaderId' \in [Node -> Node \cup {NoNode}] /\ term' \in [Node -> Term]
    BY <1>1, <1>3 DEF IInv, TypeOK
  <2>2. data[n] \in Seq(Update) /\ commitId[n] \in Int /\ data \in [Node -> Seq(Update)]
    BY DEF IInv, TypeOK
  <2>3. Append(data[n], d.data) \in Seq(Update) /\ commitId[n] + 1 \in Int
    BY <1>1, <2>2
  <2>4. data' \in [Node -> Seq(Update)]
    BY <1>4, <2>2, <2>3
  <2>5. /\ commitId' \in [Node -> Int]
        /\ prevLogTerm' \in [Node -> Term]
    <3>1. commitId \in [Node -> Int] /\ prevLogTerm \in [Node -> Term]
      BY DEF IInv, TypeOK
    <3> QED
      BY <1>1, <1>4, <2>3, <3>1
  <2>6. inbox' \in [Node -> Seq(Message)]
    BY <1>2, <1>5, <1>7
  <2> QED
    BY <1>9, <2>1, <2>4, <2>5, <2>6 DEF IInv, TypeOK, place, votes, history
<1>11. \A k \in Node : Calm(k)
  BY <1>1, <1>3, <1>9 DEF Calm, IInv, TypeOK
<1>12. \A k \in Node : Grounds(k)
  <2> SUFFICES ASSUME NEW k \in Node, NEW m \in Queued(inbox', k)
               PROVE  m \in Queued(inbox, k) \/ Sound(m, k)'
    BY DEF Grounds
  <2>1. m \in Queued(Taken(n), k) \/ m = request
    BY <1>5, <1>7
  <2> QED
    BY <1>2, <1>6, <1>8, <2>1
<1> QED
  BY <1>9, <1>10, <1>11, <1>12, CalmIInv DEF place, votes, history

LEMMA LeaderInstallSnapshotIInv ==
  ASSUME ElectionAssumption, IInv, NEW n \in Node, LeaderInstallSnapshot(n)
  PROVE  IInv'
<1> DEFINE d == Head(inbox[n])
           snapshot == [type |-> "installSnapshot", to |-> "follower", id |-> n, term |-> term[n],
                        commitId |-> commitId[n], data |-> data[n]]
           q == Publish(Taken(n), {d.id}, "follower", snapshot)
<1>1. inbox[n] # <<>>
  BY DEF LeaderInstallSnapshot, Receives
<1>2. /\ Taken(n) \in [Node -> Seq(Message)]
      /\ \A k \in Node : Queued(Taken(n), k) \subseteq Queued(inbox, k)
  BY <1>1, ReceivedFacts
<1>3. inbox' = Taken(n) \/ inbox' = q
  BY DEF LeaderInstallSnapshot
<1>4. snapshot \in Message
  BY DEF Message, Snapshot, IInv, TypeOK
<1> HIDE DEF d, snapshot
<1>5. /\ q \in [Node -> Seq(Message)]
      /\ \A k \in Node : \A m \in Queued(q, k) : m \in Queued(Taken(n), k) \/ m = snapshot
  BY <1>2, <1>4, PublishFacts
<1> HIDE DEF q
<1>6. \A k \in Node, m \in Message : m = snapshot => Sound(m, k)'
  BY DEF snapshot, Sound
<1>7. UNCHANGED <<place, role, term, leaderId, votes, log, history>>
  BY DEF LeaderInstallSnapshot
<1>8. inbox' \in [Node -> Seq(Message)]
  BY <1>2, <1>3, <1>5
<1>9. TypeOK'
  BY <1>7, <1>8 DEF IInv, TypeOK, place, votes, log, history
<1>10. \A k \in Node : Calm(k)
  BY <1>7 DEF Calm
<1>11. \A k \in Node : Grounds(k)
  <2> SUFFICES ASSUME NEW k \in Node, NEW m \in Queued(inbox', k)
               PROVE  m \in Queued(inbox, k) \/ Sound(m, k)'
    BY DEF Grounds
  <2>1. m \in Queued(Taken(n), k) \/ m = snapshot
    BY <1>3, <1>5
  <2> QED
    BY <1>2, <1>4, <1>6, <2>1
<1> QED
  BY <1>7, <1>9, <1>10, <1>11, CalmIInv DEF place, votes, history

LEMMA FollowerInstallSnapshotIInv ==
  ASSUME ElectionAssumption, IInv, NEW n \in Node, FollowerInstallSnapshot(n)
  PROVE  IInv'
<1> DEFINE d == Head(inbox[n])
<1>1. inbox[n] # <<>> /\ d.type = "installSnapshot" /\ d.to = "follower"
  BY DEF FollowerInstallSnapshot, Receives
<1>2. d \in Message
  BY <1>1, ReceivedFacts
<1>3. /\ inbox' \in [Node -> Seq(Message)]
      /\ \A k \in Node : Queued(inbox', k) \subseteq Queued(inbox, k)
  BY <1>1, ReceivedFacts DEF FollowerInstallSnapshot
<1>4. \/ UNCHANGED <<commitId, term, prevLogTerm, data, is_freshman>>
      \/ /\ commitId' = [commitId EXCEPT ![n] = d.commitId]
         /\ term' = [term EXCEPT ![n] = d.term]
         /\ prevLogTerm' = [prevLogTerm EXCEPT ![n] = d.term]
         /\ data' = [data EXCEPT ![n] = d.data]
         /\ is_freshman' = [is_freshman EXCEPT ![n] = FALSE]
         /\ d.term >= term[n]
  BY DEF FollowerInstallSnapshot
<1> HIDE DEF d
<1>5. d \in Snapshot
  BY <1>1, <1>2, MessageKinds
<1>6. d.term \in Term /\ d.commitId \in Int /\ d.data \in Seq(Update)
  BY <1>5 DEF Snapshot
<1>7. UNCHANGED <<place, role, leaderId, votes, serving, history>> /\ role[n] = "follower"
  BY DEF FollowerInstallSnapshot, Receives
<1>8. TypeOK'
  <2>1. /\ commitId' \in [Node -> Int]
        /\ term' \in [Node -> Term]
        /\ prevLogTerm' \in [Node -> Term]
    BY <1>4, <1>6 DEF IInv, TypeOK
  <2>2. /\ data' \in [Node -> Seq(Update)]
        /\ is_freshman' \in [Node -> BOOLEAN]
    BY <1>4, <1>6 DEF IInv, TypeOK
  <2> QED
    BY <1>3, <1>7, <2>1, <2>2 DEF IInv, TypeOK, place, votes, history
<1>9. \A k \in Node : Calm(k)
  BY <1>4, <1>6, <1>7 DEF Calm, IInv, TypeOK
<1>10. \A k \in Node : Grounds(k)
  BY <1>3 DEF Grounds
<1> QED
  BY <1>7, <1>8, <1>9, <1>10, CalmIInv DEF place, votes, history

(* Runs for election.                                                      *)
LEMMA BecomeCandidateIInv ==
  ASSUME ElectionAssumption, IInv, NEW n \in Node, BecomeCandidate(n)
  PROVE  IInv'
<1> DEFINE request(to) == [type |-> "requestVote", to |-> to, id |-> n, term |-> term[n] + 1,
                           commitId |-> commitId[n], prevLogTerm |-> prevLogTerm[n]]
           own == IF Len(inbox[n]) < MaxInbox
                    THEN [inbox EXCEPT ![n] = Append(@, request("candidate"))] ELSE inbox
           others == Node \ {n}
           q1 == Publish(own, others, "follower", request("follower"))
           q2 == Publish(q1, others, "candidate", request("candidate"))
<1>1. term[n] \in Int /\ term[n] + 1 \in Term
  BY TermFacts DEF BecomeCandidate, IInv, TypeOK
<1>2. \A to \in {"follower", "candidate"} : request(to) \in Message
  BY <1>1 DEF IInv, TypeOK, Message, RequestVote
<1>3. inbox' = q2
  BY DEF BecomeCandidate
<1>4. \A k \in Node, to \in {"follower", "candidate"}, m \in Message :
        m = request(to) => Sound(m, k)'
  BY DEF Sound
<1> HIDE DEF request
<1>5. /\ own \in [Node -> Seq(Message)]
      /\ \A k \in Node : \A m \in Queued(own, k) : m \in Queued(inbox, k) \/ m = request("candidate")
  <2>1. inbox \in [Node -> Seq(Message)] /\ inbox[n] \in Seq(Message) /\ request("candidate") \in Message
    BY <1>2 DEF IInv, TypeOK
  <2>2. Append(inbox[n], request("candidate")) \in Seq(Message)
    BY <2>1
  <2>3. own \in [Node -> Seq(Message)]
    BY <2>1, <2>2
  <2>4. ASSUME NEW k \in Node, NEW m \in Queued(own, k)
        PROVE  m \in Queued(inbox, k) \/ m = request("candidate")
    <3>1. CASE own[k] = inbox[k]
      BY <2>4, <3>1 DEF Queued
    <3>2. CASE k = n /\ own[k] = Append(inbox[n], request("candidate"))
      <4> HIDE DEF own
      <4>1. PICK i \in 1..Len(own[k]) : m = own[k][i]
        BY <2>4 DEF Queued
      <4>2. i \in 1..Len(inbox[n]) \/ i = Len(inbox[n]) + 1
        BY <2>1, <3>2, <4>1
      <4>3. i \in 1..Len(inbox[n]) => m = inbox[k][i]
        BY <2>1, <3>2, <4>1
      <4>4. i = Len(inbox[n]) + 1 => m = request("candidate")
        BY <2>1, <3>2, <4>1
      <4> QED
        BY <3>2, <4>2, <4>3, <4>4 DEF Queued
    <3> QED
      BY <2>1, <3>1, <3>2
  <2> QED
    BY <2>3, <2>4
<1> HIDE DEF own
<1>6. /\ q1 \in [Node -> Seq(Message)]
      /\ \A k \in Node : \A m \in Queued(q1, k) : m \in Queued(own, k) \/ m = request("follower")
  BY <1>2, <1>5, PublishFacts
<1> HIDE DEF q1
<1>7. /\ q2 \in [Node -> Seq(Message)]
      /\ \A k \in Node : \A m \in Queued(q2, k) : m \in Queued(q1, k) \/ m = request("candidate")
  BY <1>2, <1>6, PublishFacts
<1> HIDE DEF q2
<1>8. /\ role' = [role EXCEPT ![n] = "candidate"]
      /\ term' = [term EXCEPT ![n] = @ + 1]
      /\ leaderId' = [leaderId EXCEPT ![n] = NoNode]
      /\ lastVoteFor' = [lastVoteFor EXCEPT ![n] = NoNode]
      /\ voters' = [voters EXCEPT ![n] = {}]
      /\ UNCHANGED <<place, lastVoteTerm, log, history>>
  BY DEF BecomeCandidate
<1>9. TypeOK'
  <2>1. term' \in [Node -> Term]
    BY <1>1, <1>8 DEF IInv, TypeOK
  <2>2. inbox' \in [Node -> Seq(Message)]
    BY <1>3, <1>7
  <2> QED
    BY <1>8, <2>1, <2>2 DEF IInv, TypeOK, place, log, history
<1>10. MessagesSound'
  <2>1. ASSUME NEW k \in Node, NEW m \in Queued(inbox', k)
        PROVE  m \in Queued(inbox, k) \/ Sound(m, k)'
    <3>1. m \in Queued(inbox, k) \/ \E to \in {"follower", "candidate"} : m = request(to)
      BY <1>3, <1>5, <1>6, <1>7, <2>1
    <3> QED
      BY <1>2, <1>4, <3>1
  <2> QED
    BY <1>8, <2>1, SoundKept DEF IInv, place, history
<1>11. VotersGranted' /\ LeadersElected'
  BY <1>8 DEF IInv, TypeOK, VoteInv, VotersGranted, LeadersElected, place, history
<1>12. ElectedBacked'
  BY <1>8 DEF IInv, VoteInv, ElectedBacked, Majority, place, history
<1>13. OneVote'
  <2> SUFFICES ASSUME "term_went_back" \notin mishaps, NEW v \in Node
               PROVE  /\ \A g \in voted[v] : VoteSpent(v, g)'
                      /\ \A g, h \in voted[v] : g[1] = h[1] => g[2] = h[2]
    BY <1>8 DEF OneVote, history
  <2>1. /\ \A g \in voted[v] : VoteSpent(v, g)
        /\ \A g, h \in voted[v] : g[1] = h[1] => g[2] = h[2]
    BY DEF IInv, VoteInv, OneVote
  <2>2. \A g \in voted[v] : g[1] \in Int
    BY VoteTypes DEF IInv
  <2>3. CASE v = n
    <3>1. term'[v] = term[v] + 1
      BY <1>8, <2>3 DEF IInv, TypeOK
    <3> QED
      BY <1>1, <2>1, <2>2, <2>3, <3>1 DEF VoteSpent
  <2>4. CASE v # n
    <3>1. term'[v] = term[v] /\ lastVoteTerm'[v] = lastVoteTerm[v] /\ lastVoteFor'[v] = lastVoteFor[v]
      BY <1>8, <2>4 DEF IInv, TypeOK
    <3> QED
      BY <2>1, <3>1 DEF VoteSpent
  <2> QED
    BY <2>3, <2>4
<1>14. LeaderWasElected'
  <2> SUFFICES ASSUME NEW k \in Node, leaderId'[k] # NoNode
               PROVE  \E e \in elected : /\ e[2] = leaderId'[k]
                                         /\ "term_went_back" \notin mishaps => e[1] <= term'[k]
    BY <1>8 DEF LeaderWasElected, history
  <2>1. k # n /\ leaderId'[k] = leaderId[k] /\ term'[k] = term[k]
    BY <1>8 DEF IInv, TypeOK
  <2> QED
    BY <2>1 DEF IInv, VoteInv, LeaderWasElected
<1> QED
  BY <1>9, <1>10, <1>11, <1>12, <1>13, <1>14 DEF IInv, VoteInv

(* The answer to a vote request.                                           *)
LEMMA RespondedFacts ==
  ASSUME ElectionAssumption, IInv, NEW n \in alive, inbox[n] # <<>>,
         NEW d \in RequestVote, NEW t \in Term, NEW granted \in BOOLEAN,
         \A v \in Node : voted[v] \subseteq voted'[v], started' = started,
         granted => <<d.term, d.id>> \in voted'[n],
         inbox' \in {Taken(n), Responded(n, d, t, granted)}
  PROVE  inbox' \in [Node -> Seq(Message)] /\ \A k \in Node : Grounds(k)
<1> DEFINE answer == [type |-> "responseVote", to |-> "candidate", id |-> d.id, term |-> t,
                      voteForTerm |-> d.term, voter |-> n, voteGranted |-> granted]
           q == Publish(Taken(n), {d.id}, "candidate", answer)
<1>1. n \in Node /\ n \in started
  BY DEF IInv, TypeOK
<1>2. /\ Taken(n) \in [Node -> Seq(Message)]
      /\ \A k \in Node : Queued(Taken(n), k) \subseteq Queued(inbox, k)
  BY <1>1, ReceivedFacts
<1>3. answer \in Message
  BY <1>1 DEF Message, ResponseVote, RequestVote
<1>4. inbox' = Taken(n) \/ inbox' = q
  BY DEF Responded
<1>5. \A m \in Message : m = answer => Sound(m, d.id)'
  BY <1>1 DEF Sound
<1> HIDE DEF answer
<1>6. /\ q \in [Node -> Seq(Message)]
      /\ \A k \in Node : \A m \in Queued(q, k) :
           m \in Queued(Taken(n), k) \/ (m = answer /\ k \in {d.id})
  BY <1>2, <1>3, PublishFacts
<1> HIDE DEF q
<1>7. ASSUME NEW k \in Node
      PROVE  Grounds(k)
  <2> SUFFICES ASSUME NEW m \in Queued(inbox', k)
               PROVE  m \in Queued(inbox, k) \/ Sound(m, k)'
    BY DEF Grounds
  <2>1. m \in Queued(Taken(n), k) \/ (m = answer /\ k = d.id)
    BY <1>4, <1>6
  <2>2. CASE m = answer /\ k = d.id
    <3>1. m \in Message
      BY <1>3, <2>2
    <3>2. ASSUME NEW j, j = d.id, Sound(m, j)'
          PROVE  Sound(m, j)'
      BY <3>2
    <3> QED
      BY <1>5, <2>2, <3>1
  <2> QED
    BY <1>2, <2>1, <2>2
<1> QED
  BY <1>2, <1>4, <1>6, <1>7

(* A vote spends the voter's term.                                         *)
LEMMA VoteOnce ==
  ASSUME ElectionAssumption, IInv, NEW n \in Node, NEW d \in RequestVote, Vote(n, d),
         d.term >= term[n], mishaps' = mishaps
  PROVE  OneVote'
<1> SUFFICES ASSUME "term_went_back" \notin mishaps, NEW v \in Node
             PROVE  /\ \A g \in voted'[v] : VoteSpent(v, g)'
                    /\ \A g, h \in voted'[v] : g[1] = h[1] => g[2] = h[2]
  BY DEF OneVote
<1>1. /\ \A g \in voted[v] : VoteSpent(v, g) /\ g[1] \in Int /\ g[2] \in Node
      /\ \A g, h \in voted[v] : g[1] = h[1] => g[2] = h[2]
  BY VoteTypes DEF IInv, VoteInv, OneVote
<1>2. d.term \in Int /\ d.id \in Node /\ term[v] \in Int
  BY VoteTypes, TermFacts DEF RequestVote, IInv
<1>3. term' = [term EXCEPT ![n] = d.term]
  BY DEF Vote
<1>4. \/ UNCHANGED <<lastVoteTerm, lastVoteFor, voted>>
      \/ /\ AlreadyVoted(n, d) => lastVoteFor[n] = d.id
         /\ lastVoteTerm' = [lastVoteTerm EXCEPT ![n] = d.term]
         /\ lastVoteFor' = [lastVoteFor EXCEPT ![n] = d.id]
         /\ voted' = [voted EXCEPT ![n] = @ \cup {<<d.term, d.id>>}]
  BY DEF Vote
<1>5. CASE v # n
  <2>1. /\ term'[v] = term[v] /\ voted'[v] = voted[v]
        /\ lastVoteTerm'[v] = lastVoteTerm[v] /\ lastVoteFor'[v] = lastVoteFor[v]
    BY <1>3, <1>4, <1>5 DEF IInv, TypeOK
  <2> QED
    BY <1>1, <2>1 DEF VoteSpent
<1>6. CASE v = n
  <2>1. term'[n] = d.term
    BY <1>3 DEF IInv, TypeOK
  <2>2. CASE UNCHANGED <<lastVoteTerm, lastVoteFor, voted>>
    BY <1>1, <1>2, <1>6, <2>1, <2>2 DEF VoteSpent
  <2>3. CASE /\ AlreadyVoted(n, d) => lastVoteFor[n] = d.id
             /\ lastVoteTerm' = [lastVoteTerm EXCEPT ![n] = d.term]
             /\ lastVoteFor' = [lastVoteFor EXCEPT ![n] = d.id]
             /\ voted' = [voted EXCEPT ![n] = @ \cup {<<d.term, d.id>>}]
    <3>1. /\ lastVoteTerm'[n] = d.term /\ lastVoteFor'[n] = d.id
          /\ voted'[n] = voted[n] \cup {<<d.term, d.id>>}
      BY <2>3 DEF IInv, TypeOK
    <3>2. ASSUME NEW g \in voted[n]
          PROVE  g[1] < d.term \/ (g[1] = d.term /\ g[2] = d.id)
      <4>1. g[1] <= term[n] /\ g[1] \in Int /\ g[2] \in Node
        BY <1>1, <1>2, <1>6, <3>2 DEF VoteSpent
      <4>2. CASE g[1] = d.term
        <5>1. g[1] = term[n] /\ lastVoteTerm[n] = d.term /\ lastVoteFor[n] = g[2]
          BY <1>1, <1>2, <1>6, <3>2, <4>1, <4>2 DEF VoteSpent
        <5>2. AlreadyVoted(n, d)
          BY <4>1, <5>1 DEF AlreadyVoted, ElectionAssumption
        <5> QED
          BY <2>3, <4>2, <5>1, <5>2
      <4> QED
        BY <1>2, <1>6, <4>1, <4>2
    <3>3. \A g \in voted'[n] : g[1] < d.term \/ (g[1] = d.term /\ g[2] = d.id)
      BY <3>1, <3>2
    <3>4. \A g \in voted'[n] : VoteSpent(n, g)'
      BY <2>1, <3>1, <3>3 DEF VoteSpent
    <3>5. \A g, h \in voted'[n] : g[1] = h[1] => g[2] = h[2]
      <4>1. \A g \in voted[n] : g = <<d.term, d.id>> \/ g \in voted[n]
        OBVIOUS
      <4>2. <<d.term, d.id>>[1] = d.term /\ <<d.term, d.id>>[2] = d.id
        OBVIOUS
      <4> QED
        BY <1>1, <1>2, <1>6, <3>1, <3>2, <4>2
    <3> QED
      BY <1>6, <3>4, <3>5
  <2> QED
    BY <1>4, <2>2, <2>3
<1> QED
  BY <1>5, <1>6

(* A node that answers a vote request with a vote or with silence.         *)
LEMMA VoteIInv ==
  ASSUME ElectionAssumption, IInv, NEW n \in alive, inbox[n] # <<>>,
         NEW d \in RequestVote, Vote(n, d), d.term >= term[n], role[n] # "leader",
         role' \in {role, [role EXCEPT ![n] = "follower"]},
         role'[n] = "candidate" => d.term = term[n],
         UNCHANGED <<place, leaderId, voters, log, elected, mishaps>>
  PROVE  IInv'
<1> DEFINE granted == IF AlreadyVoted(n, d) THEN lastVoteFor[n] = d.id ELSE ~OlderLog(n, d)
<1>1. n \in Node /\ d.term \in Term /\ d.id \in Node
  BY DEF IInv, TypeOK, RequestVote
<1>2. /\ term' = [term EXCEPT ![n] = d.term]
      /\ \/ /\ granted
            /\ lastVoteTerm' = [lastVoteTerm EXCEPT ![n] = d.term]
            /\ lastVoteFor' = [lastVoteFor EXCEPT ![n] = d.id]
            /\ voted' = [voted EXCEPT ![n] = @ \cup {<<d.term, d.id>>}]
         \/ ~granted /\ UNCHANGED <<lastVoteTerm, lastVoteFor, voted>>
      /\ inbox' \in {Taken(n), Responded(n, d, d.term, granted)}
  BY DEF Vote
<1>3. granted \in BOOLEAN
  BY DEF AlreadyVoted, OlderLog
<1> HIDE DEF granted
<1>4. \A v \in Node : voted[v] \subseteq voted'[v]
  <2>1. voted \in [Node -> SUBSET (Term \X Node)]
    BY DEF IInv, TypeOK
  <2>2. voted' = voted \/ voted' = [voted EXCEPT ![n] = @ \cup {<<d.term, d.id>>}]
    BY <1>2
  <2> QED
    BY <2>1, <2>2
<1>5. granted => <<d.term, d.id>> \in voted'[n]
  BY <1>1, <1>2 DEF IInv, TypeOK
<1>6. inbox' \in [Node -> Seq(Message)] /\ \A k \in Node : Grounds(k)
  BY <1>1, <1>2, <1>3, <1>4, <1>5, RespondedFacts DEF place
<1>7. TypeOK'
  <2>1. /\ role' \in [Node -> {"follower", "candidate", "leader"}]
        /\ term' \in [Node -> Term]
    BY <1>1, <1>2 DEF IInv, TypeOK
  <2>2. /\ lastVoteTerm' \in [Node -> Term]
        /\ lastVoteFor' \in [Node -> Node \cup {NoNode}]
    BY <1>1, <1>2 DEF IInv, TypeOK
  <2>3. voted' \in [Node -> SUBSET (Term \X Node)]
    <3>1. voted \in [Node -> SUBSET (Term \X Node)]
      BY DEF IInv, TypeOK
    <3>2. voted[n] \cup {<<d.term, d.id>>} \in SUBSET (Term \X Node)
      BY <1>1, <3>1
    <3>3. voted' = voted \/ voted' = [voted EXCEPT ![n] = @ \cup {<<d.term, d.id>>}]
      BY <1>2
    <3> QED
      BY <3>1, <3>2, <3>3
  <2> QED
    BY <1>6, <2>1, <2>2, <2>3 DEF IInv, TypeOK, place, log
<1>8. MessagesSound'
  BY <1>4, <1>6, SoundKept DEF IInv, Grounds, place
<1>9. OneVote'
  BY <1>1, VoteOnce
<1>10. VotersGranted'
  <2> SUFFICES ASSUME NEW k \in Node, role'[k] = "candidate", NEW v \in voters[k]
               PROVE  v \in started /\ <<term'[k], k>> \in voted'[v]
    BY DEF VotersGranted, place
  <2>1. role[k] = "candidate" /\ term'[k] = term[k]
    BY <1>1, <1>2 DEF IInv, TypeOK
  <2>2. v \in started /\ v \in Node /\ <<term[k], k>> \in voted[v]
    BY <2>1 DEF IInv, TypeOK, VoteInv, VotersGranted
  <2> QED
    BY <1>4, <2>1, <2>2
<1>11. ElectedBacked'
  BY <1>4 DEF IInv, VoteInv, ElectedBacked, Majority, place
<1>12. LeadersElected'
  BY <1>2 DEF IInv, TypeOK, VoteInv, LeadersElected
<1>13. LeaderWasElected'
  <2> SUFFICES ASSUME NEW k \in Node, leaderId[k] # NoNode
               PROVE  \E e \in elected : /\ e[2] = leaderId[k]
                                         /\ "term_went_back" \notin mishaps => e[1] <= term'[k]
    BY DEF LeaderWasElected
  <2>1. PICK e \in elected : /\ e[2] = leaderId[k]
                             /\ "term_went_back" \notin mishaps => e[1] <= term[k]
    BY DEF IInv, VoteInv, LeaderWasElected
  <2>2. e[1] \in Int /\ term[k] \in Int /\ d.term \in Int
    BY <1>1, VoteTypes, TermFacts DEF IInv
  <2>3. term'[k] \in {term[k], d.term} /\ term'[k] >= term[k]
    BY <1>1, <1>2, <2>2 DEF IInv, TypeOK
  <2> QED
    BY <2>1, <2>2, <2>3
<1> QED
  BY <1>7, <1>8, <1>9, <1>10, <1>11, <1>12, <1>13 DEF IInv, VoteInv

(* A vote request.                                                         *)
LEMMA RequestFacts ==
  ASSUME IInv, NEW n \in Node, NEW as, Receives(n, "requestVote", as)
  PROVE  inbox[n] # <<>> /\ Head(inbox[n]) \in RequestVote /\ role[n] = as /\ n \in alive
<1>1. inbox[n] # <<>> /\ Head(inbox[n]).type = "requestVote" /\ role[n] = as /\ n \in alive
  BY DEF Receives
<1>2. Head(inbox[n]) \in Message
  BY <1>1, ReceivedFacts
<1> QED
  BY <1>1, <1>2, MessageKinds

LEMMA RejectIInv ==
  ASSUME ElectionAssumption, IInv, NEW n \in alive, inbox[n] # <<>>, NEW d \in RequestVote,
         Reject(n, d), UNCHANGED <<place, leaderId, voters, log, elected, mishaps>>
  PROVE  IInv'
<1>1. /\ inbox' = Responded(n, d, term[n], FALSE)
      /\ UNCHANGED <<role, term, lastVoteTerm, lastVoteFor, voted>>
  BY DEF Reject
<1>2. n \in Node /\ term[n] \in Term
  BY DEF IInv, TypeOK
<1>3. inbox' \in [Node -> Seq(Message)] /\ \A k \in Node : Grounds(k)
  BY <1>1, <1>2, RespondedFacts DEF place
<1>4. TypeOK'
  BY <1>1, <1>3 DEF IInv, TypeOK, place, log
<1>5. \A k \in Node : Calm(k)
  BY <1>1 DEF Calm
<1> QED
  BY <1>1, <1>3, <1>4, <1>5, CalmIInv DEF place

LEMMA FollowerRequestVoteIInv ==
  ASSUME ElectionAssumption, IInv, NEW n \in Node, FollowerRequestVote(n)
  PROVE  IInv'
<1> DEFINE d == Head(inbox[n])
<1>1. inbox[n] # <<>> /\ d \in RequestVote /\ role[n] = "follower" /\ n \in alive
  BY RequestFacts DEF FollowerRequestVote
<1>2. \/ Reject(n, d)
      \/ ~(d.term < term[n]) /\ Vote(n, d) /\ UNCHANGED role
  BY DEF FollowerRequestVote
<1>3. UNCHANGED <<place, leaderId, voters, log, elected, mishaps>>
  BY DEF FollowerRequestVote
<1> HIDE DEF d
<1>4. d.term \in Int /\ term[n] \in Int
  BY <1>1, TermFacts, VoteTypes DEF IInv, RequestVote
<1>5. CASE Reject(n, d)
  BY <1>1, <1>3, <1>5, RejectIInv
<1>6. CASE ~(d.term < term[n]) /\ Vote(n, d) /\ UNCHANGED role
  <2>1. d.term >= term[n] /\ role'[n] = "follower"
    BY <1>1, <1>4, <1>6
  <2> QED
    BY <1>1, <1>3, <1>6, <2>1, VoteIInv
<1> QED
  BY <1>2, <1>5, <1>6

LEMMA CandidateRequestVoteIInv ==
  ASSUME ElectionAssumption, IInv, NEW n \in Node, CandidateRequestVote(n)
  PROVE  IInv'
<1> DEFINE d == Head(inbox[n])
<1>1. inbox[n] # <<>> /\ d \in RequestVote /\ role[n] = "candidate" /\ n \in alive
  BY RequestFacts DEF CandidateRequestVote
<1>2. \/ Reject(n, d)
      \/ /\ d.term >= term[n]
         /\ Vote(n, d)
         /\ role' = [role EXCEPT ![n] = IF d.term > term[n] THEN "follower" ELSE @]
  BY DEF CandidateRequestVote
<1>3. UNCHANGED <<place, leaderId, voters, log, elected, mishaps>>
  BY DEF CandidateRequestVote
<1> HIDE DEF d
<1>4. d.term \in Int /\ term[n] \in Int /\ role \in [Node -> {"follower", "candidate", "leader"}]
  BY <1>1, TermFacts, VoteTypes DEF IInv, RequestVote, TypeOK
<1>5. CASE Reject(n, d)
  BY <1>1, <1>3, <1>5, RejectIInv
<1>6. CASE /\ d.term >= term[n]
           /\ Vote(n, d)
           /\ role' = [role EXCEPT ![n] = IF d.term > term[n] THEN "follower" ELSE @]
  <2>1. role' \in {role, [role EXCEPT ![n] = "follower"]}
    BY <1>1, <1>4, <1>6
  <2>2. role'[n] = "candidate" => d.term = term[n]
    BY <1>4, <1>6
  <2>3. role[n] # "leader"
    BY <1>1
  <2> QED
    BY <1>1, <1>3, <1>6, <2>1, <2>2, <2>3, VoteIInv
<1> QED
  BY <1>2, <1>5, <1>6

(* Counting votes.                                                         *)
LEMMA CandidateResponseVoteIInv ==
  ASSUME ElectionAssumption, IInv, NEW n \in Node, CandidateResponseVote(n)
  PROVE  IInv'
<1> DEFINE d == Head(inbox[n])
           supporters == voters[n] \cup {d.voter}
           wins == Cardinality(supporters) > TotalNode \div 2
<1>1. inbox[n] # <<>> /\ d.type = "responseVote" /\ role[n] = "candidate"
  BY DEF CandidateResponseVote, Receives
<1>2. d \in ResponseVote /\ Sound(d, n)
  BY <1>1, ReceivedFacts, MessageKinds
<1>3. inbox' = Taken(n)
  BY DEF CandidateResponseVote
<1>4. /\ inbox' \in [Node -> Seq(Message)]
      /\ \A k \in Node : Queued(inbox', k) \subseteq Queued(inbox, k)
  BY <1>1, <1>3, ReceivedFacts
<1>5. UNCHANGED <<place, leaderId, lastVoteTerm, lastVoteFor, log, voted, mishaps>>
  BY DEF CandidateResponseVote
<1>6. \A k \in Node : Grounds(k)
  BY <1>4 DEF Grounds
<1>7. d.term \in Term /\ d.voter \in Node /\ d.term \in Int /\ term[n] \in Int
  BY <1>2, TermFacts, VoteTypes DEF ResponseVote, IInv
<1>8. CASE /\ d.term > term[n]
           /\ role' = [role EXCEPT ![n] = "follower"]
           /\ term' = [term EXCEPT ![n] = d.term]
           /\ UNCHANGED <<voters, elected>>
  <2>1. role' \in [Node -> {"follower", "candidate", "leader"}] /\ term' \in [Node -> Term]
    BY <1>7, <1>8 DEF IInv, TypeOK
  <2>2. TypeOK'
    BY <1>4, <1>5, <1>8, <2>1 DEF IInv, TypeOK, place, log
  <2>3. \A k \in Node : Calm(k)
    BY <1>5, <1>7, <1>8 DEF Calm, IInv, TypeOK
  <2> QED
    BY <1>5, <1>6, <1>8, <2>2, <2>3, CalmIInv DEF place
<1>9. CASE UNCHANGED <<role, term, voters, elected>>
  <2>1. TypeOK'
    BY <1>4, <1>5, <1>9 DEF IInv, TypeOK, place, log
  <2>2. \A k \in Node : Calm(k)
    BY <1>5, <1>9 DEF Calm
  <2> QED
    BY <1>5, <1>6, <1>9, <2>1, <2>2, CalmIInv DEF place
<1>10. CASE /\ d.voteGranted /\ d.voteForTerm = term[n]
            /\ voters' = [voters EXCEPT ![n] = supporters]
            /\ role' = [role EXCEPT ![n] = IF wins THEN "leader" ELSE @]
            /\ elected' = IF wins THEN elected \cup {<<term[n], n>>} ELSE elected
            /\ UNCHANGED term
  <2>1. supporters \in SUBSET Node
    BY <1>7 DEF IInv, TypeOK
  <2>2. \A v \in supporters : v \in started /\ <<term[n], n>> \in voted[v]
    BY <1>1, <1>2, <1>10 DEF Sound, IInv, VoteInv, VotersGranted
  <2> HIDE DEF supporters, d
  <2>3. TypeOK'
    <3>1. /\ role' \in [Node -> {"follower", "candidate", "leader"}]
          /\ voters' \in [Node -> SUBSET Node]
      BY <1>10, <2>1 DEF IInv, TypeOK
    <3>2. elected' \in SUBSET (Term \X Node)
      BY <1>10 DEF IInv, TypeOK
    <3> QED
      BY <1>4, <1>5, <1>10, <3>1, <3>2 DEF IInv, TypeOK, place, log
  <2>4. elected \subseteq elected'
    BY <1>10
  <2>5. MessagesSound'
    BY <1>5, <1>6, <2>4, SoundKept DEF IInv, Grounds, place
  <2>6. VotersGranted'
    <3> SUFFICES ASSUME NEW k \in Node, role'[k] = "candidate", NEW v \in voters'[k]
                 PROVE  v \in started /\ <<term[k], k>> \in voted[v]
      BY <1>5, <1>10 DEF VotersGranted, place
    <3>1. CASE k = n
      BY <1>10, <2>1, <2>2, <3>1 DEF IInv, TypeOK
    <3>2. CASE k # n
      BY <1>10, <3>2 DEF IInv, TypeOK, VoteInv, VotersGranted
    <3> QED
      BY <3>1, <3>2
  <2>7. ElectedBacked'
    <3> SUFFICES ASSUME NEW e \in elected'
                 PROVE  \E Q \in SUBSET Node : Majority(Q) /\ \A v \in Q : e \in voted[v]
      BY <1>5 DEF ElectedBacked, Majority, place
    <3>1. CASE e \in elected
      BY <3>1 DEF IInv, VoteInv, ElectedBacked
    <3>2. CASE wins /\ e = <<term[n], n>>
      <4>1. Majority(supporters)
        BY <2>2, <3>2 DEF Majority
      <4> QED
        BY <2>1, <2>2, <3>2, <4>1
    <3> QED
      BY <1>10, <3>1, <3>2
  <2>8. OneVote'
    BY <1>5, <1>10 DEF IInv, VoteInv, OneVote, VoteSpent
  <2>9. LeadersElected'
    BY <1>10, <2>4 DEF IInv, TypeOK, VoteInv, LeadersElected
  <2>10. LeaderWasElected'
    BY <1>5, <1>10, <2>4 DEF IInv, VoteInv, LeaderWasElected
  <2> QED
    BY <2>3, <2>5, <2>6, <2>7, <2>8, <2>9, <2>10 DEF IInv, VoteInv
<1> QED
  BY <1>8, <1>9, <1>10 DEF CandidateResponseVote

LEMMA InitIInv ==
  ASSUME ElectionAssumption, Init
  PROVE  IInv
<1>1. <<>> \in Seq(Message) /\ <<>> \in Seq(Update)
  OBVIOUS
<1>2. TypeOK
  BY <1>1, TermFacts DEF Init, TypeOK
<1>3. MessagesSound
  BY DEF Init, MessagesSound, Queued
<1>4. VoteInv
  BY DEF Init, VoteInv, VotersGranted, ElectedBacked, OneVote, LeadersElected, LeaderWasElected
<1> QED
  BY <1>2, <1>3, <1>4 DEF IInv

LEMMA NextIInv ==
  ASSUME ElectionAssumption, IInv, [Next]_vars
  PROVE  IInv'
<1>1. CASE UNCHANGED vars
  <2>1. TypeOK'
    BY <1>1 DEF IInv, TypeOK, vars, place, votes, log, history
  <2>2. \A k \in Node : Calm(k) /\ Grounds(k)
    BY <1>1 DEF Calm, Grounds, Queued, vars
  <2> QED
    BY <1>1, <2>1, <2>2, CalmIInv DEF vars, place, votes, history
<1>2. ASSUME NEW n \in Node, Handle(n)
      PROVE  IInv'
  BY <1>2, FollowerRequestVoteIInv, CandidateRequestVoteIInv, CandidateResponseVoteIInv,
     FollowerHeartbeatIInv, CandidateHeartbeatIInv, LeaderHeartbeatIInv,
     FollowerAppendEntryIInv, LeaderInstallSnapshotIInv, FollowerInstallSnapshotIInv DEF Handle
<1>3. ASSUME NEW n \in Node, Lead(n)
      PROVE  IInv'
  BY <1>3, SendHeartbeatIInv, LeaderLosesItselfIInv, ServeIInv, UpdateDataIInv DEF Lead
<1>4. ASSUME NEW n \in Node, BecomeCandidate(n) \/ Lose(n) \/ Crash(n) \/ Start(n)
      PROVE  IInv'
  BY <1>4, BecomeCandidateIInv, LoseIInv, CrashIInv, StartIInv
<1> QED
  BY <1>1, <1>2, <1>3, <1>4 DEF Next

(* Every behaviour keeps the invariant.                                    *)
THEOREM ElectionInvariant == ElectionAssumption /\ Spec => []IInv
<1>1. ElectionAssumption /\ Init => IInv
  BY InitIInv
<1>2. ElectionAssumption /\ IInv /\ [Next]_vars => IInv'
  BY NextIInv
<1> QED
  BY <1>1, <1>2, PTL, ElectionAssumption DEF Spec

(* Every field a handler assigns and every message a node queues has its   *)
(* type, whatever the number of managers.                                  *)
THEOREM ElectionTypeOK == Spec => []TypeOK
<1>1. IInv => TypeOK
  BY DEF IInv
<1> QED
  BY <1>1, ElectionInvariant, ElectionAssumption, PTL

(* A follower only ever follows a node that won an election, of a term no  *)
(* later than the follower's unless a candidate went back in terms.        *)
THEOREM ElectionLeaders == Spec => []LeaderWasElected
<1>1. IInv => LeaderWasElected
  BY DEF IInv, VoteInv
<1> QED
  BY <1>1, ElectionInvariant, ElectionAssumption, PTL

(* Two majorities of the same processes share a voter, and a voter has one *)
(* vote in a term.                                                         *)
LEMMA OneWinner ==
  ASSUME ElectionAssumption, IInv
  PROVE  OneLeaderPerTerm
<1> SUFFICES ASSUME "term_went_back" \notin mishaps, Cardinality(started) <= TotalNode,
                    NEW e \in elected, NEW f \in elected, e[1] = f[1]
             PROVE  e[2] = f[2]
  BY DEF OneLeaderPerTerm, TermsWonOnce
<1>1. PICK P \in SUBSET Node : Majority(P) /\ \A v \in P : e \in voted[v]
  BY DEF IInv, VoteInv, ElectedBacked
<1>2. PICK Q \in SUBSET Node : Majority(Q) /\ \A v \in Q : f \in voted[v]
  BY DEF IInv, VoteInv, ElectedBacked
<1>3. IsFiniteSet(started)
  BY FS_Subset DEF ElectionAssumption, IInv, TypeOK
<1>4. /\ Cardinality(started) \in Nat
      /\ IsFiniteSet(P) /\ Cardinality(P) \in Nat
      /\ IsFiniteSet(Q) /\ Cardinality(Q) \in Nat
  BY <1>1, <1>2, <1>3, FS_Subset, FS_CardinalityType DEF Majority
<1>5. Cardinality(P) + Cardinality(Q) > Cardinality(started)
  <2>1. TotalNode \in Nat
    BY DEF ElectionAssumption
  <2>2. 2 * Cardinality(P) > TotalNode /\ 2 * Cardinality(Q) > TotalNode
    BY <1>1, <1>2, <1>4, <2>1 DEF Majority
  <2> QED
    BY <1>4, <2>1, <2>2
<1>6. P \cap Q # {}
  BY <1>1, <1>2, <1>3, <1>5, FS_MajoritiesIntersect DEF Majority
<1>7. PICK v \in Node : e \in voted[v] /\ f \in voted[v]
  BY <1>1, <1>2, <1>6
<1> QED
  BY <1>7 DEF IInv, VoteInv, OneVote

(* For any number of managers, updates and messages: without a replaced    *)
(* process and without a term taken back, no term is won by two managers.  *)
THEOREM ElectionOneLeader == Spec => []OneLeaderPerTerm
<1>1. ElectionAssumption /\ IInv => OneLeaderPerTerm
  BY OneWinner
<1> QED
  BY <1>1, ElectionInvariant, ElectionAssumption, PTL

-----------------------------------------------------------------------------
(* The log.  What the leader of term t held when its commitId was c: its   *)
(* data only grows, one update with each step of its commitId.             *)
Prefix(l, c) == SubSeq(data[l], 1, Len(data[l]) - (commitId[l] - c))

HeldAt(c, t, x) ==
  \E l \in Node : <<t, l>> \in elected /\ c <= commitId[l] /\ x = Prefix(l, c)

(* A queued snapshot or entry says what some leader held.                  *)
Tells(m) ==
  /\ m.type = "installSnapshot" /\ m.to = "follower" => HeldAt(m.commitId, m.term, m.data)
  /\ m.type = "appendEntry" /\ m.prevLogIndex # -1 =>
       \E l \in Node :
         /\ <<m.term, l>> \in elected /\ m.prevLogIndex + 1 <= commitId[l]
         /\ HeldAt(m.prevLogIndex, m.prevLogTerm, Prefix(l, m.prevLogIndex))
         /\ Prefix(l, m.prevLogIndex + 1) = Append(Prefix(l, m.prevLogIndex), m.data)

LeadersStay == \A e \in elected : role[e[2]] = "leader" /\ term[e[2]] = e[1]
ServingLead == \A n \in Node : serving[n] => role[n] = "leader" /\ ~is_freshman[n]
PositionsHeld ==
  \A n \in Node : commitId[n] # -1 =>
    ~is_freshman[n] /\ HeldAt(commitId[n], prevLogTerm[n], data[n])
MessagesTell == \A n \in Node : \A m \in Queued(inbox, n) : Tells(m)

Untroubled == mishaps = {} /\ TermsWonOnce
LogInv == Untroubled => LeadersStay /\ ServingLead /\ PositionsHeld /\ MessagesTell

(* A leader's data and commitId stay, or grow together.                    *)
Grows(l) ==
  \/ UNCHANGED <<data[l], commitId[l]>>
  \/ \E u \in Update : data'[l] = Append(data[l], u) /\ commitId'[l] = commitId[l] + 1

(* What a leader held at a position, it held there for good.               *)
LEMMA PrefixKept ==
  ASSUME TypeOK, TypeOK', NEW l \in Node, NEW c \in Int, c <= commitId[l], Grows(l)
  PROVE  Prefix(l, c)' = Prefix(l, c) /\ c <= commitId'[l]
<1>1. data[l] \in Seq(Update) /\ commitId[l] \in Int
  BY DEF TypeOK
<1>2. CASE UNCHANGED <<data[l], commitId[l]>>
  BY <1>2 DEF Prefix
<1>3. ASSUME NEW u \in Update, data'[l] = Append(data[l], u), commitId'[l] = commitId[l] + 1
      PROVE  Prefix(l, c)' = Prefix(l, c) /\ c <= commitId'[l]
  <2>1. PICK s \in Seq(Update) : s = data[l]
    BY <1>1
  <2>2. PICK k \in Int : k = Len(s) - (commitId[l] - c)
    BY <1>1, <2>1
  <2>3. k <= Len(s)
    BY <1>1, <2>1, <2>2
  <2>4. Len(Append(s, u)) - (commitId[l] + 1 - c) = k
    BY <1>1, <2>1, <2>2
  <2>5. SubSeq(Append(s, u), 1, k) = SubSeq(s, 1, k)
    BY <2>1, <2>2, <2>3
  <2>6. Prefix(l, c) = SubSeq(s, 1, k)
    BY <2>1, <2>2 DEF Prefix
  <2>7. Prefix(l, c)' = SubSeq(data'[l], 1, Len(data'[l]) - (commitId'[l] - c))
    BY DEF Prefix
  <2>8. data'[l] = Append(s, u) /\ commitId'[l] = commitId[l] + 1
    BY <1>3, <2>1
  <2>9. c <= commitId'[l]
    BY <1>1, <2>8
  <2>10. PICK D \in Seq(Update) : D = Append(s, u)
    <3>1. Append(s, u) \in Seq(Update)
      BY <1>3, <2>1
    <3> QED
      BY <3>1
  <2>11. PICK C \in Int : C = commitId[l] + 1
    BY <1>1
  <2>12. Len(D) = Len(s) + 1 /\ Len(D) \in Int /\ Len(s) \in Int
    BY <1>3, <2>1, <2>10
  <2>13. Len(D) - (C - c) = k
    <3>1. PICK C0 \in Int, a \in Int : C0 = commitId[l] /\ a = Len(s)
      BY <1>1, <2>12
    <3>2. k = a - (C0 - c) /\ C = C0 + 1 /\ Len(D) = a + 1
      BY <2>2, <2>11, <2>12, <3>1
    <3> QED
      BY <3>2
  <2>14. SubSeq(D, 1, Len(D) - (C - c)) = SubSeq(s, 1, k)
    BY <2>5, <2>10, <2>13
  <2>15. Prefix(l, c)' = SubSeq(D, 1, Len(D) - (C - c))
    BY <2>7, <2>8, <2>10, <2>11
  <2> QED
    BY <2>6, <2>9, <2>14, <2>15
<1> QED
  BY <1>2, <1>3 DEF Grows

(* The whole of a leader's data is what it holds at its commitId.          *)
LEMMA PrefixWhole ==
  ASSUME NEW d \in Seq(Update), NEW c \in Int
  PROVE  SubSeq(d, 1, Len(d) - (c - c)) = d
<1>1. Len(d) - (c - c) = Len(d)
  OBVIOUS
<1> QED
  BY <1>1

(* Steps in which leaders stay and their logs only grow.                   *)
LeadersGrow ==
  /\ elected \subseteq elected'
  /\ \A l \in Node : role[l] = "leader" => role'[l] = "leader" /\ term'[l] = term[l] /\ Grows(l)

LEMMA HeldKept ==
  ASSUME TypeOK, TypeOK', LeadersStay, LeadersGrow, NEW c \in Int, NEW t, NEW x, HeldAt(c, t, x)
  PROVE  HeldAt(c, t, x)'
<1>1. PICK l \in Node : <<t, l>> \in elected /\ c <= commitId[l] /\ x = Prefix(l, c)
  BY DEF HeldAt
<1>2. role[l] = "leader"
  BY <1>1 DEF LeadersStay
<1>3. Grows(l)
  BY <1>2 DEF LeadersGrow
<1>4. Prefix(l, c)' = Prefix(l, c) /\ c <= commitId'[l]
  BY <1>1, <1>3, PrefixKept
<1>5. <<t, l>> \in elected'
  BY <1>1 DEF LeadersGrow
<1> QED
  BY <1>1, <1>4, <1>5 DEF HeldAt

LEMMA HeldOnce ==
  ASSUME TermsWonOnce, NEW c, NEW t, NEW x, NEW y, HeldAt(c, t, x), HeldAt(c, t, y)
  PROVE  x = y
BY DEF HeldAt, TermsWonOnce

LEMMA TellsKept ==
  ASSUME TypeOK, TypeOK', LeadersStay, LeadersGrow, NEW m \in Message, Tells(m)
  PROVE  Tells(m)'
<1>1. CASE m.type = "installSnapshot" /\ m.to = "follower"
  <2>1. m.commitId \in Int
    BY <1>1, MessageKinds DEF Snapshot
  <2>2. HeldAt(m.commitId, m.term, m.data)
    BY <1>1 DEF Tells
  <2>3. HeldAt(m.commitId, m.term, m.data)'
    BY <2>1, <2>2, HeldKept
  <2> QED
    BY <1>1, <2>3 DEF Tells
<1>2. CASE m.type = "appendEntry" /\ m.prevLogIndex # -1
  <2>1. m.prevLogIndex \in Int /\ m.prevLogIndex + 1 \in Int
    BY <1>2, MessageKinds DEF AppendEntry
  <2>2. PICK l \in Node :
           /\ <<m.term, l>> \in elected /\ m.prevLogIndex + 1 <= commitId[l]
           /\ HeldAt(m.prevLogIndex, m.prevLogTerm, Prefix(l, m.prevLogIndex))
           /\ Prefix(l, m.prevLogIndex + 1) = Append(Prefix(l, m.prevLogIndex), m.data)
    BY <1>2 DEF Tells
  <2>3. role[l] = "leader"
    BY <2>2 DEF LeadersStay
  <2>4. Grows(l)
    BY <2>3 DEF LeadersGrow
  <2>5. Prefix(l, m.prevLogIndex + 1)' = Prefix(l, m.prevLogIndex + 1) /\ m.prevLogIndex + 1 <= commitId'[l]
    BY <2>1, <2>2, <2>4, PrefixKept
  <2>6. m.prevLogIndex <= commitId[l]
    BY <2>1, <2>2 DEF TypeOK
  <2>7. Prefix(l, m.prevLogIndex)' = Prefix(l, m.prevLogIndex)
    BY <2>1, <2>4, <2>6, PrefixKept
  <2>8. HeldAt(m.prevLogIndex, m.prevLogTerm, Prefix(l, m.prevLogIndex))'
    <3>1. PICK x : x = Prefix(l, m.prevLogIndex)
      OBVIOUS
    <3>2. HeldAt(m.prevLogIndex, m.prevLogTerm, x)'
      BY <2>1, <2>2, <3>1, HeldKept
    <3>3. x = Prefix(l, m.prevLogIndex)'
      BY <2>7, <3>1
    <3> QED
      BY <3>2, <3>3 DEF HeldAt
  <2>9. <<m.term, l>> \in elected'
    BY <2>2 DEF LeadersGrow
  <2> QED
    BY <1>2, <2>2, <2>5, <2>7, <2>8, <2>9 DEF Tells
<1> QED
  BY <1>1, <1>2 DEF Tells

(* A step keeps the log if leaders grow, whoever is elected leads, whoever *)
(* moves holds what a leader held, and what is sent says so.               *)
Moves(n) ==
  \/ /\ UNCHANGED <<commitId[n], prevLogTerm[n], data[n]>>
     /\ is_freshman'[n] => is_freshman[n]
  \/ ~is_freshman'[n] /\ (commitId'[n] # -1 => HeldAt(commitId[n], prevLogTerm[n], data[n])')

LEMMA LogKept ==
  ASSUME TypeOK, TypeOK', LogInv, Untroubled, LeadersGrow,
         \A e \in elected' \ elected : role'[e[2]] = "leader" /\ term'[e[2]] = e[1],
         \A n \in Node : serving'[n] => role'[n] = "leader" /\ ~is_freshman'[n],
         \A n \in Node : Moves(n),
         \A n \in Node : \A m \in Queued(inbox', n) : m \in Queued(inbox, n) \/ Tells(m)'
  PROVE  LogInv'
<1>1. LeadersStay /\ ServingLead /\ PositionsHeld /\ MessagesTell
  BY DEF LogInv
<1>2. LeadersStay'
  <2> SUFFICES ASSUME NEW e \in elected'
               PROVE  role'[e[2]] = "leader" /\ term'[e[2]] = e[1]
    BY DEF LeadersStay
  <2>1. CASE e \in elected
    <3>1. e[2] \in Node
      BY <2>1 DEF TypeOK
    <3> QED
      BY <1>1, <2>1, <3>1 DEF LeadersStay, LeadersGrow
  <2> QED
    BY <2>1
<1>3. ServingLead'
  BY DEF ServingLead
<1>4. PositionsHeld'
  <2> SUFFICES ASSUME NEW n \in Node, commitId'[n] # -1
               PROVE  ~is_freshman'[n] /\ HeldAt(commitId[n], prevLogTerm[n], data[n])'
    BY DEF PositionsHeld
  <2>1. CASE UNCHANGED <<commitId[n], prevLogTerm[n], data[n]>> /\ (is_freshman'[n] => is_freshman[n])
    <3>1. PICK c \in Int : c = commitId[n]
      BY DEF TypeOK
    <3>2. PICK t, x : t = prevLogTerm[n] /\ x = data[n]
      OBVIOUS
    <3>3. ~is_freshman[n] /\ HeldAt(c, t, x)
      BY <1>1, <2>1, <3>1, <3>2 DEF PositionsHeld
    <3>4. HeldAt(c, t, x)'
      BY <1>1, <3>3, HeldKept
    <3>5. c = commitId'[n] /\ t = prevLogTerm'[n] /\ x = data'[n]
      BY <2>1, <3>1, <3>2
    <3>6. HeldAt(commitId[n], prevLogTerm[n], data[n])'
      BY <3>4, <3>5 DEF HeldAt
    <3> QED
      BY <2>1, <3>3, <3>6
  <2> QED
    BY <2>1 DEF Moves
<1>5. MessagesTell'
  <2> SUFFICES ASSUME NEW n \in Node, NEW m \in Queued(inbox, n), m \in Queued(inbox', n)
               PROVE  Tells(m)'
    BY DEF MessagesTell, Queued
  <2>1. m \in Message
    BY DEF Queued, TypeOK
  <2> QED
    BY <1>1, <2>1, TellsKept DEF MessagesTell
<1> QED
  BY <1>2, <1>3, <1>4, <1>5 DEF LogInv

(* Steps that leave the logs and the elections as they are, and send       *)
(* neither entries nor snapshots.                                          *)
Telling(m) == m.type = "appendEntry" \/ (m.type = "installSnapshot" /\ m.to = "follower")

LEMMA LogAlone ==
  ASSUME IInv, TypeOK', LogInv, Untroubled, UNCHANGED <<log, elected>>,
         \A n \in Node : role[n] = "leader" => role'[n] = "leader" /\ term'[n] = term[n],
         \A n \in Node : \A m \in Queued(inbox', n) : m \in Queued(inbox, n) \/ ~Telling(m)
  PROVE  LogInv'
<1>1. TypeOK /\ ServingLead
  BY DEF IInv, LogInv
<1>2. LeadersGrow
  BY DEF LeadersGrow, Grows, log
<1>3. \A n \in Node : serving'[n] => role'[n] = "leader" /\ ~is_freshman'[n]
  BY <1>1 DEF ServingLead, log
<1>4. \A n \in Node : Moves(n)
  BY DEF Moves, log
<1>5. \A n \in Node : \A m \in Queued(inbox', n) : m \in Queued(inbox, n) \/ Tells(m)'
  BY DEF Telling, Tells
<1> QED
  BY <1>1, <1>2, <1>3, <1>4, <1>5, LogKept

LEMMA QueuedTaken ==
  ASSUME IInv, NEW n \in Node, inbox[n] # <<>>, inbox' = Taken(n)
  PROVE  \A k \in Node : \A m \in Queued(inbox', k) : m \in Queued(inbox, k) \/ ~Telling(m)
BY ReceivedFacts

LEMMA LoseLog ==
  ASSUME IInv, TypeOK', LogInv, Untroubled, NEW n \in Node, Lose(n)
  PROVE  LogInv'
BY QueuedTaken, LogAlone DEF Lose, history

LEMMA CrashLog ==
  ASSUME IInv, TypeOK', LogInv, Untroubled, NEW n \in Node, Crash(n)
  PROVE  LogInv'
<1>1. \A k \in Node : Queued(inbox', k) \subseteq Queued(inbox, k)
  BY DEF Crash, IInv, TypeOK, Queued
<1> QED
  BY <1>1, LogAlone DEF Crash, history

LEMMA StartLog ==
  ASSUME IInv, TypeOK', LogInv, Untroubled, NEW n \in Node, Start(n)
  PROVE  LogInv'
<1>1. \A k \in Node : Queued(inbox', k) = Queued(inbox, k)
  BY DEF Start, Queued
<1> QED
  BY <1>1, LogAlone DEF Start, history

LEMMA SendHeartbeatLog ==
  ASSUME IInv, TypeOK', LogInv, Untroubled, NEW n \in Node, SendHeartbeat(n)
  PROVE  LogInv'
<1> DEFINE beat(to) == [type |-> "heartbeart", to |-> to, id |-> n, term |-> term[n],
                        commitId |-> commitId[n], prevLogTerm |-> prevLogTerm[n]]
           others == Node \ {n}
           q1 == Publish(inbox, others, "leader", beat("leader"))
           q2 == Publish(q1, others, "follower", beat("follower"))
           q3 == Publish(q2, others, "candidate", beat("candidate"))
<1>1. \A to \in {"follower", "candidate", "leader"} : beat(to) \in Message /\ ~Telling(beat(to))
  BY DEF IInv, TypeOK, Message, Heartbeat, Telling
<1>2. inbox' = q3 /\ inbox \in [Node -> Seq(Message)]
  BY DEF SendHeartbeat, IInv, TypeOK
<1> HIDE DEF beat
<1>4. /\ q1 \in [Node -> Seq(Message)]
      /\ \A k \in Node : \A m \in Queued(q1, k) : m \in Queued(inbox, k) \/ m = beat("leader")
  BY <1>1, <1>2, PublishFacts
<1> HIDE DEF q1
<1>5. /\ q2 \in [Node -> Seq(Message)]
      /\ \A k \in Node : \A m \in Queued(q2, k) : m \in Queued(q1, k) \/ m = beat("follower")
  BY <1>1, <1>4, PublishFacts
<1> HIDE DEF q2
<1>6. \A k \in Node : \A m \in Queued(q3, k) : m \in Queued(q2, k) \/ m = beat("candidate")
  BY <1>1, <1>5, PublishFacts
<1> HIDE DEF q3
<1>7. \A k \in Node : \A m \in Queued(inbox', k) : m \in Queued(inbox, k) \/ ~Telling(m)
  BY <1>1, <1>2, <1>4, <1>5, <1>6 DEF Queued
<1> QED
  BY <1>7, LogAlone DEF SendHeartbeat, history

LEMMA AppendFacts ==
  ASSUME NEW S, NEW s \in Seq(S), NEW r \in S
  PROVE  /\ Append(s, r) \in Seq(S)
         /\ \A i \in 1..Len(Append(s, r)) :
              Append(s, r)[i] = r \/ (i \in 1..Len(s) /\ Append(s, r)[i] = s[i])
OBVIOUS

LEMMA BecomeCandidateLog ==
  ASSUME IInv, TypeOK', LogInv, Untroubled, NEW n \in Node, BecomeCandidate(n), ElectionAssumption
  PROVE  LogInv'
<1> DEFINE request(to) == [type |-> "requestVote", to |-> to, id |-> n, term |-> term[n] + 1,
                           commitId |-> commitId[n], prevLogTerm |-> prevLogTerm[n]]
           own == IF Len(inbox[n]) < MaxInbox
                    THEN [inbox EXCEPT ![n] = Append(@, request("candidate"))] ELSE inbox
           others == Node \ {n}
           q1 == Publish(own, others, "follower", request("follower"))
           q2 == Publish(q1, others, "candidate", request("candidate"))
<1>1. term[n] \in Int /\ term[n] + 1 \in Term
  BY TermFacts DEF BecomeCandidate, IInv, TypeOK
<1>2. \A to \in {"follower", "candidate"} : request(to) \in Message /\ ~Telling(request(to))
  BY <1>1 DEF IInv, TypeOK, Message, RequestVote, Telling
<1>3. inbox' = q2 /\ inbox \in [Node -> Seq(Message)]
  BY DEF BecomeCandidate, IInv, TypeOK
<1> HIDE DEF request
<1>4. PICK r : r = request("candidate")
  OBVIOUS
<1>5. PICK s \in Seq(Message) : s = inbox[n]
  BY <1>3
<1>6. r \in Message /\ ~Telling(r)
  BY <1>2, <1>4
<1>7. /\ Append(s, r) \in Seq(Message)
      /\ \A i \in 1..Len(Append(s, r)) :
           Append(s, r)[i] = r \/ (i \in 1..Len(s) /\ Append(s, r)[i] = s[i])
  BY <1>5, <1>6, AppendFacts
<1>8. own = inbox \/ own = [inbox EXCEPT ![n] = Append(s, r)]
  BY <1>4, <1>5
<1> HIDE DEF own
<1>9. own \in [Node -> Seq(Message)]
  BY <1>3, <1>7, <1>8
<1>10. \A k \in Node : \A m \in Queued(own, k) : m \in Queued(inbox, k) \/ m = r
  <2> SUFFICES ASSUME NEW k \in Node, NEW m \in Queued(own, k) PROVE m \in Queued(inbox, k) \/ m = r
    OBVIOUS
  <2>1. PICK i \in 1..Len(own[k]) : m = own[k][i]
    BY DEF Queued
  <2>2. own[k] = inbox[k] \/ (k = n /\ own[k] = Append(s, r))
    BY <1>3, <1>8
  <2>3. CASE own[k] = inbox[k]
    BY <2>1, <2>3 DEF Queued
  <2>4. CASE k = n /\ own[k] = Append(s, r)
    BY <1>5, <1>7, <2>1, <2>4 DEF Queued
  <2> QED
    BY <2>2, <2>3, <2>4
<1>11. /\ q1 \in [Node -> Seq(Message)]
       /\ \A k \in Node : \A m \in Queued(q1, k) : m \in Queued(own, k) \/ m = request("follower")
  BY <1>2, <1>9, PublishFacts
<1> HIDE DEF q1
<1>12. \A k \in Node : \A m \in Queued(q2, k) : m \in Queued(q1, k) \/ m = request("candidate")
  BY <1>2, <1>11, PublishFacts
<1> HIDE DEF q2
<1>13. \A k \in Node : \A m \in Queued(inbox', k) : m \in Queued(inbox, k) \/ ~Telling(m)
  BY <1>2, <1>3, <1>6, <1>10, <1>11, <1>12 DEF Queued
<1>14. \A k \in Node : role[k] = "leader" => role'[k] = "leader" /\ term'[k] = term[k]
  BY DEF BecomeCandidate, IInv, TypeOK
<1>15. UNCHANGED <<log, elected>>
  BY DEF BecomeCandidate, history
<1> QED
  BY <1>13, <1>14, <1>15, LogAlone

(* An answer to a vote request tells nothing of the log.                   *)
LEMMA RespondedQueues ==
  ASSUME IInv, NEW n \in alive, inbox[n] # <<>>, NEW d \in RequestVote, NEW t \in Term,
         NEW granted \in BOOLEAN, inbox' \in {Taken(n), Responded(n, d, t, granted)}
  PROVE  \A k \in Node : \A m \in Queued(inbox', k) : m \in Queued(inbox, k) \/ ~Telling(m)
<1> DEFINE answer == [type |-> "responseVote", to |-> "candidate", id |-> d.id, term |-> t,
                      voteForTerm |-> d.term, voter |-> n, voteGranted |-> granted]
           q == Publish(Taken(n), {d.id}, "candidate", answer)
<1>1. n \in Node
  BY DEF IInv, TypeOK
<1>2. /\ Taken(n) \in [Node -> Seq(Message)]
      /\ \A k \in Node : Queued(Taken(n), k) \subseteq Queued(inbox, k)
  BY <1>1, ReceivedFacts
<1>3. answer \in Message /\ ~Telling(answer)
  BY <1>1 DEF Message, ResponseVote, RequestVote, Telling
<1>4. inbox' = Taken(n) \/ inbox' = q
  BY DEF Responded
<1> HIDE DEF answer
<1>5. \A k \in Node : \A m \in Queued(q, k) : m \in Queued(Taken(n), k) \/ m = answer
  BY <1>2, <1>3, PublishFacts
<1> HIDE DEF q
<1> QED
  BY <1>2, <1>3, <1>4, <1>5

LEMMA VoteLog ==
  ASSUME IInv, TypeOK', LogInv, Untroubled, NEW n \in alive, inbox[n] # <<>>, NEW d \in RequestVote,
         Vote(n, d) \/ Reject(n, d), role[n] # "leader", UNCHANGED <<log, elected>>,
         \A k \in Node : k # n => role'[k] = role[k]
  PROVE  LogInv'
<1>1. n \in Node /\ d.term \in Term /\ term[n] \in Term
  BY DEF IInv, TypeOK, RequestVote
<1>2. \E t \in Term, granted \in BOOLEAN : inbox' \in {Taken(n), Responded(n, d, t, granted)}
  <2>1. CASE Reject(n, d)
    BY <1>1, <2>1 DEF Reject
  <2>2. CASE Vote(n, d)
    <3>1. PICK granted \in BOOLEAN : granted = (IF AlreadyVoted(n, d) THEN lastVoteFor[n] = d.id ELSE ~OlderLog(n, d))
      OBVIOUS
    <3>2. inbox' = Responded(n, d, d.term, granted) \/ inbox' = Taken(n)
      BY <2>2, <3>1 DEF Vote
    <3> QED
      BY <1>1, <3>2
  <2> QED
    BY <2>1, <2>2
<1>3. \A k \in Node : \A m \in Queued(inbox', k) : m \in Queued(inbox, k) \/ ~Telling(m)
  BY <1>2, RespondedQueues
<1>4. \A k \in Node : role[k] = "leader" => role'[k] = "leader" /\ term'[k] = term[k]
  BY <1>1 DEF Vote, Reject, IInv, TypeOK
<1> QED
  BY <1>3, <1>4, LogAlone

LEMMA FollowerRequestVoteLog ==
  ASSUME IInv, TypeOK', LogInv, Untroubled, NEW n \in Node, FollowerRequestVote(n)
  PROVE  LogInv'
<1>1. Receives(n, "requestVote", "follower")
  BY DEF FollowerRequestVote
<1>2. inbox[n] # <<>> /\ Head(inbox[n]) \in RequestVote /\ role[n] = "follower" /\ n \in alive
  BY <1>1, RequestFacts
<1>3. UNCHANGED <<log, elected>> /\ UNCHANGED role
  BY DEF FollowerRequestVote, Reject
<1>4. Vote(n, Head(inbox[n])) \/ Reject(n, Head(inbox[n]))
  BY DEF FollowerRequestVote
<1> QED
  BY <1>2, <1>3, <1>4, VoteLog

LEMMA CandidateRequestVoteLog ==
  ASSUME IInv, TypeOK', LogInv, Untroubled, NEW n \in Node, CandidateRequestVote(n)
  PROVE  LogInv'
<1>1. Receives(n, "requestVote", "candidate")
  BY DEF CandidateRequestVote
<1>2. inbox[n] # <<>> /\ Head(inbox[n]) \in RequestVote /\ role[n] = "candidate" /\ n \in alive
  BY <1>1, RequestFacts
<1>3. UNCHANGED <<log, elected>> /\ \A k \in Node : k # n => role'[k] = role[k]
  BY DEF CandidateRequestVote, Reject, IInv, TypeOK
<1>4. Vote(n, Head(inbox[n])) \/ Reject(n, Head(inbox[n]))
  BY DEF CandidateRequestVote
<1> QED
  BY <1>2, <1>3, <1>4, VoteLog

LEMMA CandidateResponseVoteLog ==
  ASSUME IInv, TypeOK', LogInv, Untroubled, NEW n \in Node, CandidateResponseVote(n)
  PROVE  LogInv'
<1>1. inbox[n] # <<>> /\ role[n] = "candidate" /\ inbox' = Taken(n) /\ UNCHANGED log
  BY DEF CandidateResponseVote, Receives
<1>2. \/ UNCHANGED elected
      \/ elected' = elected \cup {<<term[n], n>>} /\ role' = [role EXCEPT ![n] = "leader"] /\ UNCHANGED term
  BY DEF CandidateResponseVote
<1>3. \A k \in Node : role[k] = "leader" => role'[k] = "leader" /\ term'[k] = term[k]
  BY <1>1 DEF CandidateResponseVote, IInv, TypeOK
<1>4. TypeOK /\ ServingLead
  BY DEF IInv, LogInv
<1>5. LeadersGrow
  BY <1>1, <1>2, <1>3 DEF LeadersGrow, Grows, log
<1>6. \A e \in elected' \ elected : role'[e[2]] = "leader" /\ term'[e[2]] = e[1]
  BY <1>2, <1>4 DEF TypeOK
<1>7. \A k \in Node : serving'[k] => role'[k] = "leader" /\ ~is_freshman'[k]
  BY <1>1, <1>3, <1>4 DEF ServingLead, log
<1>8. \A k \in Node : Moves(k)
  BY <1>1 DEF Moves, log
<1>9. \A k \in Node : Queued(inbox', k) \subseteq Queued(inbox, k)
  BY <1>1, ReceivedFacts
<1> QED
  BY <1>4, <1>5, <1>6, <1>7, <1>8, <1>9, LogKept

LEMMA FollowerHeartbeatLog ==
  ASSUME IInv, TypeOK', LogInv, Untroubled, NEW n \in Node, FollowerHeartbeat(n)
  PROVE  LogInv'
<1>1. inbox[n] # <<>> /\ role[n] = "follower" /\ inbox' = Taken(n) /\ UNCHANGED <<log, role, elected>>
  BY DEF FollowerHeartbeat, Receives, history
<1>2. \A k \in Node : role[k] = "leader" => role'[k] = "leader" /\ term'[k] = term[k]
  BY <1>1 DEF FollowerHeartbeat, IInv, TypeOK
<1> QED
  BY <1>1, <1>2, QueuedTaken, LogAlone

LEMMA CandidateHeartbeatLog ==
  ASSUME IInv, TypeOK', LogInv, Untroubled, NEW n \in Node, CandidateHeartbeat(n)
  PROVE  LogInv'
<1>1. inbox[n] # <<>> /\ role[n] = "candidate" /\ inbox' = Taken(n) /\ UNCHANGED <<log, elected>>
  BY DEF CandidateHeartbeat, Receives
<1>2. \A k \in Node : role[k] = "leader" => role'[k] = "leader" /\ term'[k] = term[k]
  BY <1>1 DEF CandidateHeartbeat, IInv, TypeOK
<1> QED
  BY <1>1, <1>2, QueuedTaken, LogAlone

(* Who steps down, or is updated before it listens, is an incident.        *)
LEMMA Troubles ==
  ASSUME IInv, TypeOK', LogInv, Untroubled, mishaps' = {}, NEW n \in Node,
         LeaderHeartbeat(n) \/ LeaderLosesItself(n) \/ UpdateUnregistered(n)
  PROVE  LogInv'
<1>1. ~LeaderLosesItself(n) /\ ~UpdateUnregistered(n) /\ \A t : ~StepDown(n, t)
  BY DEF LeaderLosesItself, UpdateUnregistered, StepDown
<1>2. /\ UNCHANGED <<place, role, term, leaderId, votes, log, history>>
      /\ inbox[n] # <<>> /\ inbox' = Taken(n)
  BY <1>1 DEF LeaderHeartbeat, Receives
<1> QED
  BY <1>2, QueuedTaken, LogAlone DEF history

LEMMA ServeLog ==
  ASSUME IInv, TypeOK', LogInv, Untroubled, NEW n \in Node, Serve(n)
  PROVE  LogInv'
<1>1. TypeOK /\ ServingLead
  BY DEF IInv, LogInv
<1>2. LeadersGrow
  BY DEF Serve, LeadersGrow, Grows, history
<1>3. \A k \in Node : serving'[k] => role'[k] = "leader" /\ ~is_freshman'[k]
  BY <1>1 DEF ServingLead, Serve, TypeOK
<1>4. \A k \in Node : Moves(k)
  BY <1>1 DEF Moves, Serve, TypeOK
<1>5. \A k \in Node : Queued(inbox', k) = Queued(inbox, k)
  BY DEF Queued, Serve
<1>6. elected' = elected
  BY DEF Serve, history
<1> QED
  BY <1>1, <1>2, <1>3, <1>4, <1>5, <1>6, LogKept

(* What a leader held when a step began, it holds after it.                *)
LEMMA HeldAfter ==
  ASSUME TypeOK, TypeOK', LeadersStay, LeadersGrow, NEW l \in Node, NEW c \in Int, NEW t, NEW x,
         <<t, l>> \in elected, c <= commitId[l], x = Prefix(l, c)
  PROVE  HeldAt(c, t, x)'
<1>1. HeldAt(c, t, x)
  BY DEF HeldAt
<1> QED
  BY <1>1, HeldKept

LEMMA UpdateDataLog ==
  ASSUME IInv, TypeOK', LogInv, Untroubled, NEW n \in Node, UpdateData(n)
  PROVE  LogInv'
<1> DEFINE u == <<n, term[n]>>
           entry == [type |-> "appendEntry", to |-> "follower", id |-> n, term |-> term[n],
                     prevLogIndex |-> commitId[n], prevLogTerm |-> prevLogTerm[n], data |-> u]
           q == Publish(inbox, Node \ {n}, "follower", entry)
<1>1. TypeOK /\ LeadersStay /\ ServingLead /\ PositionsHeld /\ u \in Update
  BY DEF IInv, LogInv, TypeOK, Update
<1>2. PICK c \in Int : c = commitId[n]
  BY <1>1 DEF TypeOK
<1>3. PICK s \in Seq(Update) : s = data[n]
  BY <1>1 DEF TypeOK
<1>4. PICK t \in Term : t = prevLogTerm[n]
  BY <1>1 DEF TypeOK
<1>5. /\ data' = [data EXCEPT ![n] = Append(@, u)] /\ commitId' = [commitId EXCEPT ![n] = @ + 1]
      /\ prevLogTerm' = [prevLogTerm EXCEPT ![n] = term[n]] /\ inbox' = q
      /\ UNCHANGED <<role, term, serving, is_freshman, elected>>
      /\ role[n] = "leader" /\ serving[n]
  BY DEF UpdateData, history
<1>6. data'[n] = Append(s, u) /\ commitId'[n] = c + 1 /\ prevLogTerm'[n] = term[n]
  BY <1>1, <1>2, <1>3, <1>5 DEF TypeOK
<1>7. \A k \in Node : k # n =>
        data'[k] = data[k] /\ commitId'[k] = commitId[k] /\ prevLogTerm'[k] = prevLogTerm[k]
  BY <1>1, <1>5 DEF TypeOK
<1>8. <<term[n], n>> \in elected /\ ~is_freshman[n]
  BY <1>1, <1>5 DEF ServingLead, IInv, VoteInv, LeadersElected
<1> HIDE DEF u
<1>9. \A k \in Node : Grows(k)
  BY <1>1, <1>2, <1>3, <1>6, <1>7 DEF Grows
<1>10. LeadersGrow
  BY <1>5, <1>9 DEF LeadersGrow
<1>11. Prefix(n, c + 1)' = Append(s, u) /\ c + 1 <= commitId'[n]
  <2>1. SubSeq(Append(s, u), 1, Len(Append(s, u)) - ((c + 1) - (c + 1))) = Append(s, u)
    BY <1>1, PrefixWhole
  <2>2. Prefix(n, c + 1)' = SubSeq(data'[n], 1, Len(data'[n]) - (commitId'[n] - (c + 1)))
    BY DEF Prefix
  <2> QED
    BY <1>6, <2>1, <2>2
<1>12. Prefix(n, c)' = s
  <2>1. Prefix(n, c) = s
    <3>1. Prefix(n, c) = SubSeq(data[n], 1, Len(data[n]) - (commitId[n] - c))
      BY DEF Prefix
    <3> QED
      BY <1>2, <1>3, <3>1, PrefixWhole
  <2>2. c <= commitId[n]
    BY <1>2
  <2> QED
    BY <1>1, <1>9, <2>1, <2>2, PrefixKept
<1>13. Moves(n)
  <2>1. PICK p, v, x : p = c + 1 /\ v = term[n] /\ x = Append(s, u)
    OBVIOUS
  <2>2. p = commitId'[n] /\ v = prevLogTerm'[n] /\ x = data'[n] /\ <<v, n>> \in elected'
    BY <1>5, <1>6, <1>8, <2>1
  <2>3. p <= commitId'[n] /\ x = Prefix(n, p)'
    BY <1>11, <2>1 DEF Prefix
  <2>4. HeldAt(p, v, x)'
    BY <2>2, <2>3 DEF HeldAt
  <2> QED
    BY <1>5, <1>8, <2>2, <2>4 DEF Moves, HeldAt
<1>14. \A k \in Node : Moves(k)
  BY <1>5, <1>7, <1>13 DEF Moves
<1>15. entry \in Message
  BY <1>1 DEF TypeOK, Message, AppendEntry
<1>16. PICK e \in Message : e = entry
  BY <1>15
<1>17. Tells(e)'
  <2>1. /\ e.type = "appendEntry" /\ e.to = "follower" /\ e.term = term[n]
        /\ e.prevLogIndex = c /\ e.prevLogTerm = t /\ e.data = u
    BY <1>2, <1>4, <1>16
  <2>2. <<e.term, n>> \in elected' /\ c + 1 <= commitId'[n]
    BY <1>5, <1>8, <1>11, <2>1
  <2>3. Prefix(n, c + 1)' = Append(Prefix(n, c)', u)
    BY <1>11, <1>12
  <2>4. ASSUME c # -1
        PROVE  HeldAt(c, t, Prefix(n, c))'
    <3>1. HeldAt(c, t, s)
      BY <1>1, <1>2, <1>3, <1>4, <2>4 DEF PositionsHeld
    <3>2. HeldAt(c, t, s)'
      BY <1>1, <1>10, <3>1, HeldKept
    <3> QED
      BY <1>12, <3>2 DEF HeldAt
  <2> QED
    BY <2>1, <2>2, <2>3, <2>4 DEF Tells
<1> HIDE DEF entry
<1>18. \A k \in Node : \A m \in Queued(inbox', k) : m \in Queued(inbox, k) \/ Tells(m)'
  <2>1. inbox \in [Node -> Seq(Message)]
    BY <1>1 DEF TypeOK
  <2>2. \A k \in Node : \A m \in Queued(q, k) : m \in Queued(inbox, k) \/ m = entry
    BY <1>15, <2>1, PublishFacts
  <2>3. \A k \in Node : Queued(inbox', k) = Queued(q, k)
    BY <1>5 DEF Queued
  <2>4. \A m : m = e => Tells(m)'
    BY <1>17
  <2> HIDE DEF q
  <2> QED
    BY <1>16, <2>2, <2>3, <2>4
<1>19. \A k \in Node : serving'[k] => role'[k] = "leader" /\ ~is_freshman'[k]
  BY <1>1, <1>5 DEF ServingLead
<1> QED
  BY <1>1, <1>5, <1>10, <1>14, <1>18, <1>19, LogKept

LEMMA LeaderInstallSnapshotLog ==
  ASSUME IInv, TypeOK', LogInv, Untroubled, NEW n \in Node, LeaderInstallSnapshot(n)
  PROVE  LogInv'
<1> DEFINE d == Head(inbox[n])
           snapshot == [type |-> "installSnapshot", to |-> "follower", id |-> n, term |-> term[n],
                        commitId |-> commitId[n], data |-> data[n]]
           q == Publish(Taken(n), {d.id}, "follower", snapshot)
<1>1. TypeOK /\ LeadersStay /\ ServingLead /\ inbox[n] # <<>> /\ role[n] = "leader"
  BY DEF IInv, LogInv, LeaderInstallSnapshot, Receives
<1>2. /\ Taken(n) \in [Node -> Seq(Message)]
      /\ \A k \in Node : Queued(Taken(n), k) \subseteq Queued(inbox, k)
  BY <1>1, ReceivedFacts
<1>3. inbox' = Taken(n) \/ inbox' = q
  BY DEF LeaderInstallSnapshot
<1>4. snapshot \in Message
  BY <1>1 DEF Message, Snapshot, TypeOK
<1>5. UNCHANGED <<role, term, log, elected>>
  BY DEF LeaderInstallSnapshot, history
<1>6. LeadersGrow
  BY <1>5 DEF LeadersGrow, Grows, log
<1>7. PICK e \in Message : e = snapshot
  BY <1>4
<1>8. Tells(e)'
  <2>1. PICK c \in Int, s \in Seq(Update) : c = commitId[n] /\ s = data[n]
    BY <1>1 DEF TypeOK
  <2>2. s = Prefix(n, c) /\ c <= commitId[n]
    BY <2>1, PrefixWhole DEF Prefix
  <2>3. <<term[n], n>> \in elected
    BY <1>1 DEF IInv, VoteInv, LeadersElected
  <2>4. PICK t : t = term[n]
    OBVIOUS
  <2>5. HeldAt(c, t, s)'
    BY <1>1, <1>6, <2>2, <2>3, <2>4, HeldAfter
  <2>6. e.type = "installSnapshot" /\ e.commitId = c /\ e.term = t /\ e.data = s
    BY <1>7, <2>1, <2>4
  <2>7. \A p, v, x : p = c /\ v = t /\ x = s => HeldAt(p, v, x)'
    BY <2>5
  <2>8. HeldAt(e.commitId, e.term, e.data)'
    BY <2>6, <2>7
  <2> QED
    BY <2>6, <2>8 DEF Tells
<1> HIDE DEF d, snapshot
<1>9. \A k \in Node : \A m \in Queued(inbox', k) : m \in Queued(inbox, k) \/ Tells(m)'
  <2>1. \A k \in Node : \A m \in Queued(q, k) : m \in Queued(Taken(n), k) \/ m = snapshot
    BY <1>2, <1>4, PublishFacts
  <2>2. \A k \in Node : Queued(inbox', k) = Queued(q, k) \/ Queued(inbox', k) = Queued(Taken(n), k)
    BY <1>3 DEF Queued
  <2>3. \A m : m = e => Tells(m)'
    BY <1>8
  <2> HIDE DEF q
  <2> QED
    BY <1>2, <1>7, <2>1, <2>2, <2>3
<1>10. \A k \in Node : Moves(k)
  BY <1>5 DEF Moves, log
<1>11. \A k \in Node : serving'[k] => role'[k] = "leader" /\ ~is_freshman'[k]
  BY <1>1, <1>5 DEF ServingLead, log
<1> QED
  BY <1>1, <1>5, <1>6, <1>9, <1>10, <1>11, LogKept

LEMMA FollowerInstallSnapshotLog ==
  ASSUME IInv, TypeOK', LogInv, Untroubled, NEW n \in Node, FollowerInstallSnapshot(n)
  PROVE  LogInv'
<1> DEFINE d == Head(inbox[n])
<1>1. TypeOK /\ LeadersStay /\ ServingLead /\ MessagesTell
  BY DEF IInv, LogInv
<1>2. /\ inbox[n] # <<>> /\ d.type = "installSnapshot" /\ d.to = "follower"
      /\ role[n] = "follower" /\ inbox' = Taken(n)
      /\ UNCHANGED <<role, serving, elected>>
  BY DEF FollowerInstallSnapshot, Receives, history
<1>3. d \in Message /\ d \in Queued(inbox, n)
  BY <1>1, <1>2, TakenFacts DEF TypeOK
<1>4. \/ UNCHANGED <<commitId, term, prevLogTerm, data, is_freshman>>
      \/ /\ commitId' = [commitId EXCEPT ![n] = d.commitId]
         /\ term' = [term EXCEPT ![n] = d.term]
         /\ prevLogTerm' = [prevLogTerm EXCEPT ![n] = d.term]
         /\ data' = [data EXCEPT ![n] = d.data]
         /\ is_freshman' = [is_freshman EXCEPT ![n] = FALSE]
  BY DEF FollowerInstallSnapshot
<1> HIDE DEF d
<1>5. d.commitId \in Int /\ HeldAt(d.commitId, d.term, d.data)
  BY <1>1, <1>2, <1>3, MessageKinds DEF MessagesTell, Tells, Snapshot
<1>6. \A k \in Node : k # n =>
        UNCHANGED <<commitId[k], term[k], prevLogTerm[k], data[k], is_freshman[k]>>
  BY <1>1, <1>4 DEF TypeOK
<1>7. LeadersGrow
  BY <1>2, <1>6 DEF LeadersGrow, Grows
<1>8. Moves(n)
  <2>1. CASE UNCHANGED <<commitId, term, prevLogTerm, data, is_freshman>>
    BY <2>1 DEF Moves
  <2>2. CASE /\ commitId' = [commitId EXCEPT ![n] = d.commitId]
             /\ term' = [term EXCEPT ![n] = d.term]
             /\ prevLogTerm' = [prevLogTerm EXCEPT ![n] = d.term]
             /\ data' = [data EXCEPT ![n] = d.data]
             /\ is_freshman' = [is_freshman EXCEPT ![n] = FALSE]
    <3>1. PICK c \in Int, t \in {d.term}, x \in {d.data} : c = d.commitId /\ t = d.term /\ x = d.data
      BY <1>5
    <3>2. HeldAt(c, t, x)'
      BY <1>1, <1>5, <1>7, <3>1, HeldKept
    <3>3. c = commitId'[n] /\ t = prevLogTerm'[n] /\ x = data'[n] /\ ~is_freshman'[n]
      BY <1>1, <2>2, <3>1 DEF TypeOK
    <3> QED
      BY <3>2, <3>3 DEF Moves, HeldAt
  <2> QED
    BY <1>4, <2>1, <2>2
<1>9. \A k \in Node : Moves(k)
  BY <1>6, <1>8 DEF Moves
<1>10. \A k \in Node : serving'[k] => role'[k] = "leader" /\ ~is_freshman'[k]
  BY <1>1, <1>2, <1>6 DEF ServingLead
<1>11. \A k \in Node : Queued(inbox', k) \subseteq Queued(inbox, k)
  BY <1>2, ReceivedFacts
<1> QED
  BY <1>1, <1>2, <1>7, <1>9, <1>10, <1>11, LogKept

(* An entry that continues a follower's log continues what the leader had  *)
(* at that position.                                                       *)
LEMMA FollowerAppendEntryLog ==
  ASSUME IInv, TypeOK', LogInv, Untroubled, NEW n \in Node, FollowerAppendEntry(n)
  PROVE  LogInv'
<1> DEFINE d == Head(inbox[n])
           request == [type |-> "installSnapshot", to |-> "leader", id |-> n, leaderId |-> d.id]
           q == Publish(Taken(n), {d.id}, "leader", request)
<1>1. TypeOK /\ LeadersStay /\ ServingLead /\ MessagesTell /\ PositionsHeld /\ TermsWonOnce
  BY DEF IInv, LogInv, Untroubled
<1>2. /\ inbox[n] # <<>> /\ d.type = "appendEntry" /\ role[n] = "follower"
      /\ UNCHANGED <<role, serving, is_freshman, elected>>
  BY DEF FollowerAppendEntry, Receives, history
<1>3. d \in Message /\ d \in Queued(inbox, n)
  BY <1>1, <1>2, TakenFacts DEF TypeOK
<1>4. /\ Taken(n) \in [Node -> Seq(Message)]
      /\ \A k \in Node : Queued(Taken(n), k) \subseteq Queued(inbox, k)
  BY <1>2, ReceivedFacts
<1>5. d \in AppendEntry
  BY <1>2, <1>3, MessageKinds
<1>6. inbox' = Taken(n) \/ inbox' = q
  BY DEF FollowerAppendEntry
<1>7. request \in Message /\ ~Telling(request)
  BY <1>5 DEF Message, SnapshotRequest, AppendEntry, Telling
<1>8. \A k \in Node : k # n => UNCHANGED <<commitId[k], term[k], prevLogTerm[k], data[k]>>
  BY <1>1 DEF FollowerAppendEntry, TypeOK
<1>9. \/ UNCHANGED <<commitId, prevLogTerm, data>>
      \/ /\ Continues(n, d)
         /\ commitId' = [commitId EXCEPT ![n] = @ + 1]
         /\ prevLogTerm' = [prevLogTerm EXCEPT ![n] = d.term]
         /\ data' = IF is_freshman[n] THEN data ELSE [data EXCEPT ![n] = Append(@, d.data)]
  BY DEF FollowerAppendEntry
<1> HIDE DEF d, request
<1>10. \A k \in Node : \A m \in Queued(q, k) : m \in Queued(Taken(n), k) \/ m = request
  BY <1>4, <1>7, PublishFacts
<1> HIDE DEF q
<1>11. \A k \in Node : \A m \in Queued(inbox', k) : m \in Queued(inbox, k) \/ ~Telling(m)
  BY <1>4, <1>6, <1>7, <1>10 DEF Queued
<1>12. \A k \in Node : \A m \in Queued(inbox', k) : m \in Queued(inbox, k) \/ Tells(m)'
  BY <1>11 DEF Telling, Tells
<1>13. LeadersGrow
  BY <1>2, <1>8 DEF LeadersGrow, Grows
<1>14. ASSUME Continues(n, d),
              commitId' = [commitId EXCEPT ![n] = @ + 1],
              prevLogTerm' = [prevLogTerm EXCEPT ![n] = d.term],
              data' = IF is_freshman[n] THEN data ELSE [data EXCEPT ![n] = Append(@, d.data)]
       PROVE  Moves(n)
  <2>1. PICK c \in Int : c = commitId[n]
    BY <1>1 DEF TypeOK
  <2>2. c # -1 /\ c = d.prevLogIndex /\ prevLogTerm[n] = d.prevLogTerm
    BY <1>14, <2>1 DEF Continues
  <2>3. ~is_freshman[n] /\ HeldAt(c, d.prevLogTerm, data[n])
    BY <1>1, <2>1, <2>2 DEF PositionsHeld
  <2>4. PICK l \in Node :
           /\ <<d.term, l>> \in elected /\ c + 1 <= commitId[l]
           /\ HeldAt(c, d.prevLogTerm, Prefix(l, c))
           /\ Prefix(l, c + 1) = Append(Prefix(l, c), d.data)
    <3>1. Tells(d)
      BY <1>1, <1>3 DEF MessagesTell
    <3> QED
      BY <1>2, <2>2, <3>1 DEF Tells
  <2>5. data[n] = Prefix(l, c)
    BY <1>1, <2>3, <2>4, HeldOnce
  <2>6. PICK x, t : x = Append(data[n], d.data) /\ t = d.term
    OBVIOUS
  <2>7. HeldAt(c + 1, t, x)'
    <3>1. x = Prefix(l, c + 1) /\ c + 1 \in Int
      BY <2>4, <2>5, <2>6
    <3> QED
      BY <1>1, <1>13, <2>4, <2>6, <3>1, HeldAfter
  <2>8. commitId'[n] = c + 1 /\ prevLogTerm'[n] = t /\ data'[n] = x /\ ~is_freshman'[n]
    BY <1>1, <1>2, <1>14, <2>1, <2>3, <2>6 DEF TypeOK
  <2> QED
    BY <2>7, <2>8 DEF Moves, HeldAt
<1>15. \A k \in Node : Moves(k)
  <2>1. Moves(n)
    BY <1>2, <1>9, <1>14 DEF Moves
  <2> QED
    BY <1>2, <1>8, <2>1 DEF Moves
<1>16. \A k \in Node : serving'[k] => role'[k] = "leader" /\ ~is_freshman'[k]
  BY <1>1, <1>2 DEF ServingLead
<1> QED
  BY <1>1, <1>2, <1>12, <1>13, <1>15, <1>16, LogKept

LEMMA InitLog ==
  ASSUME Init
  PROVE  LogInv
BY DEF Init, LogInv, LeadersStay, ServingLead, PositionsHeld, MessagesTell, Queued

(* An incident, or a term won twice, is never undone.                      *)
LEMMA TroubledForGood ==
  ASSUME [Next]_vars
  PROVE  mishaps \subseteq mishaps' /\ elected \subseteq elected'
<1>1. ASSUME NEW n \in Node, Handle(n)
      PROVE  mishaps \subseteq mishaps' /\ elected \subseteq elected'
  BY <1>1 DEF Handle, FollowerRequestVote, CandidateRequestVote, CandidateResponseVote,
     FollowerHeartbeat, CandidateHeartbeat, LeaderHeartbeat, StepDown, FollowerAppendEntry,
     LeaderInstallSnapshot, FollowerInstallSnapshot, history
<1>2. ASSUME NEW n \in Node, Lead(n)
      PROVE  mishaps \subseteq mishaps' /\ elected \subseteq elected'
  BY <1>2 DEF Lead, SendHeartbeat, LeaderLosesItself, StepDown, Serve, UpdateUnregistered,
     UpdateData, history
<1>3. ASSUME NEW n \in Node, BecomeCandidate(n) \/ Lose(n) \/ Crash(n) \/ Start(n)
      PROVE  mishaps \subseteq mishaps' /\ elected \subseteq elected'
  BY <1>3 DEF BecomeCandidate, Lose, Crash, Start, history
<1> QED
  BY <1>1, <1>2, <1>3 DEF Next, vars, history

LEMMA NextLog ==
  ASSUME ElectionAssumption, IInv, TypeOK', LogInv, [Next]_vars
  PROVE  LogInv'
<1> SUFFICES ASSUME Untroubled'
             PROVE  LogInv'
  BY DEF LogInv
<1>1. Untroubled /\ mishaps' = {}
  BY TroubledForGood DEF Untroubled, TermsWonOnce
<1>2. CASE UNCHANGED vars
  <2>1. \A k \in Node : Queued(inbox', k) = Queued(inbox, k)
    BY <1>2 DEF vars, Queued
  <2> QED
    BY <1>1, <1>2, <2>1, LogAlone DEF vars, history
<1>3. ASSUME NEW n \in Node, Handle(n)
      PROVE  LogInv'
  BY <1>1, <1>3, FollowerRequestVoteLog, CandidateRequestVoteLog, CandidateResponseVoteLog,
     FollowerHeartbeatLog, CandidateHeartbeatLog, Troubles, FollowerAppendEntryLog,
     LeaderInstallSnapshotLog, FollowerInstallSnapshotLog DEF Handle
<1>4. ASSUME NEW n \in Node, Lead(n)
      PROVE  LogInv'
  BY <1>1, <1>4, SendHeartbeatLog, Troubles, ServeLog, UpdateDataLog DEF Lead
<1>5. ASSUME NEW n \in Node, BecomeCandidate(n) \/ Lose(n) \/ Crash(n) \/ Start(n)
      PROVE  LogInv'
  BY <1>1, <1>5, BecomeCandidateLog, LoseLog, CrashLog, StartLog
<1> QED
  BY <1>2, <1>3, <1>4, <1>5 DEF Next

(* For any number of managers, updates, losses and restarts: without one   *)
(* of the recorded incidents and a term won twice, two replicas at the     *)
(* same log position hold the same data.                                   *)
THEOREM ElectionReplicas == Spec => []ReplicasAgree
<1>1. ElectionAssumption /\ Init => IInv /\ LogInv
  BY InitIInv, InitLog
<1>2. ElectionAssumption /\ IInv /\ LogInv /\ [Next]_vars => (IInv /\ LogInv)'
  BY NextIInv, NextLog DEF IInv
<1>3. IInv /\ LogInv => ReplicasAgree
  <2> SUFFICES ASSUME IInv, LogInv, Untroubled, NEW m \in alive, NEW n \in alive, SamePosition(m, n)
               PROVE  data[m] = data[n]
    BY DEF ReplicasAgree, Untroubled
  <2>1. m \in Node /\ n \in Node
    BY DEF IInv, TypeOK
  <2>2. PICK c, t : c = commitId[m] /\ t = prevLogTerm[m]
    OBVIOUS
  <2>3. HeldAt(c, t, data[m]) /\ HeldAt(c, t, data[n])
    BY <2>1, <2>2 DEF LogInv, PositionsHeld, SamePosition
  <2> QED
    BY <2>3, HeldOnce DEF Untroubled
<1> QED
  BY <1>1, <1>2, <1>3, PTL, ElectionAssumption DEF Spec
=============================================================================
