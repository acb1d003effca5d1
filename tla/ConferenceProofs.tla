-------------------------- MODULE ConferenceProofs --------------------------
(***************************************************************************)
(* What holds of a conference with any number of participants, streams and *)
(* subscriptions, however late its calls are answered and whatever fails.  *)
(***************************************************************************)
EXTENDS Conference, FiniteSetTheorems, WellFoundedInduction, TLAPS

Ids == Streams \cup Subs
People == Users \cup {Admin}

(* Dictionaries with some of the keys K and values in V.                   *)
Tables(K, V) == UNION {[S -> V] : S \in SUBSET K}

StreamSpecs == [owner : People]
SubSpecs == [owner : People, from : Streams]
Specs == StreamSpecs \cup SubSpecs
StreamRecords == [owner : People, up : BOOLEAN]
SubRecords == [owner : People, from : Streams, up : BOOLEAN]
SessionRecords == [state : {"initialized", "connecting", "connected"}, ready : BOOLEAN, spec : Specs]
OpRecords == [trans : Ids, done : BOOLEAN, spec : Specs]
TransRecords == [owner : People, ready : BOOLEAN]
Mishaps == {"removal_threw", "not_terminated", "revived", "dropped", "late_node"}
Leavings == [waits : SUBSET Ids, trans : SUBSET Ids]

NodeCalls == [call : {"node"}, id : Ids, spec : Specs]
InitiateCalls == [call : {"initiate"}, id : Ids, spec : Specs, served : BOOLEAN]
TerminateCalls == [call : {"terminate"}, id : Ids, why : {"asked", "left", "session", "late"}]
RecycleCalls == [call : {"recycle"}, id : Ids, why : {"session", "late"}]
SubscribeCalls == [call : {"subscribe"}, id : Subs, owner : People, from : Streams]
DropCalls == [call : {"drop"}, id : Users]
Calls == NodeCalls \cup InitiateCalls \cup TerminateCalls \cup RecycleCalls \cup SubscribeCalls \cup DropCalls

ConfType ==
  [users : SUBSET Users, met : SUBSET Users,
   streams : Tables(Streams, StreamRecords), subs : Tables(Subs, SubRecords), before : SUBSET (Subs \X Subs),
   pub : SUBSET Streams, taken : Tables(Subs, Streams),
   sessions : Tables(Ids, SessionRecords), ops : Tables(Ids, OpRecords), trans : Tables(Ids, TransRecords),
   calls : SUBSET Calls, polls : SUBSET Ids, leaving : SUBSET Leavings, used : SUBSET Ids,
   mishaps : SUBSET Mishaps]

(* Of two subscriptions one is the first.                                  *)
Lined(R) ==
  /\ \A p \in R.before : p[1] \in DOMAIN R.subs /\ p[2] \in DOMAIN R.subs
  /\ \A x, y \in DOMAIN R.subs : x # y => (<<x, y>> \in R.before <=> <<y, x>> \notin R.before)

(* The room controller has what is ready.                                  *)
InRoom(R) ==
  /\ \A s \in Streams : s \in R.pub <=> s \in DOMAIN R.streams /\ R.streams[s].up
  /\ \A x \in Subs : x \in DOMAIN R.taken <=> x \in DOMAIN R.subs /\ R.subs[x].up /\ R.subs[x].from \in R.pub
  /\ \A x \in DOMAIN R.taken : R.taken[x] = R.subs[x].from

Good(R) == R \in ConfType /\ Lined(R) /\ InRoom(R)

(* What a table is a part of.                                              *)
Part(f, g) == DOMAIN g \subseteq DOMAIN f /\ \A d \in DOMAIN g : g[d] = f[d]

Ended(R, i, whys) == \E c \in R.calls : c.call = "terminate" /\ c.id = i /\ c.why \in whys
Operation == {"asked", "left"}

(* What ending changes nothing of.                                         *)
Still(R, Q) ==
  /\ Q.users = R.users /\ Q.met = R.met /\ Q.ops = R.ops /\ Q.trans = R.trans
  /\ Q.polls = R.polls /\ Q.leaving = R.leaving /\ Q.used = R.used

(* Nor ending and listing of what is carried.                              *)
ListsStill(R, Q) ==
  Q.streams = R.streams /\ Q.subs = R.subs /\ Q.before = R.before /\ Q.pub = R.pub /\ Q.taken = R.taken

(* Everything but who is in the room.                                      *)
StillButUsers(R, Q) ==
  /\ ListsStill(R, Q)
  /\ Q.met = R.met /\ Q.ops = R.ops /\ Q.trans = R.trans /\ Q.polls = R.polls
  /\ Q.leaving = R.leaving /\ Q.used = R.used
  /\ Q.sessions = R.sessions /\ Q.calls = R.calls /\ Q.mishaps = R.mishaps

Owned(R, u) == {x \in DOMAIN R.subs : R.subs[x].owner = u} \cup {s \in DOMAIN R.streams : R.streams[s].owner = u}

(* What i may have been started with.                                      *)
SpecsOf(i) == IF i \in Streams THEN StreamSpecs ELSE SubSpecs

(* Q is R where the streams among `is' are ready, and where the room        *)
(* controller is asked to subscribe the others.                            *)
Enters(R, Q, is) ==
  /\ Good(Q) /\ Still(R, Q)
  /\ Q.subs = R.subs /\ Q.sessions = R.sessions /\ R.mishaps \subseteq Q.mishaps
  /\ \A s : s \in Q.pub <=> s \in R.pub \/ s \in is \cap Streams
  /\ \A s : s \in DOMAIN Q.streams <=> s \in DOMAIN R.streams \/ s \in is \cap Streams
  /\ \A s \in DOMAIN Q.streams :
       Q.streams[s] = IF s \in is THEN [owner |-> SpecOf(R, s).owner, up |-> TRUE] ELSE R.streams[s]
  /\ Q.mishaps = {} => is \cap Streams \subseteq DOMAIN R.streams
  /\ R.calls \subseteq Q.calls
  /\ \A c \in Q.calls : c \notin R.calls =>
       /\ c.call = "subscribe" /\ c.id \in is /\ c.id \notin Streams
       /\ c.owner = SpecOf(R, c.id).owner /\ c.from = SpecOf(R, c.id).from
  /\ \A x \in is \ Streams : \E c \in Q.calls : c.call = "subscribe" /\ c.id = x

(* No removal of a stream was cut short.                                   *)
Unthrown(R) == "removal_threw" \notin R.mishaps

Smoothly(R, Q) == Q.mishaps = R.mishaps /\ Q.sessions = R.sessions
CarriersStill(R, Q) == Q.sessions = R.sessions /\ Q.calls = R.calls /\ Q.mishaps = R.mishaps
RoomStill(R, Q) == Q.streams = R.streams /\ Q.pub = R.pub /\ Q.taken = R.taken

(* Calls are made for what was begun only.                                 *)
CallsEnd(R, Q) ==
  \A c \in Q.calls : c \notin R.calls =>
    /\ c.call = "terminate"
    /\ \/ c.why \in Operation /\ c.id \in DOMAIN R.ops
       \/ c.why = "session" /\ c.id \in DOMAIN R.sessions /\ R.sessions[c.id].state # "initialized"

(* Who is not one of D, and no longer listed, was a session that is ended. *)
GoneEnded(R, Q, D) ==
  \A i \in Ids : i \notin D /\ Listed(R, i) /\ ~Listed(Q, i) =>
    i \in DOMAIN R.sessions /\ (i \in DOMAIN Q.sessions => Ended(Q, i, {"session"}))

(* A session that is ended is no longer listed.                            *)
EndedGone(R, Q) ==
  \A i \in DOMAIN R.sessions :
    i \notin DOMAIN Q.sessions \/ (Ended(Q, i, {"session"}) /\ ~Ended(R, i, {"session"})) => ~Listed(Q, i)

(* Who loses its source is an operation that is ended, or yet to start.    *)
SourceEnded(R, Q) ==
  \A x \in DOMAIN Q.subs :
    R.subs[x].from \in DOMAIN R.streams /\ R.subs[x].from \notin DOMAIN Q.streams =>
      x \notin DOMAIN R.sessions /\ (x \in DOMAIN R.ops => Ended(Q, x, Operation))

(* Q is R with streams and subscriptions removed, D among them, and with   *)
(* sessions and operations ended.                                          *)
Fades(R, Q, D) ==
  /\ Good(Q) /\ Still(R, Q)
  /\ R.mishaps \subseteq Q.mishaps /\ Q.pub \subseteq R.pub
  /\ Part(R.streams, Q.streams) /\ Part(R.subs, Q.subs) /\ Part(R.sessions, Q.sessions)
  /\ R.calls \subseteq Q.calls /\ CallsEnd(R, Q)
  /\ \A i \in DOMAIN R.sessions : i \in DOMAIN Q.sessions \/ R.sessions[i].state = "initialized"
  /\ Unthrown(Q) => GoneEnded(R, Q, D) /\ EndedGone(R, Q) /\ SourceEnded(R, Q)

-----------------------------------------------------------------------------
(* Dictionaries.                                                           *)
LEMMA TableFacts ==
  ASSUME NEW K, NEW V, NEW f \in Tables(K, V)
  PROVE  DOMAIN f \subseteq K /\ \A d \in DOMAIN f : f[d] \in V
BY DEF Tables

LEMMA PutFacts ==
  ASSUME NEW K, NEW V, NEW f \in Tables(K, V), NEW e \in K, NEW v \in V
  PROVE  /\ Put(f, e, v) \in Tables(K, V)
         /\ \A d : d \in DOMAIN Put(f, e, v) <=> d \in DOMAIN f \/ d = e
         /\ Put(f, e, v)[e] = v
         /\ \A d \in DOMAIN f : d # e => Put(f, e, v)[d] = f[d]
<1>1. PICK S \in SUBSET K : f \in [S -> V]
  BY DEF Tables
<1>2. Put(f, e, v) \in [S \cup {e} -> V]
  BY <1>1 DEF Put
<1>3. S \cup {e} \in SUBSET K
  BY <1>1
<1> QED
  BY <1>1, <1>2, <1>3 DEF Put, Tables

LEMMA RestrictFacts ==
  ASSUME NEW K, NEW V, NEW f \in Tables(K, V), NEW T, T \subseteq DOMAIN f
  PROVE  /\ Restrict(f, T) \in Tables(K, V)
         /\ \A d : d \in DOMAIN Restrict(f, T) <=> d \in T
         /\ \A d \in T : Restrict(f, T)[d] = f[d]
<1>1. PICK S \in SUBSET K : f \in [S -> V]
  BY DEF Tables
<1>2. Restrict(f, T) \in [T -> V]
  BY <1>1 DEF Restrict
<1>3. T \in SUBSET K
  BY <1>1
<1> QED
  BY <1>1, <1>2, <1>3 DEF Restrict, Tables

LEMMA WithoutFacts ==
  ASSUME NEW K, NEW V, NEW f \in Tables(K, V), NEW es
  PROVE  /\ WithoutAll(f, es) \in Tables(K, V)
         /\ \A d : d \in DOMAIN WithoutAll(f, es) <=> d \in DOMAIN f /\ d \notin es
         /\ Part(f, WithoutAll(f, es))
BY RestrictFacts DEF WithoutAll, Part

LEMMA PartTrans ==
  ASSUME NEW f, NEW g, NEW h, Part(f, g), Part(g, h)
  PROVE  Part(f, h)
BY DEF Part

-----------------------------------------------------------------------------
(* What ending does to the record.                                         *)
LEMMA ConfFacts ==
  ASSUME NEW R \in ConfType
  PROVE  /\ R.users \subseteq Users /\ R.met \subseteq Users
         /\ R.streams \in Tables(Streams, StreamRecords) /\ R.subs \in Tables(Subs, SubRecords)
         /\ R.before \subseteq Subs \X Subs /\ R.pub \subseteq Streams /\ R.taken \in Tables(Subs, Streams)
         /\ R.sessions \in Tables(Ids, SessionRecords) /\ R.ops \in Tables(Ids, OpRecords)
         /\ R.trans \in Tables(Ids, TransRecords) /\ R.calls \subseteq Calls
         /\ R.polls \subseteq Ids /\ R.leaving \subseteq Leavings /\ R.used \subseteq Ids /\ R.mishaps \subseteq Mishaps
BY DEF ConfType

LEMMA KeyFacts ==
  ASSUME NEW R \in ConfType
  PROVE  /\ DOMAIN R.streams \subseteq Streams /\ DOMAIN R.subs \subseteq Subs /\ DOMAIN R.taken \subseteq Subs
         /\ DOMAIN R.sessions \subseteq Ids /\ DOMAIN R.ops \subseteq Ids /\ DOMAIN R.trans \subseteq Ids
         /\ \A s \in DOMAIN R.streams : R.streams[s] \in StreamRecords
         /\ \A x \in DOMAIN R.subs : R.subs[x] \in SubRecords
         /\ \A i \in DOMAIN R.sessions : R.sessions[i] \in SessionRecords
         /\ \A i \in DOMAIN R.ops : R.ops[i] \in OpRecords
         /\ \A i \in DOMAIN R.trans : R.trans[i] \in TransRecords
<1>1. DOMAIN R.streams \subseteq Streams /\ \A s \in DOMAIN R.streams : R.streams[s] \in StreamRecords
  BY ConfFacts, TableFacts
<1>2. DOMAIN R.subs \subseteq Subs /\ \A s \in DOMAIN R.subs : R.subs[s] \in SubRecords
  BY ConfFacts, TableFacts
<1>3. DOMAIN R.sessions \subseteq Ids /\ \A s \in DOMAIN R.sessions : R.sessions[s] \in SessionRecords
  BY ConfFacts, TableFacts
<1>4. DOMAIN R.ops \subseteq Ids /\ \A s \in DOMAIN R.ops : R.ops[s] \in OpRecords
  BY ConfFacts, TableFacts
<1>5. DOMAIN R.trans \subseteq Ids /\ \A s \in DOMAIN R.trans : R.trans[s] \in TransRecords
  BY ConfFacts, TableFacts
<1>6. DOMAIN R.taken \subseteq Subs
  BY ConfFacts, TableFacts
<1> QED
  BY <1>1, <1>2, <1>3, <1>4, <1>5, <1>6

LEMMA NoteFacts ==
  ASSUME NEW R \in ConfType, NEW e \in Mishaps
  PROVE  /\ Note(R, e) \in ConfType /\ Still(R, Note(R, e)) /\ ListsStill(R, Note(R, e))
         /\ Note(R, e).sessions = R.sessions /\ Note(R, e).calls = R.calls
         /\ Note(R, e).mishaps = R.mishaps \cup {e}
BY DEF ConfType, Note, Still, ListsStill

LEMMA CallFacts ==
  ASSUME NEW R \in ConfType, NEW C, C \subseteq Calls
  PROVE  LET Q == [R EXCEPT !.calls = C]
         IN /\ Q \in ConfType /\ Still(R, Q) /\ ListsStill(R, Q)
            /\ Q.sessions = R.sessions /\ Q.mishaps = R.mishaps /\ Q.calls = C
BY DEF ConfType, Still, ListsStill

TerminateOf(is, why) == {[call |-> "terminate", id |-> i, why |-> why] : i \in is}

LEMMA TerminateOfFacts ==
  ASSUME NEW is, NEW why
  PROVE  /\ \A c \in TerminateOf(is, why) : c.call = "terminate" /\ c.id \in is /\ c.why = why
         /\ \A i \in is : \E c \in TerminateOf(is, why) : c.call = "terminate" /\ c.id = i /\ c.why = why
<1>1. ASSUME NEW i \in is
      PROVE  \E c \in TerminateOf(is, why) : c.call = "terminate" /\ c.id = i /\ c.why = why
  <2>1. [call |-> "terminate", id |-> i, why |-> why] \in TerminateOf(is, why)
    BY DEF TerminateOf
  <2> QED
    BY <2>1
<1> QED
  BY <1>1 DEF TerminateOf

LEMMA TerminateOfTyped ==
  ASSUME NEW is, is \subseteq Ids, NEW why \in {"asked", "left", "session", "late"}
  PROVE  TerminateOf(is, why) \subseteq Calls
BY DEF TerminateOf, Calls, TerminateCalls

LEMMA TerminateOpsFacts ==
  ASSUME NEW R \in ConfType, NEW is, NEW why \in Operation
  PROVE  LET Q == TerminateOps(R, is, why)
         IN /\ Q \in ConfType /\ Still(R, Q) /\ ListsStill(R, Q)
            /\ Q.sessions = R.sessions /\ Q.mishaps = R.mishaps
            /\ Q.calls = R.calls \cup TerminateOf(is \cap DOMAIN R.ops, why)
<1> DEFINE C == R.calls \cup TerminateOf(is \cap DOMAIN R.ops, why)
<1>1. C \subseteq Calls
  BY ConfFacts, KeyFacts, TerminateOfTyped DEF Operation
<1>2. TerminateOps(R, is, why) = [R EXCEPT !.calls = C]
  BY DEF TerminateOps, TerminateOf
<1> HIDE DEF C
<1>3. LET Q == [R EXCEPT !.calls = C]
      IN /\ Q \in ConfType /\ Still(R, Q) /\ ListsStill(R, Q)
         /\ Q.sessions = R.sessions /\ Q.mishaps = R.mishaps /\ Q.calls = C
  BY <1>1, CallFacts
<1> QED
  BY <1>2, <1>3 DEF C

LEMMA StartedFacts ==
  ASSUME NEW R \in ConfType, NEW is
  PROVE  \A i : i \in Started(R, is) <=> i \in is /\ i \in DOMAIN R.sessions /\ R.sessions[i].state # "initialized"
BY KeyFacts DEF Started, SessionRecords

LEMMA TerminateSessionsFacts ==
  ASSUME NEW R \in ConfType, NEW is
  PROVE  LET Q == TerminateSessions(R, is)
         IN /\ Q \in ConfType /\ Still(R, Q) /\ ListsStill(R, Q)
            /\ Part(R.sessions, Q.sessions)
            /\ \A i : i \in DOMAIN Q.sessions <=> i \in DOMAIN R.sessions /\ (i \in is => i \in Started(R, is))
            /\ Q.mishaps = R.mishaps
            /\ Q.calls = R.calls \cup TerminateOf(Started(R, is), "session")
<1>1. PICK C : C = R.calls \cup TerminateOf(Started(R, is), "session")
  OBVIOUS
<1>2. PICK es : es = is \ Started(R, is)
  OBVIOUS
<1>3. PICK T : T = WithoutAll(R.sessions, es)
  OBVIOUS
<1>4. C \subseteq Calls
  BY <1>1, ConfFacts, KeyFacts, StartedFacts, TerminateOfTyped
<1>5. /\ T \in Tables(Ids, SessionRecords) /\ Part(R.sessions, T)
      /\ \A d : d \in DOMAIN T <=> d \in DOMAIN R.sessions /\ d \notin es
  <2>1. R.sessions \in Tables(Ids, SessionRecords)
    BY ConfFacts
  <2> QED
    BY ONLY <1>3, <2>1, WithoutFacts
<1>6. PICK Q : Q = TerminateSessions(R, is)
  OBVIOUS
<1>7. Q = [R EXCEPT !.calls = C, !.sessions = T]
  BY <1>1, <1>2, <1>3, <1>6 DEF TerminateSessions, TerminateOf
<1>8. /\ Q \in ConfType /\ Still(R, Q) /\ ListsStill(R, Q)
      /\ Q.sessions = T /\ Q.mishaps = R.mishaps /\ Q.calls = C
  BY <1>4, <1>5, <1>7 DEF ConfType, Still, ListsStill
<1>9. \A i : i \in DOMAIN T <=> i \in DOMAIN R.sessions /\ (i \in is => i \in Started(R, is))
  BY <1>2, <1>5
<1> QED
  BY ONLY <1>1, <1>5, <1>6, <1>8, <1>9

-----------------------------------------------------------------------------
(* Subscriptions are removed.                                              *)
LEMMA RemoveSubsFacts ==
  ASSUME NEW R, Good(R), NEW xs
  PROVE  LET Q == RemoveSubs(R, xs)
         IN /\ Good(Q) /\ Still(R, Q)
            /\ Q.streams = R.streams /\ Q.pub = R.pub
            /\ Q.sessions = R.sessions /\ Q.calls = R.calls /\ Q.mishaps = R.mishaps
            /\ Part(R.subs, Q.subs)
            /\ \A x : x \in DOMAIN Q.subs <=> x \in DOMAIN R.subs /\ x \notin xs
<1> R \in ConfType
  BY DEF Good
<1>1. PICK ups : ups = {x \in xs \cap DOMAIN R.subs : R.subs[x].up}
  OBVIOUS
<1>2. PICK A : A = WithoutAll(R.taken, ups)
  OBVIOUS
<1>3. PICK B : B = WithoutAll(R.subs, xs)
  OBVIOUS
<1>4. PICK C : C = {p \in R.before : p[1] \notin xs /\ p[2] \notin xs}
  OBVIOUS
<1>5. /\ A \in Tables(Subs, Streams) /\ Part(R.taken, A)
      /\ \A d : d \in DOMAIN A <=> d \in DOMAIN R.taken /\ d \notin ups
  <2>1. R.taken \in Tables(Subs, Streams)
    BY ConfFacts
  <2> QED
    BY ONLY <1>2, <2>1, WithoutFacts
<1>6. /\ B \in Tables(Subs, SubRecords) /\ Part(R.subs, B)
      /\ \A d : d \in DOMAIN B <=> d \in DOMAIN R.subs /\ d \notin xs
  <2>1. R.subs \in Tables(Subs, SubRecords)
    BY ConfFacts
  <2> QED
    BY ONLY <1>3, <2>1, WithoutFacts
<1>7. C \subseteq R.before
  BY <1>4
<1>8. PICK Q : Q = RemoveSubs(R, xs)
  OBVIOUS
<1>9. Q = [R EXCEPT !.taken = A, !.subs = B, !.before = C]
  BY <1>1, <1>2, <1>3, <1>4, <1>8 DEF RemoveSubs
<1>10. /\ Q \in ConfType /\ Still(R, Q) /\ Q.streams = R.streams /\ Q.pub = R.pub
       /\ Q.sessions = R.sessions /\ Q.calls = R.calls /\ Q.mishaps = R.mishaps
       /\ Q.subs = B /\ Q.taken = A /\ Q.before = C
  BY <1>5, <1>6, <1>7, <1>9 DEF ConfType, Still
<1>11. Lined(Q)
  <2>1. \A p \in C : p \in R.before /\ p[1] \notin xs /\ p[2] \notin xs
    BY <1>4
  <2>2. \A x, y : <<x, y>> \in C <=> <<x, y>> \in R.before /\ x \notin xs /\ y \notin xs
    BY <1>4
  <2>3. Lined(R)
    BY DEF Good
  <2> QED
    BY ONLY <1>6, <1>10, <2>1, <2>2, <2>3 DEF Lined
<1>12. InRoom(Q)
  <2>1. InRoom(R)
    BY DEF Good
  <2>2. \A x : x \in ups <=> x \in xs /\ x \in DOMAIN R.subs /\ R.subs[x].up
    BY <1>1
  <2>3. \A s \in Streams : s \in Q.pub <=> s \in DOMAIN Q.streams /\ Q.streams[s].up
    BY ONLY <1>10, <2>1 DEF InRoom
  <2>4. \A x \in Subs : x \in DOMAIN Q.taken <=> x \in DOMAIN Q.subs /\ Q.subs[x].up /\ Q.subs[x].from \in Q.pub
    <3>1. \A x \in Subs : x \in DOMAIN R.taken <=> x \in DOMAIN R.subs /\ R.subs[x].up /\ R.subs[x].from \in R.pub
      BY ONLY <2>1 DEF InRoom
    <3>2. \A x \in DOMAIN B : B[x] = R.subs[x]
      BY ONLY <1>6 DEF Part
    <3> QED
      BY ONLY <1>5, <1>6, <1>10, <2>2, <3>1, <3>2
  <2>5. \A x \in DOMAIN Q.taken : Q.taken[x] = Q.subs[x].from
    <3>1. \A x \in DOMAIN A : A[x] = R.taken[x] /\ x \in DOMAIN R.taken /\ x \notin ups
      BY ONLY <1>5 DEF Part
    <3>2. \A x \in DOMAIN R.taken : R.taken[x] = R.subs[x].from /\ x \in DOMAIN R.subs /\ R.subs[x].up
      BY <2>1, KeyFacts DEF InRoom
    <3>3. \A x \in DOMAIN B : B[x] = R.subs[x]
      BY ONLY <1>6 DEF Part
    <3> QED
      BY ONLY <1>6, <1>10, <2>2, <3>1, <3>2, <3>3
  <2> QED
    BY ONLY <2>3, <2>4, <2>5 DEF InRoom
<1> QED
  BY ONLY <1>6, <1>8, <1>10, <1>11, <1>12 DEF Good

(* Streams are unpublished, and no longer listed.                          *)
LEMMA DelistFacts ==
  ASSUME NEW R, Good(R), NEW there, there \subseteq DOMAIN R.streams
  PROVE  LET Q == [Unpublish(R, {s \in there : R.streams[s].up}) EXCEPT !.streams = WithoutAll(@, there)]
         IN /\ Good(Q) /\ Still(R, Q) /\ Q.subs = R.subs
            /\ Q.sessions = R.sessions /\ Q.calls = R.calls /\ Q.mishaps = R.mishaps
            /\ Part(R.streams, Q.streams) /\ Q.pub \subseteq R.pub
            /\ \A s : s \in DOMAIN Q.streams <=> s \in DOMAIN R.streams /\ s \notin there
<1> R \in ConfType
  BY DEF Good
<1>1. PICK ups : ups = {s \in there : R.streams[s].up}
  OBVIOUS
<1>2. PICK kept : kept = {x \in DOMAIN R.taken : R.taken[x] \notin ups}
  OBVIOUS
<1>3. PICK A : A = Restrict(R.taken, kept)
  OBVIOUS
<1>4. PICK B : B = WithoutAll(R.streams, there)
  OBVIOUS
<1>5. PICK P : P = R.pub \ ups
  OBVIOUS
<1>6. /\ A \in Tables(Subs, Streams)
      /\ \A d : d \in DOMAIN A <=> d \in kept
      /\ \A d \in kept : A[d] = R.taken[d]
  <2>1. R.taken \in Tables(Subs, Streams)
    BY ConfFacts
  <2>2. kept \subseteq DOMAIN R.taken
    BY <1>2
  <2> QED
    BY ONLY <1>3, <2>1, <2>2, RestrictFacts
<1>7. /\ B \in Tables(Streams, StreamRecords) /\ Part(R.streams, B)
      /\ \A d : d \in DOMAIN B <=> d \in DOMAIN R.streams /\ d \notin there
  <2>1. R.streams \in Tables(Streams, StreamRecords)
    BY ConfFacts
  <2> QED
    BY ONLY <1>4, <2>1, WithoutFacts
<1>8. P \subseteq Streams
  BY <1>5, ConfFacts
<1>9. PICK Q : Q = [Unpublish(R, {s \in there : R.streams[s].up}) EXCEPT !.streams = WithoutAll(@, there)]
  OBVIOUS
<1>10. Unpublish(R, ups) = [R EXCEPT !.pub = P, !.taken = A]
  BY <1>2, <1>3, <1>5 DEF Unpublish
<1>11. Q = [[R EXCEPT !.pub = P, !.taken = A] EXCEPT !.streams = B]
  <2>1. PICK U : U = [R EXCEPT !.pub = P, !.taken = A]
    OBVIOUS
  <2>2. U.streams = R.streams
    BY <2>1 DEF ConfType
  <2>3. Q = [U EXCEPT !.streams = WithoutAll(@, there)]
    BY ONLY <1>1, <1>9, <1>10, <2>1
  <2>4. Q = [U EXCEPT !.streams = B]
    BY ONLY <1>4, <2>2, <2>3
  <2> QED
    BY ONLY <2>1, <2>4
<1>12. /\ Q \in ConfType /\ Still(R, Q) /\ Q.subs = R.subs /\ Q.before = R.before
       /\ Q.sessions = R.sessions /\ Q.calls = R.calls /\ Q.mishaps = R.mishaps
       /\ Q.streams = B /\ Q.pub = P /\ Q.taken = A
  BY <1>6, <1>7, <1>8, <1>11 DEF ConfType, Still
<1>13. Lined(Q)
  BY ONLY <1>12, Good(R) DEF Good, Lined
<1>14. InRoom(Q)
  <2>1. InRoom(R) /\ DOMAIN R.streams \subseteq Streams /\ DOMAIN R.taken \subseteq Subs /\ there \subseteq Streams
    BY KeyFacts DEF Good
  <2>2. \A s \in Streams : s \in ups <=> s \in there /\ R.streams[s].up
    BY <1>1, <2>1
  <2>3. \A x \in Subs : x \in kept <=> x \in DOMAIN R.taken /\ R.taken[x] \notin ups
    BY <1>2, <2>1
  <2>4. \A s \in Streams : s \in P <=> s \in R.pub /\ s \notin ups
    BY <1>5
  <2>5. \A x \in DOMAIN R.subs : R.subs[x].from \in Streams
    BY KeyFacts DEF SubRecords
  <2>6. \A s \in Streams : s \in Q.pub <=> s \in DOMAIN Q.streams /\ Q.streams[s].up
    BY ONLY <1>7, <1>12, <2>1, <2>2, <2>4 DEF InRoom, Part
  <2>7. \A x \in Subs : x \in DOMAIN Q.taken <=> x \in DOMAIN Q.subs /\ Q.subs[x].up /\ Q.subs[x].from \in Q.pub
    BY ONLY <1>6, <1>12, <2>1, <2>3, <2>4, <2>5 DEF InRoom
  <2>8. \A x \in DOMAIN Q.taken : Q.taken[x] = Q.subs[x].from
    BY ONLY <1>2, <1>6, <1>12, <2>1 DEF InRoom
  <2> QED
    BY ONLY <2>6, <2>7, <2>8 DEF InRoom
<1>15. Q.pub \subseteq R.pub
  BY ONLY <1>5, <1>12
<1> QED
  BY ONLY <1>7, <1>9, <1>12, <1>13, <1>14, <1>15 DEF Good

-----------------------------------------------------------------------------
(* Fading.                                                                 *)
LEMMA GoodStill ==
  ASSUME NEW R, Good(R), NEW Q \in ConfType, ListsStill(R, Q)
  PROVE  Good(Q)
BY DEF Good, ListsStill, Lined, InRoom

LEMMA EndedMono ==
  ASSUME NEW R, NEW Q, R.calls \subseteq Q.calls, NEW i, NEW whys, Ended(R, i, whys)
  PROVE  Ended(Q, i, whys)
BY DEF Ended

LEMMA StillTrans ==
  ASSUME NEW R, NEW M, NEW Q, Still(R, M), Still(M, Q)
  PROVE  Still(R, Q)
BY DEF Still

LEMMA FadesRefl ==
  ASSUME NEW R, Good(R)
  PROVE  Fades(R, R, {})
BY DEF Fades, Still, Part, CallsEnd, GoneEnded, EndedGone, SourceEnded

LEMMA FadesMore ==
  ASSUME NEW R, NEW Q, NEW D, NEW E, D \subseteq E, Fades(R, Q, D)
  PROVE  Fades(R, Q, E)
<1>1. GoneEnded(R, Q, D) => GoneEnded(R, Q, E)
  BY DEF GoneEnded
<1> QED
  BY ONLY Fades(R, Q, D), <1>1 DEF Fades

LEMMA ListedPart ==
  ASSUME NEW R, NEW Q, Part(R.streams, Q.streams), Part(R.subs, Q.subs), NEW i, Listed(Q, i)
  PROVE  Listed(R, i)
BY DEF Part, Listed

LEMMA FadesTrans ==
  ASSUME NEW R, NEW M, NEW Q, NEW D, NEW E, Fades(R, M, D), Fades(M, Q, E)
  PROVE  Fades(R, Q, D \cup E)
<1>1. Good(Q) /\ Still(R, Q)
  BY StillTrans DEF Fades
<1>2. /\ R.mishaps \subseteq M.mishaps /\ M.mishaps \subseteq Q.mishaps /\ Q.pub \subseteq R.pub
      /\ R.calls \subseteq M.calls /\ M.calls \subseteq Q.calls
  BY DEF Fades
<1>3. Part(R.streams, M.streams) /\ Part(R.subs, M.subs) /\ Part(R.sessions, M.sessions)
  BY DEF Fades
<1>4. Part(M.streams, Q.streams) /\ Part(M.subs, Q.subs) /\ Part(M.sessions, Q.sessions)
  BY DEF Fades
<1>5. Part(R.streams, Q.streams) /\ Part(R.subs, Q.subs) /\ Part(R.sessions, Q.sessions)
  BY ONLY <1>3, <1>4, PartTrans
<1>6. M.ops = R.ops
  BY DEF Fades, Still
<1>7. \A i \in DOMAIN M.sessions : i \in DOMAIN R.sessions /\ M.sessions[i] = R.sessions[i]
  BY ONLY <1>3 DEF Part
<1>8. CallsEnd(R, Q)
  <2>1. CallsEnd(R, M) /\ CallsEnd(M, Q)
    BY DEF Fades
  <2> QED
    BY ONLY <1>2, <1>6, <1>7, <2>1 DEF CallsEnd
<1>9. \A i \in DOMAIN R.sessions : i \in DOMAIN Q.sessions \/ R.sessions[i].state = "initialized"
  <2>1. \A i \in DOMAIN R.sessions : i \in DOMAIN M.sessions \/ R.sessions[i].state = "initialized"
    BY DEF Fades
  <2>2. \A i \in DOMAIN M.sessions : i \in DOMAIN Q.sessions \/ M.sessions[i].state = "initialized"
    BY DEF Fades
  <2> QED
    BY ONLY <1>7, <2>1, <2>2
<1>10. ASSUME Unthrown(Q)
       PROVE  GoneEnded(R, Q, D \cup E) /\ EndedGone(R, Q) /\ SourceEnded(R, Q)
  <2>1. Unthrown(M)
    BY ONLY <1>2, <1>10 DEF Unthrown
  <2>2. GoneEnded(R, M, D) /\ EndedGone(R, M) /\ SourceEnded(R, M)
    BY <2>1 DEF Fades
  <2>3. GoneEnded(M, Q, E) /\ EndedGone(M, Q) /\ SourceEnded(M, Q)
    BY <1>10 DEF Fades
  <2>4. \A i : /\ Ended(R, i, {"session"}) => Ended(M, i, {"session"})
               /\ Ended(M, i, {"session"}) => Ended(Q, i, {"session"})
               /\ Ended(M, i, Operation) => Ended(Q, i, Operation)
    BY ONLY <1>2, EndedMono
  <2>5. \A i : Listed(Q, i) => Listed(M, i)
    BY ONLY <1>4, ListedPart
  <2>6. DOMAIN Q.sessions \subseteq DOMAIN M.sessions
    BY ONLY <1>4 DEF Part
  <2>7. GoneEnded(R, Q, D \cup E)
    BY ONLY <1>7, <2>2, <2>3, <2>4, <2>6 DEF GoneEnded
  <2>8. EndedGone(R, Q)
    BY ONLY <1>7, <2>2, <2>3, <2>4, <2>5 DEF EndedGone
  <2>9. SourceEnded(R, Q)
    <3>1. \A x \in DOMAIN Q.subs : x \in DOMAIN M.subs /\ M.subs[x] = R.subs[x] /\ Listed(M, x)
      BY ONLY <1>3, <1>4 DEF Part, Listed
    <3>2. \A x \in DOMAIN R.sessions : Listed(M, x) => x \in DOMAIN M.sessions
      BY ONLY <2>2 DEF EndedGone
    <3> QED
      BY ONLY <1>6, <2>2, <2>3, <2>4, <3>1, <3>2 DEF SourceEnded
  <2> QED
    BY ONLY <2>7, <2>8, <2>9
<1> QED
  BY ONLY <1>1, <1>2, <1>5, <1>8, <1>9, <1>10 DEF Fades

-----------------------------------------------------------------------------
(* Subscriptions are ended.                                                *)
LEMMA EndSubsFacts ==
  ASSUME NEW R, Good(R), NEW xs, xs \subseteq Subs
  PROVE  LET Q == EndSubs(R, xs)
         IN /\ Fades(R, Q, {}) /\ Q.streams = R.streams /\ Q.pub = R.pub /\ Q.mishaps = R.mishaps
            /\ \A x \in DOMAIN Q.subs : x \in xs =>
                 x \notin DOMAIN R.sessions /\ (x \in DOMAIN R.ops => Ended(Q, x, Operation))
<1> R \in ConfType
  BY DEF Good
<1>1. PICK ses : ses = xs \cap DOMAIN R.sessions
  OBVIOUS
<1>0. PICK rest : rest = xs \ ses
  OBVIOUS
<1>2. PICK T1 : T1 = TerminateOps(R, rest, "asked")
  OBVIOUS
<1>3. PICK T2 : T2 = TerminateSessions(T1, ses)
  OBVIOUS
<1>4. PICK Q : Q = RemoveSubs(T2, ses)
  OBVIOUS
<1>5. Q = EndSubs(R, xs)
  BY ONLY <1>0, <1>1, <1>2, <1>3, <1>4 DEF EndSubs
<1>6. PICK ops : ops = rest \cap DOMAIN R.ops
  OBVIOUS
<1>7. /\ T1 \in ConfType /\ Still(R, T1) /\ ListsStill(R, T1)
      /\ T1.sessions = R.sessions /\ T1.mishaps = R.mishaps
      /\ T1.calls = R.calls \cup TerminateOf(ops, "asked")
  <2>1. "asked" \in Operation
    BY DEF Operation
  <2> QED
    BY <1>2, <1>6, <2>1, TerminateOpsFacts
<1>8. PICK begun : begun = Started(T1, ses)
  OBVIOUS
<1>9. /\ T2 \in ConfType /\ Still(T1, T2) /\ ListsStill(T1, T2)
      /\ Part(T1.sessions, T2.sessions)
      /\ \A i : i \in DOMAIN T2.sessions <=> i \in DOMAIN T1.sessions /\ (i \in ses => i \in begun)
      /\ T2.mishaps = T1.mishaps
      /\ T2.calls = T1.calls \cup TerminateOf(begun, "session")
  BY <1>3, <1>7, <1>8, TerminateSessionsFacts
<1>10. \A i : i \in begun <=> i \in ses /\ i \in DOMAIN R.sessions /\ R.sessions[i].state # "initialized"
  BY <1>7, <1>8, StartedFacts
<1>11. Good(T2) /\ ListsStill(R, T2)
  <2>1. Good(T1)
    BY <1>7, GoodStill
  <2>2. Good(T2)
    BY <1>9, <2>1, GoodStill
  <2> QED
    BY ONLY <1>7, <1>9, <2>2 DEF ListsStill
<1>12. /\ Good(Q) /\ Still(T2, Q)
       /\ Q.streams = T2.streams /\ Q.pub = T2.pub
       /\ Q.sessions = T2.sessions /\ Q.calls = T2.calls /\ Q.mishaps = T2.mishaps
       /\ Part(T2.subs, Q.subs)
       /\ \A x : x \in DOMAIN Q.subs <=> x \in DOMAIN T2.subs /\ x \notin ses
  BY <1>4, <1>11, RemoveSubsFacts
<1>13. Still(R, Q)
  BY ONLY <1>7, <1>9, <1>12 DEF Still
<1>14. /\ Q.streams = R.streams /\ Q.pub = R.pub /\ Q.mishaps = R.mishaps /\ Part(R.subs, Q.subs)
       /\ \A x : x \in DOMAIN Q.subs <=> x \in DOMAIN R.subs /\ x \notin ses
  BY ONLY <1>7, <1>9, <1>11, <1>12 DEF ListsStill
<1>15. /\ Part(R.sessions, Q.sessions)
       /\ \A i : i \in DOMAIN Q.sessions <=> i \in DOMAIN R.sessions /\ (i \in ses => i \in begun)
  BY ONLY <1>7, <1>9, <1>12
<1>16. Q.calls = R.calls \cup TerminateOf(ops, "asked") \cup TerminateOf(begun, "session")
  BY ONLY <1>7, <1>9, <1>12
<1>17. CallsEnd(R, Q)
  <2>1. \A c \in TerminateOf(ops, "asked") : c.call = "terminate" /\ c.id \in ops /\ c.why = "asked"
    BY TerminateOfFacts
  <2>2. \A c \in TerminateOf(begun, "session") : c.call = "terminate" /\ c.id \in begun /\ c.why = "session"
    BY TerminateOfFacts
  <2>3. \A i \in ops : i \in DOMAIN R.ops
    BY <1>6
  <2> QED
    BY ONLY <1>10, <1>16, <2>1, <2>2, <2>3 DEF CallsEnd, Operation
<1>18. /\ \A i \in ops : Ended(Q, i, Operation)
       /\ \A i \in begun : Ended(Q, i, {"session"})
  <2>1. \A i \in ops : \E c \in TerminateOf(ops, "asked") : c.call = "terminate" /\ c.id = i /\ c.why = "asked"
    BY TerminateOfFacts
  <2>2. \A i \in begun : \E c \in TerminateOf(begun, "session") : c.call = "terminate" /\ c.id = i /\ c.why = "session"
    BY TerminateOfFacts
  <2> QED
    BY ONLY <1>16, <2>1, <2>2 DEF Ended, Operation
<1>19. \A i : i \in ses => i \notin DOMAIN Q.streams /\ ~Listed(Q, i)
  <2>1. DOMAIN R.streams \subseteq Streams
    BY KeyFacts
  <2>2. \A i \in ses : i \in Subs
    BY <1>1
  <2> QED
    BY ONLY <1>14, <2>1, <2>2, NamesAssumption DEF Listed
<1>20. GoneEnded(R, Q, {})
  <2>1. ASSUME NEW i, Listed(R, i), ~Listed(Q, i)
        PROVE  i \in ses
    BY ONLY <1>14, <2>1 DEF Listed
  <2>2. \A i \in ses : i \in DOMAIN R.sessions
    BY <1>1
  <2> QED
    BY ONLY <1>15, <1>18, <2>1, <2>2 DEF GoneEnded
<1>21. EndedGone(R, Q)
  <2>1. ASSUME NEW i, Ended(Q, i, {"session"}), ~Ended(R, i, {"session"})
        PROVE  i \in ses
    <3>1. PICK c \in Q.calls : c.call = "terminate" /\ c.id = i /\ c.why = "session"
      BY <2>1 DEF Ended
    <3>2. c \notin R.calls
      BY <2>1, <3>1 DEF Ended
    <3>3. c \notin TerminateOf(ops, "asked")
      BY <3>1, TerminateOfFacts
    <3>4. i \in begun
      BY <1>16, <3>1, <3>2, <3>3, TerminateOfFacts
    <3> QED
      BY <1>10, <3>4
  <2> QED
    BY ONLY <1>15, <1>19, <2>1 DEF EndedGone
<1>22. SourceEnded(R, Q)
  BY ONLY <1>14 DEF SourceEnded
<1>23. \A i \in DOMAIN R.sessions : i \in DOMAIN Q.sessions \/ R.sessions[i].state = "initialized"
  BY ONLY <1>10, <1>15
<1>24. Fades(R, Q, {})
  <2>1. Part(R.streams, Q.streams) /\ R.mishaps \subseteq Q.mishaps /\ Q.pub \subseteq R.pub /\ R.calls \subseteq Q.calls
    BY ONLY <1>14, <1>16 DEF Part
  <2> QED
    BY ONLY <1>12, <1>13, <1>14, <1>15, <1>17, <1>20, <1>21, <1>22, <1>23, <2>1 DEF Fades
<1>25. \A x \in DOMAIN Q.subs : x \in xs => x \notin DOMAIN R.sessions /\ (x \in DOMAIN R.ops => Ended(Q, x, Operation))
  BY ONLY <1>0, <1>1, <1>6, <1>14, <1>18
<1> QED
  BY ONLY <1>5, <1>14, <1>24, <1>25

-----------------------------------------------------------------------------
(* Streams are removed.                                                    *)
LEMMA FadesNote ==
  ASSUME NEW R, NEW Q, NEW D, NEW e \in Mishaps, Fades(R, Q, D)
  PROVE  Fades(R, Note(Q, e), D)
<1>1. PICK N : N = Note(Q, e)
  OBVIOUS
<1>2. Q \in ConfType
  BY DEF Fades, Good
<1>3. /\ N \in ConfType /\ Still(Q, N) /\ ListsStill(Q, N)
      /\ N.sessions = Q.sessions /\ N.calls = Q.calls
      /\ N.mishaps = Q.mishaps \cup {e}
  BY <1>1, <1>2, NoteFacts
<1>4. Good(N)
  BY <1>3, GoodStill DEF Fades
<1>5. N.streams = Q.streams /\ N.subs = Q.subs /\ N.pub = Q.pub
  BY ONLY <1>3 DEF ListsStill
<1>6. \A i : (Listed(N, i) <=> Listed(Q, i)) /\ (\A w : Ended(N, i, w) <=> Ended(Q, i, w))
  BY ONLY <1>3, <1>5 DEF Listed, Ended
<1>7. ASSUME Unthrown(N)
      PROVE  GoneEnded(R, N, D) /\ EndedGone(R, N) /\ SourceEnded(R, N)
  <2>1. Unthrown(Q)
    BY <1>3, <1>7 DEF Unthrown
  <2>2. GoneEnded(R, Q, D) /\ EndedGone(R, Q) /\ SourceEnded(R, Q)
    BY <2>1 DEF Fades
  <2>3. GoneEnded(R, N, D)
    BY ONLY <1>3, <1>6, <2>2 DEF GoneEnded
  <2>4. EndedGone(R, N)
    BY ONLY <1>3, <1>6, <2>2 DEF EndedGone
  <2>5. SourceEnded(R, N)
    BY ONLY <1>5, <1>6, <2>2 DEF SourceEnded
  <2> QED
    BY ONLY <2>3, <2>4, <2>5
<1>8. Still(R, N)
  BY ONLY <1>3, Fades(R, Q, D), StillTrans DEF Fades
<1>9. CallsEnd(R, N)
  BY ONLY <1>3, Fades(R, Q, D) DEF Fades, CallsEnd
<1>10. /\ R.mishaps \subseteq N.mishaps /\ N.pub \subseteq R.pub
       /\ Part(R.streams, N.streams) /\ Part(R.subs, N.subs) /\ Part(R.sessions, N.sessions)
       /\ R.calls \subseteq N.calls
       /\ \A i \in DOMAIN R.sessions : i \in DOMAIN N.sessions \/ R.sessions[i].state = "initialized"
  BY ONLY <1>3, <1>5, Fades(R, Q, D) DEF Fades
<1> QED
  BY ONLY <1>1, <1>4, <1>7, <1>8, <1>9, <1>10 DEF Fades

LEMMA RemoveStreamsFacts ==
  ASSUME NEW R, Good(R), NEW ss
  PROVE  LET Q == RemoveStreams(R, ss)
         IN /\ Fades(R, Q, ss)
            /\ Q.mishaps \subseteq R.mishaps \cup {"removal_threw"}
            /\ Unthrown(Q) => \A s \in DOMAIN Q.streams : s \notin ss
<1> R \in ConfType
  BY DEF Good
<1>1. PICK there : there = ss \cap DOMAIN R.streams
  OBVIOUS
<1>2. PICK untracked : untracked = {x \in DOMAIN R.subs : ~R.subs[x].up /\ x \in bound.sessions}
  OBVIOUS
<1>3. PICK seen : seen = {x \in DOMAIN R.subs : \A y \in untracked : <<x, y>> \in R.before}
  OBVIOUS
<1>4. PICK xs : xs = {x \in seen : R.subs[x].from \in there}
  OBVIOUS
<1>5. PICK ended : ended = EndSubs(R, xs)
  OBVIOUS
<1>6. PICK ups : ups = {s \in there : R.streams[s].up}
  OBVIOUS
<1>7. PICK Q : Q = RemoveStreams(R, ss)
  OBVIOUS
<1>8. Q = IF there = {} THEN R
          ELSE IF untracked # {} THEN Note(ended, "removal_threw")
          ELSE [Unpublish(ended, ups) EXCEPT !.streams = WithoutAll(@, there)]
  BY ONLY <1>1, <1>2, <1>3, <1>4, <1>5, <1>6, <1>7 DEF RemoveStreams
<1>9. xs \subseteq Subs
  BY <1>3, <1>4, KeyFacts
<1>10. /\ Fades(R, ended, {}) /\ ended.streams = R.streams /\ ended.pub = R.pub /\ ended.mishaps = R.mishaps
       /\ \A x \in DOMAIN ended.subs : x \in xs =>
            x \notin DOMAIN R.sessions /\ (x \in DOMAIN R.ops => Ended(ended, x, Operation))
  BY <1>5, <1>9, EndSubsFacts
<1>11. ASSUME there = {}
       PROVE  /\ Fades(R, Q, ss) /\ Q.mishaps \subseteq R.mishaps \cup {"removal_threw"}
              /\ Unthrown(Q) => \A s \in DOMAIN Q.streams : s \notin ss
  <2>1. Q = R
    BY <1>8, <1>11
  <2>2. Fades(R, R, ss)
    BY FadesRefl, FadesMore
  <2> QED
    BY ONLY <1>1, <1>11, <2>1, <2>2
<1>12. ASSUME there # {}, untracked # {}
       PROVE  /\ Fades(R, Q, ss) /\ Q.mishaps \subseteq R.mishaps \cup {"removal_threw"}
              /\ Unthrown(Q) => \A s \in DOMAIN Q.streams : s \notin ss
  <2>1. Q = Note(ended, "removal_threw")
    BY <1>8, <1>12
  <2>0. "removal_threw" \in Mishaps
    BY DEF Mishaps
  <2>2. Fades(R, Q, {})
    BY ONLY <1>10, <2>0, <2>1, FadesNote
  <2>3. Fades(R, Q, ss)
    BY <2>2, FadesMore
  <2>4. ended \in ConfType
    BY <1>10 DEF Fades, Good
  <2>5. Q.mishaps = ended.mishaps \cup {"removal_threw"}
    BY ONLY <2>0, <2>1, <2>4, NoteFacts
  <2> QED
    BY ONLY <1>10, <2>3, <2>5 DEF Unthrown
<1>13. ASSUME there # {}, untracked = {}
       PROVE  /\ Fades(R, Q, ss) /\ Q.mishaps \subseteq R.mishaps \cup {"removal_threw"}
              /\ Unthrown(Q) => \A s \in DOMAIN Q.streams : s \notin ss
  <2>1. ups = {s \in there : ended.streams[s].up}
    BY <1>6, <1>10
  <2>2. Good(ended) /\ Part(R.subs, ended.subs) /\ Part(R.sessions, ended.sessions) /\ Still(R, ended)
    BY <1>10 DEF Fades
  <2>3. there \subseteq DOMAIN ended.streams
    BY <1>1, <1>10
  <2>4. Q = [Unpublish(ended, {s \in there : ended.streams[s].up}) EXCEPT !.streams = WithoutAll(@, there)]
    BY <1>8, <1>13, <2>1
  <2>5. /\ Good(Q) /\ Still(ended, Q) /\ Q.subs = ended.subs
        /\ Q.sessions = ended.sessions /\ Q.calls = ended.calls /\ Q.mishaps = ended.mishaps
        /\ Part(ended.streams, Q.streams) /\ Q.pub \subseteq ended.pub
        /\ \A s : s \in DOMAIN Q.streams <=> s \in DOMAIN ended.streams /\ s \notin there
    BY ONLY <2>2, <2>3, <2>4, DelistFacts
  <2>6. \A s : s \in there <=> s \in ss /\ s \in DOMAIN R.streams
    BY <1>1
  <2>7. GoneEnded(ended, Q, ss)
    BY ONLY <2>5, <2>6 DEF GoneEnded, Listed
  <2>8. EndedGone(ended, Q)
    BY ONLY <2>5 DEF EndedGone, Ended
  <2>9. \A x \in DOMAIN R.subs : x \in seen
    BY <1>3, <1>13
  <2>10. \A x \in DOMAIN R.subs : R.subs[x].from \in there => x \in xs
    BY <1>4, <2>9
  <2>11. SourceEnded(ended, Q)
    <3>1. \A x \in DOMAIN ended.subs : x \in DOMAIN R.subs /\ ended.subs[x] = R.subs[x]
      BY ONLY <2>2 DEF Part
    <3>2. \A x \in DOMAIN ended.sessions : x \in DOMAIN R.sessions
      BY ONLY <2>2 DEF Part
    <3>3. ended.ops = R.ops
      BY ONLY <2>2 DEF Still
    <3>4. \A x : Ended(ended, x, Operation) => Ended(Q, x, Operation)
      BY ONLY <2>5 DEF Ended
    <3> QED
      BY ONLY <1>10, <2>5, <2>10, <3>1, <3>2, <3>3, <3>4 DEF SourceEnded
  <2>12. Fades(ended, Q, ss)
    BY ONLY <2>5, <2>7, <2>8, <2>11 DEF Fades, Part, CallsEnd
  <2>13. Fades(R, Q, {} \cup ss)
    BY ONLY <1>10, <2>12, FadesTrans
  <2>14. {} \cup ss = ss
    OBVIOUS
  <2> QED
    BY ONLY <1>10, <2>5, <2>6, <2>13, <2>14
<1> QED
  BY ONLY <1>7, <1>11, <1>12, <1>13

-----------------------------------------------------------------------------
(* Sessions are aborted, sessions and operations are ended.                *)
LEMMA RemoveSubsFades ==
  ASSUME NEW R, Good(R), NEW xs
  PROVE  Fades(R, RemoveSubs(R, xs), xs)
<1>1. PICK Q : Q = RemoveSubs(R, xs)
  OBVIOUS
<1>2. /\ Good(Q) /\ Still(R, Q)
      /\ Q.streams = R.streams /\ Q.pub = R.pub
      /\ Q.sessions = R.sessions /\ Q.calls = R.calls /\ Q.mishaps = R.mishaps
      /\ Part(R.subs, Q.subs)
      /\ \A x : x \in DOMAIN Q.subs <=> x \in DOMAIN R.subs /\ x \notin xs
  BY <1>1, RemoveSubsFacts
<1>3. GoneEnded(R, Q, xs)
  BY ONLY <1>2 DEF GoneEnded, Listed
<1>4. EndedGone(R, Q)
  BY ONLY <1>2 DEF EndedGone, Ended
<1>5. SourceEnded(R, Q)
  BY ONLY <1>2 DEF SourceEnded
<1> QED
  BY ONLY <1>1, <1>2, <1>3, <1>4, <1>5 DEF Fades, Part, CallsEnd

LEMMA OnAbortedFacts ==
  ASSUME NEW R, Good(R), NEW i \in Ids
  PROVE  LET Q == OnAborted(R, i)
         IN /\ Fades(R, Q, {i})
            /\ Q.mishaps \subseteq R.mishaps \cup {"removal_threw"}
            /\ Unthrown(Q) => ~Listed(Q, i)
<1>1. PICK Q : Q = OnAborted(R, i)
  OBVIOUS
<1> R \in ConfType
  BY DEF Good
<1>2. CASE i \in Streams
  <2>1. Q = RemoveStreams(R, {i})
    BY <1>1, <1>2 DEF OnAborted
  <2>2. /\ Fades(R, Q, {i})
        /\ Q.mishaps \subseteq R.mishaps \cup {"removal_threw"}
        /\ Unthrown(Q) => \A s \in DOMAIN Q.streams : s \notin {i}
    BY <2>1, RemoveStreamsFacts
  <2>3. i \notin DOMAIN Q.subs
    <3>1. DOMAIN Q.subs \subseteq DOMAIN R.subs
      BY <2>2 DEF Fades, Part
    <3> QED
      BY <1>2, <3>1, KeyFacts, NamesAssumption
  <2> QED
    BY ONLY <1>1, <2>2, <2>3 DEF Listed
<1>3. CASE i \notin Streams
  <2>1. Q = RemoveSubs(R, {i})
    BY <1>1, <1>3 DEF OnAborted
  <2>2. /\ Q.streams = R.streams /\ Q.mishaps = R.mishaps
        /\ \A x : x \in DOMAIN Q.subs <=> x \in DOMAIN R.subs /\ x \notin {i}
    BY <2>1, RemoveSubsFacts
  <2>3. i \notin DOMAIN Q.streams
    BY <1>3, <2>2, KeyFacts
  <2>4. Fades(R, Q, {i})
    BY <2>1, RemoveSubsFades
  <2> QED
    BY ONLY <1>1, <2>2, <2>3, <2>4 DEF Listed
<1> QED
  BY ONLY <1>2, <1>3

(* Operations are ended.                                                   *)
EndsOps(R, Q, is, why) ==
  /\ Fades(R, Q, {}) /\ ListsStill(R, Q) /\ Smoothly(R, Q)
  /\ \A i \in is : i \in DOMAIN R.ops => Ended(Q, i, {why})
  /\ \A c \in Q.calls : c \notin R.calls => c.call = "terminate" /\ c.id \in is /\ c.why = why

LEMMA TerminateOpsFades ==
  ASSUME NEW R, Good(R), NEW is, NEW why \in Operation, NEW Q, Q = TerminateOps(R, is, why)
  PROVE  EndsOps(R, Q, is, why)
<1> R \in ConfType
  BY DEF Good
<1>2. PICK ops : ops = is \cap DOMAIN R.ops
  OBVIOUS
<1>3. /\ Q \in ConfType /\ Still(R, Q) /\ ListsStill(R, Q)
      /\ Q.sessions = R.sessions /\ Q.mishaps = R.mishaps
      /\ Q.calls = R.calls \cup TerminateOf(ops, why)
  BY <1>2, TerminateOpsFacts
<1>4. Good(Q)
  BY <1>3, GoodStill
<1>5. /\ \A c \in TerminateOf(ops, why) : c.call = "terminate" /\ c.id \in ops /\ c.why = why
      /\ \A i \in ops : \E c \in TerminateOf(ops, why) : c.call = "terminate" /\ c.id = i /\ c.why = why
  BY TerminateOfFacts
<1>6. \A i : i \in ops <=> i \in is /\ i \in DOMAIN R.ops
  BY <1>2
<1>7. CallsEnd(R, Q)
  BY ONLY <1>3, <1>5, <1>6, why \in Operation DEF CallsEnd
<1>8. \A i : Ended(Q, i, {"session"}) => Ended(R, i, {"session"})
  BY ONLY <1>3, <1>5, why \in Operation DEF Ended, Operation
<1>9. GoneEnded(R, Q, {}) /\ SourceEnded(R, Q)
  BY ONLY <1>3 DEF GoneEnded, SourceEnded, Listed, ListsStill
<1>10. EndedGone(R, Q)
  BY ONLY <1>3, <1>8 DEF EndedGone
<1>11. \A i \in is : i \in DOMAIN R.ops => Ended(Q, i, {why})
  BY ONLY <1>3, <1>5, <1>6 DEF Ended
<1> QED
  BY ONLY <1>3, <1>4, <1>5, <1>6, <1>7, <1>9, <1>10, <1>11 DEF Fades, Part, ListsStill, Smoothly, EndsOps

(* A session is ended, and what it carries removed.                        *)
LEMMA TerminateSessionFades ==
  ASSUME NEW R, Good(R), NEW i \in DOMAIN R.sessions
  PROVE  LET Q == OnAborted(TerminateSessions(R, {i}), i)
         IN /\ Fades(R, Q, {})
            /\ Q.mishaps \subseteq R.mishaps \cup {"removal_threw"}
            /\ Unthrown(Q) => ~Listed(Q, i)
            /\ i \in DOMAIN Q.sessions => Ended(Q, i, {"session"})
<1> R \in ConfType
  BY DEF Good
<1> i \in Ids
  BY KeyFacts
<1>1. PICK T : T = TerminateSessions(R, {i})
  OBVIOUS
<1>2. PICK Q : Q = OnAborted(T, i)
  OBVIOUS
<1>3. PICK begun : begun = Started(R, {i})
  OBVIOUS
<1>4. /\ T \in ConfType /\ Still(R, T) /\ ListsStill(R, T)
      /\ Part(R.sessions, T.sessions)
      /\ \A j : j \in DOMAIN T.sessions <=> j \in DOMAIN R.sessions /\ (j \in {i} => j \in begun)
      /\ T.mishaps = R.mishaps
      /\ T.calls = R.calls \cup TerminateOf(begun, "session")
  BY <1>1, <1>3, TerminateSessionsFacts
<1>5. \A j : j \in begun <=> j = i /\ R.sessions[i].state # "initialized"
  BY <1>3, StartedFacts
<1>6. /\ \A c \in TerminateOf(begun, "session") : c.call = "terminate" /\ c.id \in begun /\ c.why = "session"
      /\ \A j \in begun : \E c \in TerminateOf(begun, "session") : c.call = "terminate" /\ c.id = j /\ c.why = "session"
  BY TerminateOfFacts
<1>7. Good(T)
  BY <1>4, GoodStill
<1>8. /\ Fades(T, Q, {i}) /\ Q.mishaps \subseteq T.mishaps \cup {"removal_threw"}
      /\ Unthrown(Q) => ~Listed(Q, i)
  BY <1>2, <1>7, OnAbortedFacts
<1>9. T.streams = R.streams /\ T.subs = R.subs /\ T.pub = R.pub /\ T.ops = R.ops
  BY ONLY <1>4 DEF ListsStill, Still
<1>10. /\ Good(Q) /\ Still(T, Q) /\ T.mishaps \subseteq Q.mishaps /\ Q.pub \subseteq T.pub
       /\ Part(T.streams, Q.streams) /\ Part(T.subs, Q.subs) /\ Part(T.sessions, Q.sessions)
       /\ T.calls \subseteq Q.calls /\ CallsEnd(T, Q)
       /\ \A j \in DOMAIN T.sessions : j \in DOMAIN Q.sessions \/ T.sessions[j].state = "initialized"
  BY ONLY <1>8 DEF Fades
<1>11. Still(R, Q)
  BY ONLY <1>4, <1>10, StillTrans
<1>12. Part(R.sessions, Q.sessions)
  BY ONLY <1>4, <1>10, PartTrans
<1>13. \A j \in DOMAIN T.sessions : j \in DOMAIN R.sessions /\ T.sessions[j] = R.sessions[j]
  BY ONLY <1>4 DEF Part
<1>14. CallsEnd(R, Q)
  BY ONLY <1>4, <1>5, <1>6, <1>9, <1>10, <1>13, i \in DOMAIN R.sessions DEF CallsEnd
<1>15. \A j \in DOMAIN R.sessions : j \in DOMAIN Q.sessions \/ R.sessions[j].state = "initialized"
  BY ONLY <1>4, <1>5, <1>10, <1>13
<1>16. \A j \in begun : Ended(Q, j, {"session"})
  BY ONLY <1>4, <1>6, <1>10 DEF Ended
<1>17. i \in DOMAIN Q.sessions => Ended(Q, i, {"session"})
  BY ONLY <1>4, <1>10, <1>16 DEF Part
<1>18. ASSUME Unthrown(Q)
       PROVE  GoneEnded(R, Q, {}) /\ EndedGone(R, Q) /\ SourceEnded(R, Q)
  <2>1. GoneEnded(T, Q, {i}) /\ EndedGone(T, Q) /\ SourceEnded(T, Q) /\ ~Listed(Q, i)
    BY <1>8, <1>18 DEF Fades
  <2>2. \A j : Listed(T, j) <=> Listed(R, j)
    BY ONLY <1>9 DEF Listed
  <2>3. \A j : j # i /\ Ended(T, j, {"session"}) => Ended(R, j, {"session"})
    BY ONLY <1>4, <1>5, <1>6 DEF Ended
  <2>4. GoneEnded(R, Q, {})
    BY ONLY <1>13, <1>17, <2>1, <2>2, i \in DOMAIN R.sessions DEF GoneEnded
  <2>5. EndedGone(R, Q)
    <3>1. ASSUME NEW j \in DOMAIN R.sessions, j # i,
                 j \notin DOMAIN Q.sessions \/ (Ended(Q, j, {"session"}) /\ ~Ended(R, j, {"session"}))
          PROVE  ~Listed(Q, j)
      <4>1. j \in DOMAIN T.sessions
        BY ONLY <1>4, <3>1
      <4>2. j \notin DOMAIN Q.sessions \/ (Ended(Q, j, {"session"}) /\ ~Ended(T, j, {"session"}))
        BY ONLY <2>3, <3>1
      <4> QED
        BY ONLY <2>1, <4>1, <4>2 DEF EndedGone
    <3> QED
      BY ONLY <2>1, <3>1 DEF EndedGone
  <2>6. SourceEnded(R, Q)
    <3>1. DOMAIN Q.subs \subseteq DOMAIN R.subs
      BY ONLY <1>9, <1>10 DEF Part
    <3>2. \A x \in DOMAIN Q.subs : x \in DOMAIN R.sessions => x \in DOMAIN T.sessions
      <4>1. i \notin DOMAIN Q.subs
        BY ONLY <2>1 DEF Listed
      <4> QED
        BY ONLY <1>4, <4>1
    <3> QED
      BY ONLY <1>9, <2>1, <3>2 DEF SourceEnded
  <2> QED
    BY ONLY <2>4, <2>5, <2>6
<1>19. Part(R.streams, Q.streams) /\ Part(R.subs, Q.subs) /\ Q.pub \subseteq R.pub
  BY ONLY <1>9, <1>10
<1>20. R.mishaps \subseteq Q.mishaps /\ Q.mishaps \subseteq R.mishaps \cup {"removal_threw"} /\ R.calls \subseteq Q.calls
  BY ONLY <1>4, <1>8, <1>10
<1>21. Fades(R, Q, {})
  BY ONLY <1>10, <1>11, <1>12, <1>14, <1>15, <1>18, <1>19, <1>20 DEF Fades
<1> QED
  BY ONLY <1>1, <1>2, <1>8, <1>17, <1>20, <1>21

LEMMA TerminateFacts ==
  ASSUME NEW R, Good(R), NEW i \in Ids
  PROVE  LET Q == Terminate(R, i)
         IN /\ Fades(R, Q, {})
            /\ Q.mishaps \subseteq R.mishaps \cup {"removal_threw"}
            /\ i \in DOMAIN R.sessions /\ i \in DOMAIN Q.sessions => Ended(Q, i, {"session"})
            /\ i \notin DOMAIN R.sessions /\ i \in DOMAIN R.ops => Ended(Q, i, Operation)
<1>1. PICK Q : Q = Terminate(R, i)
  OBVIOUS
<1>2. CASE i \in DOMAIN R.sessions
  <2>1. Q = OnAborted(TerminateSessions(R, {i}), i)
    BY <1>1, <1>2 DEF Terminate
  <2> QED
    BY ONLY <1>1, <1>2, <2>1, Good(R), TerminateSessionFades
<1>3. CASE i \notin DOMAIN R.sessions
  <2>0. PICK is : is = {i}
    OBVIOUS
  <2>1. Q = TerminateOps(R, is, "asked")
    BY <1>1, <1>3, <2>0 DEF Terminate
  <2>2. "asked" \in Operation
    BY DEF Operation
  <2>3. /\ Fades(R, Q, {}) /\ Smoothly(R, Q)
        /\ \A j \in is : j \in DOMAIN R.ops => Ended(Q, j, {"asked"})
    <3>1. EndsOps(R, Q, is, "asked")
      BY ONLY <2>1, <2>2, Good(R), TerminateOpsFades
    <3> QED
      BY ONLY <3>1 DEF EndsOps
  <2>4. Ended(Q, i, {"asked"}) => Ended(Q, i, Operation)
    BY ONLY <2>2 DEF Ended
  <2> QED
    BY ONLY <1>1, <1>3, <2>0, <2>3, <2>4 DEF Smoothly
<1> QED
  BY ONLY <1>2, <1>3

-----------------------------------------------------------------------------
(* A participant is removed.                                               *)
LEMMA RemoveParticipantFacts ==
  ASSUME NEW R, Good(R), NEW u, NEW Q, Q = RemoveParticipant(R, u)
  PROVE  /\ \E P : Fades(R, P, Owned(R, u)) /\ StillButUsers(P, Q)
         /\ Good(Q)
         /\ Q.users = R.users \ {u}
         /\ Unthrown(Q) => /\ \A x \in DOMAIN Q.subs : Q.subs[x].owner # u
                           /\ \A s \in DOMAIN Q.streams : Q.streams[s].owner # u
         /\ Q.mishaps \subseteq R.mishaps \cup {"removal_threw"}
<1>1. PICK xs : xs = {x \in DOMAIN R.subs : R.subs[x].owner = u}
  OBVIOUS
<1>2. PICK ss : ss = {s \in DOMAIN R.streams : R.streams[s].owner = u}
  OBVIOUS
<1>3. PICK F : F = RemoveSubs(R, xs)
  OBVIOUS
<1>4. PICK P : P = RemoveStreams(F, ss)
  OBVIOUS
<1>5. /\ Good(F) /\ F.streams = R.streams /\ F.users = R.users /\ F.mishaps = R.mishaps
      /\ Part(R.subs, F.subs)
      /\ \A x : x \in DOMAIN F.subs <=> x \in DOMAIN R.subs /\ x \notin xs
  BY <1>3, RemoveSubsFacts DEF Still
<1>6. Q = [P EXCEPT !.users = @ \ {u}]
  BY <1>1, <1>2, <1>3, <1>4, <1>5 DEF RemoveParticipant
<1>7. /\ Fades(F, P, ss) /\ P.mishaps \subseteq F.mishaps \cup {"removal_threw"}
      /\ Unthrown(P) => \A s \in DOMAIN P.streams : s \notin ss
  BY ONLY <1>4, <1>5, RemoveStreamsFacts
<1>8. Fades(R, P, xs \cup ss)
  BY <1>3, <1>7, RemoveSubsFades, FadesTrans
<1>9. Fades(R, P, Owned(R, u))
  BY ONLY <1>1, <1>2, <1>8 DEF Owned
<1>10. Good(P)
  BY ONLY <1>9 DEF Fades
<1>11. Q \in ConfType /\ StillButUsers(P, Q) /\ Q.users = P.users \ {u}
  BY ONLY <1>6, <1>10 DEF Good, ConfType, StillButUsers, ListsStill
<1>12. Good(Q)
  BY ONLY <1>10, <1>11, GoodStill DEF StillButUsers
<1>13. Part(F.subs, P.subs) /\ Part(F.streams, P.streams)
  BY ONLY <1>7 DEF Fades
<1>14. \A x \in DOMAIN P.subs : P.subs[x].owner # u
  BY ONLY <1>1, <1>5, <1>13 DEF Part
<1>15. Unthrown(P) => \A s \in DOMAIN P.streams : P.streams[s].owner # u
  BY ONLY <1>2, <1>5, <1>7, <1>13 DEF Part
<1>16. P.users = R.users
  BY ONLY <1>9 DEF Fades, Still
<1>17. Q.streams = P.streams /\ Q.subs = P.subs /\ Q.mishaps = P.mishaps
  BY ONLY <1>11 DEF StillButUsers, ListsStill
<1>18. Unthrown(Q) => Unthrown(P)
  BY ONLY <1>17 DEF Unthrown
<1>19. Unthrown(Q) => /\ \A x \in DOMAIN Q.subs : Q.subs[x].owner # u
                      /\ \A s \in DOMAIN Q.streams : Q.streams[s].owner # u
  BY ONLY <1>14, <1>15, <1>17, <1>18
<1>20. Q.mishaps \subseteq R.mishaps \cup {"removal_threw"}
  BY ONLY <1>5, <1>7, <1>17
<1>21. Q.users = R.users \ {u}
  BY ONLY <1>11, <1>16
<1> QED
  BY ONLY <1>9, <1>11, <1>12, <1>19, <1>20, <1>21

LEMMA TerminateMisnamedFacts ==
  ASSUME NEW R, Good(R), NEW i, NEW Q, Q = TerminateMisnamed(R, i)
  PROVE  /\ Fades(R, Q, {}) /\ ListsStill(R, Q) /\ Q.sessions = R.sessions /\ Q.calls = R.calls
         /\ Q.mishaps \subseteq R.mishaps \cup {"not_terminated"}
         /\ "not_terminated" \notin Q.mishaps /\ i \in DOMAIN R.sessions \cup DOMAIN R.ops =>
              \E c \in R.calls : c.call \in {"terminate", "recycle"} /\ c.id = i
<1> R \in ConfType
  BY DEF Good
<1>2. "not_terminated" \in Mishaps
  BY DEF Mishaps
<1>3. CASE i \in DOMAIN R.sessions \cup DOMAIN R.ops /\ ~(\E c \in R.calls : c.call \in {"terminate", "recycle"} /\ c.id = i)
  <2>1. Q = Note(R, "not_terminated")
    BY <1>3 DEF TerminateMisnamed
  <2>2. Fades(R, Q, {})
    BY <1>2, <2>1, FadesRefl, FadesNote
  <2>3. /\ ListsStill(R, Q) /\ Q.sessions = R.sessions /\ Q.calls = R.calls
        /\ Q.mishaps = R.mishaps \cup {"not_terminated"}
    BY <1>2, <2>1, NoteFacts
  <2> QED
    BY ONLY <2>2, <2>3
<1>4. CASE ~(i \in DOMAIN R.sessions \cup DOMAIN R.ops /\ ~(\E c \in R.calls : c.call \in {"terminate", "recycle"} /\ c.id = i))
  <2>1. Q = R
    BY <1>4 DEF TerminateMisnamed
  <2>2. Fades(R, R, {})
    BY FadesRefl
  <2> QED
    BY ONLY <1>4, <2>1, <2>2 DEF ListsStill
<1> QED
  BY ONLY <1>3, <1>4

-----------------------------------------------------------------------------
(* Streams and subscriptions are established.                              *)
LEMMA EnterFacts ==
  ASSUME NEW R, Good(R), NEW is, is \subseteq Ids,
         \A i \in is : SpecOf(R, i) \in SpecsOf(i),
         \A x \in DOMAIN R.subs : R.subs[x].up => R.subs[x].from \notin is,
         NEW Q, Q = Enter(R, is)
  PROVE  Enters(R, Q, is)
<1> R \in ConfType
  BY DEF Good
<1>1. PICK ss : ss = is \cap Streams
  OBVIOUS
<1>2. PICK M : M = IF ss \subseteq DOMAIN R.streams THEN R ELSE Note(R, "revived")
  OBVIOUS
<1>3. /\ M \in ConfType /\ Still(R, M) /\ ListsStill(R, M) /\ M.sessions = R.sessions /\ M.calls = R.calls
      /\ R.mishaps \subseteq M.mishaps /\ (M.mishaps = {} => ss \subseteq DOMAIN R.streams)
  <2>1. "revived" \in Mishaps
    BY DEF Mishaps
  <2>2. CASE ss \subseteq DOMAIN R.streams
    <3>1. M = R
      BY ONLY <1>2, <2>2
    <3> QED
      BY ONLY <2>2, <3>1, R \in ConfType DEF Still, ListsStill
  <2>3. CASE ~(ss \subseteq DOMAIN R.streams)
    <3>1. M = Note(R, "revived")
      BY ONLY <1>2, <2>3
    <3>2. /\ M \in ConfType /\ Still(R, M) /\ ListsStill(R, M)
          /\ M.sessions = R.sessions /\ M.calls = R.calls
          /\ M.mishaps = R.mishaps \cup {"revived"}
      BY ONLY <2>1, <3>1, R \in ConfType, NoteFacts
    <3> QED
      BY ONLY <3>2
  <2> QED
    BY ONLY <2>2, <2>3
<1>4. PICK T : T = [s \in DOMAIN R.streams \cup ss |->
                      IF s \in ss THEN [owner |-> SpecOf(R, s).owner, up |-> TRUE] ELSE R.streams[s]]
  OBVIOUS
<1>5. PICK asked : asked = {[call |-> "subscribe", id |-> x, owner |-> SpecOf(R, x).owner, from |-> SpecOf(R, x).from] :
                            x \in is \ Streams}
  OBVIOUS
<1>6. PICK P : P = R.pub \cup ss
  OBVIOUS
<1>7. PICK C : C = R.calls \cup asked
  OBVIOUS
<1>8. Q = [M EXCEPT !.streams = T, !.pub = P, !.calls = C]
  <2>1. M.pub = R.pub /\ M.calls = R.calls
    BY ONLY <1>3 DEF ListsStill
  <2>2. Q = [M EXCEPT !.streams = [s \in DOMAIN R.streams \cup ss |->
                      IF s \in ss THEN [owner |-> SpecOf(R, s).owner, up |-> TRUE] ELSE R.streams[s]],
                      !.pub = @ \cup ss, !.calls = @ \cup
                        {[call |-> "subscribe", id |-> x, owner |-> SpecOf(R, x).owner, from |-> SpecOf(R, x).from] :
                           x \in is \ Streams}]
    BY ONLY Q = Enter(R, is), <1>1, <1>2 DEF Enter
  <2>3. Q = [M EXCEPT !.streams = T, !.pub = @ \cup ss, !.calls = @ \cup asked]
    BY ONLY <1>4, <1>5, <2>2
  <2> QED
    BY ONLY <1>6, <1>7, <2>1, <2>3
<1>9. \A s \in ss : SpecOf(R, s).owner \in People
  <2>1. \A s \in ss : SpecOf(R, s) \in StreamSpecs
    BY <1>1 DEF SpecsOf
  <2> QED
    BY ONLY <2>1 DEF StreamSpecs
<1>10. \A x \in is \ Streams : x \in Subs /\ SpecOf(R, x).owner \in People /\ SpecOf(R, x).from \in Streams
  <2>1. \A x \in is \ Streams : x \in Subs /\ SpecOf(R, x) \in SubSpecs
    BY DEF SpecsOf, Ids
  <2> QED
    BY ONLY <2>1 DEF SubSpecs
<1>11. /\ T \in Tables(Streams, StreamRecords)
       /\ \A s : s \in DOMAIN T <=> s \in DOMAIN R.streams \/ s \in ss
       /\ \A s \in ss : T[s] = [owner |-> SpecOf(R, s).owner, up |-> TRUE]
       /\ \A s \in DOMAIN R.streams : s \notin ss => T[s] = R.streams[s]
  <2>1. \A s \in DOMAIN R.streams \cup ss :
          (IF s \in ss THEN [owner |-> SpecOf(R, s).owner, up |-> TRUE] ELSE R.streams[s]) \in StreamRecords
    <3>1. \A s \in DOMAIN R.streams : R.streams[s] \in StreamRecords
      BY KeyFacts
    <3>2. \A s \in ss : [owner |-> SpecOf(R, s).owner, up |-> TRUE] \in StreamRecords
      BY ONLY <1>9 DEF StreamRecords
    <3> QED
      BY ONLY <3>1, <3>2
  <2>2. DOMAIN R.streams \cup ss \in SUBSET Streams
    BY <1>1, KeyFacts
  <2>3. T \in [DOMAIN R.streams \cup ss -> StreamRecords]
    BY ONLY <1>4, <2>1
  <2> QED
    BY ONLY <1>4, <2>2, <2>3 DEF Tables
<1>12. /\ asked \subseteq Calls
       /\ \A c \in asked : /\ c.call = "subscribe" /\ c.id \in is /\ c.id \notin Streams
                           /\ c.owner = SpecOf(R, c.id).owner /\ c.from = SpecOf(R, c.id).from
       /\ \A x \in is \ Streams : \E c \in asked : c.call = "subscribe" /\ c.id = x
  <2>1. \A x \in is \ Streams :
          [call |-> "subscribe", id |-> x, owner |-> SpecOf(R, x).owner, from |-> SpecOf(R, x).from] \in SubscribeCalls
    BY ONLY <1>10 DEF SubscribeCalls
  <2>2. asked \subseteq SubscribeCalls
    BY ONLY <1>5, <2>1
  <2>3. \A c \in asked : /\ c.call = "subscribe" /\ c.id \in is /\ c.id \notin Streams
                         /\ c.owner = SpecOf(R, c.id).owner /\ c.from = SpecOf(R, c.id).from
    BY ONLY <1>5
  <2>4. ASSUME NEW x \in is \ Streams
        PROVE  \E c \in asked : c.call = "subscribe" /\ c.id = x
    <3>1. [call |-> "subscribe", id |-> x, owner |-> SpecOf(R, x).owner, from |-> SpecOf(R, x).from] \in asked
      BY ONLY <1>5, <2>4
    <3> QED
      BY ONLY <3>1
  <2> QED
    BY ONLY <2>2, <2>3, <2>4 DEF Calls
<1>13. P \subseteq Streams /\ C \subseteq Calls
  BY <1>1, <1>6, <1>7, <1>12, ConfFacts
<1>14. /\ Q \in ConfType /\ Still(M, Q) /\ Q.streams = T /\ Q.subs = M.subs /\ Q.pub = P /\ Q.calls = C
       /\ Q.before = M.before /\ Q.taken = M.taken /\ Q.sessions = M.sessions /\ Q.mishaps = M.mishaps
  BY ONLY <1>3, <1>8, <1>11, <1>13 DEF ConfType, Still
<1>15. Still(R, Q)
  BY ONLY <1>3, <1>14, StillTrans
<1>16. Q.subs = R.subs /\ Q.before = R.before /\ Q.taken = R.taken /\ Q.sessions = R.sessions
  BY ONLY <1>3, <1>14 DEF ListsStill
<1>17. Lined(Q)
  BY ONLY <1>16, Good(R) DEF Good, Lined
<1>18. InRoom(Q)
  <2>1. InRoom(R)
    BY DEF Good
  <2>2. \A s \in Streams : s \in Q.pub <=> s \in DOMAIN Q.streams /\ Q.streams[s].up
    <3>1. \A s : s \in Q.pub <=> s \in R.pub \/ s \in ss
      BY ONLY <1>6, <1>14
    <3>2. \A s \in Streams : s \in R.pub <=> s \in DOMAIN R.streams /\ R.streams[s].up
      BY ONLY <2>1 DEF InRoom
    <3>3. ASSUME NEW s \in ss
          PROVE  T[s].up
      <4>1. PICK o : o = SpecOf(R, s).owner
        OBVIOUS
      <4>2. T[s] = [owner |-> o, up |-> TRUE]
        BY ONLY <1>11, <3>3, <4>1
      <4> QED
        BY ONLY <4>2
    <3> QED
      BY ONLY <1>11, <1>14, <3>1, <3>2, <3>3
  <2>3. \A x \in DOMAIN R.subs : R.subs[x].up => (R.subs[x].from \in Q.pub <=> R.subs[x].from \in R.pub)
    BY <1>1, <1>6, <1>14
  <2>4. \A x \in Subs : x \in DOMAIN Q.taken <=> x \in DOMAIN Q.subs /\ Q.subs[x].up /\ Q.subs[x].from \in Q.pub
    <3>1. \A x \in Subs : x \in DOMAIN R.taken <=> x \in DOMAIN R.subs /\ R.subs[x].up /\ R.subs[x].from \in R.pub
      BY ONLY <2>1 DEF InRoom
    <3> QED
      BY ONLY <1>16, <2>3, <3>1
  <2>5. \A x \in DOMAIN Q.taken : Q.taken[x] = Q.subs[x].from
    BY ONLY <1>16, <2>1 DEF InRoom
  <2> QED
    BY ONLY <2>2, <2>4, <2>5 DEF InRoom
<1>19. /\ \A s : s \in Q.pub <=> s \in R.pub \/ s \in is \cap Streams
       /\ \A s : s \in DOMAIN Q.streams <=> s \in DOMAIN R.streams \/ s \in is \cap Streams
  BY ONLY <1>1, <1>6, <1>11, <1>14
<1>20. \A s \in DOMAIN Q.streams :
         Q.streams[s] = IF s \in is THEN [owner |-> SpecOf(R, s).owner, up |-> TRUE] ELSE R.streams[s]
  <2>1. \A s \in DOMAIN R.streams : s \in Streams
    BY KeyFacts
  <2> QED
    BY ONLY <1>1, <1>11, <1>14, <2>1
<1>21. R.mishaps \subseteq Q.mishaps /\ (Q.mishaps = {} => is \cap Streams \subseteq DOMAIN R.streams)
  BY ONLY <1>1, <1>3, <1>14
<1>22. /\ R.calls \subseteq Q.calls
       /\ \A c \in Q.calls : c \notin R.calls =>
            /\ c.call = "subscribe" /\ c.id \in is /\ c.id \notin Streams
            /\ c.owner = SpecOf(R, c.id).owner /\ c.from = SpecOf(R, c.id).from
       /\ \A x \in is \ Streams : \E c \in Q.calls : c.call = "subscribe" /\ c.id = x
  BY ONLY <1>7, <1>12, <1>14
<1> QED
  BY ONLY <1>14, <1>15, <1>16, <1>17, <1>18, <1>19, <1>20, <1>21, <1>22 DEF Enters, Good

LEMMA OpsEstablishedFacts ==
  ASSUME NEW R, Good(R), NEW is, is \subseteq DOMAIN R.ops,
         \A i \in is : SpecOf(R, i) \in SpecsOf(i),
         \A x \in DOMAIN R.subs : R.subs[x].up => R.subs[x].from \notin is,
         NEW Q, Q = OpsEstablished(R, is)
  PROVE  \E W, T :
           /\ W \subseteq is /\ \A i \in W : Present(R, SpecOf(R, i).owner)
           /\ Fades(R, T, {}) /\ ListsStill(R, T) /\ Smoothly(R, T)
           /\ \A c \in T.calls : c \notin R.calls => c.call = "terminate" /\ c.id \in is /\ c.why = "asked"
           /\ \A i \in is : i \notin W => Ended(T, i, {"asked"})
           /\ Enters(T, Q, W)
           /\ \A i : SpecOf(T, i) = SpecOf(R, i)
<1>1. PICK W : W = {i \in is : Welcome(R, i)}
  OBVIOUS
<1>2. PICK rest : rest = is \ W
  OBVIOUS
<1>3. PICK T : T = TerminateOps(R, rest, "asked")
  OBVIOUS
<1>4. Q = Enter(T, W)
  BY ONLY Q = OpsEstablished(R, is), <1>1, <1>2, <1>3 DEF OpsEstablished
<1>5. "asked" \in Operation
  BY DEF Operation
<1>6. /\ Fades(R, T, {}) /\ ListsStill(R, T) /\ Smoothly(R, T)
      /\ \A i \in rest : i \in DOMAIN R.ops => Ended(T, i, {"asked"})
      /\ \A c \in T.calls : c \notin R.calls => c.call = "terminate" /\ c.id \in rest /\ c.why = "asked"
  <2>1. EndsOps(R, T, rest, "asked")
    BY ONLY <1>3, <1>5, Good(R), TerminateOpsFades
  <2> QED
    BY ONLY <2>1 DEF EndsOps
<1>7. Good(T) /\ T.ops = R.ops /\ T.subs = R.subs
  BY ONLY <1>6 DEF Fades, Still, ListsStill
<1>8. \A i : SpecOf(T, i) = SpecOf(R, i)
  BY ONLY <1>6, <1>7 DEF SpecOf, Smoothly
<1>9. W \subseteq Ids
  BY <1>1, KeyFacts DEF Good
<1>10. Enters(T, Q, W)
  <2>1. \A i \in W : i \in is
    BY <1>1
  <2>2. \A i \in W : SpecOf(T, i) \in SpecsOf(i)
    BY <1>8, <2>1
  <2>3. \A x \in DOMAIN T.subs : T.subs[x].up => T.subs[x].from \notin W
    BY <1>7, <2>1
  <2> QED
    BY ONLY <1>4, <1>7, <1>9, <2>2, <2>3, EnterFacts
<1>11. \A i \in W : Present(R, SpecOf(R, i).owner)
  BY <1>1 DEF Welcome
<1>12. \A i \in is : i \notin W => Ended(T, i, {"asked"})
  BY <1>2, <1>6
<1>13. W \subseteq is /\ rest \subseteq is
  BY <1>1, <1>2
<1> QED
  BY ONLY <1>6, <1>8, <1>10, <1>11, <1>12, <1>13

(* An identifier that is not used yet is put into a list, in connecting.   *)
Lists(R, Q, x, owner, from, up) ==
  /\ Q \in ConfType /\ Still(R, Q) /\ Lined(Q)
  /\ RoomStill(R, Q) /\ CarriersStill(R, Q)
  /\ \A y : y \in DOMAIN Q.subs <=> y \in DOMAIN R.subs \/ y = x
  /\ Q.subs[x] = [owner |-> owner, from |-> from, up |-> up]
  /\ \A y \in DOMAIN R.subs : y # x => Q.subs[y] = R.subs[y]

LEMMA ListingFacts ==
  ASSUME NEW R, Good(R), NEW x \in Subs, NEW owner \in People, NEW from \in Streams, NEW up \in BOOLEAN,
         NEW Q, Q = Listing(R, x, owner, from, up)
  PROVE  Lists(R, Q, x, owner, from, up)
<1> R \in ConfType
  BY DEF Good
<1>1. PICK v : v = [owner |-> owner, from |-> from, up |-> up]
  OBVIOUS
<1>2. PICK B : B = Put(R.subs, x, v)
  OBVIOUS
<1>3. PICK ys : ys = IF x \in DOMAIN R.subs THEN {} ELSE DOMAIN R.subs
  OBVIOUS
<1>4. PICK new : new = {<<y, x>> : y \in ys}
  OBVIOUS
<1>5. PICK C : C = R.before \cup new
  OBVIOUS
<1>6. Q = [R EXCEPT !.subs = B, !.before = C]
  BY ONLY Q = Listing(R, x, owner, from, up), <1>1, <1>2, <1>3, <1>4, <1>5 DEF Listing
<1>7. v \in SubRecords
  BY ONLY <1>1, owner \in People, from \in Streams, up \in BOOLEAN DEF SubRecords
<1>8. /\ B \in Tables(Subs, SubRecords) /\ B[x] = v
      /\ \A y : y \in DOMAIN B <=> y \in DOMAIN R.subs \/ y = x
      /\ \A y \in DOMAIN R.subs : y # x => B[y] = R.subs[y]
  <2>1. R.subs \in Tables(Subs, SubRecords)
    BY ConfFacts
  <2> QED
    BY ONLY <1>2, <1>7, <2>1, x \in Subs, PutFacts
<1>9. DOMAIN R.subs \subseteq Subs /\ R.before \subseteq Subs \X Subs
  BY KeyFacts, ConfFacts
<1>10. ys \subseteq DOMAIN R.subs
  BY ONLY <1>3
<1>11. new \subseteq Subs \X Subs
  BY ONLY <1>4, <1>9, <1>10, x \in Subs
<1>12. C \subseteq Subs \X Subs
  BY ONLY <1>5, <1>9, <1>11
<1>13. /\ Q \in ConfType /\ Still(R, Q) /\ Q.streams = R.streams /\ Q.pub = R.pub /\ Q.taken = R.taken
       /\ Q.sessions = R.sessions /\ Q.calls = R.calls /\ Q.mishaps = R.mishaps
       /\ Q.subs = B /\ Q.before = C
  BY ONLY <1>6, <1>8, <1>12, R \in ConfType DEF ConfType, Still
<1>14. Lined(Q)
  <2>1. Lined(R)
    BY DEF Good
  <2>2. \A p \in new : \E y \in ys : p = <<y, x>>
    BY ONLY <1>4
  <2>3. \A y \in ys : <<y, x>> \in new
    BY ONLY <1>4
  <2>4. \A p \in C : p[1] \in DOMAIN Q.subs /\ p[2] \in DOMAIN Q.subs
    <3>1. \A p \in R.before : p[1] \in DOMAIN R.subs /\ p[2] \in DOMAIN R.subs
      BY ONLY <2>1 DEF Lined
    <3>2. \A p \in new : p[1] \in DOMAIN R.subs /\ p[2] = x
      BY ONLY <1>10, <2>2
    <3> QED
      BY ONLY <1>5, <1>8, <1>13, <3>1, <3>2
  <2>5. \A y, z : <<y, z>> \in C <=> <<y, z>> \in R.before \/ (z = x /\ y \in ys)
    BY ONLY <1>5, <2>2, <2>3
  <2>6. \A y, z : <<y, z>> \in R.before => y \in DOMAIN R.subs /\ z \in DOMAIN R.subs
    BY ONLY <2>1 DEF Lined
  <2>7. \A y, z \in DOMAIN R.subs : y # z => (<<y, z>> \in R.before <=> <<z, y>> \notin R.before)
    BY ONLY <2>1 DEF Lined
  <2>8. \A y : y \in ys <=> x \notin DOMAIN R.subs /\ y \in DOMAIN R.subs
    BY ONLY <1>3
  <2>9. \A y, z \in DOMAIN B : y # z => (<<y, z>> \in C <=> <<z, y>> \notin C)
    BY ONLY <1>8, <2>5, <2>6, <2>7, <2>8
  <2> QED
    BY ONLY <1>13, <2>4, <2>9 DEF Lined
<1> QED
  BY ONLY <1>1, <1>8, <1>13, <1>14 DEF Lists, RoomStill, CarriersStill

(* A stream or a subscription is in connecting.                            *)
Begins(R, Q, i, spec) ==
  /\ Good(Q) /\ Q.used = R.used \cup {i}
  /\ Q.users = R.users /\ Q.met = R.met /\ Q.ops = R.ops /\ Q.trans = R.trans
  /\ Q.polls = R.polls /\ Q.leaving = R.leaving
  /\ Q.pub = R.pub /\ Q.sessions = R.sessions /\ Q.calls = R.calls /\ Q.mishaps = R.mishaps
  /\ \A s : s \in DOMAIN Q.streams <=> s \in DOMAIN R.streams \/ (s = i /\ i \in Streams)
  /\ \A x : x \in DOMAIN Q.subs <=> x \in DOMAIN R.subs \/ (x = i /\ i \notin Streams)
  /\ \A s \in DOMAIN R.streams : s # i => Q.streams[s] = R.streams[s]
  /\ \A x \in DOMAIN R.subs : x # i => Q.subs[x] = R.subs[x]
  /\ i \in Streams => Q.streams[i] = [owner |-> spec.owner, up |-> FALSE]
  /\ i \notin Streams => Q.subs[i] = [owner |-> spec.owner, from |-> spec.from, up |-> FALSE]

LEMMA BegunFacts ==
  ASSUME NEW R, Good(R), NEW i \in Ids, NEW spec \in SpecsOf(i), ~Listed(R, i), NEW Q, Q = Begun(R, i, spec)
  PROVE  Begins(R, Q, i, spec)
<1>0. R \in ConfType
  BY DEF Good
<1>1. PICK U : U = [R EXCEPT !.used = @ \cup {i}]
  OBVIOUS
<1>2. /\ U \in ConfType /\ ListsStill(R, U) /\ U.used = R.used \cup {i}
      /\ U.users = R.users /\ U.met = R.met /\ U.ops = R.ops /\ U.trans = R.trans
      /\ U.polls = R.polls /\ U.leaving = R.leaving
      /\ U.sessions = R.sessions /\ U.calls = R.calls /\ U.mishaps = R.mishaps
  BY ONLY <1>0, <1>1, i \in Ids DEF ConfType, ListsStill
<1>3. Good(U)
  BY ONLY <1>2, Good(R), GoodStill
<1>4. U.streams = R.streams /\ U.subs = R.subs /\ U.before = R.before /\ U.pub = R.pub /\ U.taken = R.taken
  BY ONLY <1>2 DEF ListsStill
<1>5. InRoom(R) /\ Lined(R)
  BY DEF Good
<1>6. CASE i \in Streams
  <2>1. PICK v : v = [owner |-> spec.owner, up |-> FALSE]
    OBVIOUS
  <2>2. PICK T : T = Put(R.streams, i, v)
    OBVIOUS
  <2>3. Q = [U EXCEPT !.streams = T]
    BY ONLY Q = Begun(R, i, spec), <1>1, <1>4, <1>6, <2>1, <2>2 DEF Begun
  <2>4. v \in StreamRecords
    BY ONLY <1>6, <2>1, spec \in SpecsOf(i) DEF SpecsOf, StreamSpecs, StreamRecords
  <2>5. /\ T \in Tables(Streams, StreamRecords) /\ T[i] = v
        /\ \A y : y \in DOMAIN T <=> y \in DOMAIN R.streams \/ y = i
        /\ \A y \in DOMAIN R.streams : y # i => T[y] = R.streams[y]
    <3>1. R.streams \in Tables(Streams, StreamRecords)
      BY ONLY <1>0, ConfFacts
    <3> QED
      BY ONLY <1>6, <2>2, <2>4, <3>1, PutFacts
  <2>6. /\ Q \in ConfType /\ Still(U, Q) /\ Q.streams = T /\ Q.subs = U.subs /\ Q.before = U.before
        /\ Q.pub = U.pub /\ Q.taken = U.taken
        /\ Q.sessions = U.sessions /\ Q.calls = U.calls /\ Q.mishaps = U.mishaps
    BY ONLY <1>2, <2>3, <2>5 DEF ConfType, Still
  <2>7. Lined(Q)
    BY ONLY <1>4, <1>5, <2>6 DEF Lined
  <2>8. InRoom(Q)
    <3>1. i \notin R.pub
      BY ONLY <1>5, <1>6, ~Listed(R, i) DEF InRoom, Listed
    <3>2. ~T[i].up
      BY ONLY <2>1, <2>5
    <3>3. \A s \in Streams : s \in Q.pub <=> s \in DOMAIN Q.streams /\ Q.streams[s].up
      BY ONLY <1>4, <1>5, <2>5, <2>6, <3>1, <3>2 DEF InRoom
    <3>4. /\ \A x \in Subs : x \in DOMAIN Q.taken <=> x \in DOMAIN Q.subs /\ Q.subs[x].up /\ Q.subs[x].from \in Q.pub
          /\ \A x \in DOMAIN Q.taken : Q.taken[x] = Q.subs[x].from
      BY ONLY <1>4, <1>5, <2>6 DEF InRoom
    <3> QED
      BY ONLY <3>3, <3>4 DEF InRoom
  <2> QED
    BY ONLY <1>2, <1>4, <1>6, <2>1, <2>5, <2>6, <2>7, <2>8 DEF Begins, Good, Still
<1>7. CASE i \notin Streams
  <2>1. i \in Subs /\ spec.owner \in People /\ spec.from \in Streams
    BY ONLY <1>7, i \in Ids, spec \in SpecsOf(i) DEF Ids, SpecsOf, SubSpecs
  <2>2. Q = Listing(U, i, spec.owner, spec.from, FALSE)
    BY ONLY Q = Begun(R, i, spec), <1>1, <1>7 DEF Begun
  <2>3. /\ Q \in ConfType /\ Still(U, Q) /\ Lined(Q)
        /\ RoomStill(U, Q) /\ CarriersStill(U, Q)
        /\ \A y : y \in DOMAIN Q.subs <=> y \in DOMAIN U.subs \/ y = i
        /\ Q.subs[i] = [owner |-> spec.owner, from |-> spec.from, up |-> FALSE]
        /\ \A y \in DOMAIN U.subs : y # i => Q.subs[y] = U.subs[y]
    <3>1. Lists(U, Q, i, spec.owner, spec.from, FALSE)
      BY ONLY <1>3, <2>1, <2>2, ListingFacts
    <3> QED
      BY ONLY <3>1 DEF Lists
  <2>4. InRoom(Q)
    <3>1. \A s \in Streams : s \in Q.pub <=> s \in DOMAIN Q.streams /\ Q.streams[s].up
      BY ONLY <1>4, <1>5, <2>3 DEF InRoom, RoomStill
    <3>2. i \notin DOMAIN R.subs
      BY ONLY ~Listed(R, i) DEF Listed
    <3>3. ~Q.subs[i].up
      <4>1. PICK o, f : o = spec.owner /\ f = spec.from
        OBVIOUS
      <4>2. Q.subs[i] = [owner |-> o, from |-> f, up |-> FALSE]
        BY ONLY <2>3, <4>1
      <4> QED
        BY ONLY <4>2
    <3>4. \A x \in Subs : x \in DOMAIN Q.taken <=> x \in DOMAIN Q.subs /\ Q.subs[x].up /\ Q.subs[x].from \in Q.pub
      <4>1. \A x \in Subs : x \in DOMAIN R.taken <=> x \in DOMAIN R.subs /\ R.subs[x].up /\ R.subs[x].from \in R.pub
        BY ONLY <1>5 DEF InRoom
      <4> QED
        BY ONLY <1>4, <2>3, <3>2, <3>3, <4>1 DEF RoomStill
    <3>5. \A x \in DOMAIN Q.taken : Q.taken[x] = Q.subs[x].from
      <4>1. \A x \in DOMAIN R.taken : x \in Subs
        BY ONLY <1>0, KeyFacts
      <4>2. \A x \in DOMAIN R.taken : x \in DOMAIN R.subs /\ R.taken[x] = R.subs[x].from
        BY ONLY <1>5, <4>1 DEF InRoom
      <4> QED
        BY ONLY <1>4, <2>3, <3>2, <4>2 DEF RoomStill
    <3> QED
      BY ONLY <3>1, <3>4, <3>5 DEF InRoom
  <2> QED
    BY ONLY <1>2, <1>4, <1>7, <2>3, <2>4 DEF Begins, Good, Still, RoomStill, CarriersStill
<1> QED
  BY ONLY <1>6, <1>7

(* The room controller has subscribed x, whose owner is there.             *)
Subscribes(R, Q, x, owner, from) ==
  /\ Good(Q) /\ Still(R, Q)
  /\ Q.streams = R.streams /\ Q.pub = R.pub /\ Q.sessions = R.sessions /\ Q.calls = R.calls
  /\ R.mishaps \subseteq Q.mishaps /\ (Q.mishaps = {} => x \in DOMAIN R.subs)
  /\ \A y : y \in DOMAIN Q.subs <=> y \in DOMAIN R.subs \/ y = x
  /\ Q.subs[x] = [owner |-> owner, from |-> from, up |-> TRUE]
  /\ \A y \in DOMAIN R.subs : y # x => Q.subs[y] = R.subs[y]

LEMMA SubscribedFacts ==
  ASSUME NEW R, Good(R), NEW c, c.id \in Subs, c.owner \in People, c.from \in R.pub, Present(R, c.owner),
         NEW Q, Q = Subscribed(R, c)
  PROVE  Subscribes(R, Q, c.id, c.owner, c.from)
<1>0. R \in ConfType /\ c.from \in Streams
  BY ConfFacts DEF Good
<1>1. PICK x, o, f : x = c.id /\ o = c.owner /\ f = c.from
  OBVIOUS
<1>2. PICK M : M = IF x \in DOMAIN R.subs THEN R ELSE Note(R, "revived")
  OBVIOUS
<1>3. /\ Good(M) /\ Still(R, M) /\ ListsStill(R, M) /\ M.sessions = R.sessions /\ M.calls = R.calls
      /\ R.mishaps \subseteq M.mishaps /\ (M.mishaps = {} => x \in DOMAIN R.subs)
  <2>1. "revived" \in Mishaps
    BY DEF Mishaps
  <2>2. CASE x \in DOMAIN R.subs
    <3>1. M = R
      BY ONLY <1>2, <2>2
    <3> QED
      BY ONLY <2>2, <3>1, Good(R) DEF Still, ListsStill
  <2>3. CASE x \notin DOMAIN R.subs
    <3>1. M = Note(R, "revived")
      BY ONLY <1>2, <2>3
    <3>2. /\ M \in ConfType /\ Still(R, M) /\ ListsStill(R, M)
          /\ M.sessions = R.sessions /\ M.calls = R.calls
          /\ M.mishaps = R.mishaps \cup {"revived"}
      BY ONLY <2>1, <3>1, <1>0, NoteFacts
    <3>3. Good(M)
      BY ONLY <3>2, Good(R), GoodStill
    <3> QED
      BY ONLY <3>2, <3>3
  <2> QED
    BY ONLY <2>2, <2>3
<1>4. PICK L : L = Listing(M, x, o, f, TRUE)
  OBVIOUS
<1>5. Lists(M, L, x, o, f, TRUE)
  <2>1. x \in Subs /\ o \in People /\ f \in Streams /\ TRUE \in BOOLEAN
    BY <1>0, <1>1
  <2> QED
    BY ONLY <1>3, <1>4, <2>1, ListingFacts
<1>6. /\ L \in ConfType /\ Still(M, L) /\ Lined(L)
      /\ L.streams = M.streams /\ L.pub = M.pub /\ L.taken = M.taken
      /\ L.sessions = M.sessions /\ L.calls = M.calls /\ L.mishaps = M.mishaps
      /\ \A y : y \in DOMAIN L.subs <=> y \in DOMAIN M.subs \/ y = x
      /\ L.subs[x] = [owner |-> o, from |-> f, up |-> TRUE]
      /\ \A y \in DOMAIN M.subs : y # x => L.subs[y] = M.subs[y]
  BY ONLY <1>5 DEF Lists, RoomStill, CarriersStill
<1>7. PICK A : A = Put(L.taken, x, f)
  OBVIOUS
<1>8. Q = [L EXCEPT !.taken = A]
  BY ONLY Q = Subscribed(R, c), Present(R, c.owner), <1>1, <1>2, <1>4, <1>6, <1>7 DEF Subscribed
<1>9. /\ A \in Tables(Subs, Streams) /\ A[x] = f
      /\ \A y : y \in DOMAIN A <=> y \in DOMAIN L.taken \/ y = x
      /\ \A y \in DOMAIN L.taken : y # x => A[y] = L.taken[y]
  <2>1. L.taken \in Tables(Subs, Streams) /\ x \in Subs /\ f \in Streams
    BY <1>0, <1>1, <1>6, ConfFacts
  <2> QED
    BY ONLY <1>7, <2>1, PutFacts
<1>10. /\ Q \in ConfType /\ Still(L, Q) /\ Q.streams = L.streams /\ Q.pub = L.pub
       /\ Q.sessions = L.sessions /\ Q.calls = L.calls /\ Q.mishaps = L.mishaps
       /\ Q.subs = L.subs /\ Q.before = L.before /\ Q.taken = A
  BY ONLY <1>6, <1>8, <1>9 DEF ConfType, Still
<1>11. M.streams = R.streams /\ M.subs = R.subs /\ M.pub = R.pub /\ M.taken = R.taken
  BY ONLY <1>3 DEF ListsStill
<1>12. Lined(Q)
  BY ONLY <1>6, <1>10 DEF Lined
<1>13. InRoom(Q)
  <2>1. InRoom(R)
    BY DEF Good
  <2>2. \A s \in Streams : s \in Q.pub <=> s \in DOMAIN Q.streams /\ Q.streams[s].up
    BY ONLY <1>6, <1>10, <1>11, <2>1 DEF InRoom
  <2>3. L.subs[x].up /\ L.subs[x].from = f
    BY ONLY <1>6
  <2>4. f \in R.pub
    BY <1>1
  <2>5. \A y \in Subs : y \in DOMAIN Q.taken <=> y \in DOMAIN Q.subs /\ Q.subs[y].up /\ Q.subs[y].from \in Q.pub
    <3>1. \A y \in Subs : y \in DOMAIN R.taken <=> y \in DOMAIN R.subs /\ R.subs[y].up /\ R.subs[y].from \in R.pub
      BY ONLY <2>1 DEF InRoom
    <3> QED
      BY ONLY <1>6, <1>9, <1>10, <1>11, <2>3, <2>4, <3>1
  <2>6. \A y \in DOMAIN Q.taken : Q.taken[y] = Q.subs[y].from
    <3>1. \A y \in DOMAIN R.taken : y \in Subs
      BY <1>0, KeyFacts
    <3>2. \A y \in DOMAIN R.taken : y \in DOMAIN R.subs /\ R.taken[y] = R.subs[y].from
      BY ONLY <2>1, <3>1 DEF InRoom
    <3> QED
      BY ONLY <1>6, <1>9, <1>10, <1>11, <2>3, <3>2
  <2> QED
    BY ONLY <2>2, <2>5, <2>6 DEF InRoom
<1>14. Still(R, Q)
  BY ONLY <1>3, <1>6, <1>10, StillTrans
<1> QED
  BY ONLY <1>1, <1>3, <1>6, <1>10, <1>11, <1>12, <1>13, <1>14 DEF Subscribes, Good

-----------------------------------------------------------------------------
(* What holds whatever fails.  N is the access nodes.                      *)

Has(R, i, call) == \E c \in R.calls : c.call = call /\ c.id = i
Unserved(R, i) == \E c \in R.calls : c.call = "initiate" /\ c.id = i /\ ~c.served
Recycling(R, i, why) == \E c \in R.calls : c.call = "recycle" /\ c.id = i /\ c.why = why

(* What anybody knows i to be started with.                                *)
Known(R, i, v) ==
  \/ i \in DOMAIN R.ops /\ v = R.ops[i].spec
  \/ i \in DOMAIN R.sessions /\ v = R.sessions[i].spec
  \/ i \in DOMAIN R.streams /\ v = [owner |-> R.streams[i].owner]
  \/ i \in DOMAIN R.subs /\ v = [owner |-> R.subs[i].owner, from |-> R.subs[i].from]
  \/ \E c \in R.calls : c.call \in {"node", "initiate"} /\ c.id = i /\ v = c.spec
  \/ \E c \in R.calls : c.call = "subscribe" /\ c.id = i /\ v = [owner |-> c.owner, from |-> c.from]

(* Everybody knows the same, and whose it is.                              *)
SpecsKnown(R) ==
  /\ \A i, v, w : Known(R, i, v) /\ Known(R, i, w) => v = w
  /\ \A i, v : Known(R, i, v) =>
       /\ v \in SpecsOf(i)
       /\ i \in bound.sessions => v.owner = Admin
       /\ i \notin bound.sessions => v.owner \in R.met

(* Sessions and operations are of different kinds; an operation has a      *)
(* transport of its participant.                                           *)
KindsApart(R) ==
  /\ R.users \subseteq R.met
  /\ \A i \in DOMAIN R.sessions : i \in bound.sessions
  /\ R.polls \subseteq bound.sessions
  /\ \A i \in DOMAIN R.ops :
       /\ i \notin bound.sessions /\ R.ops[i].trans \in DOMAIN R.trans
       /\ R.ops[i].spec.owner = R.trans[R.ops[i].trans].owner
  /\ \A t \in DOMAIN R.trans : t \notin bound.sessions /\ R.trans[t].owner \in R.met

(* What is not used yet is nowhere.                                        *)
UsedOnce(R, N) ==
  /\ DOMAIN R.streams \subseteq R.used /\ DOMAIN R.subs \subseteq R.used
  /\ DOMAIN R.sessions \subseteq R.used /\ DOMAIN R.ops \subseteq R.used /\ DOMAIN R.trans \subseteq R.used
  /\ N.sessions \subseteq R.used /\ N.held \subseteq R.used
  /\ \A c \in R.calls : c.call # "drop" => c.id \in R.used

NotBegun(R, N, i) ==
  /\ i \notin N.sessions
  /\ i \in DOMAIN R.sessions => R.sessions[i].state = "initialized" /\ ~R.sessions[i].ready

(* A node is asked for once, and then to begin.                            *)
CallsApart(R, N) ==
  /\ \A c, d \in R.calls :
       c.call \in {"node", "initiate"} /\ d.call \in {"node", "initiate"} /\ c.id = d.id => c = d
  /\ \A c \in R.calls :
       /\ c.call = "node" => /\ c.id \notin DOMAIN R.ops /\ c.id \notin DOMAIN R.trans /\ c.id \notin N.held
                             /\ NotBegun(R, N, c.id)
       /\ c.call = "initiate" /\ c.id \notin bound.sessions => c.id \in DOMAIN R.ops
       /\ c.call = "initiate" /\ ~c.served => NotBegun(R, N, c.id)
       /\ c.call = "terminate" /\ c.why \in Operation => c.id \notin bound.sessions
       /\ (c.call = "terminate" /\ c.why \notin Operation) \/ c.call = "recycle" =>
            /\ c.id \in bound.sessions /\ ~Has(R, c.id, "node") /\ ~Unserved(R, c.id)

(* What was established once will not be again.                            *)
WasReady(R, s) ==
  /\ ~Has(R, s, "node")
  /\ s \in DOMAIN R.ops => R.ops[s].done /\ R.trans[R.ops[s].trans].ready
  /\ s \in DOMAIN R.sessions => R.sessions[s].ready

ReadyOnce(R) ==
  /\ \A s \in R.pub : s \in R.used /\ WasReady(R, s)
  /\ \A x \in DOMAIN R.subs : R.subs[x].up => R.subs[x].from \in R.used /\ WasReady(R, R.subs[x].from)

Owners(R) ==
  Unthrown(R) => /\ \A s \in DOMAIN R.streams : Present(R, R.streams[s].owner)
                 /\ \A x \in DOMAIN R.subs : Present(R, R.subs[x].owner)

NodesType(R, N) ==
  /\ N \in [sessions : SUBSET Ids, trans : SUBSET Ids, held : SUBSET Ids]
  /\ N.sessions \subseteq bound.sessions /\ N.trans \subseteq DOMAIN R.trans

Core(R, N) ==
  /\ Good(R) /\ KindsApart(R) /\ SpecsKnown(R) /\ UsedOnce(R, N) /\ CallsApart(R, N)
  /\ ReadyOnce(R) /\ Owners(R) /\ NodesType(R, N)

(* The calls that fading leaves as they are.                               *)
LEMMA FadesCalls ==
  ASSUME NEW R, NEW Q, NEW D, Fades(R, Q, D)
  PROVE  /\ \A c \in R.calls : c \in Q.calls
         /\ \A c \in Q.calls : c.call # "terminate" => c \in R.calls
         /\ \A i : Unserved(Q, i) <=> Unserved(R, i)
         /\ \A i : Has(Q, i, "node") <=> Has(R, i, "node")
<1>1. \A c \in R.calls : c \in Q.calls
  BY DEF Fades
<1>2. \A c \in Q.calls : c.call # "terminate" => c \in R.calls
  BY DEF Fades, CallsEnd
<1> QED
  BY ONLY <1>1, <1>2 DEF Unserved, Has

LEMMA FadesKnown ==
  ASSUME NEW R, NEW Q, NEW D, Fades(R, Q, D), NEW i, NEW v, Known(Q, i, v)
  PROVE  Known(R, i, v)
<1>1. /\ Part(R.streams, Q.streams) /\ Part(R.subs, Q.subs) /\ Part(R.sessions, Q.sessions)
      /\ Q.ops = R.ops
  BY DEF Fades, Still
<1>2. \A c \in Q.calls : c.call # "terminate" => c \in R.calls
  BY FadesCalls
<1> QED
  BY ONLY <1>1, <1>2, Known(Q, i, v) DEF Known, Part

LEMMA CoreFades ==
  ASSUME NEW R, NEW N, Core(R, N), NEW Q, NEW D, Fades(R, Q, D)
  PROVE  Core(Q, N)
<1>1. /\ Good(Q) /\ Q.users = R.users /\ Q.met = R.met /\ Q.ops = R.ops /\ Q.trans = R.trans
      /\ Q.polls = R.polls /\ Q.used = R.used /\ R.mishaps \subseteq Q.mishaps /\ Q.pub \subseteq R.pub
  BY DEF Fades, Still
<1>2. /\ \A i \in DOMAIN Q.streams : i \in DOMAIN R.streams /\ Q.streams[i] = R.streams[i]
      /\ \A i \in DOMAIN Q.subs : i \in DOMAIN R.subs /\ Q.subs[i] = R.subs[i]
      /\ \A i \in DOMAIN Q.sessions : i \in DOMAIN R.sessions /\ Q.sessions[i] = R.sessions[i]
  BY DEF Fades, Part
<1>3. CallsEnd(R, Q)
  BY DEF Fades
<1>4. /\ \A c \in Q.calls : c.call # "terminate" => c \in R.calls
      /\ \A i : Unserved(Q, i) <=> Unserved(R, i)
      /\ \A i : Has(Q, i, "node") <=> Has(R, i, "node")
  BY FadesCalls
<1>5. KindsApart(R) /\ SpecsKnown(R) /\ UsedOnce(R, N) /\ CallsApart(R, N) /\ ReadyOnce(R) /\ Owners(R) /\ NodesType(R, N)
  BY DEF Core
<1>6. KindsApart(Q)
  BY ONLY <1>1, <1>2, <1>5 DEF KindsApart
<1>7. SpecsKnown(Q)
  <2>1. \A i, v : Known(Q, i, v) => Known(R, i, v)
    BY FadesKnown
  <2> QED
    BY ONLY <1>1, <1>5, <2>1 DEF SpecsKnown
<1>8. UsedOnce(Q, N)
  BY ONLY <1>1, <1>2, <1>3, <1>5 DEF UsedOnce, CallsEnd
<1>9. \A i : NotBegun(R, N, i) => NotBegun(Q, N, i)
  BY ONLY <1>2 DEF NotBegun
<1>10. CallsApart(Q, N)
  <2>1. \A c, d \in Q.calls :
          c.call \in {"node", "initiate"} /\ d.call \in {"node", "initiate"} /\ c.id = d.id => c = d
    BY ONLY <1>4, <1>5 DEF CallsApart
  <2>2. \A c \in Q.calls :
          /\ c.call = "node" => /\ c.id \notin DOMAIN Q.ops /\ c.id \notin DOMAIN Q.trans /\ c.id \notin N.held
                                /\ NotBegun(Q, N, c.id)
          /\ c.call = "initiate" /\ c.id \notin bound.sessions => c.id \in DOMAIN Q.ops
          /\ c.call = "initiate" /\ ~c.served => NotBegun(Q, N, c.id)
    BY ONLY <1>1, <1>4, <1>5, <1>9 DEF CallsApart
  <2>3. ASSUME NEW c \in Q.calls
        PROVE  /\ c.call = "terminate" /\ c.why \in Operation => c.id \notin bound.sessions
               /\ (c.call = "terminate" /\ c.why \notin Operation) \/ c.call = "recycle" =>
                    /\ c.id \in bound.sessions /\ ~Has(Q, c.id, "node") /\ ~Unserved(Q, c.id)
    <3>1. CASE c \in R.calls
      BY ONLY <1>4, <1>5, <3>1 DEF CallsApart
    <3>2. CASE c \notin R.calls
      <4>1. /\ c.call = "terminate"
            /\ \/ c.why \in Operation /\ c.id \in DOMAIN R.ops
               \/ c.why = "session" /\ c.id \in DOMAIN R.sessions /\ R.sessions[c.id].state # "initialized"
        BY ONLY <1>3, <2>3, <3>2 DEF CallsEnd
      <4>2. CASE c.why \in Operation /\ c.id \in DOMAIN R.ops
        BY ONLY <1>5, <4>1, <4>2 DEF KindsApart
      <4>3. CASE c.why = "session" /\ c.id \in DOMAIN R.sessions /\ R.sessions[c.id].state # "initialized"
        <5>1. ~NotBegun(R, N, c.id)
          BY ONLY <4>3 DEF NotBegun
        <5>2. ~Has(R, c.id, "node") /\ ~Unserved(R, c.id)
          BY ONLY <1>5, <5>1 DEF CallsApart, Has, Unserved
        <5>3. c.id \in bound.sessions
          BY ONLY <1>5, <4>3 DEF KindsApart
        <5> QED
          BY ONLY <1>4, <4>1, <4>3, <5>2, <5>3 DEF Operation
      <4> QED
        BY ONLY <4>1, <4>2, <4>3
    <3> QED
      BY ONLY <3>1, <3>2
  <2> QED
    BY ONLY <2>1, <2>2, <2>3 DEF CallsApart
<1>11. ReadyOnce(Q)
  <2>1. \A s : WasReady(R, s) => WasReady(Q, s)
    BY ONLY <1>1, <1>2, <1>4 DEF WasReady
  <2> QED
    BY ONLY <1>1, <1>2, <1>5, <2>1 DEF ReadyOnce
<1>12. Owners(Q)
  <2>1. Unthrown(Q) => Unthrown(R)
    BY ONLY <1>1 DEF Unthrown
  <2>2. \A u : Present(R, u) => Present(Q, u)
    BY ONLY <1>1 DEF Present
  <2> QED
    BY ONLY <1>2, <1>5, <2>1, <2>2 DEF Owners
<1>13. NodesType(Q, N)
  BY ONLY <1>1, <1>5 DEF NodesType
<1> QED
  BY ONLY <1>1, <1>6, <1>7, <1>8, <1>10, <1>11, <1>12, <1>13 DEF Core

-----------------------------------------------------------------------------
(* Steps that only take away: calls that were answered, sessions and       *)
(* operations that are forgotten, nodes that are given back.               *)
Wanes(R, Q) ==
  /\ Q \in ConfType /\ ListsStill(R, Q)
  /\ Q.users = R.users /\ Q.met = R.met /\ Q.trans = R.trans /\ Q.used = R.used
  /\ R.mishaps \subseteq Q.mishaps /\ Q.polls \subseteq bound.sessions
  /\ Part(R.sessions, Q.sessions) /\ Part(R.ops, Q.ops)
  /\ Q.calls \subseteq R.calls
  /\ \A c \in Q.calls : c.call = "initiate" /\ c.id \notin bound.sessions => c.id \in DOMAIN Q.ops

Less(N, M) ==
  /\ M \in [sessions : SUBSET Ids, trans : SUBSET Ids, held : SUBSET Ids]
  /\ M.sessions \subseteq N.sessions /\ M.trans \subseteq N.trans /\ M.held \subseteq N.held

LEMMA LessRefl ==
  ASSUME NEW R, NEW N, Core(R, N)
  PROVE  Less(N, N)
BY DEF Core, NodesType, Less

LEMMA WanesKnown ==
  ASSUME NEW R, NEW Q, Wanes(R, Q), NEW i, NEW v, Known(Q, i, v)
  PROVE  Known(R, i, v)
BY DEF Wanes, ListsStill, Part, Known

LEMMA CoreWanes ==
  ASSUME NEW R, NEW N, Core(R, N), NEW Q, NEW M, Wanes(R, Q), Less(N, M)
  PROVE  Core(Q, M)
<1>1. /\ Q \in ConfType /\ ListsStill(R, Q)
      /\ Q.users = R.users /\ Q.met = R.met /\ Q.trans = R.trans /\ Q.used = R.used
      /\ R.mishaps \subseteq Q.mishaps /\ Q.polls \subseteq bound.sessions /\ Q.calls \subseteq R.calls
      /\ \A c \in Q.calls : c.call = "initiate" /\ c.id \notin bound.sessions => c.id \in DOMAIN Q.ops
  BY DEF Wanes
<1>2. /\ \A i \in DOMAIN Q.sessions : i \in DOMAIN R.sessions /\ Q.sessions[i] = R.sessions[i]
      /\ \A i \in DOMAIN Q.ops : i \in DOMAIN R.ops /\ Q.ops[i] = R.ops[i]
  BY DEF Wanes, Part
<1>3. /\ Q.streams = R.streams /\ Q.subs = R.subs /\ Q.pub = R.pub
  BY ONLY <1>1 DEF ListsStill
<1>4. /\ M \in [sessions : SUBSET Ids, trans : SUBSET Ids, held : SUBSET Ids]
      /\ M.sessions \subseteq N.sessions /\ M.trans \subseteq N.trans /\ M.held \subseteq N.held
  BY DEF Less
<1>5. Good(R) /\ KindsApart(R) /\ SpecsKnown(R) /\ UsedOnce(R, N) /\ CallsApart(R, N)
      /\ ReadyOnce(R) /\ Owners(R) /\ NodesType(R, N)
  BY DEF Core
<1>6. Good(Q)
  BY ONLY <1>1, <1>5, GoodStill
<1>7. KindsApart(Q)
  BY ONLY <1>1, <1>2, <1>5 DEF KindsApart
<1>8. SpecsKnown(Q)
  <2>1. \A i, v : Known(Q, i, v) => Known(R, i, v)
    BY WanesKnown
  <2> QED
    BY ONLY <1>1, <1>5, <2>1 DEF SpecsKnown
<1>9. UsedOnce(Q, M)
  BY ONLY <1>1, <1>2, <1>3, <1>4, <1>5 DEF UsedOnce
<1>10. CallsApart(Q, M)
  <2>1. \A i : NotBegun(R, N, i) => NotBegun(Q, M, i)
    BY ONLY <1>2, <1>4 DEF NotBegun
  <2>2. \A i : (Has(Q, i, "node") => Has(R, i, "node")) /\ (Unserved(Q, i) => Unserved(R, i))
    BY ONLY <1>1 DEF Has, Unserved
  <2> QED
    BY ONLY <1>1, <1>2, <1>4, <1>5, <2>1, <2>2 DEF CallsApart
<1>11. ReadyOnce(Q)
  <2>1. \A i : Has(Q, i, "node") => Has(R, i, "node")
    BY ONLY <1>1 DEF Has
  <2>2. \A s : WasReady(R, s) => WasReady(Q, s)
    BY ONLY <1>1, <1>2, <2>1 DEF WasReady
  <2> QED
    BY ONLY <1>1, <1>3, <1>5, <2>2 DEF ReadyOnce
<1>12. Owners(Q)
  <2>1. Unthrown(Q) => Unthrown(R)
    BY ONLY <1>1 DEF Unthrown
  <2>2. \A u : Present(R, u) => Present(Q, u)
    BY ONLY <1>1 DEF Present
  <2> QED
    BY ONLY <1>3, <1>5, <2>1, <2>2 DEF Owners
<1>13. NodesType(Q, M)
  <2>1. M.sessions \subseteq bound.sessions /\ M.trans \subseteq DOMAIN Q.trans
    BY ONLY <1>1, <1>4, <1>5 DEF NodesType
  <2> QED
    BY ONLY <1>4, <2>1 DEF NodesType
<1> QED
  BY ONLY <1>6, <1>7, <1>8, <1>9, <1>10, <1>11, <1>12, <1>13 DEF Core

(* A call was answered.                                                    *)
Answered(R, Q, c) ==
  /\ Wanes(R, Q) /\ Q.calls = R.calls \ {c} /\ Q.mishaps = R.mishaps
  /\ Q.sessions = R.sessions /\ Q.ops = R.ops /\ Q.polls = R.polls /\ Q.leaving = R.leaving

LEMMA AnsweredFacts ==
  ASSUME NEW R, NEW N, Core(R, N), NEW c, NEW Q, Q = [R EXCEPT !.calls = @ \ {c}]
  PROVE  Answered(R, Q, c) /\ Core(Q, N)
<1>1. R \in ConfType /\ KindsApart(R) /\ CallsApart(R, N)
  BY DEF Core, Good
<1>2. PICK C : C = R.calls \ {c}
  OBVIOUS
<1>3. C \subseteq Calls
  BY <1>1, <1>2, ConfFacts
<1>4. Q = [R EXCEPT !.calls = C]
  BY <1>2
<1>5. /\ Q \in ConfType /\ Still(R, Q) /\ ListsStill(R, Q)
      /\ Q.sessions = R.sessions /\ Q.mishaps = R.mishaps /\ Q.calls = C
  BY ONLY <1>1, <1>3, <1>4, CallFacts
<1>6. Answered(R, Q, c)
  BY ONLY <1>1, <1>2, <1>5 DEF Answered, Wanes, Still, Part, KindsApart, CallsApart
<1>7. Core(Q, N)
  BY ONLY Core(R, N), <1>6, LessRefl, CoreWanes DEF Answered
<1> QED
  BY ONLY <1>6, <1>7

-----------------------------------------------------------------------------
(* Steps that add.                                                         *)

(* i can be started with spec.                                             *)
Fits(R, i, spec) ==
  /\ spec \in SpecsOf(i)
  /\ i \in bound.sessions => spec.owner = Admin
  /\ i \notin bound.sessions => spec.owner \in R.met
  /\ \A v : Known(R, i, v) => v = spec

(* i was never established.                                                *)
Unready(R, i) == i \notin R.pub /\ \A x \in DOMAIN R.subs : R.subs[x].up => R.subs[x].from # i

(* Nobody is asked to begin i.                                             *)
Unasked(R, i) == \A c \in R.calls : c.call \in {"node", "initiate"} => c.id # i

LEMMA KnownFits ==
  ASSUME NEW R, SpecsKnown(R), NEW i, NEW v, Known(R, i, v)
  PROVE  Fits(R, i, v)
BY DEF SpecsKnown, Fits

LEMMA NotReady ==
  ASSUME NEW R, ReadyOnce(R), NEW i, ~WasReady(R, i)
  PROVE  Unready(R, i)
BY DEF ReadyOnce, Unready

(* A call is made.                                                         *)
Made(R, Q, c) ==
  /\ Q \in ConfType /\ Still(R, Q) /\ ListsStill(R, Q) /\ Q.sessions = R.sessions /\ Q.mishaps = R.mishaps
  /\ Q.calls = R.calls \cup {c}

LEMMA MadeFacts ==
  ASSUME NEW R, R \in ConfType, NEW c \in Calls, NEW Q, Q = Call(R, c)
  PROVE  Made(R, Q, c)
<1>1. PICK C : C = R.calls \cup {c}
  OBVIOUS
<1>2. C \subseteq Calls
  BY <1>1, ConfFacts
<1>3. Q = [R EXCEPT !.calls = C]
  BY <1>1 DEF Call
<1> QED
  BY ONLY <1>1, <1>2, <1>3, R \in ConfType, CallFacts DEF Made

LEMMA SpecsMade ==
  ASSUME NEW R, SpecsKnown(R), NEW c, c.call # "subscribe", NEW Q, Made(R, Q, c),
         c.call \in {"node", "initiate"} => Fits(R, c.id, c.spec)
  PROVE  SpecsKnown(Q)
<1>1. /\ Q.ops = R.ops /\ Q.met = R.met /\ Q.streams = R.streams /\ Q.subs = R.subs /\ Q.sessions = R.sessions
      /\ Q.calls = R.calls \cup {c}
  BY DEF Made, Still, ListsStill
<1>2. ASSUME NEW i, NEW v, Known(Q, i, v)
      PROVE  Known(R, i, v) \/ (c.call \in {"node", "initiate"} /\ i = c.id /\ v = c.spec)
  BY ONLY <1>1, <1>2, c.call # "subscribe" DEF Known
<1>3. \A i, v, w : Known(Q, i, v) /\ Known(Q, i, w) => v = w
  BY ONLY <1>2, SpecsKnown(R), c.call \in {"node", "initiate"} => Fits(R, c.id, c.spec) DEF SpecsKnown, Fits
<1>4. \A i, v : Known(Q, i, v) =>
        /\ v \in SpecsOf(i)
        /\ i \in bound.sessions => v.owner = Admin
        /\ i \notin bound.sessions => v.owner \in Q.met
  BY ONLY <1>1, <1>2, SpecsKnown(R), c.call \in {"node", "initiate"} => Fits(R, c.id, c.spec) DEF SpecsKnown, Fits
<1> QED
  BY ONLY <1>3, <1>4 DEF SpecsKnown

(* What the core says of the calls, apart from them.                       *)
LEMMA CoreMade ==
  ASSUME NEW R, NEW N, Core(R, N), NEW c, c.call # "subscribe", NEW Q, Made(R, Q, c),
         c.call \in {"node", "initiate"} => Fits(R, c.id, c.spec),
         c.call # "drop" => c.id \in R.used,
         c.call = "node" => Unready(R, c.id),
         CallsApart(Q, N)
  PROVE  Core(Q, N)
<1>1. /\ Q \in ConfType /\ Q.users = R.users /\ Q.ops = R.ops /\ Q.trans = R.trans /\ Q.met = R.met
      /\ Q.streams = R.streams /\ Q.subs = R.subs /\ Q.pub = R.pub
      /\ Q.sessions = R.sessions /\ Q.polls = R.polls /\ Q.used = R.used /\ Q.mishaps = R.mishaps
      /\ Q.calls = R.calls \cup {c} /\ ListsStill(R, Q)
  BY DEF Made, Still, ListsStill
<1>2. Good(R) /\ KindsApart(R) /\ SpecsKnown(R) /\ UsedOnce(R, N)
      /\ ReadyOnce(R) /\ Owners(R) /\ NodesType(R, N)
  BY DEF Core
<1>3. Good(Q)
  BY ONLY <1>1, <1>2, GoodStill
<1>4. KindsApart(Q)
  BY ONLY <1>1, <1>2 DEF KindsApart
<1>5. SpecsKnown(Q)
  BY ONLY <1>2, c.call # "subscribe", Made(R, Q, c), c.call \in {"node", "initiate"} => Fits(R, c.id, c.spec), SpecsMade
<1>6. UsedOnce(Q, N)
  BY ONLY <1>1, <1>2, c.call # "drop" => c.id \in R.used DEF UsedOnce
<1>7. ReadyOnce(Q)
  <2>1. ASSUME NEW s, WasReady(R, s), c.call = "node" => s # c.id
        PROVE  WasReady(Q, s)
    BY ONLY <1>1, <2>1 DEF WasReady, Has
  <2> QED
    BY ONLY <1>1, <1>2, <2>1, c.call = "node" => Unready(R, c.id) DEF ReadyOnce, Unready
<1>8. Owners(Q)
  BY ONLY <1>1, <1>2 DEF Owners, Unthrown, Present
<1>9. NodesType(Q, N)
  BY ONLY <1>1, <1>2 DEF NodesType
<1> QED
  BY ONLY <1>3, <1>4, <1>5, <1>6, <1>7, <1>8, <1>9, CallsApart(Q, N) DEF Core

LEMMA CoreNodeCall ==
  ASSUME NEW R, NEW N, Core(R, N), NEW i \in R.used, NEW spec, Fits(R, i, spec), Unready(R, i),
         \A c \in R.calls : c.call # "drop" => c.id # i,
         i \notin DOMAIN R.ops, i \notin DOMAIN R.trans, i \notin N.held, NotBegun(R, N, i),
         NEW Q, Q = Call(R, [call |-> "node", id |-> i, spec |-> spec])
  PROVE  Core(Q, N)
<1>1. PICK c : c = [call |-> "node", id |-> i, spec |-> spec]
  OBVIOUS
<1>2. c.call = "node" /\ c.id = i /\ c.spec = spec
  BY ONLY <1>1
<1>3. R \in ConfType /\ CallsApart(R, N)
  BY DEF Core, Good
<1>4. c \in Calls
  <2>1. i \in Ids /\ spec \in Specs
    BY <1>3, ConfFacts DEF Fits, SpecsOf, Specs
  <2> QED
    BY ONLY <1>1, <2>1 DEF Calls, NodeCalls
<1>5. Made(R, Q, c)
  BY ONLY <1>1, <1>3, <1>4, Q = Call(R, [call |-> "node", id |-> i, spec |-> spec]), MadeFacts
<1>6. Q.calls = R.calls \cup {c} /\ Q.ops = R.ops /\ Q.trans = R.trans /\ Q.sessions = R.sessions
  BY ONLY <1>5 DEF Made, Still
<1>7. CallsApart(Q, N)
  <2>1. \A a, d \in Q.calls :
          a.call \in {"node", "initiate"} /\ d.call \in {"node", "initiate"} /\ a.id = d.id => a = d
    <3>1. \A a \in Q.calls : a.call \in {"node", "initiate"} /\ a.id = i => a = c
      BY <1>6
    <3>2. \A a, d \in R.calls :
            a.call \in {"node", "initiate"} /\ d.call \in {"node", "initiate"} /\ a.id = d.id => a = d
      BY ONLY <1>3 DEF CallsApart
    <3> QED
      BY ONLY <1>2, <1>6, <3>1, <3>2
  <2>2. \A j : NotBegun(R, N, j) <=> NotBegun(Q, N, j)
    BY ONLY <1>6 DEF NotBegun
  <2>3. \A j : (Has(Q, j, "node") => Has(R, j, "node") \/ j = i) /\ (Unserved(Q, j) => Unserved(R, j))
    BY ONLY <1>2, <1>6 DEF Has, Unserved
  <2>4. ASSUME NEW a \in Q.calls
        PROVE  /\ a.call = "node" => /\ a.id \notin DOMAIN Q.ops /\ a.id \notin DOMAIN Q.trans /\ a.id \notin N.held
                                     /\ NotBegun(Q, N, a.id)
               /\ a.call = "initiate" /\ a.id \notin bound.sessions => a.id \in DOMAIN Q.ops
               /\ a.call = "initiate" /\ ~a.served => NotBegun(Q, N, a.id)
               /\ a.call = "terminate" /\ a.why \in Operation => a.id \notin bound.sessions
               /\ (a.call = "terminate" /\ a.why \notin Operation) \/ a.call = "recycle" =>
                    /\ a.id \in bound.sessions /\ ~Has(Q, a.id, "node") /\ ~Unserved(Q, a.id)
    <3>1. CASE a = c
      BY <1>2, <1>6, <2>2, <3>1
    <3>2. CASE a \in R.calls
      BY <1>3, <1>6, <2>2, <2>3, <3>2 DEF CallsApart
    <3> QED
      BY ONLY <1>6, <2>4, <3>1, <3>2
  <2> QED
    BY ONLY <2>1, <2>4 DEF CallsApart
<1> QED
  BY ONLY <1>2, <1>5, <1>7, Core(R, N), i \in R.used, Fits(R, i, spec), Unready(R, i), CoreMade

LEMMA CoreInitiate ==
  ASSUME NEW R, NEW N, Core(R, N), NEW i \in R.used, NEW spec, Fits(R, i, spec), Unasked(R, i), NotBegun(R, N, i),
         i \notin bound.sessions => i \in DOMAIN R.ops,
         \A c \in R.calls : c.call = "recycle" \/ (c.call = "terminate" /\ c.why \notin Operation) => c.id # i,
         NEW Q, Q = Call(R, [call |-> "initiate", id |-> i, spec |-> spec, served |-> FALSE])
  PROVE  Core(Q, N)
<1>1. PICK c : c = [call |-> "initiate", id |-> i, spec |-> spec, served |-> FALSE]
  OBVIOUS
<1>2. c.call = "initiate" /\ c.id = i /\ c.spec = spec /\ c.served = FALSE
  BY ONLY <1>1
<1>3. R \in ConfType /\ CallsApart(R, N)
  BY DEF Core, Good
<1>4. c \in Calls
  <2>1. i \in Ids /\ spec \in Specs
    BY <1>3, ConfFacts DEF Fits, SpecsOf, Specs
  <2> QED
    BY ONLY <1>1, <2>1 DEF Calls, InitiateCalls
<1>5. Made(R, Q, c)
  BY ONLY <1>1, <1>3, <1>4, Q = Call(R, [call |-> "initiate", id |-> i, spec |-> spec, served |-> FALSE]), MadeFacts
<1>6. Q.calls = R.calls \cup {c} /\ Q.ops = R.ops /\ Q.trans = R.trans /\ Q.sessions = R.sessions
  BY ONLY <1>5 DEF Made, Still
<1>7. CallsApart(Q, N)
  <2>1. \A a, d \in Q.calls :
          a.call \in {"node", "initiate"} /\ d.call \in {"node", "initiate"} /\ a.id = d.id => a = d
    <3>1. \A a \in Q.calls : a.call \in {"node", "initiate"} /\ a.id = i => a = c
      BY <1>6 DEF Unasked
    <3>2. \A a, d \in R.calls :
            a.call \in {"node", "initiate"} /\ d.call \in {"node", "initiate"} /\ a.id = d.id => a = d
      BY ONLY <1>3 DEF CallsApart
    <3> QED
      BY ONLY <1>2, <1>6, <3>1, <3>2
  <2>2. \A j : NotBegun(R, N, j) <=> NotBegun(Q, N, j)
    BY ONLY <1>6 DEF NotBegun
  <2>3. \A j : (Has(Q, j, "node") => Has(R, j, "node")) /\ (Unserved(Q, j) => Unserved(R, j) \/ j = i)
    BY ONLY <1>2, <1>6 DEF Has, Unserved
  <2>4. ASSUME NEW a \in Q.calls
        PROVE  /\ a.call = "node" => /\ a.id \notin DOMAIN Q.ops /\ a.id \notin DOMAIN Q.trans /\ a.id \notin N.held
                                     /\ NotBegun(Q, N, a.id)
               /\ a.call = "initiate" /\ a.id \notin bound.sessions => a.id \in DOMAIN Q.ops
               /\ a.call = "initiate" /\ ~a.served => NotBegun(Q, N, a.id)
               /\ a.call = "terminate" /\ a.why \in Operation => a.id \notin bound.sessions
               /\ (a.call = "terminate" /\ a.why \notin Operation) \/ a.call = "recycle" =>
                    /\ a.id \in bound.sessions /\ ~Has(Q, a.id, "node") /\ ~Unserved(Q, a.id)
    <3>1. CASE a = c
      BY <1>2, <1>6, <2>2, <3>1
    <3>2. CASE a \in R.calls
      BY <1>3, <1>6, <2>2, <2>3, <3>2 DEF CallsApart
    <3> QED
      BY ONLY <1>6, <2>4, <3>1, <3>2
  <2> QED
    BY ONLY <2>1, <2>4 DEF CallsApart
<1>8. c.call # "subscribe" /\ c.call # "node"
  BY ONLY <1>2
<1> QED
  BY ONLY <1>2, <1>5, <1>7, <1>8, Core(R, N), i \in R.used, Fits(R, i, spec), CoreMade

(* The end of a session is asked for, or its node given back.              *)
LEMMA CoreEndCall ==
  ASSUME NEW R, NEW N, Core(R, N), NEW i \in bound.sessions, i \in R.used, ~Has(R, i, "node"), ~Unserved(R, i),
         NEW c \in Calls, c.id = i, c.call = "recycle" \/ (c.call = "terminate" /\ c.why \notin Operation),
         NEW Q, Q = Call(R, c)
  PROVE  Made(R, Q, c) /\ Core(Q, N)
<1>1. c.call \notin {"node", "initiate", "subscribe", "drop"}
  OBVIOUS
<1>2. R \in ConfType /\ CallsApart(R, N)
  BY DEF Core, Good
<1>3. Made(R, Q, c)
  BY ONLY <1>2, c \in Calls, Q = Call(R, c), MadeFacts
<1>4. Q.calls = R.calls \cup {c} /\ Q.ops = R.ops /\ Q.trans = R.trans /\ Q.sessions = R.sessions
  BY ONLY <1>3 DEF Made, Still
<1>5. CallsApart(Q, N)
  <2>1. \A a, d \in Q.calls :
          a.call \in {"node", "initiate"} /\ d.call \in {"node", "initiate"} /\ a.id = d.id => a = d
    BY ONLY <1>1, <1>2, <1>4 DEF CallsApart
  <2>2. \A j : NotBegun(R, N, j) <=> NotBegun(Q, N, j)
    BY ONLY <1>4 DEF NotBegun
  <2>3. \A j : (Has(Q, j, "node") => Has(R, j, "node")) /\ (Unserved(Q, j) => Unserved(R, j))
    BY ONLY <1>1, <1>4 DEF Has, Unserved
  <2>4. ASSUME NEW a \in Q.calls
        PROVE  /\ a.call = "node" => /\ a.id \notin DOMAIN Q.ops /\ a.id \notin DOMAIN Q.trans /\ a.id \notin N.held
                                     /\ NotBegun(Q, N, a.id)
               /\ a.call = "initiate" /\ a.id \notin bound.sessions => a.id \in DOMAIN Q.ops
               /\ a.call = "initiate" /\ ~a.served => NotBegun(Q, N, a.id)
               /\ a.call = "terminate" /\ a.why \in Operation => a.id \notin bound.sessions
               /\ (a.call = "terminate" /\ a.why \notin Operation) \/ a.call = "recycle" =>
                    /\ a.id \in bound.sessions /\ ~Has(Q, a.id, "node") /\ ~Unserved(Q, a.id)
    <3>1. CASE a = c
      BY <1>1, <2>3, <3>1
    <3>2. CASE a \in R.calls
      BY <1>2, <1>4, <2>2, <2>3, <3>2 DEF CallsApart
    <3> QED
      BY ONLY <1>4, <2>4, <3>1, <3>2
  <2> QED
    BY ONLY <2>1, <2>4 DEF CallsApart
<1> QED
  BY ONLY <1>1, <1>3, <1>5, Core(R, N), c.id = i, i \in R.used, CoreMade

LEMMA CoreDrop ==
  ASSUME NEW R, NEW N, Core(R, N), NEW u \in Users, NEW Q, Q = Call(R, [call |-> "drop", id |-> u])
  PROVE  Core(Q, N)
<1>1. PICK c : c = [call |-> "drop", id |-> u]
  OBVIOUS
<1>2. c.call = "drop" /\ c \in Calls
  BY ONLY <1>1, u \in Users DEF Calls, DropCalls
<1>3. R \in ConfType /\ CallsApart(R, N)
  BY DEF Core, Good
<1>4. Made(R, Q, c)
  BY ONLY <1>1, <1>2, <1>3, Q = Call(R, [call |-> "drop", id |-> u]), MadeFacts
<1>5. Q.calls = R.calls \cup {c} /\ Q.ops = R.ops /\ Q.trans = R.trans /\ Q.sessions = R.sessions
  BY ONLY <1>4 DEF Made, Still
<1>6. CallsApart(Q, N)
  <2>1. \A a, d \in Q.calls :
          a.call \in {"node", "initiate"} /\ d.call \in {"node", "initiate"} /\ a.id = d.id => a = d
    BY ONLY <1>2, <1>3, <1>5 DEF CallsApart
  <2>2. \A j : NotBegun(R, N, j) <=> NotBegun(Q, N, j)
    BY ONLY <1>5 DEF NotBegun
  <2>3. \A j : (Has(Q, j, "node") => Has(R, j, "node")) /\ (Unserved(Q, j) => Unserved(R, j))
    BY ONLY <1>2, <1>5 DEF Has, Unserved
  <2> QED
    BY ONLY <1>2, <1>3, <1>5, <2>1, <2>2, <2>3 DEF CallsApart
<1> QED
  BY ONLY <1>2, <1>4, <1>6, Core(R, N), CoreMade

-----------------------------------------------------------------------------
(* Tables of the carriers.                                                 *)

(* Nothing but the carriers and the nodes.                                 *)
CarriersOnly(R, Q) ==
  /\ Q \in ConfType /\ ListsStill(R, Q)
  /\ Q.users = R.users /\ Q.met = R.met /\ Q.polls = R.polls /\ Q.leaving = R.leaving
  /\ Q.used = R.used /\ Q.calls = R.calls /\ Q.mishaps = R.mishaps

(* It is enough to look at the carriers.                                   *)
LEMMA CoreCarriers ==
  ASSUME NEW R, NEW N, Core(R, N), NEW Q, NEW M, CarriersOnly(R, Q),
         KindsApart(Q), SpecsKnown(Q), CallsApart(Q, M), NodesType(Q, M),
         DOMAIN Q.sessions \cup DOMAIN Q.ops \cup DOMAIN Q.trans \cup M.sessions \cup M.held \subseteq R.used,
         \A s : WasReady(R, s) /\ ~Unready(R, s) => WasReady(Q, s)
  PROVE  Core(Q, M)
<1>1. /\ Q \in ConfType /\ ListsStill(R, Q) /\ Q.users = R.users /\ Q.met = R.met
      /\ Q.used = R.used /\ Q.calls = R.calls /\ Q.mishaps = R.mishaps
      /\ Q.streams = R.streams /\ Q.subs = R.subs /\ Q.pub = R.pub
  BY DEF CarriersOnly, ListsStill
<1>2. Good(R) /\ UsedOnce(R, N) /\ ReadyOnce(R) /\ Owners(R)
  BY DEF Core
<1>3. Good(Q)
  BY ONLY <1>1, <1>2, GoodStill
<1>4. UsedOnce(Q, M)
  BY ONLY <1>1, <1>2, DOMAIN Q.sessions \cup DOMAIN Q.ops \cup DOMAIN Q.trans \cup M.sessions \cup M.held \subseteq R.used DEF UsedOnce
<1>5. ReadyOnce(Q)
  BY ONLY <1>1, <1>2, \A s : WasReady(R, s) /\ ~Unready(R, s) => WasReady(Q, s) DEF ReadyOnce, Unready
<1>6. Owners(Q)
  BY ONLY <1>1, <1>2 DEF Owners, Unthrown, Present
<1> QED
  BY ONLY <1>3, <1>4, <1>5, <1>6, KindsApart(Q), SpecsKnown(Q), CallsApart(Q, M), NodesType(Q, M) DEF Core

(* A transport has a node.                                                 *)
WithTrans(R, i, u) == [R EXCEPT !.trans = Put(@, i, [owner |-> u, ready |-> FALSE])]
Holding(N, i) == [N EXCEPT !.held = @ \cup {i}]

LEMMA CoreTrans ==
  ASSUME NEW R, NEW N, Core(R, N), NEW i \in R.used, i \notin bound.sessions, i \notin DOMAIN R.trans, NEW u \in R.met,
         ~Has(R, i, "node"),
         NEW Q, Q = WithTrans(R, i, u), NEW M, M = Holding(N, i)
  PROVE  /\ Core(Q, M) /\ CarriersOnly(R, Q) /\ Q.sessions = R.sessions /\ Q.ops = R.ops
         /\ i \in DOMAIN Q.trans /\ Q.trans[i].owner = u
<1>1. PICK r : r = [owner |-> u, ready |-> FALSE]
  OBVIOUS
<1>2. PICK T : T = Put(R.trans, i, r)
  OBVIOUS
<1>3. /\ R \in ConfType /\ KindsApart(R) /\ SpecsKnown(R) /\ CallsApart(R, N) /\ UsedOnce(R, N)
      /\ ReadyOnce(R) /\ NodesType(R, N)
  BY DEF Core, Good
<1>4. r \in TransRecords /\ i \in Ids /\ R.trans \in Tables(Ids, TransRecords)
  <2>1. u \in People /\ i \in Ids /\ R.trans \in Tables(Ids, TransRecords)
    BY <1>3, ConfFacts DEF People
  <2> QED
    BY ONLY <1>1, <2>1 DEF TransRecords
<1>5. /\ T \in Tables(Ids, TransRecords) /\ T[i] = r
      /\ \A d : d \in DOMAIN T <=> d \in DOMAIN R.trans \/ d = i
      /\ \A d \in DOMAIN R.trans : d # i => T[d] = R.trans[d]
  BY ONLY <1>2, <1>4, PutFacts
<1>6. Q = [R EXCEPT !.trans = T]
  BY ONLY <1>1, <1>2, Q = WithTrans(R, i, u) DEF WithTrans
<1>7. CarriersOnly(R, Q) /\ Q.sessions = R.sessions /\ Q.ops = R.ops /\ Q.trans = T
  BY ONLY <1>3, <1>5, <1>6 DEF CarriersOnly, ListsStill, ConfType
<1>8. Q.met = R.met /\ Q.users = R.users /\ Q.polls = R.polls /\ Q.calls = R.calls
      /\ Q.streams = R.streams /\ Q.subs = R.subs
  BY ONLY <1>7 DEF CarriersOnly, ListsStill
<1>9. M.sessions = N.sessions /\ M.trans = N.trans /\ M.held = N.held \cup {i}
      /\ M \in [sessions : SUBSET Ids, trans : SUBSET Ids, held : SUBSET Ids]
  BY ONLY <1>3, <1>4, M = Holding(N, i) DEF NodesType, Holding
<1>10. r.owner = u
  BY ONLY <1>1
<1>11. KindsApart(Q)
  <2>1. \A d \in DOMAIN R.trans : T[d] = R.trans[d]
    BY ONLY <1>5, i \notin DOMAIN R.trans
  <2> QED
    BY ONLY <1>3, <1>5, <1>7, <1>8, <1>10, <2>1, i \notin bound.sessions, u \in R.met DEF KindsApart
<1>12. SpecsKnown(Q)
  <2>1. \A j, v : Known(Q, j, v) => Known(R, j, v)
    BY ONLY <1>7, <1>8 DEF Known
  <2> QED
    BY ONLY <1>3, <1>8, <2>1 DEF SpecsKnown
<1>13. CallsApart(Q, M)
  <2>1. \A j : NotBegun(R, N, j) => NotBegun(Q, M, j)
    BY ONLY <1>7, <1>9 DEF NotBegun
  <2>2. \A j : (Has(Q, j, "node") <=> Has(R, j, "node")) /\ (Unserved(Q, j) <=> Unserved(R, j))
    BY ONLY <1>8 DEF Has, Unserved
  <2>3. \A c \in R.calls : c.call = "node" => c.id # i
    BY ONLY ~Has(R, i, "node") DEF Has
  <2> QED
    BY ONLY <1>3, <1>5, <1>7, <1>8, <1>9, <2>1, <2>2, <2>3 DEF CallsApart
<1>14. NodesType(Q, M)
  BY ONLY <1>3, <1>5, <1>7, <1>9 DEF NodesType
<1>15. DOMAIN Q.sessions \cup DOMAIN Q.ops \cup DOMAIN Q.trans \cup M.sessions \cup M.held \subseteq R.used
  BY ONLY <1>3, <1>5, <1>7, <1>9, i \in R.used DEF UsedOnce
<1>16. \A s : WasReady(R, s) => WasReady(Q, s)
  <2>1. \A d \in DOMAIN R.trans : T[d] = R.trans[d]
    BY ONLY <1>5, i \notin DOMAIN R.trans
  <2>2. \A s \in DOMAIN R.ops : R.ops[s].trans \in DOMAIN R.trans
    BY ONLY <1>3 DEF KindsApart
  <2> QED
    BY ONLY <1>7, <1>8, <2>1, <2>2 DEF WasReady, Has
<1>17. Core(Q, M)
  BY ONLY Core(R, N), <1>7, <1>11, <1>12, <1>13, <1>14, <1>15, <1>16, CoreCarriers
<1> QED
  BY ONLY <1>5, <1>7, <1>10, <1>17

LEMMA ChangeFacts ==
  ASSUME NEW K, NEW V, NEW f \in Tables(K, V), NEW i \in DOMAIN f, NEW v \in V, NEW g, g = [f EXCEPT ![i] = v]
  PROVE  /\ g \in Tables(K, V) /\ DOMAIN g = DOMAIN f /\ g[i] = v
         /\ \A d \in DOMAIN f : d # i => g[d] = f[d]
<1>1. PICK S \in SUBSET K : f \in [S -> V]
  BY DEF Tables
<1> QED
  BY <1>1 DEF Tables

(* An operation is on a transport.                                         *)
WithOp(R, i, t, spec) == [R EXCEPT !.ops = Put(@, i, [trans |-> t, done |-> FALSE, spec |-> spec])]

LEMMA CoreOp ==
  ASSUME NEW R, NEW N, Core(R, N), NEW i \in R.used, i \notin bound.sessions, i \notin DOMAIN R.ops,
         NEW t \in DOMAIN R.trans, NEW spec, Fits(R, i, spec), spec.owner = R.trans[t].owner,
         Unready(R, i), ~Has(R, i, "node"),
         NEW Q, Q = WithOp(R, i, t, spec)
  PROVE  /\ Core(Q, N) /\ CarriersOnly(R, Q) /\ Q.sessions = R.sessions /\ Q.trans = R.trans
         /\ i \in DOMAIN Q.ops /\ Fits(Q, i, spec)
<1>1. PICK r : r = [trans |-> t, done |-> FALSE, spec |-> spec]
  OBVIOUS
<1>2. PICK T : T = Put(R.ops, i, r)
  OBVIOUS
<1>3. /\ R \in ConfType /\ KindsApart(R) /\ SpecsKnown(R) /\ CallsApart(R, N) /\ UsedOnce(R, N)
      /\ ReadyOnce(R) /\ NodesType(R, N)
  BY DEF Core, Good
<1>4. r \in OpRecords /\ i \in Ids /\ R.ops \in Tables(Ids, OpRecords)
  <2>1. t \in Ids /\ i \in Ids /\ R.ops \in Tables(Ids, OpRecords)
    BY <1>3, ConfFacts, KeyFacts
  <2>2. spec \in Specs
    BY DEF Fits, SpecsOf, Specs
  <2> QED
    BY ONLY <1>1, <2>1, <2>2 DEF OpRecords
<1>5. /\ T \in Tables(Ids, OpRecords) /\ T[i] = r
      /\ \A d : d \in DOMAIN T <=> d \in DOMAIN R.ops \/ d = i
      /\ \A d \in DOMAIN R.ops : d # i => T[d] = R.ops[d]
  BY ONLY <1>2, <1>4, PutFacts
<1>6. Q = [R EXCEPT !.ops = T]
  BY ONLY <1>1, <1>2, Q = WithOp(R, i, t, spec) DEF WithOp
<1>7. CarriersOnly(R, Q) /\ Q.sessions = R.sessions /\ Q.ops = T /\ Q.trans = R.trans
  BY ONLY <1>3, <1>5, <1>6 DEF CarriersOnly, ListsStill, ConfType
<1>8. Q.met = R.met /\ Q.users = R.users /\ Q.polls = R.polls /\ Q.calls = R.calls
      /\ Q.streams = R.streams /\ Q.subs = R.subs
  BY ONLY <1>7 DEF CarriersOnly, ListsStill
<1>9. r.trans = t /\ r.spec = spec
  BY ONLY <1>1
<1>10. \A d \in DOMAIN R.ops : T[d] = R.ops[d]
  BY ONLY <1>5, i \notin DOMAIN R.ops
<1>11. KindsApart(Q)
  BY ONLY <1>3, <1>5, <1>7, <1>8, <1>9, <1>10, i \notin bound.sessions, t \in DOMAIN R.trans,
          spec.owner = R.trans[t].owner DEF KindsApart
<1>12. \A j, v : Known(Q, j, v) => Known(R, j, v) \/ (j = i /\ v = spec)
  BY ONLY <1>5, <1>7, <1>8, <1>9, <1>10 DEF Known
<1>13. SpecsKnown(Q)
  BY ONLY <1>3, <1>8, <1>12, Fits(R, i, spec) DEF SpecsKnown, Fits
<1>14. CallsApart(Q, N)
  <2>1. \A j : NotBegun(R, N, j) <=> NotBegun(Q, N, j)
    BY ONLY <1>7 DEF NotBegun
  <2>2. \A j : (Has(Q, j, "node") <=> Has(R, j, "node")) /\ (Unserved(Q, j) <=> Unserved(R, j))
    BY ONLY <1>8 DEF Has, Unserved
  <2>3. \A c \in R.calls : c.call = "node" => c.id # i
    BY ONLY ~Has(R, i, "node") DEF Has
  <2> QED
    BY ONLY <1>3, <1>5, <1>7, <1>8, <2>1, <2>2, <2>3 DEF CallsApart
<1>15. NodesType(Q, N)
  BY ONLY <1>3, <1>7 DEF NodesType
<1>16. DOMAIN Q.sessions \cup DOMAIN Q.ops \cup DOMAIN Q.trans \cup N.sessions \cup N.held \subseteq R.used
  BY ONLY <1>3, <1>5, <1>7, i \in R.used DEF UsedOnce
<1>17. \A s : WasReady(R, s) /\ ~Unready(R, s) => WasReady(Q, s)
  <2>1. \A j : Has(Q, j, "node") <=> Has(R, j, "node")
    BY ONLY <1>8 DEF Has
  <2> QED
    BY ONLY <1>5, <1>7, <1>10, <2>1, Unready(R, i) DEF WasReady
<1>18. Core(Q, N)
  BY ONLY Core(R, N), <1>7, <1>11, <1>13, <1>14, <1>15, <1>16, <1>17, CoreCarriers
<1>19. Fits(Q, i, spec)
  BY ONLY <1>8, <1>12, Fits(R, i, spec) DEF Fits
<1> QED
  BY ONLY <1>5, <1>7, <1>18, <1>19

(* A session is asked for.                                                 *)
LEMMA CoreSession ==
  ASSUME NEW R, NEW N, Core(R, N), NEW i \in R.used, i \in bound.sessions, i \notin DOMAIN R.sessions,
         i \notin N.sessions, NEW spec, Fits(R, i, spec), Unready(R, i),
         NEW Q, Q = [R EXCEPT !.sessions = Put(@, i, [state |-> "initialized", ready |-> FALSE, spec |-> spec])]
  PROVE  /\ Core(Q, N) /\ CarriersOnly(R, Q) /\ Q.ops = R.ops /\ Q.trans = R.trans
         /\ NotBegun(Q, N, i) /\ Fits(Q, i, spec)
<1>1. PICK r : r = [state |-> "initialized", ready |-> FALSE, spec |-> spec]
  OBVIOUS
<1>2. PICK T : T = Put(R.sessions, i, r)
  OBVIOUS
<1>3. /\ R \in ConfType /\ KindsApart(R) /\ SpecsKnown(R) /\ CallsApart(R, N) /\ UsedOnce(R, N)
      /\ ReadyOnce(R) /\ NodesType(R, N)
  BY DEF Core, Good
<1>4. r \in SessionRecords /\ i \in Ids /\ R.sessions \in Tables(Ids, SessionRecords)
  <2>1. i \in Ids /\ R.sessions \in Tables(Ids, SessionRecords)
    BY <1>3, ConfFacts
  <2>2. spec \in Specs
    BY DEF Fits, SpecsOf, Specs
  <2> QED
    BY ONLY <1>1, <2>1, <2>2 DEF SessionRecords
<1>5. /\ T \in Tables(Ids, SessionRecords) /\ T[i] = r
      /\ \A d : d \in DOMAIN T <=> d \in DOMAIN R.sessions \/ d = i
      /\ \A d \in DOMAIN R.sessions : d # i => T[d] = R.sessions[d]
  BY ONLY <1>2, <1>4, PutFacts
<1>6. Q = [R EXCEPT !.sessions = T]
  BY ONLY <1>1, <1>2, Q = [R EXCEPT !.sessions = Put(@, i, [state |-> "initialized", ready |-> FALSE, spec |-> spec])]
<1>7. CarriersOnly(R, Q) /\ Q.sessions = T /\ Q.ops = R.ops /\ Q.trans = R.trans
  BY ONLY <1>3, <1>5, <1>6 DEF CarriersOnly, ListsStill, ConfType
<1>8. Q.met = R.met /\ Q.users = R.users /\ Q.polls = R.polls /\ Q.calls = R.calls
      /\ Q.streams = R.streams /\ Q.subs = R.subs
  BY ONLY <1>7 DEF CarriersOnly, ListsStill
<1>9. r.state = "initialized" /\ ~r.ready /\ r.spec = spec
  BY ONLY <1>1
<1>10. \A d \in DOMAIN R.sessions : T[d] = R.sessions[d]
  BY ONLY <1>5, i \notin DOMAIN R.sessions
<1>11. KindsApart(Q)
  BY ONLY <1>3, <1>5, <1>7, <1>8, i \in bound.sessions DEF KindsApart
<1>12. \A j, v : Known(Q, j, v) => Known(R, j, v) \/ (j = i /\ v = spec)
  BY ONLY <1>5, <1>7, <1>8, <1>9, <1>10 DEF Known
<1>13. SpecsKnown(Q)
  BY ONLY <1>3, <1>8, <1>12, Fits(R, i, spec) DEF SpecsKnown, Fits
<1>14. NotBegun(Q, N, i)
  BY ONLY <1>5, <1>7, <1>9, i \notin N.sessions DEF NotBegun
<1>15. CallsApart(Q, N)
  <2>1. \A j : NotBegun(R, N, j) => NotBegun(Q, N, j)
    BY ONLY <1>5, <1>7, <1>9, <1>10 DEF NotBegun
  <2>2. \A j : (Has(Q, j, "node") <=> Has(R, j, "node")) /\ (Unserved(Q, j) <=> Unserved(R, j))
    BY ONLY <1>8 DEF Has, Unserved
  <2> QED
    BY ONLY <1>3, <1>7, <1>8, <2>1, <2>2 DEF CallsApart
<1>16. NodesType(Q, N)
  BY ONLY <1>3, <1>7 DEF NodesType
<1>17. DOMAIN Q.sessions \cup DOMAIN Q.ops \cup DOMAIN Q.trans \cup N.sessions \cup N.held \subseteq R.used
  BY ONLY <1>3, <1>5, <1>7, i \in R.used DEF UsedOnce
<1>18. \A s : WasReady(R, s) /\ ~Unready(R, s) => WasReady(Q, s)
  <2>1. \A j : Has(Q, j, "node") <=> Has(R, j, "node")
    BY ONLY <1>8 DEF Has
  <2> QED
    BY ONLY <1>5, <1>7, <1>10, <2>1, Unready(R, i) DEF WasReady
<1>19. Core(Q, N)
  BY ONLY Core(R, N), <1>7, <1>11, <1>13, <1>15, <1>16, <1>17, <1>18, CoreCarriers
<1>20. Fits(Q, i, spec)
  BY ONLY <1>8, <1>12, Fits(R, i, spec) DEF Fits
<1> QED
  BY ONLY <1>7, <1>14, <1>19, <1>20

(* What a session is, changes.                                             *)
Advances(R, Q, i, r) ==
  /\ CarriersOnly(R, Q) /\ Q.ops = R.ops /\ Q.trans = R.trans
  /\ DOMAIN Q.sessions = DOMAIN R.sessions /\ Q.sessions[i] = r
  /\ \A d \in DOMAIN R.sessions : d # i => Q.sessions[d] = R.sessions[d]

LEMMA CoreState ==
  ASSUME NEW R, NEW N, Core(R, N), NEW i \in DOMAIN R.sessions, ~Has(R, i, "node"), ~Unserved(R, i),
         NEW r \in SessionRecords, r.spec = R.sessions[i].spec, R.sessions[i].ready => r.ready,
         NEW T, T = [R.sessions EXCEPT ![i] = r], NEW Q, Q = [R EXCEPT !.sessions = T]
  PROVE  Core(Q, N) /\ Advances(R, Q, i, r)
<1>1. /\ R \in ConfType /\ KindsApart(R) /\ SpecsKnown(R) /\ CallsApart(R, N) /\ UsedOnce(R, N)
      /\ ReadyOnce(R) /\ NodesType(R, N)
  BY DEF Core, Good
<1>2. /\ T \in Tables(Ids, SessionRecords) /\ DOMAIN T = DOMAIN R.sessions /\ T[i] = r
      /\ \A d \in DOMAIN R.sessions : d # i => T[d] = R.sessions[d]
  <2>1. R.sessions \in Tables(Ids, SessionRecords)
    BY <1>1, ConfFacts
  <2> QED
    BY ONLY <2>1, i \in DOMAIN R.sessions, r \in SessionRecords, T = [R.sessions EXCEPT ![i] = r], ChangeFacts
<1>3. CarriersOnly(R, Q) /\ Q.sessions = T /\ Q.ops = R.ops /\ Q.trans = R.trans
  BY ONLY <1>1, <1>2, Q = [R EXCEPT !.sessions = T] DEF CarriersOnly, ListsStill, ConfType
<1>4. Advances(R, Q, i, r)
  BY ONLY <1>2, <1>3 DEF Advances
<1>5. Q.met = R.met /\ Q.users = R.users /\ Q.polls = R.polls /\ Q.calls = R.calls
      /\ Q.streams = R.streams /\ Q.subs = R.subs
  BY ONLY <1>3 DEF CarriersOnly, ListsStill
<1>6. \A d \in DOMAIN R.sessions : T[d].spec = R.sessions[d].spec /\ (R.sessions[d].ready => T[d].ready)
  BY <1>2
<1>7. KindsApart(Q)
  BY ONLY <1>1, <1>2, <1>3, <1>5 DEF KindsApart
<1>8. SpecsKnown(Q)
  <2>1. \A j, v : Known(Q, j, v) => Known(R, j, v)
    BY ONLY <1>2, <1>3, <1>5, <1>6 DEF Known
  <2> QED
    BY ONLY <1>1, <1>5, <2>1 DEF SpecsKnown
<1>9. CallsApart(Q, N)
  <2>1. \A j : j # i /\ NotBegun(R, N, j) => NotBegun(Q, N, j)
    BY ONLY <1>2, <1>3 DEF NotBegun
  <2>2. \A j : (Has(Q, j, "node") <=> Has(R, j, "node")) /\ (Unserved(Q, j) <=> Unserved(R, j))
    BY ONLY <1>5 DEF Has, Unserved
  <2>3. \A c \in R.calls : c.call = "node" => c.id # i
    BY ONLY ~Has(R, i, "node") DEF Has
  <2>4. \A c \in R.calls : c.call = "initiate" /\ ~c.served => c.id # i
    BY ONLY ~Unserved(R, i) DEF Unserved
  <2> QED
    BY ONLY <1>1, <1>2, <1>3, <1>5, <2>1, <2>2, <2>3, <2>4 DEF CallsApart
<1>10. NodesType(Q, N)
  BY ONLY <1>1, <1>3 DEF NodesType
<1>11. DOMAIN Q.sessions \cup DOMAIN Q.ops \cup DOMAIN Q.trans \cup N.sessions \cup N.held \subseteq R.used
  BY ONLY <1>1, <1>2, <1>3 DEF UsedOnce
<1>12. \A s : WasReady(R, s) => WasReady(Q, s)
  BY ONLY <1>2, <1>3, <1>5, <1>6 DEF WasReady, Has
<1>13. Core(Q, N)
  BY ONLY Core(R, N), <1>3, <1>7, <1>8, <1>9, <1>10, <1>11, <1>12, CoreCarriers
<1> QED
  BY ONLY <1>4, <1>13

(* The tracks of an operation are complete.                                *)
LEMMA CoreOpDone ==
  ASSUME NEW R, NEW N, Core(R, N), NEW i \in DOMAIN R.ops,
         NEW Q, Q = [R EXCEPT !.ops[i].done = TRUE]
  PROVE  /\ Core(Q, N) /\ CarriersOnly(R, Q) /\ Q.sessions = R.sessions /\ Q.trans = R.trans
         /\ DOMAIN Q.ops = DOMAIN R.ops /\ \A d \in DOMAIN R.ops : d # i => Q.ops[d] = R.ops[d]
         /\ Q.ops[i].done /\ Q.ops[i].trans = R.ops[i].trans /\ Q.ops[i].spec = R.ops[i].spec
<1>1. /\ R \in ConfType /\ KindsApart(R) /\ SpecsKnown(R) /\ CallsApart(R, N) /\ UsedOnce(R, N)
      /\ ReadyOnce(R) /\ NodesType(R, N)
  BY DEF Core, Good
<1>2. PICK r : r = [R.ops[i] EXCEPT !.done = TRUE]
  OBVIOUS
<1>3. PICK T : T = [R.ops EXCEPT ![i] = r]
  OBVIOUS
<1>4. R.ops[i] \in OpRecords /\ R.ops \in Tables(Ids, OpRecords)
  BY <1>1, ConfFacts, KeyFacts
<1>5. r \in OpRecords /\ r.done /\ r.trans = R.ops[i].trans /\ r.spec = R.ops[i].spec
  BY ONLY <1>2, <1>4 DEF OpRecords
<1>6. /\ T \in Tables(Ids, OpRecords) /\ DOMAIN T = DOMAIN R.ops /\ T[i] = r
      /\ \A d \in DOMAIN R.ops : d # i => T[d] = R.ops[d]
  BY ONLY <1>3, <1>4, <1>5, i \in DOMAIN R.ops, ChangeFacts
<1>7. Q = [R EXCEPT !.ops = T]
  BY ONLY <1>2, <1>3, Q = [R EXCEPT !.ops[i].done = TRUE]
<1>8. CarriersOnly(R, Q) /\ Q.sessions = R.sessions /\ Q.ops = T /\ Q.trans = R.trans
  BY ONLY <1>1, <1>6, <1>7 DEF CarriersOnly, ListsStill, ConfType
<1>9. Q.met = R.met /\ Q.users = R.users /\ Q.polls = R.polls /\ Q.calls = R.calls
      /\ Q.streams = R.streams /\ Q.subs = R.subs
  BY ONLY <1>8 DEF CarriersOnly, ListsStill
<1>10. \A d \in DOMAIN R.ops : T[d].spec = R.ops[d].spec /\ T[d].trans = R.ops[d].trans /\ (R.ops[d].done => T[d].done)
  BY ONLY <1>5, <1>6
<1>11. KindsApart(Q)
  BY ONLY <1>1, <1>6, <1>8, <1>9, <1>10 DEF KindsApart
<1>12. SpecsKnown(Q)
  <2>1. \A j, v : Known(Q, j, v) => Known(R, j, v)
    BY ONLY <1>6, <1>8, <1>9, <1>10 DEF Known
  <2> QED
    BY ONLY <1>1, <1>9, <2>1 DEF SpecsKnown
<1>13. CallsApart(Q, N)
  <2>1. \A j : NotBegun(R, N, j) => NotBegun(Q, N, j)
    BY ONLY <1>8 DEF NotBegun
  <2>2. \A j : (Has(Q, j, "node") <=> Has(R, j, "node")) /\ (Unserved(Q, j) <=> Unserved(R, j))
    BY ONLY <1>9 DEF Has, Unserved
  <2> QED
    BY ONLY <1>1, <1>6, <1>8, <1>9, <2>1, <2>2 DEF CallsApart
<1>14. NodesType(Q, N)
  BY ONLY <1>1, <1>8 DEF NodesType
<1>15. DOMAIN Q.sessions \cup DOMAIN Q.ops \cup DOMAIN Q.trans \cup N.sessions \cup N.held \subseteq R.used
  BY ONLY <1>1, <1>6, <1>8 DEF UsedOnce
<1>16. \A s : WasReady(R, s) => WasReady(Q, s)
  BY ONLY <1>6, <1>8, <1>9, <1>10 DEF WasReady, Has
<1>17. Core(Q, N)
  BY ONLY Core(R, N), <1>8, <1>11, <1>12, <1>13, <1>14, <1>15, <1>16, CoreCarriers
<1> QED
  BY ONLY <1>5, <1>6, <1>8, <1>17

(* A transport is connected.                                               *)
LEMMA CoreTransReady ==
  ASSUME NEW R, NEW N, Core(R, N), NEW t \in DOMAIN R.trans,
         NEW Q, Q = [R EXCEPT !.trans[t].ready = TRUE]
  PROVE  /\ Core(Q, N) /\ CarriersOnly(R, Q) /\ Q.sessions = R.sessions /\ Q.ops = R.ops
         /\ DOMAIN Q.trans = DOMAIN R.trans /\ \A d \in DOMAIN R.trans : d # t => Q.trans[d] = R.trans[d]
         /\ Q.trans[t].ready /\ Q.trans[t].owner = R.trans[t].owner
<1>1. /\ R \in ConfType /\ KindsApart(R) /\ SpecsKnown(R) /\ CallsApart(R, N) /\ UsedOnce(R, N)
      /\ ReadyOnce(R) /\ NodesType(R, N)
  BY DEF Core, Good
<1>2. PICK r : r = [R.trans[t] EXCEPT !.ready = TRUE]
  OBVIOUS
<1>3. PICK T : T = [R.trans EXCEPT ![t] = r]
  OBVIOUS
<1>4. R.trans[t] \in TransRecords /\ R.trans \in Tables(Ids, TransRecords)
  BY <1>1, ConfFacts, KeyFacts
<1>5. r \in TransRecords /\ r.ready /\ r.owner = R.trans[t].owner
  BY ONLY <1>2, <1>4 DEF TransRecords
<1>6. /\ T \in Tables(Ids, TransRecords) /\ DOMAIN T = DOMAIN R.trans /\ T[t] = r
      /\ \A d \in DOMAIN R.trans : d # t => T[d] = R.trans[d]
  BY ONLY <1>3, <1>4, <1>5, t \in DOMAIN R.trans, ChangeFacts
<1>7. Q = [R EXCEPT !.trans = T]
  BY ONLY <1>2, <1>3, Q = [R EXCEPT !.trans[t].ready = TRUE]
<1>8. CarriersOnly(R, Q) /\ Q.sessions = R.sessions /\ Q.ops = R.ops /\ Q.trans = T
  BY ONLY <1>1, <1>6, <1>7 DEF CarriersOnly, ListsStill, ConfType
<1>9. Q.met = R.met /\ Q.users = R.users /\ Q.polls = R.polls /\ Q.calls = R.calls
      /\ Q.streams = R.streams /\ Q.subs = R.subs
  BY ONLY <1>8 DEF CarriersOnly, ListsStill
<1>10. \A d \in DOMAIN R.trans : T[d].owner = R.trans[d].owner /\ (R.trans[d].ready => T[d].ready)
  BY ONLY <1>5, <1>6
<1>11. KindsApart(Q)
  BY ONLY <1>1, <1>6, <1>8, <1>9, <1>10 DEF KindsApart
<1>12. SpecsKnown(Q)
  <2>1. \A j, v : Known(Q, j, v) => Known(R, j, v)
    BY ONLY <1>8, <1>9 DEF Known
  <2> QED
    BY ONLY <1>1, <1>9, <2>1 DEF SpecsKnown
<1>13. CallsApart(Q, N)
  <2>1. \A j : NotBegun(R, N, j) => NotBegun(Q, N, j)
    BY ONLY <1>8 DEF NotBegun
  <2>2. \A j : (Has(Q, j, "node") <=> Has(R, j, "node")) /\ (Unserved(Q, j) <=> Unserved(R, j))
    BY ONLY <1>9 DEF Has, Unserved
  <2> QED
    BY ONLY <1>1, <1>6, <1>8, <1>9, <2>1, <2>2 DEF CallsApart
<1>14. NodesType(Q, N)
  BY ONLY <1>1, <1>6, <1>8 DEF NodesType
<1>15. DOMAIN Q.sessions \cup DOMAIN Q.ops \cup DOMAIN Q.trans \cup N.sessions \cup N.held \subseteq R.used
  BY ONLY <1>1, <1>6, <1>8 DEF UsedOnce
<1>16. \A s : WasReady(R, s) => WasReady(Q, s)
  BY ONLY <1>1, <1>6, <1>8, <1>9, <1>10 DEF WasReady, Has, KindsApart
<1>17. Core(Q, N)
  BY ONLY Core(R, N), <1>8, <1>11, <1>12, <1>13, <1>14, <1>15, <1>16, CoreCarriers
<1> QED
  BY ONLY <1>5, <1>6, <1>8, <1>17

-----------------------------------------------------------------------------
(* Who is in the room, and what is listed.                                 *)
LEMMA CoreUsers ==
  ASSUME NEW R, NEW N, Core(R, N), NEW Q, Good(Q), ListsStill(R, Q),
         Q.ops = R.ops, Q.trans = R.trans, Q.polls = R.polls, Q.used = R.used, Q.sessions = R.sessions,
         Q.calls = R.calls, R.met \subseteq Q.met, Q.users \subseteq Q.met, Owners(Q)
  PROVE  Core(Q, N)
<1>1. KindsApart(R) /\ SpecsKnown(R) /\ UsedOnce(R, N) /\ CallsApart(R, N) /\ ReadyOnce(R) /\ NodesType(R, N)
  BY DEF Core
<1>2. Q.streams = R.streams /\ Q.subs = R.subs /\ Q.pub = R.pub
  BY DEF ListsStill
<1>3. KindsApart(Q)
  BY <1>1 DEF KindsApart
<1>4. \A j, v : Known(Q, j, v) => Known(R, j, v)
  BY <1>2 DEF Known
<1>5. SpecsKnown(Q)
  BY ONLY <1>1, <1>4, R.met \subseteq Q.met DEF SpecsKnown
<1>6. UsedOnce(Q, N)
  BY <1>1, <1>2 DEF UsedOnce
<1>7. CallsApart(Q, N)
  <2>1. \A j : /\ NotBegun(Q, N, j) <=> NotBegun(R, N, j)
               /\ Has(Q, j, "node") <=> Has(R, j, "node")
               /\ Unserved(Q, j) <=> Unserved(R, j)
    BY DEF Has, Unserved, NotBegun
  <2> QED
    BY <1>1, <2>1 DEF CallsApart
<1>8. ReadyOnce(Q)
  <2>1. \A s : WasReady(R, s) => WasReady(Q, s)
    BY DEF WasReady, Has
  <2> QED
    BY <1>1, <1>2, <2>1 DEF ReadyOnce
<1>9. NodesType(Q, N)
  BY <1>1 DEF NodesType
<1> QED
  BY ONLY <1>3, <1>5, <1>6, <1>7, <1>8, <1>9, Good(Q), Owners(Q) DEF Core

LEMMA CoreRemoved ==
  ASSUME NEW R, NEW N, Core(R, N), NEW u, NEW Q, Q = RemoveParticipant(R, u)
  PROVE  Core(Q, N)
<1>0. Good(R)
  BY DEF Core
<1>1. /\ \E P : Fades(R, P, Owned(R, u)) /\ StillButUsers(P, Q)
      /\ Good(Q) /\ Q.users = R.users \ {u}
      /\ Unthrown(Q) => /\ \A x \in DOMAIN Q.subs : Q.subs[x].owner # u
                        /\ \A s \in DOMAIN Q.streams : Q.streams[s].owner # u
  BY ONLY <1>0, Q = RemoveParticipant(R, u), RemoveParticipantFacts
<1>2. PICK P : Fades(R, P, Owned(R, u)) /\ StillButUsers(P, Q)
  BY ONLY <1>1
<1>3. Core(P, N)
  BY ONLY <1>2, Core(R, N), CoreFades
<1>4. P.users = R.users /\ P.met = R.met
  BY ONLY <1>2 DEF Fades, Still
<1>5. /\ ListsStill(P, Q) /\ Q.ops = P.ops /\ Q.trans = P.trans /\ Q.polls = P.polls /\ Q.used = P.used
      /\ Q.sessions = P.sessions /\ Q.calls = P.calls /\ Q.met = P.met /\ Q.mishaps = P.mishaps
  BY ONLY <1>2 DEF StillButUsers
<1>6. Q.users \subseteq Q.met
  <2>1. P.users \subseteq P.met
    BY ONLY <1>3 DEF Core, KindsApart
  <2> QED
    BY ONLY <1>1, <1>4, <1>5, <2>1
<1>7. Owners(Q)
  <2>1. Owners(P)
    BY ONLY <1>3 DEF Core
  <2>2. Q.streams = P.streams /\ Q.subs = P.subs
    BY ONLY <1>5 DEF ListsStill
  <2> QED
    BY ONLY <1>1, <1>4, <1>5, <2>1, <2>2 DEF Owners, Unthrown, Present
<1> QED
  BY ONLY <1>1, <1>3, <1>5, <1>6, <1>7, CoreUsers

(* A stream or a subscription is in connecting.                            *)
LEMMA CoreBegins ==
  ASSUME NEW R, NEW N, Core(R, N), NEW i \in Ids, i \notin R.used, NEW spec \in SpecsOf(i),
         i \in bound.sessions => spec.owner = Admin,
         i \notin bound.sessions => spec.owner \in R.users,
         NEW Q, Begins(R, Q, i, spec)
  PROVE  /\ Core(Q, N) /\ Fits(Q, i, spec) /\ Unready(Q, i) /\ i \in Q.used
         /\ i \notin DOMAIN Q.sessions /\ i \notin DOMAIN Q.ops /\ i \notin DOMAIN Q.trans
         /\ i \notin N.sessions /\ i \notin N.held
         /\ \A c \in Q.calls : c.call # "drop" => c.id # i
<1>1. Good(R) /\ KindsApart(R) /\ SpecsKnown(R) /\ UsedOnce(R, N) /\ CallsApart(R, N)
      /\ ReadyOnce(R) /\ Owners(R) /\ NodesType(R, N)
  BY DEF Core
<1>2. /\ Good(Q) /\ Q.used = R.used \cup {i}
      /\ Q.users = R.users /\ Q.met = R.met /\ Q.ops = R.ops /\ Q.trans = R.trans /\ Q.polls = R.polls
      /\ Q.pub = R.pub /\ Q.sessions = R.sessions /\ Q.calls = R.calls /\ Q.mishaps = R.mishaps
      /\ \A s : s \in DOMAIN Q.streams <=> s \in DOMAIN R.streams \/ (s = i /\ i \in Streams)
      /\ \A x : x \in DOMAIN Q.subs <=> x \in DOMAIN R.subs \/ (x = i /\ i \notin Streams)
      /\ \A s \in DOMAIN R.streams : s # i => Q.streams[s] = R.streams[s]
      /\ \A x \in DOMAIN R.subs : x # i => Q.subs[x] = R.subs[x]
      /\ i \in Streams => Q.streams[i] = [owner |-> spec.owner, up |-> FALSE]
      /\ i \notin Streams => Q.subs[i] = [owner |-> spec.owner, from |-> spec.from, up |-> FALSE]
  BY DEF Begins
<1>3. /\ i \notin DOMAIN R.streams /\ i \notin DOMAIN R.subs /\ i \notin DOMAIN R.sessions
      /\ i \notin DOMAIN R.ops /\ i \notin DOMAIN R.trans /\ i \notin N.sessions /\ i \notin N.held
      /\ \A c \in R.calls : c.call # "drop" => c.id # i
  BY ONLY <1>1, i \notin R.used DEF UsedOnce
<1>4. \A v : ~Known(R, i, v)
  BY ONLY <1>3 DEF Known
<1>5. Unready(R, i)
  BY ONLY <1>1, i \notin R.used DEF ReadyOnce, Unready
<1>6. i \in Streams => Q.streams[i].owner = spec.owner /\ ~Q.streams[i].up
  <2>1. PICK o : o = spec.owner
    OBVIOUS
  <2>2. i \in Streams => Q.streams[i] = [owner |-> o, up |-> FALSE]
    BY ONLY <1>2, <2>1
  <2> QED
    BY ONLY <2>1, <2>2
<1>7. i \notin Streams => Q.subs[i].owner = spec.owner /\ Q.subs[i].from = spec.from /\ ~Q.subs[i].up
  <2>1. PICK o, f : o = spec.owner /\ f = spec.from
    OBVIOUS
  <2>2. i \notin Streams => Q.subs[i] = [owner |-> o, from |-> f, up |-> FALSE]
    BY ONLY <1>2, <2>1
  <2> QED
    BY ONLY <2>1, <2>2
<1>8. i \in Streams => [owner |-> spec.owner] = spec
  BY DEF SpecsOf, StreamSpecs
<1>9. i \notin Streams => [owner |-> spec.owner, from |-> spec.from] = spec
  BY DEF SpecsOf, SubSpecs
<1>10. \A j, v : Known(Q, j, v) => Known(R, j, v) \/ (j = i /\ v = spec)
  <2> SUFFICES ASSUME NEW j, NEW v, Known(Q, j, v), ~Known(R, j, v)
               PROVE  j = i /\ v = spec
    OBVIOUS
  <2>1. \/ j \in DOMAIN Q.streams /\ v = [owner |-> Q.streams[j].owner]
        \/ j \in DOMAIN Q.subs /\ v = [owner |-> Q.subs[j].owner, from |-> Q.subs[j].from]
    BY ONLY <1>2, Known(Q, j, v), ~Known(R, j, v) DEF Known
  <2>2. j = i
    BY ONLY <1>2, <2>1, ~Known(R, j, v) DEF Known
  <2>3. CASE j \in DOMAIN Q.streams /\ v = [owner |-> Q.streams[j].owner]
    <3>0. \A s : s \in DOMAIN Q.streams <=> s \in DOMAIN R.streams \/ (s = i /\ i \in Streams)
      BY ONLY <1>2
    <3>1. i \in Streams
      BY ONLY <1>3, <2>2, <2>3, <3>0
    <3> QED
      BY ONLY <1>6, <1>8, <2>2, <2>3, <3>1
  <2>4. CASE j \in DOMAIN Q.subs /\ v = [owner |-> Q.subs[j].owner, from |-> Q.subs[j].from]
    <3>0. \A x : x \in DOMAIN Q.subs <=> x \in DOMAIN R.subs \/ (x = i /\ i \notin Streams)
      BY ONLY <1>2
    <3>1. i \notin Streams
      BY ONLY <1>3, <2>2, <2>4, <3>0
    <3> QED
      BY ONLY <1>7, <1>9, <2>2, <2>4, <3>1
  <2> QED
    BY ONLY <2>1, <2>2, <2>3, <2>4
<1>11. R.users \subseteq R.met
  BY ONLY <1>1 DEF KindsApart
<1>12. Fits(Q, i, spec)
  BY ONLY <1>2, <1>4, <1>10, <1>11, spec \in SpecsOf(i), i \in bound.sessions => spec.owner = Admin,
          i \notin bound.sessions => spec.owner \in R.users DEF Fits
<1>13. SpecsKnown(Q)
  BY ONLY <1>1, <1>2, <1>4, <1>10, <1>12 DEF SpecsKnown, Fits
<1>14. KindsApart(Q)
  BY ONLY <1>1, <1>2 DEF KindsApart
<1>15. UsedOnce(Q, N)
  BY ONLY <1>1, <1>2 DEF UsedOnce
<1>16. CallsApart(Q, N)
  <2>1. \A j : /\ NotBegun(Q, N, j) <=> NotBegun(R, N, j)
               /\ Has(Q, j, "node") <=> Has(R, j, "node")
               /\ Unserved(Q, j) <=> Unserved(R, j)
    BY ONLY <1>2 DEF Has, Unserved, NotBegun
  <2> QED
    BY ONLY <1>1, <1>2, <2>1 DEF CallsApart
<1>16a. \A x \in DOMAIN Q.subs : (x = i /\ i \notin Streams) \/ (x \in DOMAIN R.subs /\ Q.subs[x] = R.subs[x])
  <2>1. \A x : x \in DOMAIN Q.subs <=> x \in DOMAIN R.subs \/ (x = i /\ i \notin Streams)
    BY ONLY <1>2
  <2>2. \A x \in DOMAIN R.subs : x # i => Q.subs[x] = R.subs[x]
    BY ONLY <1>2
  <2> QED
    BY ONLY <1>3, <2>1, <2>2
<1>16b. \A s \in DOMAIN Q.streams : (s = i /\ i \in Streams) \/ (s \in DOMAIN R.streams /\ Q.streams[s] = R.streams[s])
  <2>1. \A s : s \in DOMAIN Q.streams <=> s \in DOMAIN R.streams \/ (s = i /\ i \in Streams)
    BY ONLY <1>2
  <2>2. \A s \in DOMAIN R.streams : s # i => Q.streams[s] = R.streams[s]
    BY ONLY <1>2
  <2> QED
    BY ONLY <1>3, <2>1, <2>2
<1>17. \A x \in DOMAIN Q.subs : Q.subs[x].up => x \in DOMAIN R.subs /\ Q.subs[x] = R.subs[x]
  BY ONLY <1>7, <1>16a
<1>18. ReadyOnce(Q)
  <2>1. \A s : WasReady(R, s) => WasReady(Q, s)
    BY ONLY <1>2 DEF WasReady, Has
  <2> QED
    BY ONLY <1>1, <1>2, <1>17, <2>1 DEF ReadyOnce
<1>19. Unready(Q, i)
  BY ONLY <1>2, <1>5, <1>17 DEF Unready
<1>20. Owners(Q)
  <2>1. spec.owner \in R.users \cup {Admin}
    OBVIOUS
  <2>2. \A s \in DOMAIN Q.streams : Q.streams[s].owner = spec.owner \/ (s \in DOMAIN R.streams /\ Q.streams[s] = R.streams[s])
    BY ONLY <1>6, <1>16b
  <2>3. \A x \in DOMAIN Q.subs : Q.subs[x].owner = spec.owner \/ (x \in DOMAIN R.subs /\ Q.subs[x] = R.subs[x])
    BY ONLY <1>7, <1>16a
  <2>4. Q.users = R.users /\ Q.mishaps = R.mishaps
    BY ONLY <1>2
  <2> QED
    BY ONLY <1>1, <2>1, <2>2, <2>3, <2>4 DEF Owners, Unthrown, Present
<1>21. NodesType(Q, N)
  BY ONLY <1>1, <1>2 DEF NodesType
<1> QED
  BY ONLY <1>2, <1>3, <1>12, <1>13, <1>14, <1>15, <1>16, <1>18, <1>19, <1>20, <1>21 DEF Core

(* Streams are ready, and subscriptions asked for.                         *)
LEMMA CoreEnters ==
  ASSUME NEW R, NEW N, Core(R, N), NEW is, is \subseteq Ids, NEW Q, Enters(R, Q, is),
         \A i \in is : WasReady(R, i) /\ Known(R, i, SpecOf(R, i)) /\ Present(R, SpecOf(R, i).owner)
  PROVE  Core(Q, N)
<1>1. Good(R) /\ KindsApart(R) /\ SpecsKnown(R) /\ UsedOnce(R, N) /\ CallsApart(R, N)
      /\ ReadyOnce(R) /\ Owners(R) /\ NodesType(R, N)
  BY DEF Core
<1>2. /\ Good(Q) /\ Q.users = R.users /\ Q.met = R.met /\ Q.ops = R.ops /\ Q.trans = R.trans /\ Q.polls = R.polls
      /\ Q.used = R.used /\ Q.subs = R.subs /\ Q.sessions = R.sessions /\ R.mishaps \subseteq Q.mishaps
  BY DEF Enters, Still
<1>3. /\ \A s : s \in Q.pub <=> s \in R.pub \/ s \in is \cap Streams
      /\ \A s : s \in DOMAIN Q.streams <=> s \in DOMAIN R.streams \/ s \in is \cap Streams
  BY DEF Enters
<1>4. \A s \in DOMAIN Q.streams :
        IF s \in is THEN Q.streams[s].owner = SpecOf(R, s).owner ELSE Q.streams[s] = R.streams[s]
  <2> SUFFICES ASSUME NEW s \in DOMAIN Q.streams
               PROVE  IF s \in is THEN Q.streams[s].owner = SpecOf(R, s).owner ELSE Q.streams[s] = R.streams[s]
    OBVIOUS
  <2>1. PICK o : o = SpecOf(R, s).owner
    OBVIOUS
  <2>2. Q.streams[s] = IF s \in is THEN [owner |-> o, up |-> TRUE] ELSE R.streams[s]
    BY ONLY <2>1, s \in DOMAIN Q.streams, Enters(R, Q, is) DEF Enters
  <2> QED
    BY ONLY <2>1, <2>2
<1>5. R.calls \subseteq Q.calls
  BY DEF Enters
<1>6. \A c \in Q.calls : c \notin R.calls =>
        /\ c.call = "subscribe" /\ c.id \in is /\ c.id \notin Streams
        /\ c.owner = SpecOf(R, c.id).owner /\ c.from = SpecOf(R, c.id).from
  BY DEF Enters
<1>7. KindsApart(Q)
  BY ONLY <1>1, <1>2 DEF KindsApart
<1>8. \A i \in is : SpecOf(R, i) \in SpecsOf(i) /\ Known(R, i, SpecOf(R, i))
  BY ONLY <1>1, \A i \in is : Known(R, i, SpecOf(R, i)) DEF SpecsKnown
<1>9. ASSUME NEW i, NEW v, Known(Q, i, v)
      PROVE  Known(R, i, v)
  <2>1. CASE \/ i \in DOMAIN Q.ops /\ v = Q.ops[i].spec
             \/ i \in DOMAIN Q.sessions /\ v = Q.sessions[i].spec
             \/ i \in DOMAIN Q.subs /\ v = [owner |-> Q.subs[i].owner, from |-> Q.subs[i].from]
    BY ONLY <1>2, <2>1 DEF Known
  <2>2. CASE i \in DOMAIN Q.streams /\ v = [owner |-> Q.streams[i].owner]
    <3>1. CASE i \notin is
      BY ONLY <1>3, <1>4, <2>2, <3>1 DEF Known
    <3>2. CASE i \in is
      <4>1. i \in Streams
        <5>1. DOMAIN R.streams \subseteq Streams
          BY <1>1, KeyFacts DEF Good
        <5> QED
          BY ONLY <1>3, <2>2, <5>1
      <4>2. v = [owner |-> SpecOf(R, i).owner]
        BY ONLY <1>4, <2>2, <3>2
      <4>3. SpecOf(R, i) \in StreamSpecs
        BY ONLY <1>8, <3>2, <4>1 DEF SpecsOf
      <4>4. v = SpecOf(R, i)
        BY ONLY <4>2, <4>3 DEF StreamSpecs
      <4> QED
        BY ONLY <1>8, <3>2, <4>4
    <3> QED
      BY ONLY <3>1, <3>2
  <2>3. CASE \E c \in Q.calls : c.call \in {"node", "initiate"} /\ c.id = i /\ v = c.spec
    BY ONLY <1>6, <2>3 DEF Known
  <2>4. CASE \E c \in Q.calls : c.call = "subscribe" /\ c.id = i /\ v = [owner |-> c.owner, from |-> c.from]
    <3>1. PICK c \in Q.calls : c.call = "subscribe" /\ c.id = i /\ v = [owner |-> c.owner, from |-> c.from]
      BY ONLY <2>4
    <3>2. CASE c \in R.calls
      BY ONLY <3>1, <3>2 DEF Known
    <3>3. CASE c \notin R.calls
      <4>1. i \in is /\ i \notin Streams /\ c.owner = SpecOf(R, i).owner /\ c.from = SpecOf(R, i).from
        BY ONLY <1>6, <3>1, <3>3
      <4>2. SpecOf(R, i) \in SubSpecs
        BY ONLY <1>8, <4>1 DEF SpecsOf
      <4>3. v = SpecOf(R, i)
        BY ONLY <3>1, <4>1, <4>2 DEF SubSpecs
      <4> QED
        BY ONLY <1>8, <4>1, <4>3
    <3> QED
      BY ONLY <3>2, <3>3
  <2> QED
    BY ONLY <1>9, <2>1, <2>2, <2>3, <2>4 DEF Known
<1>10. SpecsKnown(Q)
  BY ONLY <1>1, <1>2, <1>9 DEF SpecsKnown
<1>11. \A i \in is : i \in R.used
  <2>1. \A i \in is : Known(R, i, SpecOf(R, i))
    BY ONLY <1>8
  <2> QED
    BY ONLY <1>1, <2>1 DEF UsedOnce, Known
<1>12. UsedOnce(Q, N)
  BY ONLY <1>1, <1>2, <1>3, <1>6, <1>11 DEF UsedOnce
<1>13. \A j : /\ NotBegun(Q, N, j) <=> NotBegun(R, N, j)
              /\ Has(Q, j, "node") <=> Has(R, j, "node")
              /\ Unserved(Q, j) <=> Unserved(R, j)
  BY ONLY <1>2, <1>5, <1>6 DEF Has, Unserved, NotBegun
<1>14. CallsApart(Q, N)
  BY ONLY <1>1, <1>2, <1>5, <1>6, <1>13 DEF CallsApart
<1>15. \A s : WasReady(R, s) => WasReady(Q, s)
  BY ONLY <1>2, <1>13 DEF WasReady
<1>16. ReadyOnce(Q)
  BY ONLY <1>1, <1>2, <1>3, <1>11, <1>15, \A i \in is : WasReady(R, i) DEF ReadyOnce
<1>17. Owners(Q)
  <2>1. Unthrown(Q) => Unthrown(R)
    BY ONLY <1>2 DEF Unthrown
  <2>2. \A u : Present(R, u) <=> Present(Q, u)
    BY ONLY <1>2 DEF Present
  <2>3. \A i \in is : Present(R, SpecOf(R, i).owner)
    OBVIOUS
  <2> QED
    BY ONLY <1>1, <1>2, <1>3, <1>4, <2>1, <2>2, <2>3 DEF Owners
<1>18. NodesType(Q, N)
  BY ONLY <1>1, <1>2 DEF NodesType
<1> QED
  BY ONLY <1>2, <1>7, <1>10, <1>12, <1>14, <1>16, <1>17, <1>18 DEF Core

(* A subscription is ready.                                                *)
LEMMA CoreSubscribes ==
  ASSUME NEW R, NEW N, Core(R, N), NEW x \in Subs, x \in R.used, NEW owner, NEW from \in R.pub, Present(R, owner),
         Fits(R, x, [owner |-> owner, from |-> from]),
         NEW Q, Subscribes(R, Q, x, owner, from)
  PROVE  Core(Q, N)
<1>1. Good(R) /\ KindsApart(R) /\ SpecsKnown(R) /\ UsedOnce(R, N) /\ CallsApart(R, N)
      /\ ReadyOnce(R) /\ Owners(R) /\ NodesType(R, N)
  BY DEF Core
<1>2. /\ Good(Q) /\ Q.users = R.users /\ Q.met = R.met /\ Q.ops = R.ops /\ Q.trans = R.trans /\ Q.polls = R.polls
      /\ Q.used = R.used /\ Q.streams = R.streams /\ Q.pub = R.pub
      /\ Q.sessions = R.sessions /\ Q.calls = R.calls /\ R.mishaps \subseteq Q.mishaps
  BY DEF Subscribes, Still
<1>3. \A y : y \in DOMAIN Q.subs <=> y \in DOMAIN R.subs \/ y = x
  BY DEF Subscribes
<1>4. Q.subs[x].owner = owner /\ Q.subs[x].from = from
  BY DEF Subscribes
<1>5. \A y \in DOMAIN R.subs : y # x => Q.subs[y] = R.subs[y]
  BY DEF Subscribes
<1>6. KindsApart(Q)
  BY ONLY <1>1, <1>2 DEF KindsApart
<1>7. \A j, v : Known(Q, j, v) => Known(R, j, v) \/ (j = x /\ v = [owner |-> owner, from |-> from])
  BY ONLY <1>2, <1>3, <1>4, <1>5 DEF Known
<1>8. SpecsKnown(Q)
  BY ONLY <1>1, <1>2, <1>7, Fits(R, x, [owner |-> owner, from |-> from]) DEF SpecsKnown, Fits
<1>9. UsedOnce(Q, N)
  BY ONLY <1>1, <1>2, <1>3, x \in R.used DEF UsedOnce
<1>10. \A j : /\ NotBegun(Q, N, j) <=> NotBegun(R, N, j)
              /\ Has(Q, j, "node") <=> Has(R, j, "node")
              /\ Unserved(Q, j) <=> Unserved(R, j)
  BY ONLY <1>2 DEF Has, Unserved, NotBegun
<1>11. CallsApart(Q, N)
  BY ONLY <1>1, <1>2, <1>10 DEF CallsApart
<1>12. \A s : WasReady(R, s) => WasReady(Q, s)
  BY ONLY <1>2, <1>10 DEF WasReady
<1>13. ReadyOnce(Q)
  BY ONLY <1>1, <1>2, <1>3, <1>4, <1>5, <1>12, from \in R.pub DEF ReadyOnce
<1>14. Owners(Q)
  <2>1. Unthrown(Q) => Unthrown(R)
    BY ONLY <1>2 DEF Unthrown
  <2>2. \A u : Present(R, u) <=> Present(Q, u)
    BY ONLY <1>2 DEF Present
  <2> QED
    BY ONLY <1>1, <1>2, <1>3, <1>4, <1>5, <2>1, <2>2, Present(R, owner) DEF Owners
<1>15. NodesType(Q, N)
  BY ONLY <1>1, <1>2 DEF NodesType
<1> QED
  BY ONLY <1>2, <1>6, <1>8, <1>9, <1>11, <1>13, <1>14, <1>15 DEF Core

LEMMA CoreAborted ==
  ASSUME NEW R, NEW N, Core(R, N), NEW i \in Ids, NEW Q, Q = OnAborted(R, i)
  PROVE  Core(Q, N)
<1>1. Fades(R, Q, {i})
  BY OnAbortedFacts DEF Core
<1> QED
  BY ONLY <1>1, Core(R, N), CoreFades

LEMMA CoreTerminate ==
  ASSUME NEW R, NEW N, Core(R, N), NEW i \in Ids, NEW Q, Q = Terminate(R, i)
  PROVE  Core(Q, N)
<1>1. Fades(R, Q, {})
  BY TerminateFacts DEF Core
<1> QED
  BY ONLY <1>1, Core(R, N), CoreFades

LEMMA CoreMisnamed ==
  ASSUME NEW R, NEW N, Core(R, N), NEW i, NEW Q, Q = TerminateMisnamed(R, i)
  PROVE  Core(Q, N)
<1>1. Fades(R, Q, {})
  BY TerminateMisnamedFacts DEF Core
<1> QED
  BY ONLY <1>1, Core(R, N), CoreFades

LEMMA CoreRemoveSubs ==
  ASSUME NEW R, NEW N, Core(R, N), NEW xs, NEW Q, Q = RemoveSubs(R, xs)
  PROVE  Core(Q, N)
<1>1. Fades(R, Q, xs)
  BY RemoveSubsFades DEF Core
<1> QED
  BY ONLY <1>1, Core(R, N), CoreFades

LEMMA CoreSessionEstablished ==
  ASSUME NEW R, NEW N, Core(R, N), NEW i \in DOMAIN R.sessions, WasReady(R, i), Unready(R, i),
         NEW Q, Q = SessionEstablished(R, i)
  PROVE  Core(Q, N)
<1>1. Good(R) /\ SpecsKnown(R) /\ R \in ConfType
  BY DEF Core, Good
<1>2. i \in Ids
  BY <1>1, KeyFacts
<1>3. SpecOf(R, i) \in SpecsOf(i) /\ Known(R, i, SpecOf(R, i))
  <2>1. Known(R, i, SpecOf(R, i))
    BY DEF SpecOf, Known
  <2> QED
    BY ONLY <1>1, <2>1 DEF SpecsKnown
<1>4. CASE Welcome(R, i)
  <2>1. Q = Enter(R, {i})
    BY ONLY <1>4, Q = SessionEstablished(R, i) DEF SessionEstablished
  <2>2. PICK is : is = {i}
    OBVIOUS
  <2>3. /\ is \subseteq Ids
        /\ \A j \in is : SpecOf(R, j) \in SpecsOf(j)
        /\ \A x \in DOMAIN R.subs : R.subs[x].up => R.subs[x].from \notin is
    BY ONLY <1>2, <1>3, <2>2, Unready(R, i) DEF Unready
  <2>4. Enters(R, Q, is)
    BY ONLY <1>1, <2>1, <2>2, <2>3, EnterFacts
  <2>5. Present(R, SpecOf(R, i).owner)
    BY ONLY <1>4 DEF Welcome
  <2>6. \A j \in is : WasReady(R, j) /\ Known(R, j, SpecOf(R, j)) /\ Present(R, SpecOf(R, j).owner)
    BY ONLY <1>3, <2>2, <2>5, WasReady(R, i)
  <2> QED
    BY ONLY Core(R, N), <2>3, <2>4, <2>6, CoreEnters
<1>5. CASE ~Welcome(R, i)
  <2>1. Q = Terminate(R, i)
    BY ONLY <1>5, Q = SessionEstablished(R, i) DEF SessionEstablished
  <2> QED
    BY ONLY Core(R, N), <1>2, <2>1, CoreTerminate
<1> QED
  BY ONLY <1>4, <1>5

LEMMA CoreOpsEstablished ==
  ASSUME NEW R, NEW N, Core(R, N), NEW is, is \subseteq DOMAIN R.ops, \A i \in is : WasReady(R, i) /\ Unready(R, i),
         NEW Q, Q = OpsEstablished(R, is)
  PROVE  Core(Q, N)
<1>1. Good(R) /\ SpecsKnown(R) /\ R \in ConfType /\ KindsApart(R)
  BY DEF Core, Good
<1>2. is \subseteq Ids
  BY <1>1, KeyFacts
<1>3. \A i \in is : SpecOf(R, i) = R.ops[i].spec
  BY <1>1 DEF SpecOf, KindsApart
<1>4. \A i \in is : Known(R, i, SpecOf(R, i)) /\ SpecOf(R, i) \in SpecsOf(i)
  <2>1. \A i \in is : Known(R, i, SpecOf(R, i))
    BY <1>3 DEF Known
  <2> QED
    BY ONLY <1>1, <2>1 DEF SpecsKnown
<1>5. \A x \in DOMAIN R.subs : R.subs[x].up => R.subs[x].from \notin is
  BY DEF Unready
<1>6. \E W, T :
        /\ W \subseteq is /\ \A i \in W : Present(R, SpecOf(R, i).owner)
        /\ Fades(R, T, {}) /\ ListsStill(R, T) /\ Smoothly(R, T)
        /\ Enters(T, Q, W)
        /\ \A i : SpecOf(T, i) = SpecOf(R, i)
  BY ONLY <1>1, <1>4, <1>5, is \subseteq DOMAIN R.ops, Q = OpsEstablished(R, is), OpsEstablishedFacts
<1>7. PICK W, T :
        /\ W \subseteq is /\ \A i \in W : Present(R, SpecOf(R, i).owner)
        /\ Fades(R, T, {}) /\ ListsStill(R, T) /\ Smoothly(R, T)
        /\ Enters(T, Q, W)
        /\ \A i : SpecOf(T, i) = SpecOf(R, i)
  BY ONLY <1>6
<1>8. Core(T, N)
  BY ONLY <1>7, Core(R, N), CoreFades
<1>9. T.ops = R.ops /\ T.trans = R.trans /\ T.users = R.users /\ T.sessions = R.sessions
  BY ONLY <1>7 DEF Fades, Still, Smoothly
<1>10. \A i : Has(T, i, "node") <=> Has(R, i, "node")
  BY ONLY <1>7, FadesCalls
<1>11. \A i \in W : WasReady(T, i) /\ Known(T, i, SpecOf(T, i)) /\ Present(T, SpecOf(T, i).owner)
  <2> SUFFICES ASSUME NEW i \in W
               PROVE  WasReady(T, i) /\ Known(T, i, SpecOf(T, i)) /\ Present(T, SpecOf(T, i).owner)
    OBVIOUS
  <2>1. i \in is
    BY ONLY <1>7, i \in W
  <2>2. WasReady(T, i)
    BY <2>1, <1>9, <1>10 DEF WasReady
  <2>3. SpecOf(T, i) = T.ops[i].spec /\ i \in DOMAIN T.ops
    BY <1>3, <1>7, <1>9, <2>1
  <2>4. Known(T, i, SpecOf(T, i))
    BY ONLY <2>3 DEF Known
  <2>5. Present(T, SpecOf(T, i).owner)
    BY ONLY <1>7, <1>9, i \in W DEF Present
  <2> QED
    BY ONLY <2>2, <2>4, <2>5
<1>12. W \subseteq Ids
  BY ONLY <1>2, <1>7
<1> QED
  BY ONLY <1>7, <1>8, <1>11, <1>12, CoreEnters

-----------------------------------------------------------------------------
(* What is begun.                                                          *)
LEMMA CoreNewOp ==
  ASSUME NEW R, NEW N, Core(R, N), NEW i \in R.used, i \notin bound.sessions, i \notin DOMAIN R.ops,
         NEW t \in DOMAIN R.trans, NEW spec, Fits(R, i, spec), spec.owner = R.trans[t].owner,
         Unready(R, i), Unasked(R, i), NEW Q, Q = NewOp(R, i, t, spec)
  PROVE  Core(Q, N)
<1>1. PICK M : M = WithOp(R, i, t, spec)
  OBVIOUS
<1>2. ~Has(R, i, "node")
  BY DEF Unasked, Has
<1>3. /\ Core(M, N) /\ CarriersOnly(R, M) /\ M.sessions = R.sessions /\ M.trans = R.trans
      /\ i \in DOMAIN M.ops /\ Fits(M, i, spec)
  BY ONLY <1>1, <1>2, Core(R, N), i \in R.used, i \notin bound.sessions, i \notin DOMAIN R.ops, t \in DOMAIN R.trans,
          Fits(R, i, spec), spec.owner = R.trans[t].owner, Unready(R, i), CoreOp
<1>4. M.calls = R.calls /\ M.used = R.used
  BY ONLY <1>3 DEF CarriersOnly
<1>5. Unasked(M, i)
  BY ONLY <1>4, Unasked(R, i) DEF Unasked
<1>6. NotBegun(M, N, i)
  BY ONLY <1>3, i \notin bound.sessions DEF Core, KindsApart, NodesType, NotBegun
<1>7. \A c \in M.calls : c.call = "recycle" \/ (c.call = "terminate" /\ c.why \notin Operation) => c.id # i
  BY ONLY <1>3, i \notin bound.sessions DEF Core, CallsApart
<1>8. Q = Call(M, [call |-> "initiate", id |-> i, spec |-> spec, served |-> FALSE])
  BY ONLY <1>1, Q = NewOp(R, i, t, spec) DEF NewOp, WithOp
<1> QED
  BY ONLY <1>3, <1>4, <1>5, <1>6, <1>7, <1>8, i \in R.used, CoreInitiate

LEMMA CoreAsked ==
  ASSUME NEW N, Core(conf, N), NEW i \in Ids, i \notin conf.used, i \notin bound.sessions,
         NEW u \in conf.users, NEW spec \in SpecsOf(i), spec.owner = u, NEW Q \in Asked(u, i, spec)
  PROVE  Core(Q, N)
<1>1. PICK R : R = Begun(conf, i, spec)
  OBVIOUS
<1>2. Good(conf) /\ UsedOnce(conf, N) /\ conf \in ConfType
  BY DEF Core, Good
<1>3. ~Listed(conf, i)
  BY <1>2 DEF UsedOnce, Listed
<1>4. Begins(conf, R, i, spec)
  BY ONLY <1>1, <1>2, <1>3, i \in Ids, spec \in SpecsOf(i), BegunFacts
<1>5. /\ Core(R, N) /\ Fits(R, i, spec) /\ Unready(R, i) /\ i \in R.used
      /\ i \notin DOMAIN R.sessions /\ i \notin DOMAIN R.ops /\ i \notin DOMAIN R.trans
      /\ i \notin N.sessions /\ i \notin N.held
      /\ \A c \in R.calls : c.call # "drop" => c.id # i
  BY ONLY <1>4, Core(conf, N), i \in Ids, i \notin conf.used, i \notin bound.sessions, spec \in SpecsOf(i),
          spec.owner = u, u \in conf.users, CoreBegins
<1>6. NotBegun(R, N, i)
  BY ONLY <1>5 DEF NotBegun
<1>7. \/ Q = Call(R, [call |-> "node", id |-> i, spec |-> spec])
      \/ \E t \in TransOf(R, u) : Q = NewOp(R, i, t, spec)
  <2>1. \/ Q = Call(Begun(conf, i, spec), [call |-> "node", id |-> i, spec |-> spec])
        \/ \E t \in TransOf(Begun(conf, i, spec), u) : Q = NewOp(Begun(conf, i, spec), i, t, spec)
    BY ONLY Q \in Asked(u, i, spec) DEF Asked
  <2> QED
    BY ONLY <1>1, <2>1
<1>8. CASE Q = Call(R, [call |-> "node", id |-> i, spec |-> spec])
  BY ONLY <1>5, <1>6, <1>8, CoreNodeCall
<1>9. CASE \E t \in TransOf(R, u) : Q = NewOp(R, i, t, spec)
  <2>1. PICK t \in TransOf(R, u) : Q = NewOp(R, i, t, spec)
    BY ONLY <1>9
  <2>2. R.trans = conf.trans
    BY ONLY <1>4 DEF Begins
  <2>3. t \in DOMAIN R.trans /\ spec.owner = R.trans[t].owner
    BY ONLY <2>1, <2>2, spec.owner = u DEF TransOf
  <2>4. Unasked(R, i)
    BY ONLY <1>5 DEF Unasked
  <2> QED
    BY ONLY <1>5, <2>1, <2>3, <2>4, i \notin bound.sessions, CoreNewOp
<1> QED
  BY ONLY <1>7, <1>8, <1>9

LEMMA CoreOrdered ==
  ASSUME NEW N, Core(conf, N), NEW i \in Ids, i \notin conf.used, i \in bound.sessions,
         NEW spec \in SpecsOf(i), spec.owner = Admin, NEW Q, Q = Ordered(i, spec)
  PROVE  Core(Q, N)
<1>1. PICK R : R = Begun(conf, i, spec)
  OBVIOUS
<1>2. Good(conf) /\ UsedOnce(conf, N) /\ conf \in ConfType
  BY DEF Core, Good
<1>3. ~Listed(conf, i)
  BY <1>2 DEF UsedOnce, Listed
<1>4. Begins(conf, R, i, spec)
  BY ONLY <1>1, <1>2, <1>3, i \in Ids, spec \in SpecsOf(i), BegunFacts
<1>5. /\ Core(R, N) /\ Fits(R, i, spec) /\ Unready(R, i) /\ i \in R.used
      /\ i \notin DOMAIN R.sessions /\ i \notin DOMAIN R.ops /\ i \notin DOMAIN R.trans
      /\ i \notin N.sessions /\ i \notin N.held
      /\ \A c \in R.calls : c.call # "drop" => c.id # i
  BY ONLY <1>4, Core(conf, N), i \in Ids, i \notin conf.used, i \in bound.sessions, spec \in SpecsOf(i),
          spec.owner = Admin, CoreBegins
<1>6. PICK M : M = [R EXCEPT !.sessions = Put(@, i, [state |-> "initialized", ready |-> FALSE, spec |-> spec])]
  OBVIOUS
<1>7. /\ Core(M, N) /\ CarriersOnly(R, M) /\ M.ops = R.ops /\ M.trans = R.trans
      /\ NotBegun(M, N, i) /\ Fits(M, i, spec)
  BY ONLY <1>5, <1>6, i \in bound.sessions, CoreSession
<1>8. M.calls = R.calls /\ M.used = R.used /\ Unready(M, i)
  BY ONLY <1>5, <1>7 DEF CarriersOnly, ListsStill, Unready
<1>9. Q = Call(M, [call |-> "node", id |-> i, spec |-> spec])
  BY ONLY <1>1, <1>6, Q = Ordered(i, spec) DEF Ordered
<1> QED
  BY ONLY <1>5, <1>7, <1>8, <1>9, CoreNodeCall

-----------------------------------------------------------------------------
(* The steps, one by one.                                                  *)
LEMMA CoreJoin ==
  ASSUME Core(conf, nodes), NEW u \in Users, Join(u)
  PROVE  Core(conf', nodes')
<1>1. PICK Q : Q = conf'
  OBVIOUS
<1>2. Q = [conf EXCEPT !.users = conf.users \cup {u}, !.met = conf.met \cup {u}] /\ nodes' = nodes
  BY <1>1 DEF Join
<1>3. Good(conf) /\ conf \in ConfType /\ conf.users \subseteq conf.met /\ Owners(conf)
  BY DEF Core, Good, KindsApart
<1>4. /\ Q \in ConfType /\ ListsStill(conf, Q)
      /\ Q.ops = conf.ops /\ Q.trans = conf.trans /\ Q.polls = conf.polls /\ Q.used = conf.used
      /\ Q.sessions = conf.sessions /\ Q.calls = conf.calls /\ Q.mishaps = conf.mishaps
      /\ Q.users = conf.users \cup {u} /\ Q.met = conf.met \cup {u}
  BY ONLY <1>2, <1>3, u \in Users DEF ConfType, ListsStill
<1>5. Good(Q)
  BY ONLY <1>3, <1>4, GoodStill
<1>6. Q.streams = conf.streams /\ Q.subs = conf.subs
  BY ONLY <1>4 DEF ListsStill
<1>7. Owners(Q)
  BY ONLY <1>3, <1>4, <1>6 DEF Owners, Unthrown, Present
<1>8. conf.met \subseteq Q.met /\ Q.users \subseteq Q.met
  BY ONLY <1>3, <1>4
<1>9. Core(Q, nodes)
  BY ONLY Core(conf, nodes), <1>4, <1>5, <1>7, <1>8, CoreUsers
<1> QED
  BY ONLY <1>1, <1>2, <1>9

LEMMA CorePublish ==
  ASSUME Core(conf, nodes), NEW u, NEW s, Publish(u, s)
  PROVE  Core(conf', nodes')
<1>1. /\ u \in conf.users /\ s \in Streams /\ s \notin conf.used /\ s \notin bound.sessions
      /\ conf' \in Asked(u, s, [owner |-> u]) /\ nodes' = nodes
  BY DEF Publish, Fresh
<1>2. PICK spec : spec = [owner |-> u]
  OBVIOUS
<1>3. u \in People
  BY <1>1, ConfFacts DEF Core, Good, People
<1>4. spec \in SpecsOf(s) /\ spec.owner = u
  BY ONLY <1>1, <1>2, <1>3 DEF SpecsOf, StreamSpecs
<1>5. s \in Ids
  BY <1>1 DEF Ids
<1>6. Core(conf', nodes)
  BY ONLY <1>1, <1>2, <1>4, <1>5, Core(conf, nodes), CoreAsked
<1> QED
  BY ONLY <1>1, <1>6

(* What may be subscribed to.                                              *)
LEMMA SpecsForFacts ==
  ASSUME conf \in ConfType, NEW owner \in People, NEW x \in Subs, NEW spec \in SpecsFor(owner)
  PROVE  spec \in SpecsOf(x) /\ spec.owner = owner /\ spec.from \in DOMAIN conf.streams
<1>1. PICK s \in DOMAIN conf.streams : spec = [owner |-> owner, from |-> s]
  BY DEF SpecsFor
<1>2. s \in Streams /\ x \notin Streams
  BY KeyFacts, NamesAssumption
<1> QED
  BY ONLY <1>1, <1>2, owner \in People DEF SpecsOf, SubSpecs

LEMMA CoreSubscribe ==
  ASSUME Core(conf, nodes), NEW u, NEW x, Subscribe(u, x)
  PROVE  Core(conf', nodes')
<1>1. /\ u \in conf.users /\ x \in Subs /\ x \notin conf.used /\ x \notin bound.sessions /\ nodes' = nodes
      /\ \E spec \in SpecsFor(u) : conf' \in Asked(u, x, spec)
  BY DEF Subscribe, Fresh
<1>2. PICK spec \in SpecsFor(u) : conf' \in Asked(u, x, spec)
  BY ONLY <1>1
<1>3. u \in People /\ conf \in ConfType
  BY <1>1, ConfFacts DEF Core, Good, People
<1>4. spec \in SpecsOf(x) /\ spec.owner = u
  BY ONLY <1>1, <1>2, <1>3, SpecsForFacts
<1>5. x \in Ids
  BY <1>1 DEF Ids
<1>6. Core(conf', nodes)
  BY ONLY <1>1, <1>2, <1>4, <1>5, Core(conf, nodes), CoreAsked
<1> QED
  BY ONLY <1>1, <1>6

LEMMA CoreAddStreamingIn ==
  ASSUME Core(conf, nodes), NEW s, AddStreamingIn(s)
  PROVE  Core(conf', nodes')
<1>1. /\ s \in Streams /\ s \notin conf.used /\ s \in bound.sessions /\ nodes' = nodes
      /\ conf' = Ordered(s, [owner |-> Admin])
  BY DEF AddStreamingIn, Fresh
<1>2. PICK spec : spec = [owner |-> Admin]
  OBVIOUS
<1>3. Admin \in People /\ s \in Ids
  BY <1>1 DEF People, Ids
<1>4. spec \in SpecsOf(s) /\ spec.owner = Admin
  BY ONLY <1>1, <1>2, <1>3 DEF SpecsOf, StreamSpecs
<1>5. Core(conf', nodes)
  BY ONLY <1>1, <1>2, <1>3, <1>4, Core(conf, nodes), CoreOrdered
<1> QED
  BY ONLY <1>1, <1>5

LEMMA CoreAddServerSideSubscription ==
  ASSUME Core(conf, nodes), NEW x, AddServerSideSubscription(x)
  PROVE  Core(conf', nodes')
<1>1. /\ x \in Subs /\ x \notin conf.used /\ x \in bound.sessions /\ nodes' = nodes
      /\ \E spec \in SpecsFor(Admin) : conf' = Ordered(x, spec)
  BY DEF AddServerSideSubscription, Fresh
<1>2. PICK spec \in SpecsFor(Admin) : conf' = Ordered(x, spec)
  BY ONLY <1>1
<1>3. Admin \in People /\ x \in Ids /\ conf \in ConfType
  BY <1>1 DEF People, Ids, Core, Good
<1>4. spec \in SpecsOf(x) /\ spec.owner = Admin
  BY ONLY <1>1, <1>2, <1>3, SpecsForFacts
<1>5. Core(conf', nodes)
  BY ONLY <1>1, <1>2, <1>3, <1>4, Core(conf, nodes), CoreOrdered
<1> QED
  BY ONLY <1>1, <1>5

LEMMA CoreNote ==
  ASSUME NEW R, NEW N, Core(R, N), NEW e \in Mishaps, NEW Q, Q = Note(R, e)
  PROVE  Core(Q, N)
<1>1. R \in ConfType /\ KindsApart(R) /\ CallsApart(R, N)
  BY DEF Core, Good
<1>2. /\ Q \in ConfType /\ Still(R, Q) /\ ListsStill(R, Q)
      /\ Q.sessions = R.sessions /\ Q.calls = R.calls /\ Q.mishaps = R.mishaps \cup {e}
  BY ONLY <1>1, e \in Mishaps, Q = Note(R, e), NoteFacts
<1>3. Wanes(R, Q)
  BY ONLY <1>1, <1>2 DEF Wanes, Still, Part, KindsApart, CallsApart
<1> QED
  BY ONLY Core(R, N), <1>3, LessRefl, CoreWanes

(* A session is forgotten.                                                 *)
Forgets(R, Q, i) ==
  /\ Wanes(R, Q) /\ Q.ops = R.ops /\ Q.calls = R.calls /\ Q.mishaps = R.mishaps
  /\ Q.polls = R.polls /\ Q.leaving = R.leaving
  /\ \A d : d \in DOMAIN Q.sessions <=> d \in DOMAIN R.sessions /\ d # i

LEMMA CoreForget ==
  ASSUME NEW R, NEW N, Core(R, N), NEW i, NEW Q, Q = [R EXCEPT !.sessions = Without(@, i)]
  PROVE  Core(Q, N) /\ Forgets(R, Q, i)
<1>1. R \in ConfType /\ KindsApart(R) /\ CallsApart(R, N)
  BY DEF Core, Good
<1>2. PICK T : T = WithoutAll(R.sessions, {i})
  OBVIOUS
<1>3. Q = [R EXCEPT !.sessions = T]
  BY <1>2 DEF Without
<1>4. /\ T \in Tables(Ids, SessionRecords) /\ Part(R.sessions, T)
      /\ \A d : d \in DOMAIN T <=> d \in DOMAIN R.sessions /\ d \notin {i}
  <2>1. R.sessions \in Tables(Ids, SessionRecords)
    BY <1>1, ConfFacts
  <2> QED
    BY ONLY <1>2, <2>1, WithoutFacts
<1>5. /\ Q \in ConfType /\ Still(R, Q) /\ ListsStill(R, Q) /\ Q.sessions = T
      /\ Q.calls = R.calls /\ Q.mishaps = R.mishaps
  BY ONLY <1>1, <1>3, <1>4 DEF ConfType, Still, ListsStill
<1>6. Wanes(R, Q)
  BY ONLY <1>1, <1>4, <1>5 DEF Wanes, Still, Part, KindsApart, CallsApart
<1>7. Forgets(R, Q, i)
  BY ONLY <1>4, <1>5, <1>6 DEF Forgets, Still
<1>8. Core(Q, N)
  BY ONLY Core(R, N), <1>6, LessRefl, CoreWanes
<1> QED
  BY ONLY <1>7, <1>8

(* The transports of a participant are ended.                              *)
EndsTransports(R, M, Q, ts) ==
  /\ EndsOps(R, M, OpsOn(R, ts), "left")
  /\ Wanes(M, Q) /\ Q.calls = M.calls /\ Q.sessions = M.sessions /\ Q.ops = M.ops /\ Q.mishaps = M.mishaps
  /\ Q.polls = M.polls /\ Q.leaving = R.leaving \cup {[waits |-> OpsOn(R, ts), trans |-> ts]}

LEMMA CoreTransports ==
  ASSUME NEW R, NEW N, Core(R, N), NEW ts, ts \subseteq DOMAIN R.trans, NEW Q, Q = TerminateTransports(R, ts)
  PROVE  Core(Q, N) /\ \E M : EndsTransports(R, M, Q, ts)
<1>1. Good(R) /\ R \in ConfType
  BY DEF Core, Good
<1>2. PICK is : is = OpsOn(R, ts)
  OBVIOUS
<1>3. PICK M : M = TerminateOps(R, is, "left")
  OBVIOUS
<1>4. EndsOps(R, M, is, "left")
  <2>1. "left" \in Operation
    BY DEF Operation
  <2> QED
    BY ONLY <1>1, <1>3, <2>1, TerminateOpsFades
<1>5. Fades(R, M, {})
  BY ONLY <1>4 DEF EndsOps
<1>6. Core(M, N)
  BY ONLY <1>5, Core(R, N), CoreFades
<1>7. PICK g : g = [waits |-> is, trans |-> ts]
  OBVIOUS
<1>8. PICK L : L = M.leaving \cup {g}
  OBVIOUS
<1>9. Q = [M EXCEPT !.leaving = L]
  BY ONLY <1>2, <1>3, <1>7, <1>8, Q = TerminateTransports(R, ts) DEF TerminateTransports
<1>10. M \in ConfType /\ KindsApart(M) /\ CallsApart(M, N)
  BY ONLY <1>6 DEF Core, Good
<1>11. L \subseteq Leavings
  <2>1. is \subseteq Ids /\ ts \subseteq Ids
    BY <1>1, <1>2, KeyFacts DEF OpsOn
  <2>2. g \in Leavings
    BY ONLY <1>7, <2>1 DEF Leavings
  <2>3. M.leaving \subseteq Leavings
    BY <1>10, ConfFacts
  <2> QED
    BY ONLY <1>8, <2>2, <2>3
<1>12. /\ Q \in ConfType /\ ListsStill(M, Q)
       /\ Q.users = M.users /\ Q.met = M.met /\ Q.trans = M.trans /\ Q.used = M.used /\ Q.polls = M.polls
       /\ Q.calls = M.calls /\ Q.sessions = M.sessions /\ Q.ops = M.ops /\ Q.mishaps = M.mishaps
       /\ Q.leaving = L
  BY ONLY <1>9, <1>10, <1>11 DEF ConfType, ListsStill
<1>13. Wanes(M, Q)
  BY ONLY <1>10, <1>12 DEF Wanes, Part, KindsApart, CallsApart
<1>14. M.leaving = R.leaving
  BY ONLY <1>5 DEF Fades, Still
<1>15. EndsTransports(R, M, Q, ts)
  BY ONLY <1>2, <1>4, <1>7, <1>8, <1>12, <1>13, <1>14 DEF EndsTransports
<1>16. Core(Q, N)
  BY ONLY <1>6, <1>13, LessRefl, CoreWanes
<1> QED
  BY ONLY <1>15, <1>16

LEMMA CoreEnd ==
  ASSUME Core(conf, nodes), NEW i \in Ids, End(i)
  PROVE  Core(conf', nodes')
<1>1. conf' = Terminate(conf, i) /\ nodes' = nodes
  BY DEF End
<1> QED
  BY ONLY <1>1, Core(conf, nodes), i \in Ids, CoreTerminate

LEMMA CoreLeave ==
  ASSUME Core(conf, nodes), NEW u, Leave(u)
  PROVE  Core(conf', nodes')
<1>1. PICK ts : ts = TransOf(conf, u)
  OBVIOUS
<1>2. PICK R : R = TerminateTransports(conf, ts)
  OBVIOUS
<1>3. conf' = RemoveParticipant(R, u) /\ nodes' = nodes
  BY ONLY <1>1, <1>2, Leave(u) DEF Leave
<1>4. ts \subseteq DOMAIN conf.trans
  BY ONLY <1>1 DEF TransOf
<1>5. Core(R, nodes)
  BY ONLY <1>2, <1>4, Core(conf, nodes), CoreTransports
<1> QED
  BY ONLY <1>3, <1>5, CoreRemoved

LEMMA CoreDropStep ==
  ASSUME Core(conf, nodes), NEW u \in Users, Drop(u)
  PROVE  Core(conf', nodes')
<1>1. conf' = Call(conf, [call |-> "drop", id |-> u]) /\ nodes' = nodes
  BY DEF Drop
<1> QED
  BY ONLY <1>1, Core(conf, nodes), u \in Users, CoreDrop

(* The call that is answered.                                              *)
LEMMA CoreDone ==
  ASSUME Core(conf, nodes), NEW c, NEW R, R = Done(c)
  PROVE  Answered(conf, R, c) /\ Core(R, nodes)
<1>1. R = [conf EXCEPT !.calls = @ \ {c}]
  BY DEF Done
<1> QED
  BY ONLY <1>1, Core(conf, nodes), AnsweredFacts

LEMMA CoreDropped ==
  ASSUME Core(conf, nodes), NEW c, Dropped(c)
  PROVE  Core(conf', nodes')
<1>1. PICK R : R = Done(c)
  OBVIOUS
<1>2. PICK Q : Q = RemoveParticipant(R, c.id)
  OBVIOUS
<1>3. (conf' = Note(Q, "dropped") \/ conf' = Q) /\ nodes' = nodes
  BY ONLY <1>1, <1>2, Dropped(c) DEF Dropped
<1>4. Core(R, nodes)
  BY ONLY <1>1, Core(conf, nodes), CoreDone
<1>5. Core(Q, nodes)
  BY ONLY <1>2, <1>4, CoreRemoved
<1>6. "dropped" \in Mishaps
  BY DEF Mishaps
<1> QED
  BY ONLY <1>3, <1>5, <1>6, CoreNote

LEMMA CallTypes ==
  ASSUME NEW c \in Calls
  PROVE  /\ c.call # "drop" => c.id \in Ids
         /\ c.call \in {"node", "initiate"} => c.spec \in Specs
         /\ c.call = "initiate" => c \in InitiateCalls
         /\ c.call = "terminate" => c.why \in {"asked", "left", "session", "late"}
         /\ c.call = "recycle" => c.why \in {"session", "late"}
         /\ c.call = "subscribe" => c.id \in Subs /\ c.owner \in People /\ c.from \in Streams
BY DEF Calls, NodeCalls, InitiateCalls, TerminateCalls, RecycleCalls, SubscribeCalls, DropCalls, Ids

LEMMA FitsStill ==
  ASSUME NEW R, NEW Q, NEW i, NEW spec, Fits(R, i, spec), Q.met = R.met, \A v : Known(Q, i, v) => Known(R, i, v)
  PROVE  Fits(Q, i, spec)
BY DEF Fits

(* Whose answer is late for a session.                                     *)
Unclosed(R, i) == \A c \in R.calls : c.call = "recycle" \/ (c.call = "terminate" /\ c.why \notin Operation) => c.id # i

(* A node was found, or not.                                               *)
NodeAnswered(R, i, spec) ==
  /\ Fits(R, i, spec) /\ Unready(R, i) /\ Unasked(R, i) /\ Unclosed(R, i)
  /\ i \in R.used /\ i \in Ids
  /\ i \notin DOMAIN R.ops /\ i \notin DOMAIN R.trans /\ i \notin nodes.held /\ NotBegun(R, nodes, i)

LEMMA NodeAnsweredFacts ==
  ASSUME Core(conf, nodes), NEW c \in conf.calls, c.call = "node", NEW R, R = Done(c)
  PROVE  Answered(conf, R, c) /\ Core(R, nodes) /\ NodeAnswered(R, c.id, c.spec)
<1>1. Answered(conf, R, c) /\ Core(R, nodes)
  BY CoreDone
<1>2. conf \in ConfType /\ SpecsKnown(conf) /\ UsedOnce(conf, nodes) /\ CallsApart(conf, nodes) /\ ReadyOnce(conf)
  BY DEF Core, Good
<1>3. PICK i : i = c.id
  OBVIOUS
<1>4. /\ R.calls = conf.calls \ {c} /\ R.sessions = conf.sessions /\ R.ops = conf.ops /\ R.trans = conf.trans
      /\ R.met = conf.met /\ R.used = conf.used /\ ListsStill(conf, R) /\ Wanes(conf, R)
  BY ONLY <1>1 DEF Answered, Wanes
<1>5. Fits(R, i, c.spec)
  <2>1. Known(conf, i, c.spec)
    BY ONLY <1>3, c \in conf.calls, c.call = "node" DEF Known
  <2>2. Fits(conf, i, c.spec)
    BY ONLY <1>2, <2>1, KnownFits
  <2> QED
    BY ONLY <1>4, <2>2, WanesKnown, FitsStill
<1>6. Unready(R, i)
  <2>1. ~WasReady(conf, i)
    BY ONLY <1>3, c \in conf.calls, c.call = "node" DEF WasReady, Has
  <2>2. Unready(conf, i)
    BY ONLY <1>2, <2>1, NotReady
  <2> QED
    BY ONLY <1>4, <2>2 DEF ListsStill, Unready
<1>7. Unasked(R, i)
  BY ONLY <1>2, <1>3, <1>4, c \in conf.calls, c.call = "node" DEF CallsApart, Unasked
<1>8. Unclosed(R, i)
  <2>1. Has(conf, i, "node")
    BY ONLY <1>3, c \in conf.calls, c.call = "node" DEF Has
  <2> QED
    BY ONLY <1>2, <1>4, <2>1 DEF CallsApart, Unclosed
<1>9. /\ i \notin DOMAIN conf.ops /\ i \notin DOMAIN conf.trans /\ i \notin nodes.held /\ NotBegun(conf, nodes, i)
  BY ONLY <1>2, <1>3, c \in conf.calls, c.call = "node" DEF CallsApart
<1>10. NotBegun(R, nodes, i)
  BY ONLY <1>4, <1>9 DEF NotBegun
<1>11. i \in conf.used
  BY ONLY <1>2, <1>3, c \in conf.calls, c.call = "node" DEF UsedOnce
<1>12. i \in Ids
  BY <1>2, <1>3, ConfFacts, CallTypes
<1>13. NodeAnswered(R, i, c.spec)
  BY ONLY <1>4, <1>5, <1>6, <1>7, <1>8, <1>9, <1>10, <1>11, <1>12 DEF NodeAnswered
<1> QED
  BY ONLY <1>1, <1>3, <1>13

LEMMA NoteStill ==
  ASSUME NEW R, R \in ConfType, NEW e \in Mishaps, NEW i, NEW spec, NodeAnswered(R, i, spec), NEW Q, Q = Note(R, e)
  PROVE  NodeAnswered(Q, i, spec)
<1>1. Still(R, Q) /\ ListsStill(R, Q) /\ Q.sessions = R.sessions /\ Q.calls = R.calls
  BY NoteFacts
<1>2. \A v : Known(Q, i, v) => Known(R, i, v)
  BY ONLY <1>1 DEF Known, Still, ListsStill
<1>3. Q.met = R.met /\ Q.used = R.used /\ Q.ops = R.ops /\ Q.trans = R.trans /\ Q.pub = R.pub /\ Q.subs = R.subs
  BY ONLY <1>1 DEF Still, ListsStill
<1>4. Fits(Q, i, spec)
  BY ONLY <1>2, <1>3, NodeAnswered(R, i, spec), FitsStill DEF NodeAnswered
<1> QED
  BY ONLY <1>1, <1>3, <1>4, NodeAnswered(R, i, spec) DEF NodeAnswered, Unready, Unasked, Unclosed, NotBegun

LEMMA CoreOpNode ==
  ASSUME Core(conf, nodes), NEW c \in conf.calls, OpNode(c)
  PROVE  Core(conf', nodes')
<1>1. PICK i, spec : i = c.id /\ spec = c.spec
  OBVIOUS
<1>2. PICK D : D = Done(c)
  OBVIOUS
<1>3. PICK R : R = IF spec.owner \in conf.users THEN D ELSE Note(D, "late_node")
  OBVIOUS
<1>4. PICK T : T = [R EXCEPT !.trans = Put(@, i, [owner |-> spec.owner, ready |-> FALSE])]
  OBVIOUS
<1>5. /\ c.call = "node" /\ i \notin bound.sessions
      /\ conf' = NewOp(T, i, i, spec) /\ nodes' = [nodes EXCEPT !.held = @ \cup {i}]
  BY ONLY <1>1, <1>2, <1>3, <1>4, OpNode(c) DEF OpNode
<1>6. Core(D, nodes) /\ NodeAnswered(D, i, spec)
  BY ONLY <1>1, <1>2, <1>5, Core(conf, nodes), c \in conf.calls, NodeAnsweredFacts
<1>7. Core(R, nodes) /\ NodeAnswered(R, i, spec)
  <2>1. "late_node" \in Mishaps /\ D \in ConfType
    BY <1>6 DEF Mishaps, Core, Good
  <2> QED
    BY ONLY <1>3, <1>6, <2>1, CoreNote, NoteStill
<1>8. /\ Fits(R, i, spec) /\ Unready(R, i) /\ Unasked(R, i) /\ i \in R.used
      /\ i \notin DOMAIN R.ops /\ i \notin DOMAIN R.trans
  BY ONLY <1>7 DEF NodeAnswered
<1>9. spec.owner \in R.met /\ ~Has(R, i, "node")
  BY ONLY <1>5, <1>8 DEF Fits, Unasked, Has
<1>10. PICK M : M = Holding(nodes, i)
  OBVIOUS
<1>11. /\ Core(T, M) /\ CarriersOnly(R, T) /\ T.sessions = R.sessions /\ T.ops = R.ops
       /\ i \in DOMAIN T.trans /\ T.trans[i].owner = spec.owner
  <2>1. PICK u : u = spec.owner
    OBVIOUS
  <2>2. T = WithTrans(R, i, u) /\ u \in R.met
    BY ONLY <1>4, <1>9, <2>1 DEF WithTrans
  <2>3. /\ Core(T, M) /\ CarriersOnly(R, T) /\ T.sessions = R.sessions /\ T.ops = R.ops
        /\ i \in DOMAIN T.trans /\ T.trans[i].owner = u
    BY ONLY <1>5, <1>7, <1>8, <1>9, <1>10, <2>2, CoreTrans
  <2> QED
    BY ONLY <2>1, <2>3
<1>12. /\ T.calls = R.calls /\ T.used = R.used /\ T.met = R.met /\ T.pub = R.pub /\ T.subs = R.subs /\ T.streams = R.streams
  BY ONLY <1>11 DEF CarriersOnly, ListsStill
<1>13. Fits(T, i, spec)
  <2>1. \A v : Known(T, i, v) => Known(R, i, v)
    BY ONLY <1>11, <1>12 DEF Known
  <2> QED
    BY ONLY <1>8, <1>12, <2>1, FitsStill
<1>14. Unready(T, i) /\ Unasked(T, i)
  BY ONLY <1>8, <1>12 DEF Unready, Unasked
<1>15. i \in T.used /\ i \notin DOMAIN T.ops /\ spec.owner = T.trans[i].owner
  BY ONLY <1>8, <1>11, <1>12
<1>16. PICK Q : Q = conf'
  OBVIOUS
<1>17. Core(Q, M)
  BY ONLY <1>5, <1>11, <1>13, <1>14, <1>15, <1>16, CoreNewOp
<1> QED
  BY ONLY <1>5, <1>10, <1>16, <1>17 DEF Holding

(* A node is held, or has begun.                                           *)
LEMMA CoreHeld ==
  ASSUME NEW R, NEW N, Core(R, N), NEW i \in R.used, i \in Ids, Unasked(R, i), NEW M, M = Holding(N, i)
  PROVE  Core(R, M) /\ M.sessions = N.sessions /\ M.trans = N.trans /\ M.held = N.held \cup {i}
<1>1. Good(R) /\ KindsApart(R) /\ SpecsKnown(R) /\ UsedOnce(R, N) /\ CallsApart(R, N)
      /\ ReadyOnce(R) /\ Owners(R) /\ NodesType(R, N)
  BY DEF Core
<1>2. M.sessions = N.sessions /\ M.trans = N.trans /\ M.held = N.held \cup {i}
      /\ M \in [sessions : SUBSET Ids, trans : SUBSET Ids, held : SUBSET Ids]
  BY ONLY <1>1, i \in Ids, M = Holding(N, i) DEF NodesType, Holding
<1>3. UsedOnce(R, M)
  BY ONLY <1>1, <1>2, i \in R.used DEF UsedOnce
<1>4. CallsApart(R, M)
  <2>1. \A j : NotBegun(R, N, j) <=> NotBegun(R, M, j)
    BY ONLY <1>2 DEF NotBegun
  <2> QED
    BY ONLY <1>1, <1>2, <2>1, Unasked(R, i) DEF CallsApart, Unasked
<1>5. NodesType(R, M)
  BY ONLY <1>1, <1>2 DEF NodesType
<1> QED
  BY ONLY <1>1, <1>2, <1>3, <1>4, <1>5 DEF Core

LEMMA CoreBegan ==
  ASSUME NEW R, NEW N, Core(R, N), NEW i \in R.used, Unasked(R, i),
         NEW M \in [sessions : SUBSET Ids, trans : SUBSET Ids, held : SUBSET Ids], M.held = N.held,
         \A j \in M.sessions : j \in N.sessions \/ (j = i /\ i \in bound.sessions),
         M.trans \subseteq DOMAIN R.trans
  PROVE  Core(R, M)
<1>1. Good(R) /\ KindsApart(R) /\ SpecsKnown(R) /\ UsedOnce(R, N) /\ CallsApart(R, N)
      /\ ReadyOnce(R) /\ Owners(R) /\ NodesType(R, N)
  BY DEF Core
<1>2. UsedOnce(R, M)
  BY <1>1 DEF UsedOnce
<1>3. CallsApart(R, M)
  <2>1. \A j : j # i /\ NotBegun(R, N, j) => NotBegun(R, M, j)
    BY DEF NotBegun
  <2> QED
    BY ONLY <1>1, <2>1, M.held = N.held, Unasked(R, i) DEF CallsApart, Unasked
<1>4. NodesType(R, M)
  BY <1>1 DEF NodesType
<1> QED
  BY ONLY <1>1, <1>2, <1>3, <1>4 DEF Core

LEMMA CoreServed ==
  ASSUME NEW R, NEW N, Core(R, N), NEW c \in Calls, c.call = "initiate", c.served, c.id \in R.used,
         Fits(R, c.id, c.spec), Unasked(R, c.id), c.id \notin bound.sessions => c.id \in DOMAIN R.ops,
         NEW Q, Q = Call(R, c)
  PROVE  Core(Q, N) /\ Made(R, Q, c)
<1>1. R \in ConfType /\ CallsApart(R, N)
  BY DEF Core, Good
<1>2. Made(R, Q, c)
  BY ONLY <1>1, c \in Calls, Q = Call(R, c), MadeFacts
<1>3. Q.calls = R.calls \cup {c} /\ Q.ops = R.ops /\ Q.trans = R.trans /\ Q.sessions = R.sessions
  BY ONLY <1>2 DEF Made, Still
<1>4. CallsApart(Q, N)
  <2>1. \A a, d \in Q.calls :
          a.call \in {"node", "initiate"} /\ d.call \in {"node", "initiate"} /\ a.id = d.id => a = d
    <3>1. \A a \in Q.calls : a.call \in {"node", "initiate"} /\ a.id = c.id => a = c
      BY <1>3 DEF Unasked
    <3>2. \A a, d \in R.calls :
            a.call \in {"node", "initiate"} /\ d.call \in {"node", "initiate"} /\ a.id = d.id => a = d
      BY ONLY <1>1 DEF CallsApart
    <3> QED
      BY ONLY <1>3, <3>1, <3>2
  <2>2. \A j : NotBegun(R, N, j) <=> NotBegun(Q, N, j)
    BY ONLY <1>3 DEF NotBegun
  <2>3. \A j : (Has(Q, j, "node") => Has(R, j, "node")) /\ (Unserved(Q, j) => Unserved(R, j))
    BY ONLY <1>3, c.call = "initiate", c.served DEF Has, Unserved
  <2>4. ASSUME NEW a \in Q.calls
        PROVE  /\ a.call = "node" => /\ a.id \notin DOMAIN Q.ops /\ a.id \notin DOMAIN Q.trans /\ a.id \notin N.held
                                     /\ NotBegun(Q, N, a.id)
               /\ a.call = "initiate" /\ a.id \notin bound.sessions => a.id \in DOMAIN Q.ops
               /\ a.call = "initiate" /\ ~a.served => NotBegun(Q, N, a.id)
               /\ a.call = "terminate" /\ a.why \in Operation => a.id \notin bound.sessions
               /\ (a.call = "terminate" /\ a.why \notin Operation) \/ a.call = "recycle" =>
                    /\ a.id \in bound.sessions /\ ~Has(Q, a.id, "node") /\ ~Unserved(Q, a.id)
    <3>1. CASE a = c
      BY <1>3, <3>1
    <3>2. CASE a \in R.calls
      BY <1>1, <1>3, <2>2, <2>3, <3>2 DEF CallsApart
    <3> QED
      BY ONLY <1>3, <2>4, <3>1, <3>2
  <2> QED
    BY ONLY <2>1, <2>4 DEF CallsApart
<1>5. c.call \notin {"subscribe", "node"}
  BY ONLY c.call = "initiate"
<1> QED
  BY ONLY <1>2, <1>4, <1>5, Core(R, N), Fits(R, c.id, c.spec), c.id \in R.used, CoreMade

LEMMA CoreSessionNode ==
  ASSUME Core(conf, nodes), NEW c \in conf.calls, SessionNode(c)
  PROVE  Core(conf', nodes')
<1>1. PICK i, spec : i = c.id /\ spec = c.spec
  OBVIOUS
<1>2. PICK D : D = Done(c)
  OBVIOUS
<1>3. PICK M : M = Holding(nodes, i)
  OBVIOUS
<1>4. /\ c.call = "node" /\ i \in bound.sessions /\ nodes' = M
      /\ \/ conf' = Call(D, [call |-> "initiate", id |-> i, spec |-> spec, served |-> FALSE])
         \/ conf' = OnAborted(Call(D, [call |-> "recycle", id |-> i, why |-> "late"]), i)
  BY ONLY <1>1, <1>2, <1>3, SessionNode(c) DEF SessionNode, Holding
<1>5. Core(D, nodes) /\ NodeAnswered(D, i, spec)
  BY ONLY <1>1, <1>2, <1>4, Core(conf, nodes), c \in conf.calls, NodeAnsweredFacts
<1>6. /\ Fits(D, i, spec) /\ Unasked(D, i) /\ Unclosed(D, i)
      /\ i \in D.used /\ i \in Ids /\ NotBegun(D, nodes, i)
  BY ONLY <1>5 DEF NodeAnswered
<1>7. Core(D, M) /\ M.sessions = nodes.sessions
  BY ONLY <1>3, <1>5, <1>6, CoreHeld
<1>8. NotBegun(D, M, i)
  BY ONLY <1>6, <1>7 DEF NotBegun
<1>9. CASE conf' = Call(D, [call |-> "initiate", id |-> i, spec |-> spec, served |-> FALSE])
  <2>1. PICK Q : Q = Call(D, [call |-> "initiate", id |-> i, spec |-> spec, served |-> FALSE])
    OBVIOUS
  <2>2. Core(Q, M)
    BY ONLY <1>4, <1>6, <1>7, <1>8, <2>1, CoreInitiate DEF Unclosed
  <2> QED
    BY ONLY <1>4, <1>9, <2>1, <2>2
<1>10. CASE conf' = OnAborted(Call(D, [call |-> "recycle", id |-> i, why |-> "late"]), i)
  <2>1. PICK d : d = [call |-> "recycle", id |-> i, why |-> "late"]
    OBVIOUS
  <2>2. PICK Q : Q = Call(D, d)
    OBVIOUS
  <2>3. d \in Calls /\ d.id = i /\ d.call = "recycle"
    BY ONLY <1>6, <2>1 DEF Calls, RecycleCalls
  <2>4. ~Has(D, i, "node") /\ ~Unserved(D, i)
    BY ONLY <1>6 DEF Unasked, Has, Unserved
  <2>5. Core(Q, M)
    BY ONLY <1>4, <1>6, <1>7, <2>2, <2>3, <2>4, CoreEndCall
  <2>6. conf' = OnAborted(Q, i)
    BY ONLY <1>10, <2>1, <2>2
  <2> QED
    BY ONLY <1>4, <1>6, <2>5, <2>6, CoreAborted
<1> QED
  BY ONLY <1>4, <1>9, <1>10

(* The calls that fail.                                                    *)
LEMMA CoreFailed ==
  ASSUME Core(conf, nodes), NEW c \in conf.calls, c.call \in {"node", "initiate"},
         NEW Q, Q = OnAborted([Done(c) EXCEPT !.sessions = Without(@, c.id)], c.id)
  PROVE  Core(Q, nodes)
<1>1. PICK i : i = c.id
  OBVIOUS
<1>2. PICK D : D = Done(c)
  OBVIOUS
<1>3. PICK F : F = [D EXCEPT !.sessions = Without(@, i)]
  OBVIOUS
<1>4. Q = OnAborted(F, i)
  BY <1>1, <1>2, <1>3
<1>5. Core(D, nodes)
  BY ONLY <1>2, Core(conf, nodes), CoreDone
<1>6. Core(F, nodes)
  BY ONLY <1>3, <1>5, CoreForget
<1>7. i \in Ids
  BY <1>1, ConfFacts, CallTypes DEF Core, Good
<1> QED
  BY ONLY <1>4, <1>6, <1>7, CoreAborted

LEMMA CoreNoNode ==
  ASSUME Core(conf, nodes), NEW c \in conf.calls, NoNode(c) \/ NotInitiated(c)
  PROVE  Core(conf', nodes')
<1>1. /\ c.call \in {"node", "initiate"} /\ nodes' = nodes
      /\ conf' = OnAborted([Done(c) EXCEPT !.sessions = Without(@, c.id)], c.id)
  BY DEF NoNode, NotInitiated
<1>2. PICK Q : Q = conf'
  OBVIOUS
<1>3. Q = OnAborted([Done(c) EXCEPT !.sessions = Without(@, c.id)], c.id)
  BY ONLY <1>1, <1>2
<1>4. Core(Q, nodes)
  BY ONLY <1>1, <1>3, Core(conf, nodes), c \in conf.calls, CoreFailed
<1> QED
  BY ONLY <1>1, <1>2, <1>4

(* What was begun, or is about to.                                         *)
InitiateAnswered(R, i, spec) ==
  /\ Fits(R, i, spec) /\ Unasked(R, i) /\ i \in R.used /\ i \in Ids
  /\ i \notin bound.sessions => i \in DOMAIN R.ops

LEMMA InitiateAnsweredFacts ==
  ASSUME Core(conf, nodes), NEW c \in conf.calls, c.call = "initiate", NEW R, R = Done(c)
  PROVE  Answered(conf, R, c) /\ Core(R, nodes) /\ InitiateAnswered(R, c.id, c.spec)
<1>1. Answered(conf, R, c) /\ Core(R, nodes)
  BY CoreDone
<1>2. conf \in ConfType /\ SpecsKnown(conf) /\ UsedOnce(conf, nodes) /\ CallsApart(conf, nodes)
  BY DEF Core, Good
<1>3. PICK i : i = c.id
  OBVIOUS
<1>4. /\ R.calls = conf.calls \ {c} /\ R.ops = conf.ops /\ R.met = conf.met /\ R.used = conf.used /\ Wanes(conf, R)
  BY ONLY <1>1 DEF Answered, Wanes
<1>5. Fits(R, i, c.spec)
  <2>1. Known(conf, i, c.spec)
    BY ONLY <1>3, c \in conf.calls, c.call = "initiate" DEF Known
  <2>2. Fits(conf, i, c.spec)
    BY ONLY <1>2, <2>1, KnownFits
  <2> QED
    BY ONLY <1>4, <2>2, WanesKnown, FitsStill
<1>6. Unasked(R, i)
  BY ONLY <1>2, <1>3, <1>4, c \in conf.calls, c.call = "initiate" DEF CallsApart, Unasked
<1>7. i \in R.used /\ (i \notin bound.sessions => i \in DOMAIN R.ops)
  BY ONLY <1>2, <1>3, <1>4, c \in conf.calls, c.call = "initiate" DEF UsedOnce, CallsApart
<1>8. i \in Ids
  BY <1>2, <1>3, ConfFacts, CallTypes
<1>9. InitiateAnswered(R, i, c.spec)
  BY ONLY <1>5, <1>6, <1>7, <1>8 DEF InitiateAnswered
<1> QED
  BY ONLY <1>1, <1>3, <1>9

LEMMA CoreServe ==
  ASSUME Core(conf, nodes), NEW c \in conf.calls, Serve(c)
  PROVE  Core(conf', nodes')
<1>1. PICK i, spec : i = c.id /\ spec = c.spec
  OBVIOUS
<1>2. PICK D : D = Done(c)
  OBVIOUS
<1>3. PICK d : d = [c EXCEPT !.served = TRUE]
  OBVIOUS
<1>4. PICK M : M = nodes'
  OBVIOUS
<1>5. /\ c.call = "initiate" /\ conf' = Call(D, d)
      /\ M = IF i \in bound.sessions THEN [nodes EXCEPT !.sessions = @ \cup {i}]
             ELSE [nodes EXCEPT !.trans = @ \cup {conf.ops[i].trans}]
  BY ONLY <1>1, <1>2, <1>3, <1>4, Serve(c) DEF Serve
<1>6. Answered(conf, D, c) /\ Core(D, nodes) /\ InitiateAnswered(D, i, spec)
  BY ONLY <1>1, <1>2, <1>5, Core(conf, nodes), c \in conf.calls, InitiateAnsweredFacts
<1>7. /\ Fits(D, i, spec) /\ Unasked(D, i) /\ i \in D.used /\ i \in Ids
      /\ i \notin bound.sessions => i \in DOMAIN D.ops
  BY ONLY <1>6 DEF InitiateAnswered
<1>8. D \in ConfType /\ KindsApart(D) /\ NodesType(D, nodes)
  BY ONLY <1>6 DEF Core, Good
<1>9. D.ops = conf.ops
  BY ONLY <1>6 DEF Answered
<1>10. /\ M \in [sessions : SUBSET Ids, trans : SUBSET Ids, held : SUBSET Ids] /\ M.held = nodes.held
       /\ \A j \in M.sessions : j \in nodes.sessions \/ (j = i /\ i \in bound.sessions)
       /\ M.trans \subseteq DOMAIN D.trans
  <2>1. CASE i \in bound.sessions
    <3>1. M = [nodes EXCEPT !.sessions = @ \cup {i}]
      BY ONLY <1>5, <2>1
    <3> QED
      BY ONLY <1>7, <1>8, <2>1, <3>1 DEF NodesType
  <2>2. CASE i \notin bound.sessions
    <3>1. PICK t : t = conf.ops[i].trans
      OBVIOUS
    <3>2. M = [nodes EXCEPT !.trans = @ \cup {t}]
      BY ONLY <1>5, <2>2, <3>1
    <3>3. t \in DOMAIN D.trans
      BY ONLY <1>7, <1>8, <1>9, <2>2, <3>1 DEF KindsApart
    <3>4. t \in Ids
      BY <1>8, <3>3, KeyFacts
    <3> QED
      BY ONLY <1>8, <3>2, <3>3, <3>4 DEF NodesType
  <2> QED
    BY ONLY <2>1, <2>2
<1>11. Core(D, M)
  BY ONLY <1>6, <1>7, <1>10, CoreBegan
<1>12. c \in InitiateCalls
  BY <1>5, ConfFacts, CallTypes DEF Core, Good
<1>13. d \in Calls /\ d.call = "initiate" /\ d.served /\ d.id = i /\ d.spec = spec
  BY ONLY <1>1, <1>3, <1>12 DEF Calls, InitiateCalls
<1>14. PICK Q : Q = Call(D, d)
  OBVIOUS
<1>15. Core(Q, M)
  BY ONLY <1>7, <1>11, <1>13, <1>14, CoreServed
<1> QED
  BY ONLY <1>4, <1>5, <1>14, <1>15

LEMMA CoreOpInitiated ==
  ASSUME Core(conf, nodes), NEW c \in conf.calls, OpInitiated(c)
  PROVE  Core(conf', nodes')
<1>1. PICK D : D = Done(c)
  OBVIOUS
<1>2. PICK T : T = TerminateMisnamed(D, c.id)
  OBVIOUS
<1>3. nodes' = nodes /\ (conf' = RemoveSubs(T, {c.id}) \/ conf' = D)
  BY ONLY <1>1, <1>2, OpInitiated(c) DEF OpInitiated
<1>4. Core(D, nodes)
  BY ONLY <1>1, Core(conf, nodes), CoreDone
<1>5. Core(T, nodes)
  BY ONLY <1>2, <1>4, CoreMisnamed
<1> QED
  BY ONLY <1>3, <1>4, <1>5, CoreRemoveSubs

(* A session that is initiated.                                            *)
LEMMA CoreConnecting ==
  ASSUME NEW R, NEW N, Core(R, N), NEW i \in DOMAIN R.sessions, Unasked(R, i),
         NEW Q, Q = [R EXCEPT !.sessions[i].state = "connecting"]
  PROVE  /\ Core(Q, N)
         /\ \E r : /\ Advances(R, Q, i, r) /\ r.state = "connecting"
                   /\ r.ready = R.sessions[i].ready /\ r.spec = R.sessions[i].spec
<1>1. PICK r : r = [R.sessions[i] EXCEPT !.state = "connecting"]
  OBVIOUS
<1>2. PICK T : T = [R.sessions EXCEPT ![i] = r]
  OBVIOUS
<1>3. Q = [R EXCEPT !.sessions = T]
  BY ONLY <1>1, <1>2, Q = [R EXCEPT !.sessions[i].state = "connecting"]
<1>4. R.sessions[i] \in SessionRecords
  BY KeyFacts DEF Core, Good
<1>5. r \in SessionRecords /\ r.state = "connecting" /\ r.ready = R.sessions[i].ready /\ r.spec = R.sessions[i].spec
  BY ONLY <1>1, <1>4 DEF SessionRecords
<1>6. ~Has(R, i, "node") /\ ~Unserved(R, i)
  BY DEF Unasked, Has, Unserved
<1>7. Core(Q, N) /\ Advances(R, Q, i, r)
  BY ONLY <1>2, <1>3, <1>5, <1>6, Core(R, N), i \in DOMAIN R.sessions, CoreState
<1> QED
  BY ONLY <1>5, <1>7

LEMMA CorePolls ==
  ASSUME NEW R, NEW N, Core(R, N), NEW is, is \subseteq Ids, is \subseteq bound.sessions, NEW Q, Q = [R EXCEPT !.polls = is]
  PROVE  /\ Core(Q, N) /\ Wanes(R, Q) /\ Q.ops = R.ops /\ Q.calls = R.calls /\ Q.sessions = R.sessions
         /\ Q.mishaps = R.mishaps /\ Q.polls = is /\ Q.leaving = R.leaving
<1>1. R \in ConfType /\ KindsApart(R) /\ CallsApart(R, N)
  BY DEF Core, Good
<1>2. /\ Q \in ConfType /\ ListsStill(R, Q)
      /\ Q.users = R.users /\ Q.met = R.met /\ Q.trans = R.trans /\ Q.used = R.used /\ Q.polls = is
      /\ Q.calls = R.calls /\ Q.sessions = R.sessions /\ Q.ops = R.ops /\ Q.mishaps = R.mishaps
      /\ Q.leaving = R.leaving
  BY ONLY <1>1, is \subseteq Ids, Q = [R EXCEPT !.polls = is] DEF ConfType, ListsStill
<1>3. Wanes(R, Q)
  BY ONLY <1>1, <1>2, is \subseteq bound.sessions DEF Wanes, Part, KindsApart, CallsApart
<1> QED
  BY ONLY <1>2, <1>3, Core(R, N), LessRefl, CoreWanes

LEMMA CoreSessionInitiated ==
  ASSUME Core(conf, nodes), NEW c \in conf.calls, SessionInitiated(c)
  PROVE  Core(conf', nodes')
<1>1. PICK i, spec : i = c.id /\ spec = c.spec
  OBVIOUS
<1>2. PICK D : D = Done(c)
  OBVIOUS
<1>3. c.call = "initiate" /\ i \in bound.sessions /\ nodes' = nodes
  BY ONLY <1>1, SessionInitiated(c) DEF SessionInitiated
<1>4. Answered(conf, D, c) /\ Core(D, nodes) /\ InitiateAnswered(D, i, spec)
  BY ONLY <1>1, <1>2, <1>3, Core(conf, nodes), c \in conf.calls, InitiateAnsweredFacts
<1>5. Unasked(D, i) /\ i \in D.used /\ i \in Ids
  BY ONLY <1>4 DEF InitiateAnswered
<1>6. CASE i \notin DOMAIN D.sessions
  <2>1. PICK d : d = [call |-> "terminate", id |-> i, why |-> "late"]
    OBVIOUS
  <2>2. PICK e : e = [call |-> "recycle", id |-> i, why |-> "late"]
    OBVIOUS
  <2>3. PICK T : T = Call(D, d)
    OBVIOUS
  <2>4. PICK U : U = Call(T, e)
    OBVIOUS
  <2>5. conf' = OnAborted(U, i)
    BY ONLY <1>1, <1>2, <1>6, <2>1, <2>2, <2>3, <2>4, SessionInitiated(c) DEF SessionInitiated
  <2>6. d \in Calls /\ d.id = i /\ d.call = "terminate" /\ d.why \notin Operation
    BY ONLY <1>5, <2>1 DEF Calls, TerminateCalls, Operation
  <2>7. e \in Calls /\ e.id = i /\ e.call = "recycle"
    BY ONLY <1>5, <2>2 DEF Calls, RecycleCalls
  <2>8. ~Has(D, i, "node") /\ ~Unserved(D, i)
    BY ONLY <1>5 DEF Unasked, Has, Unserved
  <2>9. Core(T, nodes) /\ Made(D, T, d)
    BY ONLY <1>3, <1>4, <1>5, <2>3, <2>6, <2>8, CoreEndCall
  <2>10. ~Has(T, i, "node") /\ ~Unserved(T, i) /\ i \in T.used
    <3>1. T.calls = D.calls \cup {d} /\ T.used = D.used
      BY ONLY <2>9 DEF Made, Still
    <3> QED
      BY ONLY <1>5, <2>6, <2>8, <3>1 DEF Has, Unserved
  <2>11. Core(U, nodes)
    BY ONLY <1>3, <2>4, <2>7, <2>9, <2>10, CoreEndCall
  <2> QED
    BY ONLY <1>3, <1>5, <2>5, <2>11, CoreAborted
<1>7. CASE i \in DOMAIN D.sessions
  <2>1. PICK on : on = [D EXCEPT !.sessions[i].state = "connecting"]
    OBVIOUS
  <2>2. PICK T : T = TerminateMisnamed(on, i)
    OBVIOUS
  <2>3. \/ conf' = RemoveSubs(T, {i})
        \/ conf' = [on EXCEPT !.polls = on.polls \cup {i}]
    BY ONLY <1>1, <1>2, <1>7, <2>1, <2>2, SessionInitiated(c) DEF SessionInitiated
  <2>4. Core(on, nodes)
    BY ONLY <1>4, <1>5, <1>7, <2>1, CoreConnecting
  <2>5. Core(T, nodes)
    BY ONLY <2>2, <2>4, CoreMisnamed
  <2>6. CASE conf' = RemoveSubs(T, {i})
    BY ONLY <1>3, <2>5, <2>6, CoreRemoveSubs
  <2>7. CASE conf' = [on EXCEPT !.polls = on.polls \cup {i}]
    <3>1. PICK is : is = on.polls \cup {i}
      OBVIOUS
    <3>2. PICK Q : Q = [on EXCEPT !.polls = is]
      OBVIOUS
    <3>3. conf' = Q
      BY ONLY <2>7, <3>1, <3>2
    <3>4. is \subseteq bound.sessions /\ is \subseteq Ids
      <4>1. on.polls \subseteq bound.sessions
        BY ONLY <2>4 DEF Core, KindsApart
      <4>2. on.polls \subseteq Ids
        BY <2>4, ConfFacts DEF Core, Good
      <4> QED
        BY ONLY <1>3, <1>5, <3>1, <4>1, <4>2
    <3>5. Core(Q, nodes)
      BY ONLY <2>4, <3>2, <3>4, CorePolls
    <3> QED
      BY ONLY <1>3, <3>3, <3>5
  <2> QED
    BY ONLY <2>3, <2>6, <2>7
<1> QED
  BY ONLY <1>6, <1>7

LEMMA CorePollOver ==
  ASSUME Core(conf, nodes), NEW i \in Ids, PollOver(i)
  PROVE  Core(conf', nodes')
<1>1. PICK is : is = conf.polls \ {i}
  OBVIOUS
<1>2. PICK R : R = [conf EXCEPT !.polls = is]
  OBVIOUS
<1>3. PICK T : T = TerminateMisnamed(R, i)
  OBVIOUS
<1>4. nodes' = nodes /\ (conf' = R \/ conf' = OnAborted(T, i))
  BY ONLY <1>1, <1>2, <1>3, PollOver(i) DEF PollOver
<1>5. is \subseteq Ids /\ is \subseteq bound.sessions
  <2>1. conf.polls \subseteq bound.sessions
    BY DEF Core, KindsApart
  <2>2. conf.polls \subseteq Ids
    BY ConfFacts DEF Core, Good
  <2> QED
    BY ONLY <1>1, <2>1, <2>2
<1>6. Core(R, nodes)
  BY ONLY <1>2, <1>5, Core(conf, nodes), CorePolls
<1>7. Core(T, nodes)
  BY ONLY <1>3, <1>6, CoreMisnamed
<1> QED
  BY ONLY <1>4, <1>6, <1>7, i \in Ids, CoreAborted

LEMMA CoreSubscribed ==
  ASSUME NEW R, NEW N, Core(R, N), NEW c, c.id \in Subs, c.id \in R.used, c.owner \in People, c.from \in R.pub,
         Fits(R, c.id, [owner |-> c.owner, from |-> c.from]), NEW Q, Q = Subscribed(R, c)
  PROVE  Core(Q, N)
<1>1. Good(R) /\ c.id \in Ids
  BY DEF Core, Ids
<1>2. CASE Present(R, c.owner)
  <2>1. Subscribes(R, Q, c.id, c.owner, c.from)
    BY ONLY <1>1, <1>2, c.id \in Subs, c.owner \in People, c.from \in R.pub, Q = Subscribed(R, c), SubscribedFacts
  <2>2. PICK x, o, f : x = c.id /\ o = c.owner /\ f = c.from
    OBVIOUS
  <2>3. /\ x \in Subs /\ x \in R.used /\ f \in R.pub /\ Present(R, o)
        /\ Fits(R, x, [owner |-> o, from |-> f]) /\ Subscribes(R, Q, x, o, f)
    BY ONLY <1>2, <2>1, <2>2, c.id \in Subs, c.id \in R.used, c.from \in R.pub,
            Fits(R, c.id, [owner |-> c.owner, from |-> c.from])
  <2> QED
    BY ONLY <2>3, Core(R, N), CoreSubscribes
<1>3. CASE ~Present(R, c.owner)
  <2>1. Q = Terminate(R, c.id)
    BY ONLY <1>3, Q = Subscribed(R, c) DEF Subscribed
  <2> QED
    BY ONLY <1>1, <2>1, Core(R, N), CoreTerminate
<1> QED
  BY ONLY <1>2, <1>3

(* Whose subscription the room controller answers for.                     *)
LEMMA SubscribeAnswered ==
  ASSUME Core(conf, nodes), NEW c \in conf.calls, c.call = "subscribe", NEW R, R = Done(c)
  PROVE  /\ Answered(conf, R, c) /\ Core(R, nodes)
         /\ c.id \in Subs /\ c.id \in R.used /\ c.owner \in People
         /\ Fits(R, c.id, [owner |-> c.owner, from |-> c.from])
<1>1. Answered(conf, R, c) /\ Core(R, nodes)
  BY CoreDone
<1>2. conf \in ConfType /\ SpecsKnown(conf) /\ UsedOnce(conf, nodes)
  BY DEF Core, Good
<1>3. PICK i, spec : i = c.id /\ spec = [owner |-> c.owner, from |-> c.from]
  OBVIOUS
<1>4. R.met = conf.met /\ R.used = conf.used /\ Wanes(conf, R)
  BY ONLY <1>1 DEF Answered, Wanes
<1>5. Known(conf, i, spec)
  BY ONLY <1>3, c \in conf.calls, c.call = "subscribe" DEF Known
<1>6. Fits(conf, i, spec)
  BY ONLY <1>2, <1>5, KnownFits
<1>7. Fits(R, i, spec)
  BY ONLY <1>4, <1>6, WanesKnown, FitsStill
<1>8. i \in R.used
  BY ONLY <1>2, <1>3, <1>4, c \in conf.calls, c.call = "subscribe" DEF UsedOnce
<1>9. c.id \in Subs /\ c.owner \in People
  BY <1>2, ConfFacts, CallTypes
<1> QED
  BY ONLY <1>1, <1>3, <1>7, <1>8, <1>9

LEMMA CoreSubscribeDone ==
  ASSUME Core(conf, nodes), NEW c \in conf.calls, SubscribeDone(c)
  PROVE  Core(conf', nodes')
<1>1. PICK D : D = Done(c)
  OBVIOUS
<1>2. /\ c.call = "subscribe" /\ nodes' = nodes
      /\ (c.from \in conf.pub /\ conf' = Subscribed(D, c)) \/ conf' = Terminate(D, c.id)
  BY ONLY <1>1, SubscribeDone(c) DEF SubscribeDone
<1>3. /\ Answered(conf, D, c) /\ Core(D, nodes)
      /\ c.id \in Subs /\ c.id \in D.used /\ c.owner \in People
      /\ Fits(D, c.id, [owner |-> c.owner, from |-> c.from])
  BY ONLY <1>1, <1>2, Core(conf, nodes), c \in conf.calls, SubscribeAnswered
<1>4. D.pub = conf.pub
  BY ONLY <1>3 DEF Answered, Wanes, ListsStill
<1>5. c.id \in Ids
  BY <1>3 DEF Ids
<1>6. PICK Q : Q = conf'
  OBVIOUS
<1>7. CASE c.from \in conf.pub /\ Q = Subscribed(D, c)
  <2>1. Core(Q, nodes)
    BY ONLY <1>3, <1>4, <1>7, CoreSubscribed
  <2> QED
    BY ONLY <1>2, <1>6, <2>1
<1>8. CASE Q = Terminate(D, c.id)
  <2>1. Core(Q, nodes)
    BY ONLY <1>3, <1>5, <1>8, CoreTerminate
  <2> QED
    BY ONLY <1>2, <1>6, <2>1
<1> QED
  BY ONLY <1>2, <1>6, <1>7, <1>8

(* Waiting less for the operations of those who left.                      *)
LEMMA CoreWaited ==
  ASSUME NEW R, NEW N, Core(R, N), NEW i, NEW Q, Q = Waited(R, i)
  PROVE  /\ Core(Q, N) /\ Wanes(R, Q) /\ Q.ops = R.ops /\ Q.calls = R.calls /\ Q.sessions = R.sessions
         /\ Q.mishaps = R.mishaps /\ Q.polls = R.polls
         /\ Q.leaving = {[g EXCEPT !.waits = @ \ {i}] : g \in R.leaving}
<1>1. R \in ConfType /\ KindsApart(R) /\ CallsApart(R, N)
  BY DEF Core, Good
<1>2. PICK L : L = {[g EXCEPT !.waits = @ \ {i}] : g \in R.leaving}
  OBVIOUS
<1>3. L \subseteq Leavings
  <2>1. R.leaving \subseteq Leavings
    BY <1>1, ConfFacts
  <2>2. \A g \in Leavings : [g EXCEPT !.waits = @ \ {i}] \in Leavings
    BY DEF Leavings
  <2> QED
    BY ONLY <1>2, <2>1, <2>2
<1>4. Q = [R EXCEPT !.leaving = L]
  BY ONLY <1>2, Q = Waited(R, i) DEF Waited
<1>5. /\ Q \in ConfType /\ ListsStill(R, Q)
      /\ Q.users = R.users /\ Q.met = R.met /\ Q.trans = R.trans /\ Q.used = R.used /\ Q.polls = R.polls
      /\ Q.calls = R.calls /\ Q.sessions = R.sessions /\ Q.ops = R.ops /\ Q.mishaps = R.mishaps
      /\ Q.leaving = L
  BY ONLY <1>1, <1>3, <1>4 DEF ConfType, ListsStill
<1>6. Wanes(R, Q)
  BY ONLY <1>1, <1>5 DEF Wanes, Part, KindsApart, CallsApart
<1>7. Core(Q, N)
  BY ONLY <1>6, Core(R, N), LessRefl, CoreWanes
<1> QED
  BY ONLY <1>2, <1>5, <1>6, <1>7

(* An operation is forgotten.                                              *)
ForgetsOp(R, Q, i) ==
  /\ Wanes(R, Q) /\ Q.calls = R.calls /\ Q.sessions = R.sessions
  /\ Q.mishaps = R.mishaps /\ Q.polls = R.polls /\ Q.leaving = R.leaving
  /\ \A d : d \in DOMAIN Q.ops <=> d \in DOMAIN R.ops /\ d # i

LEMMA CoreForgetOp ==
  ASSUME NEW R, NEW N, Core(R, N), NEW i, \A c \in R.calls : c.call = "initiate" => c.id # i,
         NEW Q, Q = [R EXCEPT !.ops = Without(@, i)]
  PROVE  Core(Q, N) /\ ForgetsOp(R, Q, i)
<1>1. R \in ConfType /\ KindsApart(R) /\ CallsApart(R, N)
  BY DEF Core, Good
<1>2. PICK T : T = WithoutAll(R.ops, {i})
  OBVIOUS
<1>3. Q = [R EXCEPT !.ops = T]
  BY <1>2 DEF Without
<1>4. /\ T \in Tables(Ids, OpRecords) /\ Part(R.ops, T)
      /\ \A d : d \in DOMAIN T <=> d \in DOMAIN R.ops /\ d \notin {i}
  <2>1. R.ops \in Tables(Ids, OpRecords)
    BY <1>1, ConfFacts
  <2> QED
    BY ONLY <1>2, <2>1, WithoutFacts
<1>5. /\ Q \in ConfType /\ ListsStill(R, Q)
      /\ Q.users = R.users /\ Q.met = R.met /\ Q.trans = R.trans /\ Q.used = R.used /\ Q.polls = R.polls
      /\ Q.calls = R.calls /\ Q.sessions = R.sessions /\ Q.ops = T /\ Q.mishaps = R.mishaps
      /\ Q.leaving = R.leaving
  BY ONLY <1>1, <1>3, <1>4 DEF ConfType, ListsStill
<1>6. \A c \in Q.calls : c.call = "initiate" /\ c.id \notin bound.sessions => c.id \in DOMAIN Q.ops
  BY ONLY <1>1, <1>4, <1>5, \A c \in R.calls : c.call = "initiate" => c.id # i DEF CallsApart
<1>7. Wanes(R, Q)
  BY ONLY <1>1, <1>4, <1>5, <1>6 DEF Wanes, Part, KindsApart
<1>8. Core(Q, N)
  BY ONLY <1>7, Core(R, N), LessRefl, CoreWanes
<1> QED
  BY ONLY <1>4, <1>5, <1>7, <1>8 DEF ForgetsOp

LEMMA CoreOpTerminated ==
  ASSUME Core(conf, nodes), NEW c \in conf.calls, OpTerminated(c)
  PROVE  Core(conf', nodes')
<1>1. PICK i : i = c.id
  OBVIOUS
<1>2. PICK D : D = Done(c)
  OBVIOUS
<1>3. PICK A : A = OnAborted(D, i)
  OBVIOUS
<1>4. PICK F : F = [A EXCEPT !.ops = Without(@, i)]
  OBVIOUS
<1>5. /\ c.call = "terminate" /\ \A d \in conf.calls : d.call = "initiate" => d.id # i
      /\ nodes' = nodes /\ (conf' = Waited(F, i) \/ conf' = Waited(D, i))
  BY ONLY <1>1, <1>2, <1>3, <1>4, OpTerminated(c) DEF OpTerminated
<1>6. Answered(conf, D, c) /\ Core(D, nodes)
  BY ONLY <1>2, Core(conf, nodes), CoreDone
<1>7. i \in Ids
  BY <1>1, <1>5, ConfFacts, CallTypes DEF Core, Good
<1>8. Fades(D, A, {i})
  <2>1. Good(D)
    BY ONLY <1>6 DEF Core
  <2> QED
    BY ONLY <1>3, <1>7, <2>1, OnAbortedFacts
<1>9. Core(A, nodes)
  BY ONLY <1>6, <1>8, CoreFades
<1>10. \A d \in A.calls : d.call = "initiate" => d.id # i
  <2>1. \A d \in A.calls : d.call # "terminate" => d \in D.calls
    BY ONLY <1>8, FadesCalls
  <2>2. D.calls \subseteq conf.calls
    BY ONLY <1>6 DEF Answered
  <2> QED
    BY ONLY <1>5, <2>1, <2>2
<1>11. Core(F, nodes)
  BY ONLY <1>4, <1>9, <1>10, CoreForgetOp
<1> QED
  BY ONLY <1>5, <1>6, <1>11, CoreWaited

(* Nodes are given back.                                                   *)
LEMMA LessFewer ==
  ASSUME NEW R, NEW N, Core(R, N), NEW M,
         \/ \E ss : M = [N EXCEPT !.sessions = @ \ ss]
         \/ \E hs : M = [N EXCEPT !.held = @ \ hs]
         \/ \E ts : M = [N EXCEPT !.trans = @ \ ts, !.held = @ \ ts]
         \/ M = [N EXCEPT !.trans = {}]
         \/ M = [N EXCEPT !.sessions = {}]
  PROVE  Less(N, M)
BY DEF Core, NodesType, Less

(* It is nothing but nodes that are given back.                            *)
LEMMA CoreLess ==
  ASSUME NEW R, NEW N, Core(R, N), NEW M, Less(N, M)
  PROVE  Core(R, M)
<1>1. Wanes(R, R)
  BY DEF Core, Good, KindsApart, CallsApart, Wanes, ListsStill, Part
<1> QED
  BY ONLY <1>1, Core(R, N), Less(N, M), CoreWanes

LEMMA CoreLeaveDone ==
  ASSUME Core(conf, nodes), NEW g, LeaveDone(g)
  PROVE  Core(conf', nodes')
<1>1. PICK L : L = conf.leaving \ {g}
  OBVIOUS
<1>2. PICK Q : Q = conf'
  OBVIOUS
<1>3. PICK M : M = nodes'
  OBVIOUS
<1>4. Q = [conf EXCEPT !.leaving = L] /\ M = [nodes EXCEPT !.trans = @ \ g.trans, !.held = @ \ g.trans]
  BY ONLY <1>1, <1>2, <1>3, LeaveDone(g) DEF LeaveDone
<1>5. conf \in ConfType /\ KindsApart(conf) /\ CallsApart(conf, nodes)
  BY DEF Core, Good
<1>6. L \subseteq Leavings
  BY <1>1, <1>5, ConfFacts
<1>7. /\ Q \in ConfType /\ ListsStill(conf, Q)
      /\ Q.users = conf.users /\ Q.met = conf.met /\ Q.trans = conf.trans /\ Q.used = conf.used /\ Q.polls = conf.polls
      /\ Q.calls = conf.calls /\ Q.sessions = conf.sessions /\ Q.ops = conf.ops /\ Q.mishaps = conf.mishaps
  BY ONLY <1>4, <1>5, <1>6 DEF ConfType, ListsStill
<1>8. Wanes(conf, Q)
  BY ONLY <1>5, <1>7 DEF Wanes, Part, KindsApart, CallsApart
<1>9. Less(nodes, M)
  BY ONLY <1>4, Core(conf, nodes), LessFewer
<1>10. Core(Q, M)
  BY ONLY <1>8, <1>9, Core(conf, nodes), CoreWanes
<1> QED
  BY ONLY <1>2, <1>3, <1>10

LEMMA CoreSessionTerminated ==
  ASSUME Core(conf, nodes), NEW c \in conf.calls, SessionTerminated(c)
  PROVE  Core(conf', nodes')
<1>1. PICK i : i = c.id
  OBVIOUS
<1>2. PICK D : D = Done(c)
  OBVIOUS
<1>3. PICK d : d = [call |-> "recycle", id |-> i, why |-> "session"]
  OBVIOUS
<1>4. /\ c.call = "terminate" /\ c.why \notin Operation
      /\ conf' = Call(D, d) \/ conf' = D
      /\ nodes' = nodes \/ nodes' = [nodes EXCEPT !.sessions = @ \ {i}]
  BY ONLY <1>1, <1>2, <1>3, SessionTerminated(c) DEF SessionTerminated, Operation
<1>5. Answered(conf, D, c) /\ Core(D, nodes)
  BY ONLY <1>2, Core(conf, nodes), CoreDone
<1>6. i \in Ids
  BY <1>1, <1>4, ConfFacts, CallTypes DEF Core, Good
<1>7. i \in bound.sessions /\ ~Has(conf, i, "node") /\ ~Unserved(conf, i) /\ i \in conf.used
  BY <1>1, <1>4 DEF Core, CallsApart, UsedOnce
<1>8. ~Has(D, i, "node") /\ ~Unserved(D, i) /\ i \in D.used
  BY ONLY <1>5, <1>7 DEF Answered, Wanes, Has, Unserved
<1>9. d \in Calls /\ d.id = i /\ d.call = "recycle"
  BY ONLY <1>3, <1>6 DEF Calls, RecycleCalls
<1>10. PICK Q : Q = conf'
  OBVIOUS
<1>11. PICK M : M = nodes'
  OBVIOUS
<1>12. Core(Q, nodes)
  <2>1. ASSUME Q = Call(D, d)
        PROVE  Core(Q, nodes)
    BY ONLY <1>5, <1>7, <1>8, <1>9, <2>1, CoreEndCall
  <2> QED
    BY ONLY <1>4, <1>5, <1>10, <2>1
<1>13. M = nodes \/ Less(nodes, M)
  BY ONLY <1>4, <1>11, Core(conf, nodes), LessFewer
<1>14. Core(Q, M)
  BY ONLY <1>12, <1>13, CoreLess
<1> QED
  BY ONLY <1>10, <1>11, <1>14

LEMMA CoreRecycled ==
  ASSUME Core(conf, nodes), NEW c \in conf.calls, Recycled(c)
  PROVE  Core(conf', nodes')
<1>1. PICK D : D = Done(c)
  OBVIOUS
<1>2. PICK F : F = [D EXCEPT !.sessions = Without(@, c.id)]
  OBVIOUS
<1>3. PICK M : M = nodes'
  OBVIOUS
<1>4. /\ conf' = F \/ conf' = D
      /\ M = nodes \/ M = [nodes EXCEPT !.held = @ \ {c.id}]
  BY ONLY <1>1, <1>2, <1>3, Recycled(c) DEF Recycled
<1>5. Core(D, nodes)
  BY ONLY <1>1, Core(conf, nodes), CoreDone
<1>6. Core(F, nodes)
  BY ONLY <1>2, <1>5, CoreForget
<1>7. M = nodes \/ Less(nodes, M)
  BY ONLY <1>4, Core(conf, nodes), LessFewer
<1> QED
  BY ONLY <1>3, <1>4, <1>5, <1>6, <1>7, CoreLess

LEMMA CoreSessionReady ==
  ASSUME Core(conf, nodes), NEW i, SessionReady(i)
  PROVE  Core(conf', nodes')
<1>1. PICK Q : Q = [conf EXCEPT !.sessions[i].state = "connected", !.sessions[i].ready = TRUE]
  OBVIOUS
<1>2. /\ i \in nodes.sessions /\ i \in DOMAIN conf.sessions /\ ~conf.sessions[i].ready
      /\ conf' = SessionEstablished(Q, i) /\ nodes' = nodes
  BY ONLY <1>1, SessionReady(i) DEF SessionReady
<1>3. PICK r : r = [conf.sessions[i] EXCEPT !.state = "connected", !.ready = TRUE]
  OBVIOUS
<1>4. PICK T : T = [conf.sessions EXCEPT ![i] = r]
  OBVIOUS
<1>5. conf \in ConfType /\ KindsApart(conf) /\ CallsApart(conf, nodes) /\ ReadyOnce(conf)
  BY DEF Core, Good
<1>6. conf.sessions[i] \in SessionRecords
  BY <1>2, <1>5, KeyFacts
<1>7. r \in SessionRecords /\ r.ready /\ r.spec = conf.sessions[i].spec
  BY ONLY <1>3, <1>6 DEF SessionRecords
<1>8. Q = [conf EXCEPT !.sessions = T]
  BY ONLY <1>1, <1>3, <1>4, <1>2, <1>5, <1>6 DEF ConfType, SessionRecords
<1>9. ~Has(conf, i, "node") /\ ~Unserved(conf, i)
  <2>1. ~NotBegun(conf, nodes, i)
    BY ONLY <1>2 DEF NotBegun
  <2> QED
    BY ONLY <1>5, <2>1 DEF CallsApart, Has, Unserved
<1>10. Core(Q, nodes) /\ Advances(conf, Q, i, r)
  BY ONLY <1>2, <1>4, <1>7, <1>8, <1>9, Core(conf, nodes), CoreState
<1>11. /\ Q.sessions[i] = r /\ DOMAIN Q.sessions = DOMAIN conf.sessions
       /\ Q.calls = conf.calls /\ Q.ops = conf.ops /\ Q.pub = conf.pub /\ Q.subs = conf.subs
  BY ONLY <1>10 DEF Advances, CarriersOnly, ListsStill
<1>12. WasReady(Q, i)
  <2>1. i \notin DOMAIN Q.ops
    BY ONLY <1>2, <1>5, <1>11 DEF KindsApart
  <2> QED
    BY ONLY <1>7, <1>9, <1>11, <2>1 DEF WasReady, Has
<1>13. Unready(Q, i)
  <2>1. ~WasReady(conf, i)
    BY ONLY <1>2 DEF WasReady
  <2>2. Unready(conf, i)
    BY ONLY <1>5, <2>1, NotReady
  <2> QED
    BY ONLY <1>11, <2>2 DEF Unready
<1>14. PICK P : P = conf'
  OBVIOUS
<1>15. Core(P, nodes)
  BY ONLY <1>2, <1>10, <1>11, <1>12, <1>13, <1>14, CoreSessionEstablished
<1> QED
  BY ONLY <1>2, <1>14, <1>15

LEMMA CoreSessionFailed ==
  ASSUME Core(conf, nodes), NEW i, SessionFailed(i)
  PROVE  Core(conf', nodes')
<1>1. i \in DOMAIN conf.sessions /\ conf' = OnAborted(TerminateSessions(conf, {i}), i) /\ nodes' = nodes
  BY DEF SessionFailed
<1>2. Good(conf)
  BY DEF Core
<1>3. Fades(conf, OnAborted(TerminateSessions(conf, {i}), i), {})
  BY ONLY <1>1, <1>2, TerminateSessionFades
<1> QED
  BY ONLY <1>1, <1>3, Core(conf, nodes), CoreFades

LEMMA CoreTracksComplete ==
  ASSUME Core(conf, nodes), NEW i, TracksComplete(i)
  PROVE  Core(conf', nodes')
<1>1. PICK R : R = [conf EXCEPT !.ops[i].done = TRUE]
  OBVIOUS
<1>2. PICK is : is = {i}
  OBVIOUS
<1>3. /\ i \in DOMAIN conf.ops /\ ~conf.ops[i].done /\ nodes' = nodes
      /\ \A c \in conf.calls : c.call = "initiate" => c.id # i
      /\ conf' = IF R.trans[R.ops[i].trans].ready THEN OpsEstablished(R, is) ELSE R
  BY ONLY <1>1, <1>2, TracksComplete(i) DEF TracksComplete
<1>4. KindsApart(conf) /\ CallsApart(conf, nodes) /\ ReadyOnce(conf)
  BY DEF Core
<1>5. /\ Core(R, nodes) /\ CarriersOnly(conf, R) /\ R.sessions = conf.sessions /\ R.trans = conf.trans
      /\ DOMAIN R.ops = DOMAIN conf.ops /\ R.ops[i].done /\ R.ops[i].trans = conf.ops[i].trans
  BY ONLY <1>1, <1>3, Core(conf, nodes), CoreOpDone
<1>6. R.calls = conf.calls /\ R.pub = conf.pub /\ R.subs = conf.subs
  BY ONLY <1>5 DEF CarriersOnly, ListsStill
<1>7. ASSUME R.trans[R.ops[i].trans].ready
      PROVE  WasReady(R, i)
  <2>1. i \notin DOMAIN R.sessions
    BY ONLY <1>3, <1>4, <1>5 DEF KindsApart
  <2>2. ~Has(R, i, "node")
    BY ONLY <1>3, <1>4, <1>6 DEF CallsApart, Has
  <2> QED
    BY ONLY <1>5, <1>7, <2>1, <2>2 DEF WasReady
<1>8. Unready(R, i)
  <2>1. ~WasReady(conf, i)
    BY ONLY <1>3 DEF WasReady
  <2>2. Unready(conf, i)
    BY ONLY <1>4, <2>1, NotReady
  <2> QED
    BY ONLY <1>6, <2>2 DEF Unready
<1>9. PICK Q : Q = OpsEstablished(R, is)
  OBVIOUS
<1>10. ASSUME R.trans[R.ops[i].trans].ready
       PROVE  Core(Q, nodes)
  <2>1. is \subseteq DOMAIN R.ops /\ \A j \in is : WasReady(R, j) /\ Unready(R, j)
    BY ONLY <1>2, <1>3, <1>5, <1>7, <1>8, <1>10
  <2> QED
    BY ONLY <1>5, <1>9, <2>1, CoreOpsEstablished
<1> QED
  BY ONLY <1>3, <1>5, <1>9, <1>10

LEMMA CoreTransportReady ==
  ASSUME Core(conf, nodes), NEW t, TransportReady(t)
  PROVE  Core(conf', nodes')
<1>1. PICK R : R = [conf EXCEPT !.trans[t].ready = TRUE]
  OBVIOUS
<1>2. PICK is : is = {i \in OpsOn(conf, {t}) : conf.ops[i].done}
  OBVIOUS
<1>3. /\ t \in nodes.trans /\ ~conf.trans[t].ready /\ nodes' = nodes
      /\ conf' = OpsEstablished(R, is)
  BY ONLY <1>1, <1>2, TransportReady(t) DEF TransportReady, TransportConnected
<1>4. KindsApart(conf) /\ CallsApart(conf, nodes) /\ ReadyOnce(conf) /\ NodesType(conf, nodes)
  BY DEF Core
<1>5. t \in DOMAIN conf.trans
  BY ONLY <1>3, <1>4 DEF NodesType
<1>6. /\ Core(R, nodes) /\ CarriersOnly(conf, R) /\ R.sessions = conf.sessions /\ R.ops = conf.ops /\ R.trans[t].ready
  BY ONLY <1>1, <1>5, Core(conf, nodes), CoreTransReady
<1>7. R.calls = conf.calls /\ R.pub = conf.pub /\ R.subs = conf.subs
  BY ONLY <1>6 DEF CarriersOnly, ListsStill
<1>8. \A i \in is : i \in DOMAIN conf.ops /\ conf.ops[i].trans = t /\ conf.ops[i].done
  BY ONLY <1>2 DEF OpsOn
<1>9. ASSUME NEW i \in is
      PROVE  WasReady(R, i) /\ Unready(R, i)
  <2>1. i \in DOMAIN conf.ops /\ conf.ops[i].trans = t /\ conf.ops[i].done
    BY ONLY <1>8, <1>9
  <2>2. i \notin DOMAIN R.sessions
    BY ONLY <1>4, <1>6, <2>1 DEF KindsApart
  <2>3. ~Has(R, i, "node")
    BY ONLY <1>4, <1>7, <2>1 DEF CallsApart, Has
  <2>4. WasReady(R, i)
    BY ONLY <1>6, <2>1, <2>2, <2>3 DEF WasReady
  <2>5. ~WasReady(conf, i)
    BY ONLY <1>3, <2>1 DEF WasReady
  <2>6. Unready(conf, i)
    BY ONLY <1>4, <2>5, NotReady
  <2> QED
    BY ONLY <1>7, <2>4, <2>6 DEF Unready
<1>10. is \subseteq DOMAIN R.ops
  BY ONLY <1>6, <1>8
<1>11. PICK Q : Q = OpsEstablished(R, is)
  OBVIOUS
<1>12. Core(Q, nodes)
  BY ONLY <1>6, <1>9, <1>10, <1>11, CoreOpsEstablished
<1> QED
  BY ONLY <1>3, <1>11, <1>12

LEMMA CoreTransportFailed ==
  ASSUME Core(conf, nodes), NEW t, TransportFailed(t)
  PROVE  Core(conf', nodes')
<1>1. PICK M : M = nodes'
  OBVIOUS
<1>2. conf' = conf /\ \E ts : M = [nodes EXCEPT !.trans = @ \ ts, !.held = @ \ ts]
  BY ONLY <1>1, TransportFailed(t) DEF TransportFailed
<1>3. Less(nodes, M)
  BY ONLY <1>2, Core(conf, nodes), LessFewer
<1>4. Core(conf, M)
  BY ONLY <1>3, Core(conf, nodes), CoreLess
<1> QED
  BY ONLY <1>1, <1>2, <1>4

LEMMA CoreWebrtcNodeLost ==
  ASSUME Core(conf, nodes), WebrtcNodeLost
  PROVE  Core(conf', nodes')
<1>1. PICK ts : ts = DOMAIN conf.trans \cap nodes.held
  OBVIOUS
<1>2. PICK Q : Q = TerminateTransports(conf, ts)
  OBVIOUS
<1>3. PICK M : M = [nodes EXCEPT !.trans = {}]
  OBVIOUS
<1>4. conf' = Q /\ nodes' = M
  BY ONLY <1>1, <1>2, <1>3, WebrtcNodeLost DEF WebrtcNodeLost
<1>5. ts \subseteq DOMAIN conf.trans
  BY ONLY <1>1
<1>6. Core(Q, nodes)
  BY ONLY <1>2, <1>5, Core(conf, nodes), CoreTransports
<1>7. Less(nodes, M)
  BY ONLY <1>3, Core(conf, nodes), LessFewer
<1> QED
  BY ONLY <1>4, <1>6, <1>7, CoreLess

-----------------------------------------------------------------------------
(* Sessions are aborted one after the other.                               *)
Abort(R, i) == TerminateSessions(OnAborted(R, i), {i})

LEMMA AbortFades ==
  ASSUME NEW R, Good(R), NEW i \in Ids
  PROVE  Fades(R, Abort(R, i), {i})
<1>1. PICK P : P = OnAborted(R, i)
  OBVIOUS
<1>2. PICK is : is = {i}
  OBVIOUS
<1>3. PICK Q : Q = TerminateSessions(P, is)
  OBVIOUS
<1>4. Fades(R, P, {i}) /\ (Unthrown(P) => ~Listed(P, i))
  BY ONLY <1>1, Good(R), i \in Ids, OnAbortedFacts
<1>5. Good(P) /\ P \in ConfType
  BY ONLY <1>4 DEF Fades, Good
<1>6. /\ Q \in ConfType /\ Still(P, Q) /\ ListsStill(P, Q)
      /\ Part(P.sessions, Q.sessions)
      /\ \A j : j \in DOMAIN Q.sessions <=> j \in DOMAIN P.sessions /\ (j \in is => j \in Started(P, is))
      /\ Q.mishaps = P.mishaps
      /\ Q.calls = P.calls \cup TerminateOf(Started(P, is), "session")
  BY ONLY <1>3, <1>5, TerminateSessionsFacts
<1>7. Good(Q)
  BY ONLY <1>5, <1>6, GoodStill
<1>8. \A j : j \in Started(P, is) <=> j \in is /\ j \in DOMAIN P.sessions /\ P.sessions[j].state # "initialized"
  BY ONLY <1>5, StartedFacts
<1>9. \A c \in Q.calls : c \notin P.calls => c.call = "terminate" /\ c.id \in Started(P, is) /\ c.why = "session"
  BY ONLY <1>6, TerminateOfFacts
<1>10. CallsEnd(P, Q)
  BY ONLY <1>8, <1>9 DEF CallsEnd
<1>11. Q.streams = P.streams /\ Q.subs = P.subs /\ Q.pub = P.pub
  BY ONLY <1>6 DEF ListsStill
<1>12. \A j : Listed(Q, j) <=> Listed(P, j)
  BY ONLY <1>11 DEF Listed
<1>13. GoneEnded(P, Q, {})
  BY ONLY <1>12 DEF GoneEnded
<1>14. Unthrown(Q) => EndedGone(P, Q)
  <2> SUFFICES ASSUME Unthrown(Q), NEW j \in DOMAIN P.sessions,
                      j \notin DOMAIN Q.sessions \/ (Ended(Q, j, {"session"}) /\ ~Ended(P, j, {"session"}))
               PROVE  ~Listed(Q, j)
    BY DEF EndedGone
  <2>1. j \in is
    <3>1. CASE j \notin DOMAIN Q.sessions
      BY ONLY <1>6, <3>1, j \in DOMAIN P.sessions
    <3>2. CASE Ended(Q, j, {"session"}) /\ ~Ended(P, j, {"session"})
      <4>1. j \in Started(P, is)
        BY ONLY <1>9, <3>2 DEF Ended
      <4> QED
        BY ONLY <1>8, <4>1
    <3> QED
      BY ONLY <3>1, <3>2, j \notin DOMAIN Q.sessions \/ (Ended(Q, j, {"session"}) /\ ~Ended(P, j, {"session"}))
  <2>2. Unthrown(P)
    BY ONLY <1>6, Unthrown(Q) DEF Unthrown
  <2> QED
    BY ONLY <1>2, <1>4, <1>12, <2>1, <2>2
<1>15. SourceEnded(P, Q)
  BY ONLY <1>11 DEF SourceEnded
<1>16. \A j \in DOMAIN P.sessions : j \in DOMAIN Q.sessions \/ P.sessions[j].state = "initialized"
  BY ONLY <1>6, <1>8
<1>17. Fades(P, Q, {})
  BY ONLY <1>6, <1>7, <1>10, <1>11, <1>13, <1>14, <1>15, <1>16 DEF Fades, Part
<1>18. Fades(R, Q, {i} \cup {})
  BY ONLY <1>4, <1>17, FadesTrans
<1>19. Q = Abort(R, i) /\ {i} \cup {} = {i}
  BY ONLY <1>1, <1>2, <1>3 DEF Abort
<1> QED
  BY ONLY <1>18, <1>19

(* Of the natural numbers in a set one is the least.                       *)
LEMMA Least ==
  ASSUME NEW T \in SUBSET Nat, T # {}
  PROVE  \E x \in T : \A y \in T : x <= y
<1>1. \E x \in T : \A y \in T : ~(<<y, x>> \in OpToRel(<, Nat))
  BY WFMin, NatLessThanWellFounded
<1>2. \A x \in Nat, y \in Nat : <<y, x>> \in OpToRel(<, Nat) <=> y < x
  BY DEF OpToRel
<1>3. PICK x \in T : \A y \in T : ~(<<y, x>> \in OpToRel(<, Nat))
  BY <1>1
<1>4. \A y \in T : y \in Nat /\ x \in Nat /\ ~(y < x)
  BY <1>2, <1>3
<1> QED
  BY <1>4

(* A set with zero, and with the successor of what is in it, has them all. *)
LEMMA NatSet ==
  ASSUME NEW S, 0 \in S, \A n \in Nat : n \in S => n + 1 \in S
  PROVE  Nat \subseteq S
<1> SUFFICES ASSUME Nat \ S # {} PROVE FALSE
  OBVIOUS
<1>1. PICK x \in Nat \ S : \A y \in Nat \ S : x <= y
  BY Least
<1>2. x # 0 /\ x - 1 \in Nat /\ x - 1 < x
  BY <1>1
<1>3. x - 1 \in S
  BY <1>1, <1>2
<1> QED
  BY <1>1, <1>2, <1>3

(* What is left after each of the sessions is aborted.                     *)
Aborting(R, order, m, g) == g = [n \in 0 .. m |-> IF n = 0 THEN R ELSE Abort(g[n - 1], order[n])]

LEMMA AbortingOne ==
  ASSUME NEW R, NEW order, NEW m \in Nat, NEW g, Aborting(R, order, m, g)
  PROVE  \E h : Aborting(R, order, m + 1, h)
<1>1. DOMAIN g = 0 .. m
  BY DEF Aborting
<1>2. \A n \in 0 .. m : g[n] = IF n = 0 THEN R ELSE Abort(g[n - 1], order[n])
  BY DEF Aborting
<1>3. PICK q : q = Abort(g[m], order[m + 1])
  OBVIOUS
<1>4. PICK h : h = [n \in 0 .. m + 1 |-> IF n <= m THEN g[n] ELSE q]
  OBVIOUS
<1>5. \A n \in 0 .. m : h[n] = g[n]
  BY <1>4
<1>6. h[m + 1] = Abort(h[m], order[m + 1])
  BY <1>3, <1>4, <1>5
<1>7. \A n \in 0 .. m + 1 : h[n] = IF n = 0 THEN R ELSE Abort(h[n - 1], order[n])
  <2> SUFFICES ASSUME NEW n \in 0 .. m + 1
               PROVE  h[n] = IF n = 0 THEN R ELSE Abort(h[n - 1], order[n])
    OBVIOUS
  <2>1. CASE n = m + 1
    BY <1>6, <2>1
  <2>2. CASE n = 0
    BY <1>2, <1>5, <2>2
  <2>3. CASE n # 0 /\ n # m + 1
    <3>1. n \in 0 .. m /\ n - 1 \in 0 .. m
      BY <2>3
    <3> QED
      BY <1>2, <1>5, <2>3, <3>1
  <2> QED
    BY <2>1, <2>2, <2>3
<1>8. DOMAIN h = 0 .. m + 1
  BY <1>4
<1> HIDE DEF Abort
<1>9. h = [n \in 0 .. m + 1 |-> IF n = 0 THEN R ELSE Abort(h[n - 1], order[n])]
  BY <1>4, <1>7
<1> QED
  BY <1>9 DEF Aborting

LEMMA AbortingSome ==
  ASSUME NEW R, NEW order
  PROVE  \A m \in Nat : \E g : Aborting(R, order, m, g)
<1>1. PICK S : S = {m \in Nat : \E g : Aborting(R, order, m, g)}
  OBVIOUS
<1>2. 0 \in S
  <2>1. PICK g : g = [n \in 0 .. 0 |-> R]
    OBVIOUS
  <2>2. g = [n \in 0 .. 0 |-> IF n = 0 THEN R ELSE Abort(g[n - 1], order[n])]
    BY <2>1
  <2> QED
    BY <1>1, <2>2 DEF Aborting
<1>3. \A m \in Nat : m \in S => m + 1 \in S
  BY <1>1, AbortingOne
<1> QED
  BY ONLY <1>1, <1>2, <1>3, NatSet

(* Whichever are aborted, in whatever order.                               *)
LEMMA AbortingFades ==
  ASSUME NEW R, Good(R), NEW order \in Seq(Ids), NEW g, Aborting(R, order, Len(order), g)
  PROVE  Fades(R, g[Len(order)], Ids)
<1>1. PICK S : S = {m \in Nat : m \in 0 .. Len(order) => Fades(R, g[m], Ids)}
  OBVIOUS
<1>2. 0 \in S
  <2>1. g[0] = R
    BY DEF Aborting
  <2>2. Fades(R, R, Ids)
    BY ONLY Good(R), FadesRefl, FadesMore
  <2> QED
    BY ONLY <1>1, <2>1, <2>2, 0 \in Nat
<1>3. \A m \in Nat : m \in S => m + 1 \in S
  <2> SUFFICES ASSUME NEW m \in Nat, m \in S, m + 1 \in 0 .. Len(order)
               PROVE  Fades(R, g[m + 1], Ids)
    BY <1>1
  <2>1. m \in 0 .. Len(order) /\ m + 1 # 0 /\ m + 1 \in 1 .. Len(order)
    OBVIOUS
  <2>2. Fades(R, g[m], Ids)
    BY <1>1, <2>1
  <2>3. g[m + 1] = Abort(g[m], order[m + 1])
    BY <2>1 DEF Aborting
  <2>4. order[m + 1] \in Ids
    BY <2>1
  <2>5. Good(g[m])
    BY ONLY <2>2 DEF Fades
  <2>6. PICK i : i = order[m + 1]
    OBVIOUS
  <2>7. Fades(g[m], Abort(g[m], i), {i})
    BY ONLY <2>4, <2>5, <2>6, AbortFades
  <2>8. Fades(R, Abort(g[m], i), Ids \cup {i})
    BY ONLY <2>2, <2>7, FadesTrans
  <2>9. Ids \cup {i} = Ids
    BY ONLY <2>4, <2>6
  <2> QED
    BY ONLY <2>3, <2>6, <2>8, <2>9
<1>4. Len(order) \in Nat
  OBVIOUS
<1> QED
  BY ONLY <1>1, <1>2, <1>3, <1>4, NatSet, Len(order) \in 0 .. Len(order)

LEMMA CoreAccessNodeLost ==
  ASSUME Core(conf, nodes), AccessNodeLost
  PROVE  Core(conf', nodes')
<1>1. PICK S : S = {i \in DOMAIN conf.sessions : ~\E c \in conf.calls : c.call = "node" /\ c.id = i}
  OBVIOUS
<1>2. PICK order \in SetToSeqs(S) : \E after :
        /\ after = CHOOSE g : g = [n \in 0 .. Len(order) |-> IF n = 0 THEN conf ELSE Abort(g[n - 1], order[n])]
        /\ conf' = after[Len(order)] /\ nodes' = [nodes EXCEPT !.sessions = {}]
  BY <1>1 DEF AccessNodeLost, Abort
<1>3. S \subseteq Ids /\ IsFiniteSet(S)
  <2>1. DOMAIN conf.sessions \subseteq Ids
    BY KeyFacts DEF Core, Good
  <2>2. S \subseteq Ids
    BY ONLY <1>1, <2>1
  <2>3. IsFiniteSet(Ids)
    BY NamesAssumption DEF Ids
  <2> QED
    BY ONLY <2>2, <2>3, FS_Subset
<1>4. Cardinality(S) \in Nat
  BY ONLY <1>3, FS_CardinalityType
<1>5. order \in Seq(Ids)
  <2>1. order \in [1 .. Cardinality(S) -> S]
    BY ONLY order \in SetToSeqs(S) DEF SetToSeqs
  <2> QED
    BY ONLY <1>3, <1>4, <2>1
<1>6. Len(order) \in Nat
  BY ONLY <1>5
<1>7. PICK after : after = CHOOSE g : Aborting(conf, order, Len(order), g)
  OBVIOUS
<1>8. conf' = after[Len(order)] /\ nodes' = [nodes EXCEPT !.sessions = {}]
  BY ONLY <1>2, <1>7 DEF Aborting
<1>9. Aborting(conf, order, Len(order), after)
  BY ONLY <1>6, <1>7, AbortingSome
<1>10. Good(conf)
  BY DEF Core
<1>11. Fades(conf, after[Len(order)], Ids)
  BY ONLY <1>5, <1>9, <1>10, AbortingFades
<1>12. Core(after[Len(order)], nodes)
  BY ONLY <1>11, Core(conf, nodes), CoreFades
<1>13. Less(nodes, nodes')
  BY ONLY <1>8, Core(conf, nodes), LessFewer
<1> QED
  BY ONLY <1>8, <1>12, <1>13, CoreLess

(***************************************************************************)
(* The core is an invariant.                                               *)
(***************************************************************************)
Faulted == bound \in Bounds /\ faults \in 0 .. bound.faults

CoreInv == Core(conf, nodes) /\ Faulted

LEMMA InitCore ==
  ASSUME Init
  PROVE  CoreInv
<1>1. /\ conf.users = {} /\ conf.met = {} /\ conf.streams = <<>> /\ conf.subs = <<>> /\ conf.before = {}
      /\ conf.pub = {} /\ conf.taken = <<>> /\ conf.sessions = <<>> /\ conf.ops = <<>> /\ conf.trans = <<>>
      /\ conf.calls = {} /\ conf.polls = {} /\ conf.leaving = {} /\ conf.used = {} /\ conf.mishaps = {}
      /\ nodes = [sessions |-> {}, trans |-> {}, held |-> {}]
  BY DEF Init, Nothing
<1>2. DOMAIN <<>> = {}
  OBVIOUS
<1>3. \A V, K : <<>> \in Tables(K, V)
  <2> SUFFICES ASSUME NEW V, NEW K PROVE <<>> \in Tables(K, V)
    OBVIOUS
  <2>1. <<>> \in [{} -> V]
    OBVIOUS
  <2> QED
    BY <2>1 DEF Tables
<1>4. conf \in ConfType
  <2> HIDE DEF Tables
  <2> QED
    BY <1>1, <1>3 DEF ConfType, Init, Nothing
<1>5. Good(conf)
  BY <1>1, <1>2, <1>4 DEF Good, Lined, InRoom
<1>6. KindsApart(conf) /\ UsedOnce(conf, nodes) /\ CallsApart(conf, nodes) /\ ReadyOnce(conf) /\ Owners(conf)
  BY <1>1, <1>2 DEF KindsApart, UsedOnce, CallsApart, ReadyOnce, Owners
<1>7. SpecsKnown(conf)
  BY <1>1, <1>2 DEF SpecsKnown, Known
<1>8. NodesType(conf, nodes)
  BY <1>1, <1>2 DEF NodesType
<1>9. Faulted
  BY BoundsAssumption DEF Init, Faulted
<1> QED
  BY <1>5, <1>6, <1>7, <1>8, <1>9 DEF CoreInv, Core

LEMMA CoreAnswers ==
  ASSUME Core(conf, nodes), NEW c \in conf.calls, Answers(c)
  PROVE  Core(conf', nodes')
BY CoreDropped, CoreOpNode, CoreSessionNode, CoreNoNode, CoreServe, CoreOpInitiated, CoreSessionInitiated,
   CoreSubscribeDone, CoreOpTerminated, CoreSessionTerminated, CoreRecycled DEF Answers

LEMMA CoreSteps ==
  ASSUME Core(conf, nodes), Next
  PROVE  Core(conf', nodes')
<1> Ids = Streams \cup Subs
  BY DEF Ids
<1> QED
  BY CoreJoin, CoreLeave, CoreDropStep, CorePublish, CoreSubscribe, CoreAddStreamingIn, CoreAddServerSideSubscription,
     CoreEnd, CorePollOver, CoreAnswers, CoreLeaveDone, CoreSessionReady, CoreSessionFailed, CoreTracksComplete,
     CoreTransportReady, CoreTransportFailed, CoreWebrtcNodeLost, CoreAccessNodeLost DEF Next

(* The bounds stay; failures are counted.                                  *)
LEMMA FaultsCounted ==
  ASSUME Faulted, Next
  PROVE  bound' = bound /\ (faults' = faults \/ Fail)
<1>1. ASSUME NEW c, Answers(c)
      PROVE  bound' = bound /\ (faults' = faults \/ Fail)
  <2>1. CASE Dropped(c) \/ OpNode(c) \/ SessionNode(c) \/ NoNode(c) \/ Serve(c) \/ OpInitiated(c)
    BY <2>1 DEF Dropped, OpNode, SessionNode, NoNode, Serve, OpInitiated
  <2>2. CASE SessionInitiated(c) \/ NotInitiated(c) \/ SubscribeDone(c) \/ OpTerminated(c)
    BY <2>2 DEF SessionInitiated, NotInitiated, SubscribeDone, OpTerminated
  <2>3. CASE SessionTerminated(c) \/ Recycled(c)
    BY <2>3 DEF SessionTerminated, Recycled
  <2> QED
    BY ONLY <1>1, <2>1, <2>2, <2>3 DEF Answers
<1>2. ASSUME NEW i, End(i) \/ PollOver(i) \/ SessionReady(i) \/ SessionFailed(i) \/ TracksComplete(i)
                    \/ TransportReady(i) \/ TransportFailed(i)
      PROVE  bound' = bound /\ (faults' = faults \/ Fail)
  BY ONLY <1>2 DEF End, PollOver, SessionReady, SessionFailed, TracksComplete, TransportReady, TransportFailed
<1>3. ASSUME NEW u, Join(u) \/ Leave(u) \/ Drop(u) \/ AddStreamingIn(u) \/ AddServerSideSubscription(u) \/ LeaveDone(u)
      PROVE  bound' = bound /\ (faults' = faults \/ Fail)
  BY ONLY <1>3 DEF Join, Leave, Drop, AddStreamingIn, AddServerSideSubscription, LeaveDone
<1>4. ASSUME NEW u, NEW i, Publish(u, i) \/ Subscribe(u, i)
      PROVE  bound' = bound /\ (faults' = faults \/ Fail)
  BY ONLY <1>4 DEF Publish, Subscribe
<1>5. ASSUME WebrtcNodeLost \/ AccessNodeLost
      PROVE  bound' = bound /\ (faults' = faults \/ Fail)
  BY ONLY <1>5 DEF WebrtcNodeLost, AccessNodeLost
<1> QED
  BY ONLY <1>1, <1>2, <1>3, <1>4, <1>5, Next DEF Next

LEMMA CoreNext ==
  ASSUME CoreInv, [Next]_vars
  PROVE  CoreInv'
<1>1. CASE Next
  <2>1. Core(conf', nodes')
    BY ONLY <1>1, CoreInv, CoreSteps DEF CoreInv
  <2>2. bound' = bound /\ (faults' = faults \/ Fail)
    BY ONLY <1>1, CoreInv, FaultsCounted DEF CoreInv
  <2>3. Faulted'
    <3>1. faults \in 0 .. bound.faults /\ bound \in Bounds
      BY DEF CoreInv, Faulted
    <3>2. bound.faults \in Nat
      BY <3>1, BoundsAssumption
    <3>3. PICK b \in Nat : b = bound.faults
      BY <3>2
    <3>4. faults' \in 0 .. b
      BY ONLY <2>2, <3>1, <3>3 DEF Fail
    <3> QED
      BY ONLY <2>2, <3>1, <3>3, <3>4 DEF Faulted
  <2>4. Core(conf, nodes)'
    BY ONLY <2>1, <2>2 DEF Core, Good, KindsApart, SpecsKnown, CallsApart, NodesType, UsedOnce, ReadyOnce, Owners,
       Lined, InRoom, Known, NotBegun, WasReady, Has, Unserved, Unthrown, Present
  <2> QED
    BY ONLY <2>3, <2>4 DEF CoreInv
<1>2. CASE UNCHANGED vars
  <2>1. conf' = conf /\ nodes' = nodes /\ faults' = faults /\ bound' = bound
    BY ONLY <1>2 DEF vars
  <2>2. Core(conf', nodes') /\ Faulted
    BY ONLY <2>1, CoreInv DEF CoreInv
  <2>3. Faulted'
    BY ONLY <2>1, <2>2 DEF Faulted
  <2>4. Core(conf, nodes)'
    BY ONLY <2>1, <2>2 DEF Core, Good, KindsApart, SpecsKnown, CallsApart, NodesType, UsedOnce, ReadyOnce, Owners,
       Lined, InRoom, Known, NotBegun, WasReady, Has, Unserved, Unthrown, Present
  <2> QED
    BY ONLY <2>3, <2>4 DEF CoreInv
<1> QED
  BY <1>1, <1>2

(***************************************************************************)
(* Whatever fails.                                                         *)
(***************************************************************************)
LEMMA CoreAlways == Spec => []CoreInv
<1>1. Init => CoreInv
  BY InitCore
<1>2. CoreInv /\ [Next]_vars => CoreInv'
  BY CoreNext
<1> QED
  BY <1>1, <1>2, PTL DEF Spec

(* The tables of the conference and of its controllers hold what they are  *)
(* made for; an operation has a transport, a session is of the REST        *)
(* interface.                                                              *)
THEOREM TypeCorrect == Spec => []TypeOK
<1>1. CoreInv => TypeOK
  <2> SUFFICES ASSUME CoreInv PROVE TypeOK
    OBVIOUS
  <2>1. Good(conf) /\ KindsApart(conf) /\ NodesType(conf, nodes) /\ conf \in ConfType /\ Faulted
    BY DEF CoreInv, Core, Good
  <2>2. conf.users \subseteq Users
    BY <2>1, ConfFacts
  <2>3. DOMAIN conf.streams \subseteq Streams /\ DOMAIN conf.subs \subseteq Subs
    BY <2>1, KeyFacts
  <2>4. \A i \in DOMAIN conf.sessions : conf.sessions[i].state \in {"initialized", "connecting", "connected"}
    BY <2>1, KeyFacts DEF SessionRecords
  <2>5. \A i \in DOMAIN conf.sessions : i \in bound.sessions
    BY <2>1 DEF KindsApart
  <2>6. \A i \in DOMAIN conf.ops : i \notin bound.sessions /\ conf.ops[i].trans \in DOMAIN conf.trans
    BY <2>1 DEF KindsApart
  <2>7. \A x, y \in DOMAIN conf.subs : x # y => (<<x, y>> \in conf.before <=> <<y, x>> \notin conf.before)
    BY <2>1 DEF Good, Lined
  <2>8. nodes.trans \subseteq DOMAIN conf.trans /\ nodes.sessions \subseteq bound.sessions
    BY <2>1 DEF NodesType
  <2> QED
    BY <2>1, <2>2, <2>3, <2>4, <2>5, <2>6, <2>7, <2>8 DEF TypeOK, Faulted
<1> QED
  BY <1>1, CoreAlways, PTL

(* Who owns a stream or a subscription is in the room, however late its    *)
(* transport, its session or the room controller is, and whatever fails:   *)
(* unless the removal of a stream threw.                                   *)
THEOREM OwnersStay == Spec => []OwnersPresent
<1>1. CoreInv => OwnersPresent
  BY DEF CoreInv, Core, Owners, OwnersPresent, Unthrown
<1> QED
  BY <1>1, CoreAlways, PTL

(* The room controller has what is listed as ready, whatever fails.        *)
THEOREM RoomFollows == Spec => []RoomAgrees
<1>1. CoreInv => RoomAgrees
  <2> SUFFICES ASSUME CoreInv PROVE RoomAgrees
    OBVIOUS
  <2>1. InRoom(conf) /\ conf \in ConfType
    BY DEF CoreInv, Core, Good
  <2>2. conf.pub \subseteq Streams /\ DOMAIN conf.taken \subseteq Subs /\ DOMAIN conf.streams \subseteq Streams
        /\ DOMAIN conf.subs \subseteq Subs
    BY <2>1, ConfFacts, KeyFacts
  <2> QED
    BY <2>1, <2>2 DEF InRoom, RoomAgrees
<1> QED
  BY <1>1, CoreAlways, PTL

(***************************************************************************)
(* When nothing fails: what is listed has its carrier and its node.        *)
(***************************************************************************)
Up(R, i) ==
  \/ i \in DOMAIN R.streams /\ R.streams[i].up
  \/ i \in DOMAIN R.subs /\ R.subs[i].up

Ending(R, i) == Ended(R, i, Operation)
Closing(R, i) == Ended(R, i, {"session"}) \/ Recycling(R, i, "session")
Late(R, i) == Ended(R, i, {"late"})
Awaited(R, i) == Has(R, i, "node") \/ Has(R, i, "initiate")

(* What is listed has its carrier, or waits for it; a carrier that nothing *)
(* is listed for is on its way out.                                        *)
Carried(R, i) ==
  /\ i \notin bound.sessions =>
       /\ Listed(R, i) => i \in DOMAIN R.ops \/ Has(R, i, "node")
       /\ i \in DOMAIN R.ops => Listed(R, i) \/ Ending(R, i)
       /\ \A c \in R.calls : c.call = "node" /\ c.id = i /\ c.spec.owner \in R.users => Listed(R, i)
  /\ i \in bound.sessions =>
       /\ Listed(R, i) => i \in DOMAIN R.sessions /\ ~Closing(R, i)
       /\ i \in DOMAIN R.sessions => Listed(R, i) \/ Closing(R, i)

(* A subscription that has lost its source is on its way out as well.      *)
Sourced(R, i) ==
  i \in DOMAIN R.subs /\ R.subs[i].from \notin DOMAIN R.streams =>
    i \notin bound.sessions /\ (Ending(R, i) \/ Awaited(R, i))

(* What is ready is told to the room controller, or ended.                 *)
Followed(R, i) ==
  /\ i \in DOMAIN R.ops /\ R.ops[i].done /\ R.trans[R.ops[i].trans].ready =>
       Up(R, i) \/ Has(R, i, "subscribe") \/ Ending(R, i)
  /\ i \in DOMAIN R.sessions /\ R.sessions[i].ready =>
       R.sessions[i].state # "initialized" /\ (Up(R, i) \/ Has(R, i, "subscribe") \/ Closing(R, i))

(* An operation is on a transport of its node, once it is asked for.       *)
OnNode(R, N, i) ==
  i \in DOMAIN R.ops => /\ R.ops[i].trans \in N.trans \/ Unserved(R, i)
                        /\ R.ops[i].trans \in N.held

(* A node is held for the transports of who is in the room, or leaves it.  *)
TransHeld(R, N, i) ==
  /\ i \in DOMAIN R.trans /\ R.trans[i].owner \in R.users => i \in N.held
  /\ i \in N.trans => i \in N.held
  /\ i \in N.held /\ i \notin bound.sessions =>
       /\ i \in DOMAIN R.trans
       /\ i \in N.trans \/ (Unserved(R, i) /\ i \in DOMAIN R.ops /\ R.ops[i].trans = i)
       /\ R.trans[i].owner \in R.users \/ \E g \in R.leaving : i \in g.trans

(* A node is held for a session until it is given back.                    *)
SessionHeld(R, N, i) ==
  i \in bound.sessions =>
    /\ i \in DOMAIN R.sessions =>
         /\ ~Late(R, i) /\ ~Recycling(R, i, "late")
         /\ R.sessions[i].state = "initialized" => Awaited(R, i) /\ ~Closing(R, i)
         /\ R.sessions[i].state # "initialized" => i \in N.sessions \/ Recycling(R, i, "session")
         /\ Has(R, i, "initiate") => Unserved(R, i) \/ i \in N.sessions \/ Recycling(R, i, "session")
    /\ i \in N.sessions =>
         /\ i \in DOMAIN R.sessions \/ Late(R, i) \/ Has(R, i, "initiate")
         /\ i \in N.held \/ Late(R, i)
         /\ ~Recycling(R, i, "session")
         /\ Recycling(R, i, "late") => Late(R, i)
    /\ i \in N.held =>
         /\ i \in N.sessions \/ Has(R, i, "initiate") \/ Recycling(R, i, "session") \/ Recycling(R, i, "late")
         /\ Late(R, i) => Recycling(R, i, "late")
    /\ Unserved(R, i) => i \in N.held

Whole(R, N, i) ==
  /\ Carried(R, i) /\ Sourced(R, i) /\ Followed(R, i)
  /\ OnNode(R, N, i) /\ TransHeld(R, N, i) /\ SessionHeld(R, N, i)

(* The transports that are left are of nobody in V, and the operations on  *)
(* them are waited for.                                                    *)
Left(R, V) ==
  \A g \in R.leaving : /\ g.trans \subseteq DOMAIN R.trans
                       /\ \A t \in g.trans : R.trans[t].owner \notin V
                       /\ OpsOn(R, g.trans) \subseteq g.waits

Sound(R, N) == Left(R, R.users) /\ \A i \in Ids : Whole(R, N, i)

(* Fading asks for the end of operations, and of sessions that have begun. *)
LEMMA FadeCalls ==
  ASSUME NEW R, NEW Q, NEW D, Fades(R, Q, D), NEW i
  PROVE  /\ \A k : k # "terminate" => (Has(Q, i, k) <=> Has(R, i, k))
         /\ Unserved(Q, i) <=> Unserved(R, i)
         /\ \A w : Recycling(Q, i, w) <=> Recycling(R, i, w)
         /\ \A ws : Ended(R, i, ws) => Ended(Q, i, ws)
         /\ Awaited(Q, i) <=> Awaited(R, i)
         /\ Late(Q, i) => Late(R, i)
         /\ Closing(R, i) => Closing(Q, i)
         /\ Closing(Q, i) => Closing(R, i) \/ (i \in DOMAIN R.sessions /\ R.sessions[i].state # "initialized")
<1>1. /\ \A c \in R.calls : c \in Q.calls
      /\ \A c \in Q.calls : c.call # "terminate" => c \in R.calls
  BY FadesCalls
<1>2. \A c \in Q.calls : c \notin R.calls =>
        /\ c.call = "terminate"
        /\ \/ c.why \in Operation
           \/ c.why = "session" /\ c.id \in DOMAIN R.sessions /\ R.sessions[c.id].state # "initialized"
  BY DEF Fades, CallsEnd
<1>3. /\ \A k : k # "terminate" => (Has(Q, i, k) <=> Has(R, i, k))
      /\ Unserved(Q, i) <=> Unserved(R, i)
      /\ \A w : Recycling(Q, i, w) <=> Recycling(R, i, w)
  BY ONLY <1>1 DEF Has, Unserved, Recycling
<1>4. \A ws : Ended(R, i, ws) => Ended(Q, i, ws)
  BY ONLY <1>1 DEF Ended
<1>5. Awaited(Q, i) <=> Awaited(R, i)
  BY ONLY <1>3 DEF Awaited
<1>6. Late(Q, i) => Late(R, i)
  BY ONLY <1>2 DEF Late, Ended, Operation
<1>7. Closing(R, i) => Closing(Q, i)
  BY ONLY <1>3, <1>4 DEF Closing
<1>8. Ended(Q, i, {"session"}) => Ended(R, i, {"session"}) \/ (i \in DOMAIN R.sessions /\ R.sessions[i].state # "initialized")
  BY ONLY <1>2 DEF Ended, Operation
<1>9. Closing(Q, i) => Closing(R, i) \/ (i \in DOMAIN R.sessions /\ R.sessions[i].state # "initialized")
  BY ONLY <1>3, <1>8 DEF Closing
<1> QED
  BY ONLY <1>3, <1>4, <1>5, <1>6, <1>7, <1>9

(* It gives no node back.                                                  *)
LEMMA FadeHeld ==
  ASSUME NEW R, NEW N, Core(R, N), NEW Q, NEW D, Fades(R, Q, D), NEW i
  PROVE  /\ OnNode(R, N, i) => OnNode(Q, N, i)
         /\ TransHeld(R, N, i) => TransHeld(Q, N, i)
         /\ SessionHeld(R, N, i) => SessionHeld(Q, N, i)
<1>1. Q.ops = R.ops /\ Q.trans = R.trans /\ Q.users = R.users /\ Q.leaving = R.leaving
  BY DEF Fades, Still
<1>2. Unserved(Q, i) <=> Unserved(R, i)
  BY FadeCalls
<1>3. OnNode(R, N, i) => OnNode(Q, N, i)
  BY ONLY <1>1, <1>2 DEF OnNode
<1>4. TransHeld(R, N, i) => TransHeld(Q, N, i)
  BY ONLY <1>1, <1>2 DEF TransHeld
<1>5. SessionHeld(R, N, i) => SessionHeld(Q, N, i)
  <2>1. /\ Has(Q, i, "initiate") <=> Has(R, i, "initiate")
        /\ \A w : Recycling(Q, i, w) <=> Recycling(R, i, w)
        /\ Awaited(Q, i) <=> Awaited(R, i)
        /\ Late(Q, i) => Late(R, i)
        /\ Late(R, i) => Late(Q, i)
        /\ Closing(Q, i) => Closing(R, i) \/ (i \in DOMAIN R.sessions /\ R.sessions[i].state # "initialized")
    BY FadeCalls DEF Late
  <2>2. /\ i \in DOMAIN Q.sessions => i \in DOMAIN R.sessions /\ Q.sessions[i] = R.sessions[i]
        /\ i \in DOMAIN R.sessions => i \in DOMAIN Q.sessions \/ R.sessions[i].state = "initialized"
    BY DEF Fades, Part
  <2>3. Has(R, i, "node") => i \notin N.sessions
    BY DEF Core, CallsApart, Has, NotBegun
  <2> QED
    BY ONLY <1>2, <2>1, <2>2, <2>3 DEF SessionHeld, Awaited
<1> QED
  BY ONLY <1>3, <1>4, <1>5

(* What it does not name keeps its carrier.                                *)
LEMMA FadeListed ==
  ASSUME NEW R, NEW N, Core(R, N), NEW Q, NEW D, Fades(R, Q, D), Unthrown(Q), NEW i \in Ids, i \notin D
  PROVE  /\ Carried(R, i) => Carried(Q, i)
         /\ Carried(R, i) /\ Sourced(R, i) => Sourced(Q, i)
         /\ Followed(R, i) => Followed(Q, i)
<1>1. Q.ops = R.ops /\ Q.trans = R.trans /\ Q.users = R.users
  BY DEF Fades, Still
<1>2. /\ Has(Q, i, "node") <=> Has(R, i, "node")
      /\ Has(Q, i, "subscribe") <=> Has(R, i, "subscribe")
      /\ Awaited(Q, i) <=> Awaited(R, i)
      /\ Ending(R, i) => Ending(Q, i)
      /\ Closing(R, i) => Closing(Q, i)
      /\ \A w : Recycling(Q, i, w) <=> Recycling(R, i, w)
  BY FadeCalls DEF Ending
<1>3. /\ i \in DOMAIN R.ops => i \notin bound.sessions
      /\ i \in DOMAIN R.sessions => i \in bound.sessions
  BY DEF Core, KindsApart
<1>4. Listed(R, i) /\ ~Listed(Q, i) => i \in DOMAIN R.sessions /\ (i \in DOMAIN Q.sessions => Ended(Q, i, {"session"}))
  BY DEF Fades, GoneEnded
<1>5. i \in DOMAIN R.sessions /\ (i \notin DOMAIN Q.sessions \/ (Ended(Q, i, {"session"}) /\ ~Ended(R, i, {"session"}))) => ~Listed(Q, i)
  BY DEF Fades, EndedGone
<1>6. Listed(Q, i) => Listed(R, i)
  BY ListedPart DEF Fades
<1>7. i \in DOMAIN Q.sessions => i \in DOMAIN R.sessions /\ Q.sessions[i] = R.sessions[i]
  BY DEF Fades, Part
<1>8. \A c \in Q.calls : c.call # "terminate" => c \in R.calls
  BY FadesCalls
<1>9. Carried(R, i) => Carried(Q, i)
  <2>1. ASSUME Carried(R, i), i \notin bound.sessions
        PROVE  Carried(Q, i)
    BY ONLY <1>1, <1>2, <1>3, <1>4, <1>6, <1>8, <2>1 DEF Carried
  <2>2. ASSUME Carried(R, i), i \in bound.sessions
        PROVE  Carried(Q, i)
    BY ONLY <1>2, <1>4, <1>5, <1>6, <1>7, <2>2 DEF Carried, Closing
  <2> QED
    BY ONLY <2>1, <2>2
<1>10. Carried(R, i) /\ Sourced(R, i) => Sourced(Q, i)
  <2>1. i \in DOMAIN Q.subs => i \in DOMAIN R.subs /\ Q.subs[i] = R.subs[i]
    BY DEF Fades, Part
  <2>2. i \in DOMAIN Q.subs /\ R.subs[i].from \in DOMAIN R.streams /\ R.subs[i].from \notin DOMAIN Q.streams =>
          i \notin DOMAIN R.sessions /\ (i \in DOMAIN R.ops => Ending(Q, i))
    BY DEF Fades, SourceEnded, Ending
  <2> QED
    BY ONLY <1>2, <2>1, <2>2 DEF Carried, Sourced, Listed, Awaited
<1>11. Up(R, i) /\ Listed(Q, i) => Up(Q, i)
  <2>1. /\ i \in DOMAIN Q.streams => i \in DOMAIN R.streams /\ Q.streams[i] = R.streams[i]
        /\ i \in DOMAIN Q.subs => i \in DOMAIN R.subs /\ Q.subs[i] = R.subs[i]
    BY DEF Fades, Part
  <2>2. DOMAIN R.streams \subseteq Streams /\ DOMAIN R.subs \subseteq Subs
    BY KeyFacts DEF Core, Good
  <2>3. Streams \cap Subs = {}
    BY NamesAssumption
  <2> QED
    BY ONLY <2>1, <2>2, <2>3 DEF Up, Listed
<1>12. Up(R, i) => Listed(R, i)
  BY DEF Up, Listed
<1>13. Followed(R, i) => Followed(Q, i)
  BY ONLY <1>1, <1>2, <1>3, <1>4, <1>7, <1>11, <1>12 DEF Followed, Closing
<1> QED
  BY ONLY <1>9, <1>10, <1>13

LEMMA FadeWhole ==
  ASSUME NEW R, NEW N, Core(R, N), NEW Q, NEW D, Fades(R, Q, D), Unthrown(Q), NEW i \in Ids, i \notin D, Whole(R, N, i)
  PROVE  Whole(Q, N, i)
BY FadeHeld, FadeListed DEF Whole

LEMMA FadeLeft ==
  ASSUME NEW R, NEW Q, NEW D, Fades(R, Q, D), NEW V, Left(R, V)
  PROVE  Left(Q, V)
BY DEF Fades, Still, Left, OpsOn

(* Nothing but what is of D changes, and no transport loses its node.      *)
Apart(R, Q, D) ==
  /\ Q.users = R.users /\ Q.leaving = R.leaving
  /\ DOMAIN R.streams \subseteq DOMAIN Q.streams
  /\ \A j : j \notin D =>
       /\ j \in DOMAIN Q.streams <=> j \in DOMAIN R.streams
       /\ j \in DOMAIN R.streams => Q.streams[j] = R.streams[j]
       /\ j \in DOMAIN Q.subs <=> j \in DOMAIN R.subs
       /\ j \in DOMAIN R.subs => Q.subs[j] = R.subs[j]
       /\ j \in DOMAIN Q.ops <=> j \in DOMAIN R.ops
       /\ j \in DOMAIN R.ops => Q.ops[j] = R.ops[j]
       /\ j \in DOMAIN Q.sessions <=> j \in DOMAIN R.sessions
       /\ j \in DOMAIN R.sessions => Q.sessions[j] = R.sessions[j]
       /\ j \in DOMAIN Q.trans <=> j \in DOMAIN R.trans
       /\ j \in DOMAIN R.trans => Q.trans[j].owner = R.trans[j].owner
       /\ j \in DOMAIN R.ops => Q.trans[R.ops[j].trans].ready = R.trans[R.ops[j].trans].ready
  /\ \A c : c.id \notin D /\ c.call # "drop" => (c \in Q.calls <=> c \in R.calls)

NodesApart(R, N, M, D) ==
  /\ \A j : j \notin D => /\ j \in M.sessions <=> j \in N.sessions
                          /\ j \in N.trans => j \in M.trans
                          /\ j \in M.trans => j \in N.trans \/ j \in M.held
                          /\ j \in M.held <=> j \in N.held
  /\ \A j \in DOMAIN R.ops : j \notin D =>
       /\ R.ops[j].trans \in N.trans => R.ops[j].trans \in M.trans
       /\ R.ops[j].trans \in N.held => R.ops[j].trans \in M.held

LEMMA ApartCalls ==
  ASSUME NEW R, NEW Q, NEW D, Apart(R, Q, D), NEW i, i \notin D
  PROVE  /\ \A k : k # "drop" => (Has(Q, i, k) <=> Has(R, i, k))
         /\ Unserved(Q, i) <=> Unserved(R, i)
         /\ \A w : Recycling(Q, i, w) <=> Recycling(R, i, w)
         /\ \A ws : Ended(R, i, ws) <=> Ended(Q, i, ws)
         /\ Awaited(Q, i) <=> Awaited(R, i)
         /\ Late(Q, i) <=> Late(R, i)
         /\ Ending(Q, i) <=> Ending(R, i)
         /\ Closing(Q, i) <=> Closing(R, i)
<1>1. \A c : c.id = i /\ c.call # "drop" => (c \in Q.calls <=> c \in R.calls)
  BY DEF Apart
<1>2. /\ \A k : k # "drop" => (Has(Q, i, k) <=> Has(R, i, k))
      /\ Unserved(Q, i) <=> Unserved(R, i)
      /\ \A w : Recycling(Q, i, w) <=> Recycling(R, i, w)
      /\ \A ws : Ended(R, i, ws) <=> Ended(Q, i, ws)
  BY ONLY <1>1 DEF Has, Unserved, Recycling, Ended
<1> QED
  BY ONLY <1>2 DEF Awaited, Late, Ending, Closing

LEMMA ApartWhole ==
  ASSUME NEW R, NEW N, NEW Q, NEW M, NEW D, Apart(R, Q, D), NodesApart(R, N, M, D), NEW i, i \notin D, Whole(R, N, i)
  PROVE  Whole(Q, M, i)
<1>1. /\ Has(Q, i, "node") <=> Has(R, i, "node")
      /\ Has(Q, i, "initiate") <=> Has(R, i, "initiate")
      /\ Has(Q, i, "subscribe") <=> Has(R, i, "subscribe")
      /\ Unserved(Q, i) <=> Unserved(R, i)
      /\ Recycling(Q, i, "session") <=> Recycling(R, i, "session")
      /\ Recycling(Q, i, "late") <=> Recycling(R, i, "late")
      /\ Awaited(Q, i) <=> Awaited(R, i)
      /\ Late(Q, i) <=> Late(R, i)
      /\ Ending(Q, i) <=> Ending(R, i)
      /\ Closing(Q, i) <=> Closing(R, i)
  BY ONLY Apart(R, Q, D), i \notin D, ApartCalls
<1>2. /\ i \in DOMAIN Q.streams <=> i \in DOMAIN R.streams
      /\ i \in DOMAIN R.streams => Q.streams[i] = R.streams[i]
      /\ i \in DOMAIN Q.subs <=> i \in DOMAIN R.subs
      /\ i \in DOMAIN R.subs => Q.subs[i] = R.subs[i]
      /\ DOMAIN R.streams \subseteq DOMAIN Q.streams
  BY ONLY Apart(R, Q, D), i \notin D DEF Apart
<1>3. /\ i \in DOMAIN Q.ops <=> i \in DOMAIN R.ops
      /\ i \in DOMAIN R.ops => Q.ops[i] = R.ops[i]
      /\ i \in DOMAIN R.ops => Q.trans[R.ops[i].trans].ready = R.trans[R.ops[i].trans].ready
      /\ i \in DOMAIN Q.sessions <=> i \in DOMAIN R.sessions
      /\ i \in DOMAIN R.sessions => Q.sessions[i] = R.sessions[i]
  BY ONLY Apart(R, Q, D), i \notin D DEF Apart
<1>4. /\ i \in DOMAIN Q.trans <=> i \in DOMAIN R.trans
      /\ i \in DOMAIN R.trans => Q.trans[i].owner = R.trans[i].owner
      /\ Q.users = R.users /\ Q.leaving = R.leaving
  BY ONLY Apart(R, Q, D), i \notin D DEF Apart
<1>5. /\ Listed(Q, i) <=> Listed(R, i)
      /\ Up(Q, i) <=> Up(R, i)
  BY ONLY <1>2 DEF Listed, Up
<1>6. \A c : c.id = i /\ c.call = "node" => (c \in Q.calls <=> c \in R.calls)
  BY ONLY Apart(R, Q, D), i \notin D DEF Apart
<1>7. Carried(Q, i)
  <2>1. Carried(R, i)
    BY ONLY Whole(R, N, i) DEF Whole
  <2> QED
    BY ONLY <1>1, <1>3, <1>4, <1>5, <1>6, <2>1 DEF Carried
<1>8. Sourced(Q, i)
  <2>1. Sourced(R, i)
    BY ONLY Whole(R, N, i) DEF Whole
  <2> QED
    BY ONLY <1>1, <1>2, <2>1 DEF Sourced
<1>9. Followed(Q, i)
  <2>1. Followed(R, i)
    BY ONLY Whole(R, N, i) DEF Whole
  <2> QED
    BY ONLY <1>1, <1>3, <1>5, <2>1 DEF Followed
<1>10. OnNode(Q, M, i)
  <2>1. OnNode(R, N, i)
    BY ONLY Whole(R, N, i) DEF Whole
  <2>2. i \in DOMAIN R.ops =>
          /\ R.ops[i].trans \in N.trans => R.ops[i].trans \in M.trans
          /\ R.ops[i].trans \in N.held => R.ops[i].trans \in M.held
    BY ONLY NodesApart(R, N, M, D), i \notin D DEF NodesApart
  <2> QED
    BY ONLY <1>1, <1>3, <2>1, <2>2 DEF OnNode
<1>11. /\ i \in M.sessions <=> i \in N.sessions
       /\ i \in N.trans => i \in M.trans
       /\ i \in M.trans => i \in N.trans \/ i \in M.held
       /\ i \in M.held <=> i \in N.held
  BY ONLY NodesApart(R, N, M, D), i \notin D DEF NodesApart
<1>12. TransHeld(Q, M, i)
  <2>1. TransHeld(R, N, i)
    BY ONLY Whole(R, N, i) DEF Whole
  <2> QED
    BY ONLY <1>1, <1>3, <1>4, <1>11, <2>1 DEF TransHeld
<1>13. SessionHeld(Q, M, i)
  <2>1. SessionHeld(R, N, i)
    BY ONLY Whole(R, N, i) DEF Whole
  <2> QED
    BY ONLY <1>1, <1>3, <1>11, <2>1 DEF SessionHeld
<1> QED
  BY ONLY <1>7, <1>8, <1>9, <1>10, <1>12, <1>13 DEF Whole

(* ... and what is left stays so.                                          *)
LEMMA ApartLeft ==
  ASSUME NEW R, NEW Q, NEW V, Left(R, V), Q.leaving = R.leaving,
         \A t \in DOMAIN R.trans : t \in DOMAIN Q.trans /\ Q.trans[t].owner = R.trans[t].owner,
         \A i \in DOMAIN Q.ops : \/ i \in DOMAIN R.ops /\ R.ops[i].trans = Q.ops[i].trans
                                 \/ \A g \in R.leaving : Q.ops[i].trans \notin g.trans
  PROVE  Left(Q, V)
BY DEF Left, OpsOn

LEMMA NodesSame ==
  ASSUME NEW R, NEW N, NEW D
  PROVE  NodesApart(R, N, N, D)
BY DEF NodesApart

(* A call that is answered, or made, is of one.                            *)
LEMMA AnsweredApart ==
  ASSUME NEW R, NEW Q, NEW c, Answered(R, Q, c)
  PROVE  Apart(R, Q, {c.id}) /\ (\A V : Left(R, V) => Left(Q, V))
<1>1. /\ Q.users = R.users /\ Q.leaving = R.leaving /\ Q.streams = R.streams /\ Q.subs = R.subs
      /\ Q.ops = R.ops /\ Q.sessions = R.sessions /\ Q.trans = R.trans
      /\ Q.calls = R.calls \ {c}
  BY DEF Answered, Wanes, ListsStill
<1> QED
  BY ONLY <1>1 DEF Apart, Left, OpsOn

LEMMA MadeApart ==
  ASSUME NEW R, NEW Q, NEW c, Made(R, Q, c)
  PROVE  Apart(R, Q, {c.id}) /\ (\A V : Left(R, V) => Left(Q, V))
<1>1. /\ Q.users = R.users /\ Q.leaving = R.leaving /\ Q.streams = R.streams /\ Q.subs = R.subs
      /\ Q.ops = R.ops /\ Q.sessions = R.sessions /\ Q.trans = R.trans
      /\ Q.calls = R.calls \cup {c}
  BY DEF Made, Still, ListsStill
<1> QED
  BY ONLY <1>1 DEF Apart, Left, OpsOn

LEMMA InitSound ==
  ASSUME Init
  PROVE  Sound(conf, nodes)
<1>1. /\ conf.streams = <<>> /\ conf.subs = <<>> /\ conf.sessions = <<>> /\ conf.ops = <<>> /\ conf.trans = <<>>
      /\ conf.calls = {} /\ conf.leaving = {}
      /\ nodes.sessions = {} /\ nodes.trans = {} /\ nodes.held = {}
  BY DEF Init, Nothing
<1>2. DOMAIN <<>> = {}
  OBVIOUS
<1>3. ASSUME NEW i
      PROVE  Carried(conf, i) /\ Sourced(conf, i) /\ Followed(conf, i)
  BY ONLY <1>1, <1>2 DEF Carried, Sourced, Followed, Listed, Closing, Ended, Recycling, Has
<1>4. ASSUME NEW i
      PROVE  OnNode(conf, nodes, i) /\ TransHeld(conf, nodes, i) /\ SessionHeld(conf, nodes, i)
  BY ONLY <1>1, <1>2 DEF OnNode, TransHeld, SessionHeld, Unserved
<1>5. Left(conf, conf.users)
  BY ONLY <1>1 DEF Left
<1> QED
  BY ONLY <1>3, <1>4, <1>5 DEF Sound, Whole

(* What is not used yet is nowhere.                                        *)
LEMMA Unused ==
  ASSUME NEW R, NEW N, Core(R, N), NEW i, i \notin R.used
  PROVE  /\ ~Listed(R, i) /\ i \notin DOMAIN R.streams /\ i \notin DOMAIN R.subs
         /\ i \notin DOMAIN R.sessions /\ i \notin DOMAIN R.ops /\ i \notin DOMAIN R.trans
         /\ i \notin N.sessions /\ i \notin N.held /\ i \notin N.trans
         /\ \A c \in R.calls : c.call # "drop" => c.id # i
BY DEF Core, UsedOnce, NodesType, Listed

(* A new participant has nothing yet.                                      *)
LEMMA SoundJoin ==
  ASSUME Core(conf, nodes), Sound(conf, nodes), NEW u, Join(u)
  PROVE  Sound(conf', nodes')
<1>1. PICK Q : Q = conf'
  OBVIOUS
<1>2. Q = [conf EXCEPT !.users = conf.users \cup {u}, !.met = conf.met \cup {u}] /\ nodes' = nodes /\ u \notin conf.met
  BY <1>1 DEF Join
<1>3. conf \in ConfType
  BY DEF Core, Good
<1>4. /\ Q.streams = conf.streams /\ Q.subs = conf.subs /\ Q.ops = conf.ops /\ Q.trans = conf.trans
      /\ Q.sessions = conf.sessions /\ Q.calls = conf.calls /\ Q.leaving = conf.leaving
      /\ Q.users = conf.users \cup {u}
  BY ONLY <1>2, <1>3 DEF ConfType
<1>5. \A t \in DOMAIN conf.trans : conf.trans[t].owner # u
  BY <1>2 DEF Core, KindsApart
<1>6. ASSUME NEW i \in Ids
      PROVE  Whole(Q, nodes, i)
  <2>1. Whole(conf, nodes, i)
    BY <1>6 DEF Sound
  <2>2. \A c \in conf.calls : c.call = "node" /\ c.id = i /\ i \notin bound.sessions => c.spec.owner # u
    <3>1. \A c \in conf.calls : c.call = "node" => Known(conf, c.id, c.spec)
      BY DEF Known
    <3>2. \A j, v : Known(conf, j, v) /\ j \notin bound.sessions => v.owner \in conf.met
      BY DEF Core, SpecsKnown
    <3> QED
      BY ONLY <1>2, <3>1, <3>2
  <2>3. /\ Has(Q, i, "node") <=> Has(conf, i, "node")
        /\ Has(Q, i, "initiate") <=> Has(conf, i, "initiate")
        /\ Has(Q, i, "subscribe") <=> Has(conf, i, "subscribe")
        /\ Unserved(Q, i) <=> Unserved(conf, i)
        /\ \A w : Recycling(Q, i, w) <=> Recycling(conf, i, w)
        /\ \A ws : Ended(Q, i, ws) <=> Ended(conf, i, ws)
    BY ONLY <1>4 DEF Has, Unserved, Recycling, Ended
  <2>4. /\ Awaited(Q, i) <=> Awaited(conf, i)
        /\ Late(Q, i) <=> Late(conf, i)
        /\ Ending(Q, i) <=> Ending(conf, i)
        /\ Closing(Q, i) <=> Closing(conf, i)
        /\ Listed(Q, i) <=> Listed(conf, i)
        /\ Up(Q, i) <=> Up(conf, i)
    BY ONLY <1>4, <2>3 DEF Awaited, Late, Ending, Closing, Listed, Up
  <2>5. Carried(Q, i)
    BY ONLY <1>4, <2>1, <2>2, <2>3, <2>4 DEF Whole, Carried
  <2>6. Sourced(Q, i) /\ Followed(Q, i) /\ OnNode(Q, nodes, i)
    BY ONLY <1>4, <2>1, <2>3, <2>4 DEF Whole, Sourced, Followed, OnNode
  <2>7. TransHeld(Q, nodes, i)
    BY ONLY <1>4, <1>5, <2>1, <2>3 DEF Whole, TransHeld
  <2>8. SessionHeld(Q, nodes, i)
    BY ONLY <1>4, <2>1, <2>3, <2>4 DEF Whole, SessionHeld
  <2> QED
    BY ONLY <2>5, <2>6, <2>7, <2>8 DEF Whole
<1>7. Left(Q, Q.users)
  <2>1. Left(conf, conf.users)
    BY DEF Sound
  <2> QED
    BY ONLY <1>4, <1>5, <2>1 DEF Left, OpsOn
<1> QED
  BY ONLY <1>1, <1>2, <1>6, <1>7 DEF Sound

(* An operation is on a transport, and its node is asked to begin it.      *)
NewlyOn(R, Q, i, t, spec) ==
  /\ Q.streams = R.streams /\ Q.subs = R.subs /\ Q.users = R.users /\ Q.trans = R.trans /\ Q.leaving = R.leaving
  /\ Q.sessions = R.sessions /\ Q.mishaps = R.mishaps
  /\ \A d : d \in DOMAIN Q.ops <=> d \in DOMAIN R.ops \/ d = i
  /\ Q.ops[i] = [trans |-> t, done |-> FALSE, spec |-> spec]
  /\ \A d \in DOMAIN R.ops : d # i => Q.ops[d] = R.ops[d]
  /\ \E c : c.call = "initiate" /\ c.id = i /\ ~c.served /\ Q.calls = R.calls \cup {c}

LEMMA NewOpFacts ==
  ASSUME NEW R, R \in ConfType, NEW i, NEW t, NEW spec, NEW Q, Q = NewOp(R, i, t, spec)
  PROVE  NewlyOn(R, Q, i, t, spec)
<1>1. PICK o : o = [trans |-> t, done |-> FALSE, spec |-> spec]
  OBVIOUS
<1>2. PICK T : T = Put(R.ops, i, o)
  OBVIOUS
<1>3. PICK c : c = [call |-> "initiate", id |-> i, spec |-> spec, served |-> FALSE]
  OBVIOUS
<1>4. PICK M : M = [R EXCEPT !.ops = T]
  OBVIOUS
<1>5. Q = [M EXCEPT !.calls = M.calls \cup {c}]
  BY ONLY <1>1, <1>2, <1>3, <1>4, Q = NewOp(R, i, t, spec) DEF NewOp, Call
<1>6. /\ Q.streams = R.streams /\ Q.subs = R.subs /\ Q.users = R.users /\ Q.trans = R.trans /\ Q.leaving = R.leaving
      /\ Q.sessions = R.sessions /\ Q.mishaps = R.mishaps
      /\ Q.ops = T /\ Q.calls = R.calls \cup {c}
  BY ONLY <1>4, <1>5, R \in ConfType DEF ConfType
<1>7. /\ \A d : d \in DOMAIN T <=> d \in DOMAIN R.ops \/ d = i
      /\ T[i] = o
      /\ \A d \in DOMAIN R.ops : d # i => T[d] = R.ops[d]
  BY ONLY <1>2 DEF Put
<1>8. c.call = "initiate" /\ c.id = i /\ ~c.served
  BY ONLY <1>3
<1> QED
  BY ONLY <1>1, <1>6, <1>7, <1>8 DEF NewlyOn

(* A participant asks for something new.                                   *)
LEMMA SoundAsked ==
  ASSUME Core(conf, nodes), Sound(conf, nodes), NEW i \in Ids, i \notin conf.used, i \notin bound.sessions,
         NEW u \in conf.users, NEW spec \in SpecsOf(i), spec.owner = u, NEW Q \in Asked(u, i, spec),
         i \notin Streams => spec.from \in DOMAIN conf.streams
  PROVE  Sound(Q, nodes)
<1>1. PICK R : R = Begun(conf, i, spec)
  OBVIOUS
<1>2. Good(conf) /\ conf \in ConfType /\ KindsApart(conf)
  BY DEF Core, Good
<1>3. /\ ~Listed(conf, i) /\ i \notin DOMAIN conf.streams /\ i \notin DOMAIN conf.subs
      /\ i \notin DOMAIN conf.sessions /\ i \notin DOMAIN conf.ops /\ i \notin DOMAIN conf.trans
      /\ i \notin nodes.sessions /\ i \notin nodes.held /\ i \notin nodes.trans
      /\ \A c \in conf.calls : c.call # "drop" => c.id # i
  BY ONLY Core(conf, nodes), i \notin conf.used, Unused
<1>4. Begins(conf, R, i, spec)
  BY ONLY <1>1, <1>2, <1>3, i \in Ids, spec \in SpecsOf(i), BegunFacts
<1>5. /\ R.users = conf.users /\ R.ops = conf.ops /\ R.trans = conf.trans /\ R.leaving = conf.leaving
      /\ R.sessions = conf.sessions /\ R.calls = conf.calls
      /\ \A s : s \in DOMAIN R.streams <=> s \in DOMAIN conf.streams \/ (s = i /\ i \in Streams)
      /\ \A x : x \in DOMAIN R.subs <=> x \in DOMAIN conf.subs \/ (x = i /\ i \notin Streams)
      /\ \A s \in DOMAIN conf.streams : s # i => R.streams[s] = conf.streams[s]
      /\ \A x \in DOMAIN conf.subs : x # i => R.subs[x] = conf.subs[x]
  BY ONLY <1>4 DEF Begins
<1>6. Listed(R, i)
  BY ONLY <1>5 DEF Listed
<1>7. R \in ConfType
  BY ONLY <1>4 DEF Begins, Good
<1>8. \A j \in Ids : Whole(conf, nodes, j)
  BY DEF Sound
<1>9. Left(conf, conf.users)
  BY DEF Sound
<1>10. NodesApart(conf, nodes, nodes, {i})
  BY NodesSame
<1>11. \/ Q = Call(R, [call |-> "node", id |-> i, spec |-> spec])
       \/ \E t \in TransOf(R, u) : Q = NewOp(R, i, t, spec)
  <2>1. \/ Q = Call(Begun(conf, i, spec), [call |-> "node", id |-> i, spec |-> spec])
        \/ \E t \in TransOf(Begun(conf, i, spec), u) : Q = NewOp(Begun(conf, i, spec), i, t, spec)
    BY ONLY Q \in Asked(u, i, spec) DEF Asked
  <2> QED
    BY ONLY <1>1, <2>1
<1>12. CASE Q = Call(R, [call |-> "node", id |-> i, spec |-> spec])
  <2>1. PICK c : c = [call |-> "node", id |-> i, spec |-> spec]
    OBVIOUS
  <2>2. Q = [R EXCEPT !.calls = R.calls \cup {c}]
    BY ONLY <1>12, <2>1 DEF Call
  <2>3. /\ Q.streams = R.streams /\ Q.subs = R.subs /\ Q.users = R.users /\ Q.trans = R.trans
        /\ Q.leaving = R.leaving /\ Q.sessions = R.sessions /\ Q.ops = R.ops /\ Q.calls = R.calls \cup {c}
    BY ONLY <1>7, <2>2 DEF ConfType
  <2>4. Apart(conf, Q, {i})
    BY ONLY <1>5, <2>1, <2>3 DEF Apart
  <2>5. c.call = "node" /\ c.id = i /\ c \in Q.calls
    BY ONLY <2>1, <2>3
  <2>6. Carried(Q, i)
    BY ONLY <1>3, <1>5, <1>6, <2>3, <2>5, i \notin bound.sessions DEF Carried, Listed, Has
  <2>7. Sourced(Q, i)
    BY ONLY <2>5, i \notin bound.sessions DEF Sourced, Awaited, Has
  <2>8. Followed(Q, i) /\ OnNode(Q, nodes, i) /\ TransHeld(Q, nodes, i) /\ SessionHeld(Q, nodes, i)
    BY ONLY <1>3, <1>5, <2>3, i \notin bound.sessions DEF Followed, OnNode, TransHeld, SessionHeld
  <2>9. Whole(Q, nodes, i)
    BY ONLY <2>6, <2>7, <2>8 DEF Whole
  <2>10. \A j \in Ids : j \notin {i} => Whole(Q, nodes, j)
    BY ONLY <1>8, <1>10, <2>4, ApartWhole
  <2>11. Left(Q, Q.users)
    BY ONLY <1>5, <1>9, <2>3 DEF Left, OpsOn
  <2> QED
    BY ONLY <2>9, <2>10, <2>11 DEF Sound
<1>13. CASE \E t \in TransOf(R, u) : Q = NewOp(R, i, t, spec)
  <2>1. PICK t \in TransOf(R, u) : Q = NewOp(R, i, t, spec)
    BY ONLY <1>13
  <2>2. t \in DOMAIN conf.trans /\ conf.trans[t].owner = u
    BY ONLY <1>5, <2>1 DEF TransOf
  <2>3. NewlyOn(R, Q, i, t, spec)
    BY ONLY <1>7, <2>1, NewOpFacts
  <2>4. /\ Q.streams = R.streams /\ Q.subs = R.subs /\ Q.users = R.users /\ Q.trans = R.trans
        /\ Q.leaving = R.leaving /\ Q.sessions = R.sessions
        /\ \A d : d \in DOMAIN Q.ops <=> d \in DOMAIN R.ops \/ d = i
        /\ \A d \in DOMAIN R.ops : d # i => Q.ops[d] = R.ops[d]
    BY ONLY <2>3 DEF NewlyOn
  <2>5. ~Q.ops[i].done /\ Q.ops[i].trans = t
    BY ONLY <2>3 DEF NewlyOn
  <2>6. PICK c : c.call = "initiate" /\ c.id = i /\ ~c.served /\ Q.calls = R.calls \cup {c}
    BY ONLY <2>3 DEF NewlyOn
  <2>7. Apart(conf, Q, {i})
    BY ONLY <1>5, <2>4, <2>6 DEF Apart
  <2>8. Has(Q, i, "initiate") /\ Unserved(Q, i)
    BY ONLY <2>6 DEF Has, Unserved
  <2>9. t \in nodes.held
    <3>1. t \in Ids
      BY <1>2, <2>2, KeyFacts
    <3>2. TransHeld(conf, nodes, t)
      BY ONLY <1>8, <3>1 DEF Whole
    <3> QED
      BY ONLY <2>2, <3>2, u \in conf.users DEF TransHeld
  <2>10. Listed(Q, i)
    BY ONLY <1>6, <2>4 DEF Listed
  <2>11. Carried(Q, i)
    BY ONLY <2>4, <2>10, i \notin bound.sessions DEF Carried
  <2>12. Sourced(Q, i)
    BY ONLY <2>8, i \notin bound.sessions DEF Sourced, Awaited
  <2>13. Followed(Q, i)
    BY ONLY <1>3, <1>5, <2>4, <2>5 DEF Followed
  <2>14. OnNode(Q, nodes, i)
    BY ONLY <2>5, <2>8, <2>9 DEF OnNode
  <2>15. TransHeld(Q, nodes, i) /\ SessionHeld(Q, nodes, i)
    BY ONLY <1>3, <1>5, <2>4, i \notin bound.sessions DEF TransHeld, SessionHeld
  <2>16. Whole(Q, nodes, i)
    BY ONLY <2>11, <2>12, <2>13, <2>14, <2>15 DEF Whole
  <2>17. \A j \in Ids : j \notin {i} => Whole(Q, nodes, j)
    BY ONLY <1>8, <1>10, <2>7, ApartWhole
  <2>18. Left(Q, Q.users)
    <3>1. \A g \in conf.leaving : t \notin g.trans
      BY ONLY <1>9, <2>2, u \in conf.users DEF Left
    <3>2. Left(Q, conf.users)
      BY ONLY <1>5, <1>9, <2>4, <2>5, <3>1 DEF Left, OpsOn
    <3> QED
      BY ONLY <1>5, <2>4, <3>2
  <2> QED
    BY ONLY <2>16, <2>17, <2>18 DEF Sound
<1> QED
  BY ONLY <1>11, <1>12, <1>13

LEMMA SoundPublish ==
  ASSUME Core(conf, nodes), Sound(conf, nodes), NEW u, NEW s, Publish(u, s)
  PROVE  Sound(conf', nodes')
<1>1. /\ u \in conf.users /\ s \in Streams /\ s \notin conf.used /\ s \notin bound.sessions
      /\ conf' \in Asked(u, s, [owner |-> u]) /\ nodes' = nodes
  BY DEF Publish, Fresh
<1>2. PICK spec : spec = [owner |-> u]
  OBVIOUS
<1>3. u \in People
  BY <1>1, ConfFacts DEF Core, Good, People
<1>4. spec \in SpecsOf(s) /\ spec.owner = u
  BY ONLY <1>1, <1>2, <1>3 DEF SpecsOf, StreamSpecs
<1>5. s \in Ids
  BY <1>1 DEF Ids
<1>6. Sound(conf', nodes)
  BY ONLY <1>1, <1>2, <1>4, <1>5, Core(conf, nodes), Sound(conf, nodes), SoundAsked
<1> QED
  BY ONLY <1>1, <1>6

LEMMA SoundSubscribe ==
  ASSUME Core(conf, nodes), Sound(conf, nodes), NEW u, NEW x, Subscribe(u, x)
  PROVE  Sound(conf', nodes')
<1>1. /\ u \in conf.users /\ x \in Subs /\ x \notin conf.used /\ x \notin bound.sessions /\ nodes' = nodes
      /\ \E spec \in SpecsFor(u) : conf' \in Asked(u, x, spec)
  BY DEF Subscribe, Fresh
<1>2. PICK spec \in SpecsFor(u) : conf' \in Asked(u, x, spec)
  BY ONLY <1>1
<1>3. u \in People /\ conf \in ConfType
  BY <1>1, ConfFacts DEF Core, Good, People
<1>4. spec \in SpecsOf(x) /\ spec.owner = u /\ spec.from \in DOMAIN conf.streams
  BY ONLY <1>1, <1>2, <1>3, SpecsForFacts
<1>5. x \in Ids
  BY <1>1 DEF Ids
<1>6. Sound(conf', nodes)
  BY ONLY <1>1, <1>2, <1>4, <1>5, Core(conf, nodes), Sound(conf, nodes), SoundAsked
<1> QED
  BY ONLY <1>1, <1>6

(* The REST interface asks for something new.                              *)
LEMMA SoundOrdered ==
  ASSUME Core(conf, nodes), Sound(conf, nodes), NEW i \in Ids, i \notin conf.used, i \in bound.sessions,
         NEW spec \in SpecsOf(i), i \notin Streams => spec.from \in DOMAIN conf.streams,
         NEW Q, Q = Ordered(i, spec)
  PROVE  Sound(Q, nodes)
<1>1. PICK R : R = Begun(conf, i, spec)
  OBVIOUS
<1>2. Good(conf) /\ conf \in ConfType /\ KindsApart(conf)
  BY DEF Core, Good
<1>3. /\ ~Listed(conf, i) /\ i \notin DOMAIN conf.streams /\ i \notin DOMAIN conf.subs
      /\ i \notin DOMAIN conf.sessions /\ i \notin DOMAIN conf.ops /\ i \notin DOMAIN conf.trans
      /\ i \notin nodes.sessions /\ i \notin nodes.held /\ i \notin nodes.trans
      /\ \A c \in conf.calls : c.call # "drop" => c.id # i
  BY ONLY Core(conf, nodes), i \notin conf.used, Unused
<1>4. Begins(conf, R, i, spec)
  BY ONLY <1>1, <1>2, <1>3, i \in Ids, spec \in SpecsOf(i), BegunFacts
<1>5. /\ R.users = conf.users /\ R.ops = conf.ops /\ R.trans = conf.trans /\ R.leaving = conf.leaving
      /\ R.sessions = conf.sessions /\ R.calls = conf.calls
      /\ \A s : s \in DOMAIN R.streams <=> s \in DOMAIN conf.streams \/ (s = i /\ i \in Streams)
      /\ \A x : x \in DOMAIN R.subs <=> x \in DOMAIN conf.subs \/ (x = i /\ i \notin Streams)
      /\ \A s \in DOMAIN conf.streams : s # i => R.streams[s] = conf.streams[s]
      /\ \A x \in DOMAIN conf.subs : x # i => R.subs[x] = conf.subs[x]
  BY ONLY <1>4 DEF Begins
<1>6. i \notin Streams => R.subs[i].from = spec.from
  BY ONLY <1>4 DEF Begins
<1>7. R \in ConfType
  BY ONLY <1>4 DEF Begins, Good
<1>8. PICK r : r = [state |-> "initialized", ready |-> FALSE, spec |-> spec]
  OBVIOUS
<1>9. PICK T : T = Put(R.sessions, i, r)
  OBVIOUS
<1>10. PICK c : c = [call |-> "node", id |-> i, spec |-> spec]
  OBVIOUS
<1>11. PICK P : P = [R EXCEPT !.sessions = T]
  OBVIOUS
<1>12. Q = [P EXCEPT !.calls = P.calls \cup {c}]
  BY ONLY <1>1, <1>8, <1>9, <1>10, <1>11, Q = Ordered(i, spec) DEF Ordered, Call
<1>13. /\ Q.streams = R.streams /\ Q.subs = R.subs /\ Q.users = R.users /\ Q.trans = R.trans
       /\ Q.leaving = R.leaving /\ Q.ops = R.ops /\ Q.sessions = T /\ Q.calls = R.calls \cup {c}
  BY ONLY <1>7, <1>11, <1>12 DEF ConfType
<1>14. /\ \A d : d \in DOMAIN T <=> d \in DOMAIN R.sessions \/ d = i
       /\ T[i].state = "initialized" /\ ~T[i].ready
       /\ \A d \in DOMAIN R.sessions : d # i => T[d] = R.sessions[d]
  BY ONLY <1>8, <1>9 DEF Put
<1>15. c.call = "node" /\ c.id = i
  BY ONLY <1>10
<1>16. Apart(conf, Q, {i})
  BY ONLY <1>5, <1>13, <1>14, <1>15 DEF Apart
<1>17. /\ Has(Q, i, "node") /\ ~Has(Q, i, "initiate") /\ ~Unserved(Q, i)
       /\ \A w : ~Recycling(Q, i, w)
       /\ \A ws : ~Ended(Q, i, ws)
  <2>1. \A d \in Q.calls : d = c \/ (d.call # "drop" => d.id # i)
    BY ONLY <1>3, <1>5, <1>13
  <2>2. c \in Q.calls
    BY ONLY <1>13
  <2> QED
    BY ONLY <1>15, <2>1, <2>2 DEF Has, Unserved, Recycling, Ended
<1>18. Listed(Q, i)
  BY ONLY <1>5, <1>13 DEF Listed
<1>19. Carried(Q, i)
  BY ONLY <1>13, <1>14, <1>17, <1>18, i \in bound.sessions DEF Carried, Closing
<1>20. Sourced(Q, i)
  BY ONLY <1>3, <1>5, <1>6, <1>13, i \notin Streams => spec.from \in DOMAIN conf.streams DEF Sourced
<1>21. Followed(Q, i) /\ OnNode(Q, nodes, i) /\ TransHeld(Q, nodes, i)
  BY ONLY <1>3, <1>5, <1>13, <1>14 DEF Followed, OnNode, TransHeld
<1>22. SessionHeld(Q, nodes, i)
  BY ONLY <1>3, <1>13, <1>14, <1>17 DEF SessionHeld, Late, Awaited, Closing
<1>23. Whole(Q, nodes, i)
  BY ONLY <1>19, <1>20, <1>21, <1>22 DEF Whole
<1>24. ASSUME NEW j \in Ids, j \notin {i}
       PROVE  Whole(Q, nodes, j)
  <2>1. Whole(conf, nodes, j) /\ NodesApart(conf, nodes, nodes, {i})
    BY NodesSame DEF Sound
  <2> QED
    BY ONLY <1>16, <1>24, <2>1, ApartWhole
<1>25. Left(Q, Q.users)
  <2>1. Left(conf, conf.users)
    BY DEF Sound
  <2> QED
    BY ONLY <1>5, <1>13, <2>1 DEF Left, OpsOn
<1> QED
  BY ONLY <1>23, <1>24, <1>25 DEF Sound

LEMMA SoundAddStreamingIn ==
  ASSUME Core(conf, nodes), Sound(conf, nodes), NEW s, AddStreamingIn(s)
  PROVE  Sound(conf', nodes')
<1>1. /\ s \in Streams /\ s \notin conf.used /\ s \in bound.sessions /\ nodes' = nodes
      /\ conf' = Ordered(s, [owner |-> Admin])
  BY DEF AddStreamingIn, Fresh
<1>2. PICK spec : spec = [owner |-> Admin]
  OBVIOUS
<1>3. Admin \in People /\ s \in Ids
  BY <1>1 DEF People, Ids
<1>4. spec \in SpecsOf(s)
  BY ONLY <1>1, <1>2, <1>3 DEF SpecsOf, StreamSpecs
<1>5. Sound(conf', nodes)
  BY ONLY <1>1, <1>2, <1>3, <1>4, Core(conf, nodes), Sound(conf, nodes), SoundOrdered
<1> QED
  BY ONLY <1>1, <1>5

LEMMA SoundAddServerSideSubscription ==
  ASSUME Core(conf, nodes), Sound(conf, nodes), NEW x, AddServerSideSubscription(x)
  PROVE  Sound(conf', nodes')
<1>1. /\ x \in Subs /\ x \notin conf.used /\ x \in bound.sessions /\ nodes' = nodes
      /\ \E spec \in SpecsFor(Admin) : conf' = Ordered(x, spec)
  BY DEF AddServerSideSubscription, Fresh
<1>2. PICK spec \in SpecsFor(Admin) : conf' = Ordered(x, spec)
  BY ONLY <1>1
<1>3. Admin \in People /\ x \in Ids /\ conf \in ConfType
  BY <1>1 DEF People, Ids, Core, Good
<1>4. spec \in SpecsOf(x) /\ spec.from \in DOMAIN conf.streams
  BY ONLY <1>1, <1>2, <1>3, SpecsForFacts
<1>5. Sound(conf', nodes)
  BY ONLY <1>1, <1>2, <1>3, <1>4, Core(conf, nodes), Sound(conf, nodes), SoundOrdered
<1> QED
  BY ONLY <1>1, <1>5

(* Something listed is ended: what goes on its way out.                    *)
LEMMA SoundEnd ==
  ASSUME Core(conf, nodes), Sound(conf, nodes), NEW i \in Ids, End(i), Unthrown(conf')
  PROVE  Sound(conf', nodes')
<1>1. PICK Q : Q = conf'
  OBVIOUS
<1>2. Q = Terminate(conf, i) /\ nodes' = nodes
  BY <1>1 DEF End
<1>3. Good(conf)
  BY DEF Core
<1>4. Fades(conf, Q, {})
  BY ONLY <1>2, <1>3, i \in Ids, TerminateFacts
<1>5. \A j \in Ids : Whole(conf, nodes, j)
  BY DEF Sound
<1>6. \A j \in Ids : Whole(Q, nodes, j)
  BY ONLY <1>1, <1>4, <1>5, Unthrown(conf'), Core(conf, nodes), FadeWhole
<1>7. Left(Q, conf.users)
  BY ONLY <1>4, Sound(conf, nodes), FadeLeft DEF Sound
<1>8. Q.users = conf.users
  BY ONLY <1>4 DEF Fades, Still
<1> QED
  BY ONLY <1>1, <1>2, <1>6, <1>7, <1>8 DEF Sound

(* A participant is removed, whose operations are ended, and whose         *)
(* transports are on their way out.                                        *)
LEMMA SoundRemoved ==
  ASSUME NEW R, NEW N, Core(R, N), NEW u, u # Admin, Left(R, R.users \ {u}), \A i \in Ids : Whole(R, N, i),
         \A i \in DOMAIN R.ops : R.ops[i].spec.owner = u => Ending(R, i),
         \A t \in DOMAIN R.trans : R.trans[t].owner = u /\ t \in N.held => \E g \in R.leaving : t \in g.trans,
         NEW Q, Q = RemoveParticipant(R, u), Unthrown(Q)
  PROVE  Sound(Q, N)
<1>1. Good(R) /\ SpecsKnown(R) /\ R \in ConfType
  BY DEF Core, Good
<1>2. /\ \E P : Fades(R, P, Owned(R, u)) /\ StillButUsers(P, Q)
      /\ Good(Q) /\ Q.users = R.users \ {u}
      /\ \A x \in DOMAIN Q.subs : Q.subs[x].owner # u
      /\ \A s \in DOMAIN Q.streams : Q.streams[s].owner # u
  BY ONLY <1>1, Q = RemoveParticipant(R, u), Unthrown(Q), RemoveParticipantFacts
<1>3. PICK P : Fades(R, P, Owned(R, u)) /\ StillButUsers(P, Q)
  BY ONLY <1>2
<1>4. /\ Q.streams = P.streams /\ Q.subs = P.subs /\ Q.ops = P.ops /\ Q.trans = P.trans
      /\ Q.leaving = P.leaving /\ Q.sessions = P.sessions /\ Q.calls = P.calls /\ Q.mishaps = P.mishaps
  BY ONLY <1>3 DEF StillButUsers, ListsStill
<1>5. Unthrown(P)
  BY ONLY <1>4, Unthrown(Q) DEF Unthrown
<1>6. P.users = R.users /\ P.ops = R.ops /\ P.trans = R.trans /\ P.leaving = R.leaving
  BY ONLY <1>3 DEF Fades, Still
<1>7. ASSUME NEW i
      PROVE  /\ \A k : Has(Q, i, k) <=> Has(P, i, k)
             /\ Unserved(Q, i) <=> Unserved(P, i)
             /\ \A w : Recycling(Q, i, w) <=> Recycling(P, i, w)
             /\ Awaited(Q, i) <=> Awaited(P, i)
             /\ Late(Q, i) <=> Late(P, i)
             /\ Ending(Q, i) <=> Ending(P, i)
             /\ Closing(Q, i) <=> Closing(P, i)
             /\ Listed(Q, i) <=> Listed(P, i)
             /\ Up(Q, i) <=> Up(P, i)
  BY ONLY <1>4 DEF Has, Unserved, Recycling, Awaited, Late, Ending, Closing, Ended, Listed, Up
(* Nodes.                                                                  *)
<1>8. ASSUME NEW i \in Ids
      PROVE  OnNode(Q, N, i) /\ TransHeld(Q, N, i) /\ SessionHeld(Q, N, i)
  <2>1. OnNode(P, N, i) /\ TransHeld(P, N, i) /\ SessionHeld(P, N, i)
    BY ONLY <1>3, <1>8, Core(R, N), \A j \in Ids : Whole(R, N, j), FadeHeld DEF Whole
  <2>2. OnNode(Q, N, i)
    BY ONLY <1>4, <1>7, <2>1 DEF OnNode
  <2>3. TransHeld(Q, N, i)
    BY ONLY <1>2, <1>4, <1>6, <1>7, <2>1,
            \A t \in DOMAIN R.trans : R.trans[t].owner = u /\ t \in N.held => \E g \in R.leaving : t \in g.trans
       DEF TransHeld
  <2>4. SessionHeld(Q, N, i)
    BY ONLY <1>4, <1>7, <2>1 DEF SessionHeld
  <2> QED
    BY ONLY <2>2, <2>3, <2>4
(* What the participant did not own.                                       *)
<1>9. ASSUME NEW i \in Ids, i \notin Owned(R, u)
      PROVE  Carried(Q, i) /\ Sourced(Q, i) /\ Followed(Q, i)
  <2>1. Carried(R, i) /\ Sourced(R, i) /\ Followed(R, i)
    BY ONLY <1>9, \A j \in Ids : Whole(R, N, j) DEF Whole
  <2>2. Carried(P, i) /\ Sourced(P, i) /\ Followed(P, i)
    BY ONLY <1>3, <1>5, <1>9, <2>1, Core(R, N), FadeListed
  <2>3. Carried(Q, i)
    BY ONLY <1>2, <1>4, <1>6, <1>7, <2>2 DEF Carried
  <2>4. Sourced(Q, i) /\ Followed(Q, i)
    BY ONLY <1>4, <1>7, <2>2 DEF Sourced, Followed
  <2> QED
    BY ONLY <2>3, <2>4
(* What it owned.                                                          *)
<1>10. ASSUME NEW i \in Ids, i \in Owned(R, u)
       PROVE  Carried(Q, i) /\ Sourced(Q, i) /\ Followed(Q, i)
  <2>1. PICK v : Known(R, i, v) /\ v.owner = u
    <3>1. CASE i \in DOMAIN R.subs /\ R.subs[i].owner = u
      <4>1. PICK v : v = [owner |-> R.subs[i].owner, from |-> R.subs[i].from]
        OBVIOUS
      <4> QED
        BY ONLY <3>1, <4>1 DEF Known
    <3>2. CASE i \in DOMAIN R.streams /\ R.streams[i].owner = u
      <4>1. PICK v : v = [owner |-> R.streams[i].owner]
        OBVIOUS
      <4> QED
        BY ONLY <3>2, <4>1 DEF Known
    <3> QED
      BY ONLY <1>10, <3>1, <3>2 DEF Owned
  <2>2. i \notin bound.sessions
    BY ONLY <1>1, <2>1, u # Admin DEF SpecsKnown
  <2>3. \A w : Known(R, i, w) => w = v
    BY ONLY <1>1, <2>1 DEF SpecsKnown
  <2>4. ~Listed(Q, i)
    <3>1. /\ i \in DOMAIN P.subs => i \in DOMAIN R.subs /\ P.subs[i] = R.subs[i]
          /\ i \in DOMAIN P.streams => i \in DOMAIN R.streams /\ P.streams[i] = R.streams[i]
      BY ONLY <1>3 DEF Fades, Part
    <3>2. i \in DOMAIN R.subs /\ i \in DOMAIN R.streams => FALSE
      BY <1>1, KeyFacts, NamesAssumption
    <3> QED
      BY ONLY <1>2, <1>4, <1>10, <3>1, <3>2 DEF Listed, Owned
  <2>5. i \in DOMAIN Q.ops => Ending(Q, i)
    <3>1. ASSUME i \in DOMAIN R.ops
          PROVE  Ending(R, i)
      <4>1. Known(R, i, R.ops[i].spec)
        BY ONLY <3>1 DEF Known
      <4>2. R.ops[i].spec.owner = u
        BY ONLY <2>1, <2>3, <4>1
      <4> QED
        BY ONLY <3>1, <4>2, \A j \in DOMAIN R.ops : R.ops[j].spec.owner = u => Ending(R, j)
    <3>2. Ending(R, i) => Ending(P, i)
      BY ONLY <1>3, FadeCalls DEF Ending
    <3> QED
      BY ONLY <1>4, <1>6, <1>7, <3>1, <3>2
  <2>6. \A c \in Q.calls : c.call = "node" /\ c.id = i => c.spec.owner \notin Q.users
    <3>1. \A c \in R.calls : c.call = "node" /\ c.id = i => Known(R, i, c.spec)
      BY DEF Known
    <3>2. \A c \in Q.calls : c.call = "node" => c \in R.calls
      BY ONLY <1>3, <1>4, FadesCalls
    <3> QED
      BY ONLY <1>2, <2>1, <2>3, <3>1, <3>2
  <2>7. i \notin DOMAIN Q.sessions
    <3>1. i \notin DOMAIN R.sessions
      BY <2>2 DEF Core, KindsApart
    <3> QED
      BY ONLY <1>3, <1>4, <3>1 DEF Fades, Part
  <2>8. Carried(Q, i)
    BY ONLY <2>2, <2>4, <2>5, <2>6 DEF Carried
  <2>9. Sourced(Q, i)
    BY ONLY <2>4 DEF Sourced, Listed
  <2>10. Followed(Q, i)
    BY ONLY <2>5, <2>7 DEF Followed
  <2> QED
    BY ONLY <2>8, <2>9, <2>10
<1>11. Left(Q, Q.users)
  <2>1. Left(P, R.users \ {u})
    BY ONLY <1>3, Left(R, R.users \ {u}), FadeLeft
  <2> QED
    BY ONLY <1>2, <1>4, <2>1 DEF Left, OpsOn
<1> QED
  BY ONLY <1>8, <1>9, <1>10, <1>11 DEF Sound, Whole

(* A participant leaves.                                                   *)
LEMMA SoundLeave ==
  ASSUME Core(conf, nodes), Sound(conf, nodes), NEW u, Leave(u), Unthrown(conf')
  PROVE  Sound(conf', nodes')
<1>1. PICK ts : ts = TransOf(conf, u)
  OBVIOUS
<1>2. PICK R : R = TerminateTransports(conf, ts)
  OBVIOUS
<1>3. PICK Q : Q = conf'
  OBVIOUS
<1>4. Q = RemoveParticipant(R, u) /\ nodes' = nodes /\ u \in conf.users
  BY ONLY <1>1, <1>2, <1>3, Leave(u) DEF Leave
<1>5. ts \subseteq DOMAIN conf.trans /\ \A t : t \in ts <=> t \in DOMAIN conf.trans /\ conf.trans[t].owner = u
  BY ONLY <1>1 DEF TransOf
<1>6. Core(R, nodes) /\ \E M : EndsTransports(conf, M, R, ts)
  BY ONLY <1>2, <1>5, Core(conf, nodes), CoreTransports
<1>7. PICK M : EndsTransports(conf, M, R, ts)
  BY ONLY <1>6
<1>8. PICK is : is = OpsOn(conf, ts)
  OBVIOUS
<1>9. PICK g : g = [waits |-> is, trans |-> ts]
  OBVIOUS
<1>10. /\ EndsOps(conf, M, is, "left") /\ R.calls = M.calls /\ R.sessions = M.sessions /\ R.ops = M.ops
       /\ R.mishaps = M.mishaps /\ R.leaving = conf.leaving \cup {g}
  BY ONLY <1>7, <1>8, <1>9 DEF EndsTransports
<1>11. R.streams = M.streams /\ R.subs = M.subs /\ R.users = M.users /\ R.trans = M.trans
  BY ONLY <1>7 DEF EndsTransports, Wanes, ListsStill
<1>12. Fades(conf, M, {}) /\ M.mishaps = conf.mishaps
  BY ONLY <1>10 DEF EndsOps, Smoothly
<1>13. M.users = conf.users /\ M.ops = conf.ops /\ M.trans = conf.trans /\ M.leaving = conf.leaving
  BY ONLY <1>12 DEF Fades, Still
<1>14. Unthrown(M)
  <2>1. \E P : Fades(R, P, Owned(R, u)) /\ StillButUsers(P, Q)
    <3>1. Good(R)
      BY ONLY <1>6 DEF Core
    <3> QED
      BY ONLY <1>4, <3>1, RemoveParticipantFacts
  <2>2. R.mishaps \subseteq Q.mishaps
    BY ONLY <2>1 DEF Fades, StillButUsers
  <2> QED
    BY ONLY <1>3, <1>10, <2>2, Unthrown(conf') DEF Unthrown
<1>15. ASSUME NEW i \in Ids
       PROVE  Whole(R, nodes, i)
  <2>1. Whole(M, nodes, i)
    BY <1>12, <1>14, FadeWhole DEF Sound
  <2>2. /\ \A k : Has(R, i, k) <=> Has(M, i, k)
        /\ Unserved(R, i) <=> Unserved(M, i)
        /\ \A w : Recycling(R, i, w) <=> Recycling(M, i, w)
        /\ Awaited(R, i) <=> Awaited(M, i)
        /\ Late(R, i) <=> Late(M, i)
        /\ Ending(R, i) <=> Ending(M, i)
        /\ Closing(R, i) <=> Closing(M, i)
        /\ Listed(R, i) <=> Listed(M, i)
        /\ Up(R, i) <=> Up(M, i)
    BY ONLY <1>10, <1>11 DEF Has, Unserved, Recycling, Awaited, Late, Ending, Closing, Ended, Listed, Up
  <2>3. Carried(R, i)
    BY ONLY <1>10, <1>11, <2>1, <2>2 DEF Whole, Carried
  <2>4. Sourced(R, i) /\ Followed(R, i) /\ OnNode(R, nodes, i)
    BY ONLY <1>10, <1>11, <2>1, <2>2 DEF Whole, Sourced, Followed, OnNode
  <2>5. TransHeld(R, nodes, i)
    BY ONLY <1>10, <1>11, <1>13, <2>1, <2>2 DEF Whole, TransHeld
  <2>6. SessionHeld(R, nodes, i)
    BY ONLY <1>10, <1>11, <2>1, <2>2 DEF Whole, SessionHeld
  <2> QED
    BY ONLY <2>3, <2>4, <2>5, <2>6 DEF Whole
<1>16. Left(R, R.users \ {u})
  <2>1. Left(conf, conf.users)
    BY DEF Sound
  <2>2. g.trans = ts /\ g.waits = OpsOn(conf, ts)
    BY ONLY <1>8, <1>9
  <2> QED
    BY ONLY <1>5, <1>10, <1>11, <1>13, <2>1, <2>2 DEF Left, OpsOn
<1>17. ASSUME NEW i \in DOMAIN R.ops, R.ops[i].spec.owner = u
       PROVE  Ending(R, i)
  <2>1. i \in DOMAIN conf.ops /\ conf.ops[i].spec.owner = u
    BY ONLY <1>10, <1>13, <1>17
  <2>2. conf.ops[i].trans \in ts
    BY <1>5, <2>1 DEF Core, KindsApart
  <2>3. i \in is
    BY ONLY <1>8, <2>1, <2>2 DEF OpsOn
  <2>4. Ended(M, i, {"left"})
    BY ONLY <1>10, <2>1, <2>3 DEF EndsOps
  <2> QED
    BY ONLY <1>10, <2>4 DEF Ending, Ended, Operation
<1>18. \A t \in DOMAIN R.trans : R.trans[t].owner = u /\ t \in nodes.held => \E h \in R.leaving : t \in h.trans
  BY ONLY <1>5, <1>9, <1>10, <1>11, <1>13
<1>19. u # Admin
  <2>1. u \in Users
    BY <1>4, ConfFacts DEF Core, Good
  <2> QED
    BY <2>1, NamesAssumption
<1>20. Unthrown(Q)
  BY ONLY <1>3, Unthrown(conf')
<1>21. Sound(Q, nodes)
  BY ONLY <1>4, <1>6, <1>15, <1>16, <1>17, <1>18, <1>19, <1>20, SoundRemoved
<1> QED
  BY ONLY <1>3, <1>4, <1>21

(* A participant is to be dropped: nothing changes yet.                    *)
LEMMA SoundDropStep ==
  ASSUME Core(conf, nodes), Sound(conf, nodes), NEW u \in Users, Drop(u)
  PROVE  Sound(conf', nodes')
<1>1. PICK c : c = [call |-> "drop", id |-> u]
  OBVIOUS
<1>2. PICK Q : Q = conf'
  OBVIOUS
<1>3. Q = [conf EXCEPT !.calls = conf.calls \cup {c}] /\ nodes' = nodes
  BY ONLY <1>1, <1>2, Drop(u) DEF Drop, Call
<1>4. conf \in ConfType
  BY DEF Core, Good
<1>5. /\ Q.streams = conf.streams /\ Q.subs = conf.subs /\ Q.users = conf.users /\ Q.trans = conf.trans
      /\ Q.leaving = conf.leaving /\ Q.ops = conf.ops /\ Q.sessions = conf.sessions
      /\ Q.calls = conf.calls \cup {c}
  BY ONLY <1>3, <1>4 DEF ConfType
<1>6. c.call = "drop"
  BY ONLY <1>1
<1>7. Apart(conf, Q, {})
  BY ONLY <1>5, <1>6 DEF Apart
<1>8. ASSUME NEW i \in Ids
      PROVE  Whole(Q, nodes, i)
  <2>1. Whole(conf, nodes, i) /\ NodesApart(conf, nodes, nodes, {})
    BY NodesSame DEF Sound
  <2> QED
    BY ONLY <1>7, <2>1, ApartWhole, i \notin {}
<1>9. Left(Q, Q.users)
  BY ONLY <1>5, Sound(conf, nodes) DEF Sound, Left, OpsOn
<1> QED
  BY ONLY <1>2, <1>3, <1>8, <1>9 DEF Sound

(* A participant is dropped who had no transport, or had left meanwhile.   *)
LEMMA SoundDropped ==
  ASSUME Core(conf, nodes), Sound(conf, nodes), NEW c \in conf.calls, Dropped(c), conf'.mishaps = {}
  PROVE  Sound(conf', nodes')
<1>1. PICK R : R = Done(c)
  OBVIOUS
<1>2. PICK u : u = c.id
  OBVIOUS
<1>3. PICK P : P = RemoveParticipant(R, u)
  OBVIOUS
<1>4. PICK Q : Q = conf'
  OBVIOUS
<1>5. /\ c.call = "drop" /\ nodes' = nodes
      /\ Q = IF u \in conf.users /\ TransOf(conf, u) # {} THEN Note(P, "dropped") ELSE P
  BY ONLY <1>1, <1>2, <1>3, <1>4, Dropped(c) DEF Dropped
<1>6. Answered(conf, R, c) /\ Core(R, nodes)
  BY ONLY <1>1, Core(conf, nodes), CoreDone
<1>7. Good(P)
  BY <1>3, <1>6, RemoveParticipantFacts DEF Core
<1>8. Q = P /\ (u \notin conf.users \/ TransOf(conf, u) = {})
  <2>1. CASE Q = Note(P, "dropped")
    <3>1. "dropped" \in Mishaps /\ P \in ConfType
      BY ONLY <1>7 DEF Mishaps, Good
    <3>2. "dropped" \in Q.mishaps
      BY ONLY <2>1, <3>1, NoteFacts
    <3> QED
      BY ONLY <1>4, <3>2, conf'.mishaps = {}
  <2> QED
    BY ONLY <1>5, <2>1
<1>9. /\ R.streams = conf.streams /\ R.subs = conf.subs /\ R.users = conf.users /\ R.trans = conf.trans
      /\ R.leaving = conf.leaving /\ R.ops = conf.ops /\ R.sessions = conf.sessions
      /\ R.calls = conf.calls \ {c} /\ R.mishaps = conf.mishaps
  BY ONLY <1>6 DEF Answered, Wanes, ListsStill
<1>10. Apart(conf, R, {})
  BY ONLY <1>5, <1>9 DEF Apart
<1>11. ASSUME NEW i \in Ids
       PROVE  Whole(R, nodes, i)
  <2>1. Whole(conf, nodes, i) /\ NodesApart(conf, nodes, nodes, {})
    BY NodesSame DEF Sound
  <2> QED
    BY ONLY <1>10, <2>1, ApartWhole, i \notin {}
<1>12. Left(R, R.users \ {u})
  BY ONLY <1>9, Sound(conf, nodes) DEF Sound, Left, OpsOn
<1>13. u # Admin
  <2>1. c \in Calls
    BY ConfFacts DEF Core, Good
  <2>2. u \in Users
    BY ONLY <1>2, <1>5, <2>1 DEF Calls, NodeCalls, InitiateCalls, TerminateCalls, RecycleCalls, SubscribeCalls, DropCalls
  <2> QED
    BY <2>2, NamesAssumption
<1>14. Unthrown(Q) /\ Unthrown(R)
  <2>1. \E E : Fades(R, E, Owned(R, u)) /\ StillButUsers(E, P)
    <3>1. Good(R)
      BY ONLY <1>6 DEF Core
    <3> QED
      BY ONLY <1>3, <3>1, RemoveParticipantFacts
  <2>2. R.mishaps \subseteq P.mishaps
    BY ONLY <2>1 DEF Fades, StillButUsers
  <2> QED
    BY ONLY <1>4, <1>8, <2>2, conf'.mishaps = {} DEF Unthrown
<1>15. \A i \in DOMAIN R.ops : R.ops[i].trans \in DOMAIN R.trans /\ R.ops[i].spec.owner = R.trans[R.ops[i].trans].owner
  BY ONLY <1>6 DEF Core, KindsApart
<1>16. ASSUME NEW i \in DOMAIN R.ops, R.ops[i].spec.owner = u
       PROVE  Ending(R, i)
  <2>1. u \notin R.users
    BY ONLY <1>8, <1>9, <1>15, <1>16 DEF TransOf
  <2>2. i \in Ids
    BY <1>6, <1>16, KeyFacts DEF Core, Good
  <2>3. i \notin bound.sessions
    BY ONLY <1>6, <1>16 DEF Core, KindsApart
  <2>4. Listed(R, i) \/ Ending(R, i)
    BY ONLY <1>11, <1>16, <2>2, <2>3 DEF Whole, Carried
  <2>5. ASSUME Listed(R, i)
        PROVE  FALSE
    <3>1. Known(R, i, R.ops[i].spec)
      BY ONLY <1>16 DEF Known
    <3>2. \A v, w : Known(R, i, v) /\ Known(R, i, w) => v = w
      BY ONLY <1>6 DEF Core, SpecsKnown
    <3>3. Owners(R)
      BY ONLY <1>6 DEF Core
    <3>4. CASE i \in DOMAIN R.streams
      <4>1. PICK v : v = [owner |-> R.streams[i].owner]
        OBVIOUS
      <4>2. Known(R, i, v)
        BY ONLY <3>4, <4>1 DEF Known
      <4>3. R.streams[i].owner = u
        BY ONLY <1>16, <3>1, <3>2, <4>1, <4>2
      <4> QED
        BY ONLY <1>13, <1>14, <2>1, <3>3, <3>4, <4>3 DEF Owners, Present
    <3>5. CASE i \in DOMAIN R.subs
      <4>1. PICK v : v = [owner |-> R.subs[i].owner, from |-> R.subs[i].from]
        OBVIOUS
      <4>2. Known(R, i, v)
        BY ONLY <3>5, <4>1 DEF Known
      <4>3. R.subs[i].owner = u
        BY ONLY <1>16, <3>1, <3>2, <4>1, <4>2
      <4> QED
        BY ONLY <1>13, <1>14, <2>1, <3>3, <3>5, <4>3 DEF Owners, Present
    <3> QED
      BY ONLY <2>5, <3>4, <3>5 DEF Listed
  <2> QED
    BY ONLY <2>4, <2>5
<1>17. ASSUME NEW t \in DOMAIN R.trans, R.trans[t].owner = u, t \in nodes.held
       PROVE  \E g \in R.leaving : t \in g.trans
  <2>1. u \notin R.users
    BY ONLY <1>8, <1>9, <1>17 DEF TransOf
  <2>2. t \in Ids /\ t \notin bound.sessions
    BY <1>6, <1>17, KeyFacts DEF Core, Good, KindsApart
  <2>3. TransHeld(R, nodes, t)
    BY ONLY <1>11, <2>2 DEF Whole
  <2> QED
    BY ONLY <1>17, <2>1, <2>2, <2>3 DEF TransHeld
<1>18. Sound(Q, nodes)
  BY ONLY <1>3, <1>6, <1>8, <1>11, <1>12, <1>13, <1>14, <1>16, <1>17, SoundRemoved
<1> QED
  BY ONLY <1>4, <1>5, <1>18

(* Calls to nodes are made and answered: those that end stay.              *)
Swaps(R, Q) ==
  /\ \A e \in Q.calls : e \in R.calls \/ e.call \in {"node", "initiate"}
  /\ \A e \in R.calls : e \in Q.calls \/ e.call \in {"node", "initiate"}

LEMMA SwapCalls ==
  ASSUME NEW R, NEW Q, Swaps(R, Q), NEW i
  PROVE  /\ Has(Q, i, "subscribe") <=> Has(R, i, "subscribe")
         /\ Recycling(Q, i, "session") <=> Recycling(R, i, "session")
         /\ Recycling(Q, i, "late") <=> Recycling(R, i, "late")
         /\ Late(Q, i) <=> Late(R, i)
         /\ Ending(Q, i) <=> Ending(R, i)
         /\ Closing(Q, i) <=> Closing(R, i)
<1>1. /\ Has(Q, i, "subscribe") <=> Has(R, i, "subscribe")
      /\ \A w : Recycling(Q, i, w) <=> Recycling(R, i, w)
      /\ \A ws : Ended(Q, i, ws) <=> Ended(R, i, ws)
  BY DEF Swaps, Has, Recycling, Ended
<1> QED
  BY ONLY <1>1 DEF Late, Ending, Closing

(* An operation of who is still there has a node for its transport.        *)
LEMMA SoundOpNode ==
  ASSUME Core(conf, nodes), Sound(conf, nodes), NEW c \in conf.calls, OpNode(c), conf'.mishaps = {}
  PROVE  Sound(conf', nodes')
<1>1. PICK i, spec : i = c.id /\ spec = c.spec
  OBVIOUS
<1>2. PICK D : D = Done(c)
  OBVIOUS
<1>3. PICK R : R = IF spec.owner \in conf.users THEN D ELSE Note(D, "late_node")
  OBVIOUS
<1>4. PICK T : T = [R EXCEPT !.trans = Put(@, i, [owner |-> spec.owner, ready |-> FALSE])]
  OBVIOUS
<1>5. PICK M : M = Holding(nodes, i)
  OBVIOUS
<1>6. PICK Q : Q = conf'
  OBVIOUS
<1>7. /\ c.call = "node" /\ i \notin bound.sessions
      /\ Q = NewOp(T, i, i, spec) /\ nodes' = M
  BY ONLY <1>1, <1>2, <1>3, <1>4, <1>5, <1>6, OpNode(c) DEF OpNode, Holding
<1>8. Answered(conf, D, c) /\ Core(D, nodes) /\ NodeAnswered(D, i, spec)
  BY ONLY <1>1, <1>2, <1>7, Core(conf, nodes), c \in conf.calls, NodeAnsweredFacts
<1>9. /\ D.streams = conf.streams /\ D.subs = conf.subs /\ D.users = conf.users /\ D.trans = conf.trans
      /\ D.leaving = conf.leaving /\ D.ops = conf.ops /\ D.sessions = conf.sessions
      /\ D.calls = conf.calls \ {c} /\ D.mishaps = conf.mishaps
  BY ONLY <1>8 DEF Answered, Wanes, ListsStill
<1>10. Core(R, nodes) /\ NodeAnswered(R, i, spec)
  <2>1. "late_node" \in Mishaps /\ D \in ConfType
    BY <1>8 DEF Mishaps, Core, Good
  <2> QED
    BY ONLY <1>3, <1>8, <2>1, CoreNote, NoteStill
<1>11. /\ Fits(R, i, spec) /\ Unasked(R, i) /\ i \in R.used /\ i \in Ids
       /\ i \notin DOMAIN R.ops /\ i \notin DOMAIN R.trans /\ i \notin nodes.held
  BY ONLY <1>10 DEF NodeAnswered
<1>12. spec.owner \in R.met /\ ~Has(R, i, "node")
  BY ONLY <1>7, <1>11 DEF Fits, Unasked, Has
<1>13. PICK u : u = spec.owner
  OBVIOUS
<1>14. T = WithTrans(R, i, u) /\ u \in R.met
  BY ONLY <1>4, <1>12, <1>13 DEF WithTrans
<1>15. Core(T, M)
  BY ONLY <1>5, <1>7, <1>10, <1>11, <1>12, <1>14, CoreTrans
<1>16. T \in ConfType /\ R \in ConfType
  BY ONLY <1>10, <1>15 DEF Core, Good
<1>17. NewlyOn(T, Q, i, i, spec)
  BY ONLY <1>7, <1>16, NewOpFacts
<1>18. /\ Q.streams = T.streams /\ Q.subs = T.subs /\ Q.users = T.users /\ Q.trans = T.trans /\ Q.leaving = T.leaving
       /\ Q.sessions = T.sessions /\ Q.mishaps = T.mishaps
       /\ \A d : d \in DOMAIN Q.ops <=> d \in DOMAIN T.ops \/ d = i
       /\ \A d \in DOMAIN T.ops : d # i => Q.ops[d] = T.ops[d]
       /\ ~Q.ops[i].done /\ Q.ops[i].trans = i
  BY ONLY <1>17 DEF NewlyOn
<1>19. PICK e : e.call = "initiate" /\ e.id = i /\ ~e.served /\ Q.calls = T.calls \cup {e}
  BY ONLY <1>17 DEF NewlyOn
<1>20. PICK X : X = Put(R.trans, i, [owner |-> u, ready |-> FALSE])
  OBVIOUS
<1>21. /\ T.streams = R.streams /\ T.subs = R.subs /\ T.users = R.users /\ T.trans = X /\ T.leaving = R.leaving
       /\ T.sessions = R.sessions /\ T.mishaps = R.mishaps /\ T.ops = R.ops /\ T.calls = R.calls
  BY ONLY <1>14, <1>16, <1>20 DEF WithTrans, ConfType
<1>22. /\ \A t : t \in DOMAIN X <=> t \in DOMAIN R.trans \/ t = i
       /\ X[i].owner = u
       /\ \A t \in DOMAIN R.trans : t # i => X[t] = R.trans[t]
  BY ONLY <1>20 DEF Put
<1>23. u \in conf.users /\ R = D
  <2>1. ASSUME spec.owner \notin conf.users
        PROVE  FALSE
    <3>1. R = Note(D, "late_node") /\ "late_node" \in Mishaps /\ D \in ConfType
      BY <1>3, <1>8, <2>1 DEF Mishaps, Core, Good
    <3>2. "late_node" \in R.mishaps
      BY ONLY <3>1, NoteFacts
    <3> QED
      BY ONLY <1>6, <1>18, <1>21, <3>2, conf'.mishaps = {}
  <2> QED
    BY ONLY <1>3, <1>13, <2>1
<1>24. /\ Q.streams = conf.streams /\ Q.subs = conf.subs /\ Q.users = conf.users /\ Q.trans = X
       /\ Q.leaving = conf.leaving /\ Q.sessions = conf.sessions /\ Q.calls = (conf.calls \ {c}) \cup {e}
       /\ \A d : d \in DOMAIN Q.ops <=> d \in DOMAIN conf.ops \/ d = i
       /\ \A d \in DOMAIN conf.ops : d # i => Q.ops[d] = conf.ops[d]
       /\ \A t : t \in DOMAIN X <=> t \in DOMAIN conf.trans \/ t = i
       /\ \A t \in DOMAIN conf.trans : t # i => X[t] = conf.trans[t]
       /\ i \notin DOMAIN conf.trans /\ i \notin DOMAIN conf.ops
  BY ONLY <1>9, <1>11, <1>18, <1>19, <1>21, <1>22, <1>23
<1>25. \A d \in DOMAIN conf.ops : conf.ops[d].trans \in DOMAIN conf.trans
  BY DEF Core, KindsApart
<1>26. Apart(conf, Q, {i})
  BY ONLY <1>1, <1>19, <1>24, <1>25 DEF Apart
<1>27. M.sessions = nodes.sessions /\ M.trans = nodes.trans /\ M.held = nodes.held \cup {i}
  <2>1. NodesType(conf, nodes)
    BY DEF Core
  <2> QED
    BY ONLY <1>5, <2>1 DEF NodesType, Holding
<1>28. NodesApart(conf, nodes, M, {i})
  BY ONLY <1>27 DEF NodesApart
<1>29. Unserved(Q, i) /\ Has(Q, i, "initiate")
  BY ONLY <1>19 DEF Unserved, Has
<1>30. Listed(Q, i)
  <2>1. Carried(conf, i)
    BY <1>11 DEF Sound, Whole
  <2>2. Listed(conf, i)
    BY ONLY <1>1, <1>7, <1>13, <1>23, <2>1, c \in conf.calls DEF Carried
  <2> QED
    BY ONLY <1>24, <2>2 DEF Listed
<1>31. Carried(Q, i) /\ Sourced(Q, i)
  BY ONLY <1>7, <1>24, <1>29, <1>30 DEF Carried, Sourced, Awaited
<1>32. Followed(Q, i)
  <2>1. i \notin DOMAIN conf.sessions
    BY <1>7 DEF Core, KindsApart
  <2> QED
    BY ONLY <1>18, <1>24, <2>1 DEF Followed
<1>33. OnNode(Q, M, i)
  BY ONLY <1>18, <1>27, <1>29 DEF OnNode
<1>34. TransHeld(Q, M, i)
  BY ONLY <1>18, <1>22, <1>23, <1>24, <1>27, <1>29 DEF TransHeld
<1>35. SessionHeld(Q, M, i)
  BY ONLY <1>7 DEF SessionHeld
<1>36. \A j \in Ids : Whole(Q, M, j)
  <2>1. Whole(Q, M, i)
    BY ONLY <1>31, <1>32, <1>33, <1>34, <1>35 DEF Whole
  <2>2. ASSUME NEW j \in Ids, j \notin {i}
        PROVE  Whole(Q, M, j)
    <3>1. Whole(conf, nodes, j)
      BY DEF Sound
    <3> QED
      BY ONLY <1>26, <1>28, <2>2, <3>1, ApartWhole
  <2> QED
    BY ONLY <2>1, <2>2
<1>37. Left(Q, Q.users)
  <2>1. Left(conf, conf.users)
    BY DEF Sound
  <2> QED
    BY ONLY <1>18, <1>24, <2>1 DEF Left, OpsOn
<1> QED
  BY ONLY <1>6, <1>7, <1>36, <1>37 DEF Sound

(* It is enough to look at the one that changes.                           *)
LEMMA SoundOne ==
  ASSUME NEW R, NEW N, Sound(R, N), NEW Q, NEW M, NEW i, Apart(R, Q, {i}), NodesApart(R, N, M, {i}),
         Whole(Q, M, i), Left(Q, Q.users)
  PROVE  Sound(Q, M)
<1>1. ASSUME NEW j \in Ids, j \notin {i}
      PROVE  Whole(Q, M, j)
  <2>1. Whole(R, N, j)
    BY DEF Sound
  <2> QED
    BY ONLY <1>1, <2>1, Apart(R, Q, {i}), NodesApart(R, N, M, {i}), ApartWhole
<1> QED
  BY ONLY <1>1, Whole(Q, M, i), Left(Q, Q.users) DEF Sound

(* ... and at the one that fades at the end.                               *)
LEMMA SoundFaded ==
  ASSUME NEW R, NEW N, Sound(R, N), NEW T, NEW M, NEW i, Apart(R, T, {i}), NodesApart(R, N, M, {i}),
         Core(T, M), Left(T, T.users), OnNode(T, M, i), TransHeld(T, M, i), SessionHeld(T, M, i),
         NEW Q, Fades(T, Q, {i}), Unthrown(Q), Carried(Q, i), Sourced(Q, i), Followed(Q, i)
  PROVE  Sound(Q, M)
<1>1. ASSUME NEW j \in Ids, j \notin {i}
      PROVE  Whole(Q, M, j)
  <2>1. Whole(R, N, j)
    BY DEF Sound
  <2>2. Whole(T, M, j)
    BY ONLY <1>1, <2>1, Apart(R, T, {i}), NodesApart(R, N, M, {i}), ApartWhole
  <2> QED
    BY ONLY <1>1, <2>2, Core(T, M), Fades(T, Q, {i}), Unthrown(Q), FadeWhole
<1>2. OnNode(Q, M, i) /\ TransHeld(Q, M, i) /\ SessionHeld(Q, M, i)
  BY ONLY Core(T, M), Fades(T, Q, {i}), OnNode(T, M, i), TransHeld(T, M, i), SessionHeld(T, M, i), FadeHeld
<1>3. Whole(Q, M, i)
  BY ONLY <1>2, Carried(Q, i), Sourced(Q, i), Followed(Q, i) DEF Whole
<1>4. Q.users = T.users
  BY DEF Fades, Still
<1>5. Left(Q, Q.users)
  BY ONLY <1>4, Fades(T, Q, {i}), Left(T, T.users), FadeLeft
<1> QED
  BY ONLY <1>1, <1>3, <1>5 DEF Sound

(* What is begun is on its node.                                           *)
LEMMA SoundServe ==
  ASSUME Core(conf, nodes), Sound(conf, nodes), NEW c \in conf.calls, Serve(c)
  PROVE  Sound(conf', nodes')
<1>1. PICK i, spec : i = c.id /\ spec = c.spec
  OBVIOUS
<1>2. PICK D : D = Done(c)
  OBVIOUS
<1>3. PICK d : d = [c EXCEPT !.served = TRUE]
  OBVIOUS
<1>4. PICK M, Q : M = nodes' /\ Q = conf'
  OBVIOUS
<1>5. /\ c.call = "initiate" /\ ~c.served /\ Q = Call(D, d)
      /\ M = IF i \in bound.sessions THEN [nodes EXCEPT !.sessions = @ \cup {i}]
             ELSE [nodes EXCEPT !.trans = @ \cup {conf.ops[i].trans}]
  BY ONLY <1>1, <1>2, <1>3, <1>4, Serve(c) DEF Serve
<1>6. Answered(conf, D, c) /\ Core(D, nodes) /\ InitiateAnswered(D, i, spec)
  BY ONLY <1>1, <1>2, <1>5, Core(conf, nodes), c \in conf.calls, InitiateAnsweredFacts
<1>7. Unasked(D, i) /\ i \in Ids
  BY ONLY <1>6 DEF InitiateAnswered
<1>8. c \in InitiateCalls
  BY <1>5, ConfFacts, CallTypes DEF Core, Good
<1>9. d \in Calls /\ d.call = "initiate" /\ d.served /\ d.id = i
  BY ONLY <1>1, <1>3, <1>8 DEF Calls, InitiateCalls
<1>10. D \in ConfType /\ KindsApart(conf) /\ CallsApart(conf, nodes) /\ NodesType(conf, nodes)
  BY ONLY <1>6, Core(conf, nodes) DEF Core, Good
<1>11. Made(D, Q, d)
  BY ONLY <1>5, <1>9, <1>10, MadeFacts
<1>12. /\ D.streams = conf.streams /\ D.subs = conf.subs /\ D.users = conf.users /\ D.trans = conf.trans
       /\ D.leaving = conf.leaving /\ D.ops = conf.ops /\ D.sessions = conf.sessions
       /\ D.calls = conf.calls \ {c}
  BY ONLY <1>6 DEF Answered, Wanes, ListsStill
<1>13. /\ Q.streams = conf.streams /\ Q.subs = conf.subs /\ Q.users = conf.users /\ Q.trans = conf.trans
       /\ Q.leaving = conf.leaving /\ Q.ops = conf.ops /\ Q.sessions = conf.sessions
       /\ Q.calls = (conf.calls \ {c}) \cup {d}
  BY ONLY <1>11, <1>12 DEF Made, Still, ListsStill
<1>14. Apart(conf, Q, {i})
  BY ONLY <1>1, <1>9, <1>13 DEF Apart
<1>15. Left(Q, Q.users)
  BY ONLY <1>13, Sound(conf, nodes) DEF Sound, Left, OpsOn
<1>16. Whole(conf, nodes, i)
  BY <1>7 DEF Sound
<1>17. Swaps(conf, Q)
  BY ONLY <1>5, <1>9, <1>13 DEF Swaps
<1>18. /\ Has(Q, i, "node") <=> Has(conf, i, "node")
       /\ Has(Q, i, "initiate") /\ Unserved(conf, i) /\ ~Unserved(Q, i)
  BY ONLY <1>1, <1>5, <1>7, <1>9, <1>12, <1>13, c \in conf.calls DEF Has, Unserved, Unasked
<1>19. /\ Has(Q, i, "subscribe") <=> Has(conf, i, "subscribe")
       /\ Recycling(Q, i, "session") <=> Recycling(conf, i, "session")
       /\ Recycling(Q, i, "late") <=> Recycling(conf, i, "late")
       /\ Late(Q, i) <=> Late(conf, i)
       /\ Ending(Q, i) <=> Ending(conf, i)
       /\ Closing(Q, i) <=> Closing(conf, i)
  BY ONLY <1>17, SwapCalls
<1>20. Listed(Q, i) <=> Listed(conf, i)
  BY ONLY <1>13 DEF Listed
<1>21. Carried(Q, i)
  <2>1. \A e \in Q.calls : e.call = "node" => e \in conf.calls
    BY ONLY <1>9, <1>13
  <2>2. Carried(conf, i)
    BY ONLY <1>16 DEF Whole
  <2> QED
    BY ONLY <1>13, <1>18, <1>19, <1>20, <2>1, <2>2 DEF Carried
<1>22. Sourced(Q, i)
  <2>1. Sourced(conf, i)
    BY ONLY <1>16 DEF Whole
  <2> QED
    BY ONLY <1>13, <1>18, <1>19, <2>1 DEF Sourced, Awaited
<1>23. Followed(Q, i)
  <2>1. Followed(conf, i)
    BY ONLY <1>16 DEF Whole
  <2>2. Up(Q, i) <=> Up(conf, i)
    BY ONLY <1>13 DEF Up
  <2> QED
    BY ONLY <1>13, <1>19, <2>1, <2>2 DEF Followed
<1>24. CASE i \in bound.sessions
  <2>1. M.sessions = nodes.sessions \cup {i} /\ M.trans = nodes.trans /\ M.held = nodes.held
    BY ONLY <1>5, <1>10, <1>24 DEF NodesType
  <2>2. NodesApart(conf, nodes, M, {i})
    BY ONLY <2>1 DEF NodesApart
  <2>3. i \notin DOMAIN conf.ops /\ i \notin DOMAIN conf.trans
    BY ONLY <1>10, <1>24 DEF KindsApart
  <2>4. OnNode(Q, M, i)
    BY ONLY <1>13, <2>3 DEF OnNode
  <2>5. TransHeld(Q, M, i)
    <3>1. TransHeld(conf, nodes, i)
      BY ONLY <1>16 DEF Whole
    <3> QED
      BY ONLY <1>13, <1>24, <2>1, <3>1 DEF TransHeld
  <2>6. SessionHeld(Q, M, i)
    <3>1. SessionHeld(conf, nodes, i)
      BY ONLY <1>16 DEF Whole
    <3>2. ~Recycling(conf, i, "session") /\ ~Recycling(conf, i, "late")
      BY ONLY <1>10, <1>18 DEF CallsApart, Recycling
    <3>3. i \in DOMAIN conf.sessions => conf.sessions[i].state = "initialized"
      BY ONLY <1>1, <1>5, <1>10, c \in conf.calls DEF CallsApart, NotBegun
    <3> QED
      BY ONLY <1>13, <1>18, <1>19, <1>24, <2>1, <3>1, <3>2, <3>3 DEF SessionHeld, Awaited
  <2>7. Whole(Q, M, i)
    BY ONLY <1>21, <1>22, <1>23, <2>4, <2>5, <2>6 DEF Whole
  <2>8. Sound(Q, M)
    BY ONLY <1>14, <1>15, <2>2, <2>7, Sound(conf, nodes), SoundOne
  <2> QED
    BY ONLY <1>4, <2>8
<1>25. CASE i \notin bound.sessions
  <2>1. PICK t : t = conf.ops[i].trans
    OBVIOUS
  <2>2. M.sessions = nodes.sessions /\ M.trans = nodes.trans \cup {t} /\ M.held = nodes.held
    <3>1. M = [nodes EXCEPT !.trans = @ \cup {t}]
      BY ONLY <1>5, <1>25, <2>1
    <3> QED
      BY ONLY <1>10, <3>1 DEF NodesType
  <2>3. i \in DOMAIN conf.ops
    BY ONLY <1>1, <1>5, <1>10, <1>25, c \in conf.calls DEF CallsApart
  <2>4. t \in nodes.held
    BY ONLY <1>16, <2>1, <2>3 DEF Whole, OnNode
  <2>5. NodesApart(conf, nodes, M, {i})
    BY ONLY <2>2, <2>4 DEF NodesApart
  <2>6. OnNode(Q, M, i)
    BY ONLY <1>13, <2>1, <2>2, <2>4 DEF OnNode
  <2>7. TransHeld(Q, M, i)
    <3>1. TransHeld(conf, nodes, i)
      BY ONLY <1>16 DEF Whole
    <3> QED
      BY ONLY <1>13, <1>25, <2>1, <2>2, <2>4, <3>1 DEF TransHeld
  <2>8. SessionHeld(Q, M, i)
    BY ONLY <1>25 DEF SessionHeld
  <2>9. Whole(Q, M, i)
    BY ONLY <1>21, <1>22, <1>23, <2>6, <2>7, <2>8 DEF Whole
  <2>10. Sound(Q, M)
    BY ONLY <1>14, <1>15, <2>5, <2>9, Sound(conf, nodes), SoundOne
  <2> QED
    BY ONLY <1>4, <2>10
<1> QED
  BY ONLY <1>24, <1>25

(* The node of a session is found: it is asked to begin, or given back.    *)
LEMMA SoundSessionNode ==
  ASSUME Core(conf, nodes), Sound(conf, nodes), NEW c \in conf.calls, SessionNode(c), Unthrown(conf')
  PROVE  Sound(conf', nodes')
<1>1. PICK i, spec : i = c.id /\ spec = c.spec
  OBVIOUS
<1>2. PICK D : D = Done(c)
  OBVIOUS
<1>3. PICK M : M = Holding(nodes, i)
  OBVIOUS
<1>4. c.call = "node" /\ i \in bound.sessions /\ nodes' = M
  BY ONLY <1>1, <1>3, SessionNode(c) DEF SessionNode, Holding
<1>5. Answered(conf, D, c) /\ Core(D, nodes) /\ NodeAnswered(D, i, spec)
  BY ONLY <1>1, <1>2, <1>4, Core(conf, nodes), c \in conf.calls, NodeAnsweredFacts
<1>6. /\ Unasked(D, i) /\ Unclosed(D, i) /\ i \in D.used /\ i \in Ids /\ NotBegun(D, nodes, i)
      /\ i \notin DOMAIN D.ops /\ i \notin DOMAIN D.trans
  BY ONLY <1>5 DEF NodeAnswered
<1>7. Core(D, M) /\ M.sessions = nodes.sessions /\ M.trans = nodes.trans /\ M.held = nodes.held \cup {i}
  BY ONLY <1>3, <1>5, <1>6, CoreHeld
<1>8. /\ D.streams = conf.streams /\ D.subs = conf.subs /\ D.users = conf.users /\ D.trans = conf.trans
      /\ D.leaving = conf.leaving /\ D.ops = conf.ops /\ D.sessions = conf.sessions
      /\ D.calls = conf.calls \ {c}
  BY ONLY <1>5 DEF Answered, Wanes, ListsStill
<1>9. D \in ConfType /\ Whole(conf, nodes, i) /\ nodes.trans \subseteq DOMAIN conf.trans
  BY <1>5, <1>6 DEF Core, Good, Sound, NodesType
<1>10. NodesApart(conf, nodes, M, {i})
  BY ONLY <1>7 DEF NodesApart
<1>11. CASE i \in DOMAIN D.sessions
  <2>1. PICK d : d = [call |-> "initiate", id |-> i, spec |-> spec, served |-> FALSE]
    OBVIOUS
  <2>2. PICK Q : Q = Call(D, d)
    OBVIOUS
  <2>3. conf' = Q
    BY ONLY <1>1, <1>2, <1>8, <1>11, <2>1, <2>2, SessionNode(c) DEF SessionNode
  <2>4. d \in Calls
    <3>1. spec \in Specs
      BY <1>1, <1>4, ConfFacts, CallTypes DEF Core, Good
    <3> QED
      BY ONLY <1>6, <2>1, <3>1 DEF Calls, InitiateCalls
  <2>5. Made(D, Q, d) /\ d.call = "initiate" /\ d.id = i /\ ~d.served
    BY ONLY <1>9, <2>1, <2>2, <2>4, MadeFacts
  <2>6. /\ Q.streams = conf.streams /\ Q.subs = conf.subs /\ Q.users = conf.users /\ Q.trans = conf.trans
        /\ Q.leaving = conf.leaving /\ Q.ops = conf.ops /\ Q.sessions = conf.sessions
        /\ Q.calls = (conf.calls \ {c}) \cup {d}
    BY ONLY <1>8, <2>5 DEF Made, Still, ListsStill
  <2>7. Apart(conf, Q, {i})
    BY ONLY <1>1, <2>5, <2>6 DEF Apart
  <2>8. Left(Q, Q.users)
    BY ONLY <2>6, Sound(conf, nodes) DEF Sound, Left, OpsOn
  <2>9. Has(Q, i, "initiate") /\ Unserved(Q, i)
    BY ONLY <2>5, <2>6 DEF Has, Unserved
  <2>10. Swaps(conf, Q)
    BY ONLY <1>4, <2>5, <2>6 DEF Swaps
  <2>11. /\ Recycling(Q, i, "session") <=> Recycling(conf, i, "session")
         /\ Recycling(Q, i, "late") <=> Recycling(conf, i, "late")
         /\ Late(Q, i) <=> Late(conf, i)
         /\ Closing(Q, i) <=> Closing(conf, i)
    BY ONLY <2>10, SwapCalls
  <2>12. Listed(Q, i) <=> Listed(conf, i)
    BY ONLY <2>6 DEF Listed
  <2>13. /\ i \notin nodes.sessions /\ conf.sessions[i].state = "initialized" /\ ~conf.sessions[i].ready
    BY ONLY <1>6, <1>8, <1>11 DEF NotBegun
  <2>14. Carried(Q, i) /\ Sourced(Q, i)
    BY ONLY <1>4, <1>9, <2>6, <2>11, <2>12 DEF Whole, Carried, Sourced
  <2>15. Followed(Q, i)
    BY ONLY <1>6, <1>8, <2>6, <2>13 DEF Followed
  <2>16. OnNode(Q, M, i) /\ TransHeld(Q, M, i)
    BY ONLY <1>4, <1>6, <1>7, <1>8, <1>9, <2>6 DEF OnNode, TransHeld
  <2>17. SessionHeld(Q, M, i)
    BY ONLY <1>4, <1>7, <1>8, <1>9, <1>11, <2>6, <2>9, <2>11, <2>13 DEF Whole, SessionHeld, Awaited
  <2>18. Whole(Q, M, i)
    BY ONLY <2>14, <2>15, <2>16, <2>17 DEF Whole
  <2>19. Sound(Q, M)
    BY ONLY <1>10, <2>7, <2>8, <2>18, Sound(conf, nodes), SoundOne
  <2> QED
    BY ONLY <1>4, <2>3, <2>19
<1>12. CASE i \notin DOMAIN D.sessions
  <2>1. PICK d : d = [call |-> "recycle", id |-> i, why |-> "late"]
    OBVIOUS
  <2>2. PICK T : T = Call(D, d)
    OBVIOUS
  <2>3. PICK Q : Q = OnAborted(T, i)
    OBVIOUS
  <2>4. conf' = Q
    BY ONLY <1>1, <1>2, <1>8, <1>12, <2>1, <2>2, <2>3, SessionNode(c) DEF SessionNode
  <2>5. d \in Calls /\ d.id = i /\ d.call = "recycle" /\ d.why = "late"
    BY ONLY <1>6, <2>1 DEF Calls, RecycleCalls
  <2>6. ~Has(D, i, "node") /\ ~Unserved(D, i)
    BY ONLY <1>6 DEF Unasked, Has, Unserved
  <2>7. Core(T, M) /\ Made(D, T, d)
    BY ONLY <1>4, <1>6, <1>7, <2>2, <2>5, <2>6, CoreEndCall
  <2>8. /\ T.streams = conf.streams /\ T.subs = conf.subs /\ T.users = conf.users /\ T.trans = conf.trans
        /\ T.leaving = conf.leaving /\ T.ops = conf.ops /\ T.sessions = conf.sessions
        /\ T.calls = (conf.calls \ {c}) \cup {d}
    BY ONLY <1>8, <2>7 DEF Made, Still, ListsStill
  <2>9. Apart(conf, T, {i})
    BY ONLY <1>1, <2>5, <2>8 DEF Apart
  <2>10. Left(T, T.users)
    BY ONLY <2>8, Sound(conf, nodes) DEF Sound, Left, OpsOn
  <2>11. Recycling(T, i, "late")
    BY ONLY <2>5, <2>8 DEF Recycling
  <2>12. OnNode(T, M, i) /\ TransHeld(T, M, i)
    BY ONLY <1>4, <1>6, <1>7, <1>8, <1>9, <2>8 DEF OnNode, TransHeld
  <2>13. SessionHeld(T, M, i)
    BY ONLY <1>6, <1>7, <1>8, <1>12, <2>8, <2>11 DEF SessionHeld, NotBegun
  <2>14. Fades(T, Q, {i}) /\ ~Listed(Q, i)
    BY ONLY <1>6, <2>3, <2>4, <2>7, Unthrown(conf'), OnAbortedFacts DEF Core
  <2>15. i \notin DOMAIN Q.sessions /\ i \notin DOMAIN Q.ops
    BY ONLY <1>6, <1>8, <1>12, <2>8, <2>14 DEF Fades, Still, Part
  <2>16. Carried(Q, i) /\ Sourced(Q, i) /\ Followed(Q, i)
    BY ONLY <1>4, <2>14, <2>15 DEF Carried, Sourced, Followed, Listed
  <2>17. Sound(Q, M)
    BY ONLY <1>10, <2>4, <2>7, <2>9, <2>10, <2>12, <2>13, <2>14, <2>16, Sound(conf, nodes), Unthrown(conf'), SoundFaded
  <2> QED
    BY ONLY <1>4, <2>4, <2>17
<1> QED
  BY ONLY <1>11, <1>12

(* An operation was begun.                                                 *)
LEMMA SoundOpInitiated ==
  ASSUME Core(conf, nodes), Sound(conf, nodes), NEW c \in conf.calls, OpInitiated(c), conf'.mishaps = {}
  PROVE  Sound(conf', nodes')
<1>1. PICK i, spec : i = c.id /\ spec = c.spec
  OBVIOUS
<1>2. PICK D : D = Done(c)
  OBVIOUS
<1>3. c.call = "initiate" /\ c.served /\ i \notin bound.sessions /\ nodes' = nodes
  BY ONLY <1>1, OpInitiated(c) DEF OpInitiated
<1>4. Answered(conf, D, c) /\ Core(D, nodes) /\ InitiateAnswered(D, i, spec)
  BY ONLY <1>1, <1>2, <1>3, Core(conf, nodes), c \in conf.calls, InitiateAnsweredFacts
<1>5. Unasked(D, i) /\ i \in Ids /\ i \in DOMAIN D.ops
  BY ONLY <1>3, <1>4 DEF InitiateAnswered
<1>6. /\ D.streams = conf.streams /\ D.subs = conf.subs /\ D.users = conf.users /\ D.trans = conf.trans
      /\ D.leaving = conf.leaving /\ D.ops = conf.ops /\ D.sessions = conf.sessions
      /\ D.calls = conf.calls \ {c} /\ D.mishaps = conf.mishaps
  BY ONLY <1>4 DEF Answered, Wanes, ListsStill
<1>7. Whole(conf, nodes, i)
  BY ONLY <1>5, Sound(conf, nodes) DEF Sound
<1>8. ~Unserved(conf, i)
  BY ONLY <1>1, <1>3, <1>5, <1>6 DEF Unserved, Unasked
<1>9. Swaps(conf, D)
  BY ONLY <1>3, <1>6 DEF Swaps
<1>10. /\ Has(D, i, "subscribe") <=> Has(conf, i, "subscribe")
       /\ Ending(D, i) <=> Ending(conf, i)
  BY ONLY <1>9, SwapCalls
<1>11. Apart(conf, D, {i}) /\ Left(D, D.users) /\ NodesApart(conf, nodes, nodes, {i})
  BY ONLY <1>1, <1>4, <1>6, NodesSame, AnsweredApart, Sound(conf, nodes) DEF Sound
<1>12. i \notin DOMAIN conf.sessions
  BY ONLY <1>3, Core(conf, nodes) DEF Core, KindsApart
<1>13. OnNode(D, nodes, i) /\ TransHeld(D, nodes, i) /\ SessionHeld(D, nodes, i)
  <2>1. OnNode(D, nodes, i)
    BY ONLY <1>6, <1>7, <1>8 DEF Whole, OnNode
  <2>2. TransHeld(D, nodes, i)
    BY ONLY <1>6, <1>7, <1>8 DEF Whole, TransHeld
  <2> QED
    BY ONLY <1>3, <2>1, <2>2 DEF SessionHeld
<1>14. ~Has(D, i, "node")
  BY ONLY <1>5 DEF Unasked, Has
<1>15. CASE SourceReleased(D, c)
  <2>1. PICK T : T = TerminateMisnamed(D, i)
    OBVIOUS
  <2>2. PICK Q : Q = RemoveSubs(T, {i})
    OBVIOUS
  <2>3. conf' = Q
    BY ONLY <1>1, <1>2, <1>6, <1>15, <2>1, <2>2, OpInitiated(c) DEF OpInitiated, SourceReleased
  <2>4. Core(T, nodes)
    BY ONLY <1>4, <2>1, CoreMisnamed
  <2>5. Q.mishaps = T.mishaps /\ Fades(T, Q, {i})
    BY ONLY <2>2, <2>4, RemoveSubsFacts, RemoveSubsFades DEF Core
  <2>6. Good(D)
    BY ONLY <1>4 DEF Core
  <2>7. /\ Fades(D, T, {})
        /\ "not_terminated" \notin T.mishaps /\ i \in DOMAIN D.sessions \cup DOMAIN D.ops =>
             \E e \in D.calls : e.call \in {"terminate", "recycle"} /\ e.id = i
    BY ONLY <2>1, <2>6, TerminateMisnamedFacts
  <2>8. Ending(D, i)
    <3>1. PICK e \in D.calls : e.call \in {"terminate", "recycle"} /\ e.id = i
      BY ONLY <1>5, <2>3, <2>5, <2>7, conf'.mishaps = {}
    <3>2. CallsApart(D, nodes)
      BY ONLY <1>4 DEF Core
    <3>3. e.call = "terminate" /\ e.why \in Operation
      BY ONLY <1>3, <3>1, <3>2 DEF CallsApart
    <3> QED
      BY ONLY <3>1, <3>3 DEF Ending, Ended
  <2>9. Fades(D, Q, {i})
    <3>1. Fades(D, Q, {} \cup {i})
      BY ONLY <2>5, <2>7, FadesTrans
    <3> QED
      BY ONLY <3>1, {} \cup {i} = {i}
  <2>10. Ending(Q, i) /\ ~Has(Q, i, "node")
    BY ONLY <1>14, <2>8, <2>9, FadeCalls DEF Ending
  <2>11. i \in DOMAIN Q.ops /\ i \notin DOMAIN Q.sessions
    BY ONLY <1>5, <1>6, <1>12, <2>9 DEF Fades, Still, Part
  <2>12. Carried(Q, i) /\ Sourced(Q, i) /\ Followed(Q, i)
    BY ONLY <1>3, <2>10, <2>11 DEF Carried, Sourced, Followed, Has
  <2>13. Unthrown(Q)
    BY ONLY <2>3, conf'.mishaps = {} DEF Unthrown
  <2>14. Sound(Q, nodes)
    BY ONLY <1>4, <1>11, <1>13, <2>9, <2>12, <2>13, Sound(conf, nodes), SoundFaded
  <2> QED
    BY ONLY <1>3, <2>3, <2>14
<1>16. CASE ~SourceReleased(D, c)
  <2>1. conf' = D
    BY ONLY <1>2, <1>6, <1>16, OpInitiated(c) DEF OpInitiated, SourceReleased
  <2>2. Carried(D, i)
    <3>1. Listed(D, i) <=> Listed(conf, i)
      BY ONLY <1>6 DEF Listed
    <3> QED
      BY ONLY <1>3, <1>5, <1>6, <1>7, <1>10, <1>14, <3>1 DEF Whole, Carried, Has
  <2>3. Sourced(D, i)
    <3>1. ASSUME i \in DOMAIN D.subs
          PROVE  D.subs[i].from \in DOMAIN D.streams
      <4>1. PICK v : v = [owner |-> D.subs[i].owner, from |-> D.subs[i].from]
        OBVIOUS
      <4>2. Known(conf, i, v)
        BY ONLY <1>6, <3>1, <4>1 DEF Known
      <4>3. Known(conf, i, spec)
        BY ONLY <1>1, <1>3, c \in conf.calls DEF Known
      <4>4. v = spec
        BY ONLY <4>2, <4>3, Core(conf, nodes) DEF Core, SpecsKnown
      <4>5. i \in Subs
        BY <1>4, <3>1, KeyFacts DEF Core, Good
      <4> QED
        BY ONLY <1>1, <1>16, <4>1, <4>4, <4>5 DEF SourceReleased
    <3> QED
      BY ONLY <3>1 DEF Sourced
  <2>4. Followed(D, i)
    <3>1. Up(D, i) <=> Up(conf, i)
      BY ONLY <1>6 DEF Up
    <3> QED
      BY ONLY <1>6, <1>7, <1>10, <1>12, <3>1 DEF Whole, Followed
  <2>5. Whole(D, nodes, i)
    BY ONLY <1>13, <2>2, <2>3, <2>4 DEF Whole
  <2>6. Sound(D, nodes)
    BY ONLY <1>11, <2>5, Sound(conf, nodes), SoundOne
  <2> QED
    BY ONLY <1>3, <2>1, <2>6
<1> QED
  BY ONLY <1>15, <1>16

(* The conference only ends what is on its way out already.                *)
LEMMA MisnamedClosing ==
  ASSUME NEW R, NEW N, Core(R, N), NEW i \in DOMAIN R.sessions, ~Late(R, i), ~Recycling(R, i, "late"),
         NEW T, T = TerminateMisnamed(R, i), "not_terminated" \notin T.mishaps
  PROVE  Closing(R, i)
<1>1. Good(R) /\ CallsApart(R, N) /\ i \in bound.sessions /\ R.calls \subseteq Calls
  BY ConfFacts DEF Core, KindsApart, Good
<1>2. PICK e \in R.calls : e.call \in {"terminate", "recycle"} /\ e.id = i
  BY ONLY <1>1, i \in DOMAIN R.sessions, T = TerminateMisnamed(R, i), "not_terminated" \notin T.mishaps, TerminateMisnamedFacts
<1>3. e \in Calls
  BY ONLY <1>1, <1>2
<1>4. CASE e.call = "terminate"
  <2>1. e.why \in {"asked", "left", "session", "late"} /\ e.why \notin Operation
    BY ONLY <1>1, <1>2, <1>3, <1>4, CallTypes DEF CallsApart
  <2>2. e.why = "session"
    BY ONLY <1>2, <1>4, <2>1, ~Late(R, i) DEF Late, Ended, Operation
  <2> QED
    BY ONLY <1>2, <1>4, <2>2 DEF Closing, Ended
<1>5. CASE e.call = "recycle"
  <2>1. e.why \in {"session", "late"}
    BY ONLY <1>3, <1>5, CallTypes
  <2>2. e.why = "session"
    BY ONLY <1>2, <1>5, <2>1, ~Recycling(R, i, "late") DEF Recycling
  <2> QED
    BY ONLY <1>2, <1>5, <2>2 DEF Closing, Recycling
<1> QED
  BY ONLY <1>2, <1>4, <1>5

(* The request of a session is over.                                       *)
LEMMA SoundPollOver ==
  ASSUME Core(conf, nodes), Sound(conf, nodes), NEW i \in Ids, PollOver(i), conf'.mishaps = {}
  PROVE  Sound(conf', nodes')
<1>1. PICK is : is = conf.polls \ {i}
  OBVIOUS
<1>2. PICK R : R = [conf EXCEPT !.polls = is]
  OBVIOUS
<1>3. PICK T : T = TerminateMisnamed(R, i)
  OBVIOUS
<1>4. nodes' = nodes /\ i \in conf.polls /\ (conf' = R \/ conf' = OnAborted(T, i))
  BY ONLY <1>1, <1>2, <1>3, PollOver(i) DEF PollOver
<1>5. is \subseteq Ids /\ is \subseteq bound.sessions /\ i \in bound.sessions
  <2>1. conf.polls \subseteq bound.sessions
    BY DEF Core, KindsApart
  <2>2. conf.polls \subseteq Ids
    BY ConfFacts DEF Core, Good
  <2> QED
    BY ONLY <1>1, <1>4, <2>1, <2>2
<1>6. /\ Core(R, nodes) /\ Wanes(conf, R) /\ R.ops = conf.ops /\ R.calls = conf.calls /\ R.sessions = conf.sessions
      /\ R.leaving = conf.leaving
  BY ONLY <1>2, <1>5, Core(conf, nodes), CorePolls
<1>7. /\ R.streams = conf.streams /\ R.subs = conf.subs /\ R.users = conf.users /\ R.trans = conf.trans
  BY ONLY <1>6 DEF Wanes, ListsStill
<1>8. Apart(conf, R, {i}) /\ NodesApart(conf, nodes, nodes, {i})
  BY ONLY <1>6, <1>7, NodesSame DEF Apart
<1>9. Whole(R, nodes, i)
  <2>1. Whole(conf, nodes, i) /\ NodesApart(conf, nodes, nodes, {})
    BY NodesSame DEF Sound
  <2>2. Apart(conf, R, {})
    BY ONLY <1>6, <1>7 DEF Apart
  <2> QED
    BY ONLY <2>1, <2>2, i \notin {}, ApartWhole
<1>10. Left(R, R.users)
  BY ONLY <1>6, <1>7, Sound(conf, nodes) DEF Sound, Left, OpsOn
<1>11. CASE conf' = R
  <2>1. Sound(R, nodes)
    BY ONLY <1>8, <1>9, <1>10, Sound(conf, nodes), SoundOne
  <2> QED
    BY ONLY <1>4, <1>11, <2>1
<1>12. CASE conf' = OnAborted(T, i)
  <2>1. PICK Q : Q = OnAborted(T, i)
    OBVIOUS
  <2>2. conf' = Q /\ Q.mishaps = {} /\ Unthrown(Q)
    BY ONLY <1>12, <2>1, conf'.mishaps = {} DEF Unthrown
  <2>3. Good(R)
    BY ONLY <1>6 DEF Core
  <2>4. Fades(R, T, {})
    BY ONLY <1>3, <2>3, TerminateMisnamedFacts
  <2>5. Good(T)
    BY ONLY <2>4 DEF Fades
  <2>6. Fades(T, Q, {i}) /\ ~Listed(Q, i)
    BY ONLY <2>1, <2>2, <2>5, i \in Ids, OnAbortedFacts
  <2>7. Fades(R, Q, {i})
    <3>1. Fades(R, Q, {} \cup {i})
      BY ONLY <2>4, <2>6, FadesTrans
    <3> QED
      BY ONLY <3>1, {} \cup {i} = {i}
  <2>8. "not_terminated" \notin T.mishaps
    BY ONLY <2>2, <2>6 DEF Fades
  <2>9. i \in DOMAIN R.sessions => Closing(R, i)
    <3>1. SessionHeld(R, nodes, i)
      BY ONLY <1>9 DEF Whole
    <3> QED
      BY ONLY <1>3, <1>5, <1>6, <2>8, <3>1, MisnamedClosing DEF SessionHeld
  <2>10. i \in DOMAIN Q.sessions => i \in DOMAIN R.sessions /\ Q.sessions[i] = R.sessions[i]
    BY ONLY <2>7 DEF Fades, Part
  <2>11. Closing(R, i) => Closing(Q, i)
    BY ONLY <2>7, FadeCalls
  <2>12. i \notin DOMAIN Q.ops
    BY ONLY <1>5, <1>6, <2>7 DEF Fades, Still, Core, KindsApart
  <2>13. Carried(Q, i) /\ Sourced(Q, i)
    BY ONLY <1>5, <2>6, <2>9, <2>10, <2>11 DEF Carried, Sourced, Listed
  <2>14. Followed(Q, i)
    BY ONLY <1>9, <2>9, <2>10, <2>11, <2>12 DEF Whole, Followed
  <2>15. OnNode(R, nodes, i) /\ TransHeld(R, nodes, i) /\ SessionHeld(R, nodes, i)
    BY ONLY <1>9 DEF Whole
  <2>16. Sound(Q, nodes)
    BY ONLY <1>6, <1>8, <1>10, <2>2, <2>7, <2>13, <2>14, <2>15, Sound(conf, nodes), SoundFaded
  <2> QED
    BY ONLY <1>4, <2>2, <2>16
<1> QED
  BY ONLY <1>4, <1>11, <1>12

(* A session was begun, or was ended meanwhile.                            *)
LEMMA SoundSessionInitiated ==
  ASSUME Core(conf, nodes), Sound(conf, nodes), NEW c \in conf.calls, SessionInitiated(c), conf'.mishaps = {}
  PROVE  Sound(conf', nodes')
<1>1. PICK i, spec : i = c.id /\ spec = c.spec
  OBVIOUS
<1>2. PICK D : D = Done(c)
  OBVIOUS
<1>3. c.call = "initiate" /\ c.served /\ i \in bound.sessions /\ nodes' = nodes
  BY ONLY <1>1, SessionInitiated(c) DEF SessionInitiated
<1>4. Answered(conf, D, c) /\ Core(D, nodes) /\ InitiateAnswered(D, i, spec)
  BY ONLY <1>1, <1>2, <1>3, Core(conf, nodes), c \in conf.calls, InitiateAnsweredFacts
<1>5. Unasked(D, i) /\ i \in D.used /\ i \in Ids
  BY ONLY <1>4 DEF InitiateAnswered
<1>6. /\ D.streams = conf.streams /\ D.subs = conf.subs /\ D.users = conf.users /\ D.trans = conf.trans
      /\ D.leaving = conf.leaving /\ D.ops = conf.ops /\ D.sessions = conf.sessions
      /\ D.calls = conf.calls \ {c} /\ D.mishaps = conf.mishaps
  BY ONLY <1>4 DEF Answered, Wanes, ListsStill
<1>7. Whole(conf, nodes, i) /\ SessionHeld(conf, nodes, i)
  BY ONLY <1>5, Sound(conf, nodes) DEF Sound, Whole
<1>8. Has(conf, i, "initiate") /\ ~Unserved(conf, i)
  BY ONLY <1>1, <1>3, <1>5, <1>6, c \in conf.calls DEF Has, Unserved, Unasked
<1>9. ~Has(D, i, "initiate") /\ ~Has(D, i, "node") /\ ~Unserved(D, i)
  BY ONLY <1>5 DEF Has, Unserved, Unasked
<1>10. i \notin DOMAIN D.ops /\ i \notin DOMAIN D.trans /\ i \notin nodes.trans
  BY ONLY <1>3, <1>4 DEF Core, KindsApart, NodesType
<1>11. NodesApart(conf, nodes, nodes, {i})
  BY ONLY NodesSame
<1>12. Swaps(conf, D)
  BY ONLY <1>3, <1>6 DEF Swaps
<1>13. /\ Has(D, i, "subscribe") <=> Has(conf, i, "subscribe")
       /\ Recycling(D, i, "session") <=> Recycling(conf, i, "session")
       /\ Recycling(D, i, "late") <=> Recycling(conf, i, "late")
       /\ Late(D, i) <=> Late(conf, i)
       /\ Closing(D, i) <=> Closing(conf, i)
  BY ONLY <1>12, SwapCalls
<1>14. Apart(conf, D, {i})
  BY ONLY <1>1, <1>4, AnsweredApart
<1>15. CASE i \notin DOMAIN D.sessions
  <2>1. PICK d : d = [call |-> "terminate", id |-> i, why |-> "late"]
    OBVIOUS
  <2>2. PICK e : e = [call |-> "recycle", id |-> i, why |-> "late"]
    OBVIOUS
  <2>3. PICK T : T = Call(D, d)
    OBVIOUS
  <2>4. PICK U : U = Call(T, e)
    OBVIOUS
  <2>5. PICK Q : Q = OnAborted(U, i)
    OBVIOUS
  <2>6. conf' = Q
    BY ONLY <1>1, <1>2, <1>15, <2>1, <2>2, <2>3, <2>4, <2>5, SessionInitiated(c) DEF SessionInitiated
  <2>7. d \in Calls /\ d.id = i /\ d.call = "terminate" /\ d.why = "late" /\ d.why \notin Operation
    BY ONLY <1>5, <2>1 DEF Calls, TerminateCalls, Operation
  <2>8. e \in Calls /\ e.id = i /\ e.call = "recycle" /\ e.why = "late"
    BY ONLY <1>5, <2>2 DEF Calls, RecycleCalls
  <2>9. Core(T, nodes) /\ Made(D, T, d)
    BY ONLY <1>3, <1>4, <1>5, <1>9, <2>3, <2>7, CoreEndCall
  <2>10. ~Has(T, i, "node") /\ ~Unserved(T, i) /\ i \in T.used
    <3>1. T.calls = D.calls \cup {d} /\ T.used = D.used
      BY ONLY <2>9 DEF Made, Still
    <3> QED
      BY ONLY <1>5, <1>9, <2>7, <3>1 DEF Has, Unserved
  <2>11. Core(U, nodes) /\ Made(T, U, e)
    BY ONLY <1>3, <2>4, <2>8, <2>9, <2>10, CoreEndCall
  <2>12. /\ U.streams = conf.streams /\ U.subs = conf.subs /\ U.users = conf.users /\ U.trans = conf.trans
         /\ U.leaving = conf.leaving /\ U.ops = conf.ops /\ U.sessions = conf.sessions
         /\ U.calls = ((conf.calls \ {c}) \cup {d}) \cup {e}
    BY ONLY <1>6, <2>9, <2>11 DEF Made, Still, ListsStill
  <2>13. Apart(conf, U, {i})
    BY ONLY <1>1, <2>7, <2>8, <2>12 DEF Apart
  <2>14. Left(U, U.users)
    BY ONLY <2>12, Sound(conf, nodes) DEF Sound, Left, OpsOn
  <2>15. Late(U, i) /\ Recycling(U, i, "late") /\ ~Unserved(U, i)
    BY ONLY <1>6, <1>9, <2>7, <2>8, <2>12 DEF Late, Ended, Recycling, Unserved
  <2>16. Recycling(U, i, "session") => Recycling(conf, i, "session")
    BY ONLY <2>7, <2>8, <2>12 DEF Recycling
  <2>17. OnNode(U, nodes, i) /\ TransHeld(U, nodes, i)
    BY ONLY <1>3, <1>6, <1>10, <2>12 DEF OnNode, TransHeld
  <2>18. SessionHeld(U, nodes, i)
    BY ONLY <1>3, <1>6, <1>7, <1>15, <2>12, <2>15, <2>16 DEF SessionHeld
  <2>19. Fades(U, Q, {i}) /\ ~Listed(Q, i) /\ Unthrown(Q)
    BY ONLY <1>5, <2>5, <2>6, <2>11, conf'.mishaps = {}, OnAbortedFacts DEF Core, Unthrown
  <2>20. i \notin DOMAIN Q.sessions /\ i \notin DOMAIN Q.ops
    BY ONLY <1>6, <1>10, <1>15, <2>12, <2>19 DEF Fades, Still, Part
  <2>21. Carried(Q, i) /\ Sourced(Q, i) /\ Followed(Q, i)
    BY ONLY <1>3, <2>19, <2>20 DEF Carried, Sourced, Followed, Listed
  <2>22. Sound(Q, nodes)
    BY ONLY <1>11, <2>11, <2>13, <2>14, <2>17, <2>18, <2>19, <2>21, Sound(conf, nodes), SoundFaded
  <2> QED
    BY ONLY <1>3, <2>6, <2>22
<1>16. CASE i \in DOMAIN D.sessions
  <2>1. PICK on : on = [D EXCEPT !.sessions[i].state = "connecting"]
    OBVIOUS
  <2>2. PICK T : T = TerminateMisnamed(on, i)
    OBVIOUS
  <2>3. \/ SourceReleased(on, c) /\ conf' = RemoveSubs(T, {i})
        \/ conf' = [on EXCEPT !.polls = on.polls \cup {i}]
    BY ONLY <1>1, <1>2, <1>16, <2>1, <2>2, SessionInitiated(c) DEF SessionInitiated
  <2>4. PICK r : /\ Core(on, nodes) /\ Advances(D, on, i, r) /\ r.state = "connecting"
                 /\ r.ready = D.sessions[i].ready /\ r.spec = D.sessions[i].spec
    BY ONLY <1>4, <1>5, <1>16, <2>1, CoreConnecting
  <2>5. /\ on.streams = conf.streams /\ on.subs = conf.subs /\ on.users = conf.users /\ on.trans = conf.trans
        /\ on.leaving = conf.leaving /\ on.ops = conf.ops /\ on.calls = D.calls
        /\ DOMAIN on.sessions = DOMAIN conf.sessions /\ on.sessions[i].state = "connecting"
        /\ on.sessions[i].ready = conf.sessions[i].ready
        /\ \A d \in DOMAIN conf.sessions : d # i => on.sessions[d] = conf.sessions[d]
    BY ONLY <1>6, <2>4 DEF Advances, CarriersOnly, ListsStill
  <2>6. Apart(conf, on, {i})
    BY ONLY <1>1, <1>6, <2>5 DEF Apart
  <2>7. Left(on, on.users)
    BY ONLY <2>5, Sound(conf, nodes) DEF Sound, Left, OpsOn
  <2>8. /\ ~Has(on, i, "initiate") /\ ~Has(on, i, "node") /\ ~Unserved(on, i)
        /\ Has(on, i, "subscribe") <=> Has(conf, i, "subscribe")
        /\ Recycling(on, i, "session") <=> Recycling(conf, i, "session")
        /\ Recycling(on, i, "late") <=> Recycling(conf, i, "late")
        /\ Late(on, i) <=> Late(conf, i)
        /\ Closing(on, i) <=> Closing(conf, i)
    <3>1. /\ \A k : Has(on, i, k) <=> Has(D, i, k)
          /\ Unserved(on, i) <=> Unserved(D, i)
          /\ \A w : Recycling(on, i, w) <=> Recycling(D, i, w)
          /\ Late(on, i) <=> Late(D, i)
          /\ Closing(on, i) <=> Closing(D, i)
      BY ONLY <2>5 DEF Has, Unserved, Recycling, Late, Closing, Ended
    <3> QED
      BY ONLY <1>9, <1>13, <3>1
  <2>9. OnNode(on, nodes, i) /\ TransHeld(on, nodes, i)
    BY ONLY <1>3, <1>6, <1>10, <2>5 DEF OnNode, TransHeld
  <2>10. SessionHeld(on, nodes, i)
    BY ONLY <1>3, <1>6, <1>7, <1>8, <1>16, <2>5, <2>8 DEF SessionHeld
  <2>11. i \in DOMAIN on.sessions /\ i \notin DOMAIN on.ops
    BY ONLY <1>6, <1>10, <1>16, <2>5
  <2>12. CASE SourceReleased(on, c) /\ conf' = RemoveSubs(T, {i})
    <3>1. PICK Q : Q = RemoveSubs(T, {i})
      OBVIOUS
    <3>2. conf' = Q /\ Unthrown(Q)
      BY ONLY <2>12, <3>1, conf'.mishaps = {} DEF Unthrown
    <3>3. Good(on)
      BY ONLY <2>4 DEF Core
    <3>4. Fades(on, T, {})
      BY ONLY <2>2, <3>3, TerminateMisnamedFacts
    <3>5. Good(T)
      BY ONLY <3>4 DEF Fades
    <3>6. /\ Q.mishaps = T.mishaps /\ Fades(T, Q, {i}) /\ Q.streams = T.streams
          /\ \A x : x \in DOMAIN Q.subs <=> x \in DOMAIN T.subs /\ x \notin {i}
      BY ONLY <3>1, <3>5, RemoveSubsFacts, RemoveSubsFades
    <3>7. Fades(on, Q, {i})
      <4>1. Fades(on, Q, {} \cup {i})
        BY ONLY <3>4, <3>6, FadesTrans
      <4> QED
        BY ONLY <4>1, {} \cup {i} = {i}
    <3>8. Closing(on, i)
      BY ONLY <1>3, <2>2, <2>4, <2>10, <2>11, <3>2, <3>6, conf'.mishaps = {}, MisnamedClosing DEF SessionHeld
    <3>9. Closing(Q, i)
      BY ONLY <3>7, <3>8, FadeCalls
    <3>10. ~Listed(Q, i)
      <4>1. i \in Subs
        BY ONLY <1>1, <2>12 DEF SourceReleased
      <4>2. DOMAIN Q.streams \subseteq Streams
        BY <3>7, KeyFacts DEF Fades, Good
      <4> QED
        BY <3>6, <4>1, <4>2, NamesAssumption DEF Listed
    <3>11. i \notin DOMAIN Q.ops /\ (i \in DOMAIN Q.sessions => Q.sessions[i].state # "initialized")
      BY ONLY <2>5, <2>11, <3>7 DEF Fades, Still, Part
    <3>12. Carried(Q, i) /\ Sourced(Q, i) /\ Followed(Q, i)
      BY ONLY <1>3, <3>9, <3>10, <3>11 DEF Carried, Sourced, Followed, Listed
    <3>13. Sound(Q, nodes)
      BY ONLY <1>11, <2>4, <2>6, <2>7, <2>9, <2>10, <3>2, <3>7, <3>12, Sound(conf, nodes), SoundFaded
    <3> QED
      BY ONLY <1>3, <3>2, <3>13
  <2>13. CASE conf' = [on EXCEPT !.polls = on.polls \cup {i}]
    <3>1. PICK is : is = on.polls \cup {i}
      OBVIOUS
    <3>2. PICK Q : Q = [on EXCEPT !.polls = is]
      OBVIOUS
    <3>3. conf' = Q
      BY ONLY <2>13, <3>1, <3>2
    <3>4. is \subseteq bound.sessions /\ is \subseteq Ids
      <4>1. on.polls \subseteq bound.sessions
        BY ONLY <2>4 DEF Core, KindsApart
      <4>2. on.polls \subseteq Ids
        BY <2>4, ConfFacts DEF Core, Good
      <4> QED
        BY ONLY <1>3, <1>5, <3>1, <4>1, <4>2
    <3>5. Wanes(on, Q) /\ Q.ops = on.ops /\ Q.calls = on.calls /\ Q.sessions = on.sessions /\ Q.leaving = on.leaving
      BY ONLY <2>4, <3>2, <3>4, CorePolls
    <3>6. Q.streams = on.streams /\ Q.subs = on.subs /\ Q.users = on.users /\ Q.trans = on.trans
      BY ONLY <3>5 DEF Wanes, ListsStill
    <3>7. Whole(on, nodes, i)
      <4>1. Listed(on, i) <=> Listed(conf, i)
        BY ONLY <2>5 DEF Listed
      <4>2. Up(on, i) <=> Up(conf, i)
        BY ONLY <2>5 DEF Up
      <4>3. Carried(on, i) /\ Sourced(on, i)
        BY ONLY <1>3, <1>7, <2>5, <2>8, <4>1 DEF Whole, Carried, Sourced
      <4>4. Followed(on, i)
        BY ONLY <1>7, <2>5, <2>8, <2>11, <4>2 DEF Whole, Followed
      <4> QED
        BY ONLY <2>9, <2>10, <4>3, <4>4 DEF Whole
    <3>8. Sound(on, nodes)
      BY ONLY <1>11, <2>6, <2>7, <3>7, Sound(conf, nodes), SoundOne
    <3>9. Apart(on, Q, {i}) /\ Apart(on, Q, {}) /\ NodesApart(on, nodes, nodes, {i}) /\ NodesApart(on, nodes, nodes, {})
      BY ONLY <3>5, <3>6, NodesSame DEF Apart
    <3>10. Whole(Q, nodes, i)
      BY ONLY <3>7, <3>9, i \notin {}, ApartWhole
    <3>11. Left(Q, Q.users)
      BY ONLY <2>7, <3>5, <3>6 DEF Left, OpsOn
    <3>12. Sound(Q, nodes)
      BY ONLY <3>8, <3>9, <3>10, <3>11, SoundOne
    <3> QED
      BY ONLY <1>3, <3>3, <3>12
  <2> QED
    BY ONLY <2>3, <2>12, <2>13
<1> QED
  BY ONLY <1>15, <1>16

(* The room controller has answered for a subscription.                    *)
LEMMA SoundSubscribeDone ==
  ASSUME Core(conf, nodes), Sound(conf, nodes), NEW c \in conf.calls, SubscribeDone(c), conf'.mishaps = {}
  PROVE  Sound(conf', nodes')
<1>1. PICK i, o, f : i = c.id /\ o = c.owner /\ f = c.from
  OBVIOUS
<1>2. PICK D : D = Done(c)
  OBVIOUS
<1>3. PICK Q : Q = conf'
  OBVIOUS
<1>4. /\ c.call = "subscribe" /\ nodes' = nodes
      /\ (f \in conf.pub /\ Q = Subscribed(D, c)) \/ Q = Terminate(D, i)
  BY ONLY <1>1, <1>2, <1>3, SubscribeDone(c) DEF SubscribeDone
<1>5. Answered(conf, D, c) /\ Core(D, nodes) /\ i \in Subs /\ o \in People
  BY ONLY <1>1, <1>2, <1>4, Core(conf, nodes), c \in conf.calls, SubscribeAnswered
<1>6. /\ D.streams = conf.streams /\ D.subs = conf.subs /\ D.users = conf.users /\ D.trans = conf.trans
      /\ D.leaving = conf.leaving /\ D.ops = conf.ops /\ D.sessions = conf.sessions
      /\ D.calls = conf.calls \ {c} /\ D.pub = conf.pub
  BY ONLY <1>5 DEF Answered, Wanes, ListsStill
<1>7. Good(D) /\ KindsApart(D)
  BY ONLY <1>5 DEF Core
<1>8. i \in Ids
  BY <1>5 DEF Ids
<1>9. Whole(conf, nodes, i)
  BY ONLY <1>8, Sound(conf, nodes) DEF Sound
<1>10. /\ \A k : k # "subscribe" => (Has(D, i, k) <=> Has(conf, i, k))
       /\ Unserved(D, i) <=> Unserved(conf, i)
       /\ \A w : Recycling(D, i, w) <=> Recycling(conf, i, w)
       /\ \A ws : Ended(D, i, ws) <=> Ended(conf, i, ws)
  BY ONLY <1>4, <1>6 DEF Has, Unserved, Recycling, Ended
<1>11. /\ Awaited(D, i) <=> Awaited(conf, i)
       /\ Ending(D, i) <=> Ending(conf, i)
       /\ Closing(D, i) <=> Closing(conf, i)
       /\ Late(D, i) <=> Late(conf, i)
  BY ONLY <1>10 DEF Awaited, Ending, Closing, Late
<1>12. Carried(D, i)
  <2>1. Listed(D, i) <=> Listed(conf, i)
    BY ONLY <1>6 DEF Listed
  <2> QED
    BY ONLY <1>6, <1>9, <1>10, <1>11, <2>1 DEF Whole, Carried
<1>13. Sourced(D, i)
  BY ONLY <1>6, <1>9, <1>11 DEF Whole, Sourced
<1>14. OnNode(D, nodes, i) /\ TransHeld(D, nodes, i) /\ SessionHeld(D, nodes, i)
  <2>1. OnNode(D, nodes, i)
    BY ONLY <1>6, <1>9, <1>10 DEF Whole, OnNode
  <2>2. TransHeld(D, nodes, i)
    BY ONLY <1>6, <1>9, <1>10 DEF Whole, TransHeld
  <2>3. SessionHeld(D, nodes, i)
    BY ONLY <1>6, <1>9, <1>10, <1>11 DEF Whole, SessionHeld
  <2> QED
    BY ONLY <2>1, <2>2, <2>3
<1>15. Apart(conf, D, {i}) /\ Left(D, D.users) /\ NodesApart(conf, nodes, nodes, {i})
  BY ONLY <1>1, <1>5, <1>6, NodesSame, AnsweredApart, Sound(conf, nodes) DEF Sound
<1>16. ASSUME Q = Terminate(D, i)
       PROVE  Sound(Q, nodes)
  <2>1. /\ Fades(D, Q, {})
        /\ i \in DOMAIN D.sessions /\ i \in DOMAIN Q.sessions => Ended(Q, i, {"session"})
        /\ i \notin DOMAIN D.sessions /\ i \in DOMAIN D.ops => Ended(Q, i, Operation)
    BY ONLY <1>7, <1>8, <1>16, TerminateFacts
  <2>2. Unthrown(Q)
    BY ONLY <1>3, conf'.mishaps = {} DEF Unthrown
  <2>3. Carried(Q, i) /\ Sourced(Q, i)
    BY ONLY <1>5, <1>8, <1>12, <1>13, <2>1, <2>2, i \notin {}, FadeListed
  <2>4. Fades(D, Q, {i})
    BY ONLY <2>1, {} \subseteq {i}, FadesMore
  <2>5. i \in DOMAIN D.ops => i \notin DOMAIN D.sessions
    BY ONLY <1>7 DEF KindsApart
  <2>6. /\ DOMAIN Q.ops = DOMAIN D.ops
        /\ i \in DOMAIN Q.sessions => i \in DOMAIN D.sessions /\ Q.sessions[i] = D.sessions[i]
    BY ONLY <2>1 DEF Fades, Still, Part
  <2>7. Followed(Q, i)
    BY ONLY <1>6, <1>9, <2>1, <2>5, <2>6 DEF Whole, Followed, Ending, Closing
  <2> QED
    BY ONLY <1>5, <1>14, <1>15, <2>2, <2>3, <2>4, <2>7, Sound(conf, nodes), SoundFaded
<1>17. ASSUME f \in conf.pub, Q = Subscribed(D, c)
       PROVE  Sound(Q, nodes)
  <2>1. CASE ~Present(D, o)
    <3>1. Q = Terminate(D, i)
      BY ONLY <1>1, <1>17, <2>1 DEF Subscribed
    <3> QED
      BY ONLY <1>16, <3>1
  <2>2. CASE Present(D, o)
    <3>1. Subscribes(D, Q, i, o, f)
      <4>1. Subscribes(D, Q, c.id, c.owner, c.from)
        BY ONLY <1>1, <1>5, <1>6, <1>7, <1>17, <2>2, SubscribedFacts
      <4> QED
        BY ONLY <1>1, <4>1
    <3>2. i \in DOMAIN D.subs
      BY ONLY <1>3, <3>1, conf'.mishaps = {} DEF Subscribes
    <3>3. PICK v : v = [owner |-> o, from |-> f, up |-> TRUE]
      OBVIOUS
    <3>4. v.up /\ v.from = f
      BY ONLY <3>3
    <3>5. /\ Q.streams = D.streams /\ Q.sessions = D.sessions /\ Q.calls = D.calls
          /\ Q.users = D.users /\ Q.ops = D.ops /\ Q.trans = D.trans /\ Q.leaving = D.leaving
          /\ \A y : y \in DOMAIN Q.subs <=> y \in DOMAIN D.subs
          /\ Q.subs[i] = v
          /\ \A y \in DOMAIN D.subs : y # i => Q.subs[y] = D.subs[y]
      BY ONLY <3>1, <3>2, <3>3 DEF Subscribes, Still
    <3>6. Apart(conf, Q, {i})
      BY ONLY <1>1, <1>6, <3>5 DEF Apart
    <3>7. Left(Q, Q.users)
      BY ONLY <1>15, <3>5 DEF Left, OpsOn
    <3>8. /\ \A k : Has(Q, i, k) <=> Has(D, i, k)
          /\ Unserved(Q, i) <=> Unserved(D, i)
          /\ \A w : Recycling(Q, i, w) <=> Recycling(D, i, w)
          /\ Late(Q, i) <=> Late(D, i)
          /\ Ending(Q, i) <=> Ending(D, i)
          /\ Closing(Q, i) <=> Closing(D, i)
          /\ Awaited(Q, i) <=> Awaited(D, i)
      BY ONLY <3>5 DEF Has, Unserved, Recycling, Late, Ending, Closing, Ended, Awaited
    <3>9. Carried(Q, i)
      <4>1. Listed(Q, i) <=> Listed(D, i)
        BY ONLY <3>5 DEF Listed
      <4> QED
        BY ONLY <1>12, <3>5, <3>8, <4>1 DEF Carried
    <3>10. Sourced(Q, i)
      <4>1. f \in DOMAIN Q.streams
        <5>1. f \in D.pub /\ DOMAIN Q.streams = DOMAIN D.streams /\ D.pub \subseteq Streams
          BY <1>6, <1>7, <1>17, <3>5, ConfFacts DEF Good
        <5> QED
          BY ONLY <1>7, <5>1 DEF Good, InRoom
      <4> QED
        BY ONLY <3>4, <3>5, <4>1 DEF Sourced
    <3>11. Followed(Q, i)
      <4>1. Up(Q, i)
        BY ONLY <3>2, <3>4, <3>5 DEF Up
      <4> QED
        BY ONLY <1>6, <1>9, <3>5, <4>1 DEF Whole, Followed
    <3>12. OnNode(Q, nodes, i) /\ TransHeld(Q, nodes, i) /\ SessionHeld(Q, nodes, i)
      <4>1. OnNode(Q, nodes, i)
        BY ONLY <1>14, <3>5, <3>8 DEF OnNode
      <4>2. TransHeld(Q, nodes, i)
        BY ONLY <1>14, <3>5, <3>8 DEF TransHeld
      <4>3. SessionHeld(Q, nodes, i)
        BY ONLY <1>14, <3>5, <3>8 DEF SessionHeld
      <4> QED
        BY ONLY <4>1, <4>2, <4>3
    <3>13. Whole(Q, nodes, i)
      BY ONLY <3>9, <3>10, <3>11, <3>12 DEF Whole
    <3> QED
      BY ONLY <1>15, <3>6, <3>7, <3>13, Sound(conf, nodes), SoundOne
  <2> QED
    BY ONLY <2>1, <2>2
<1> QED
  BY ONLY <1>3, <1>4, <1>16, <1>17

(* An operation that is there no more is not waited for.                   *)
LEMMA SoundWaited ==
  ASSUME NEW R, NEW N, Core(R, N), Sound(R, N), NEW i, i \notin DOMAIN R.ops, NEW Q, Q = Waited(R, i)
  PROVE  Sound(Q, N)
<1>1. /\ Wanes(R, Q) /\ Q.ops = R.ops /\ Q.calls = R.calls /\ Q.sessions = R.sessions
      /\ Q.leaving = {[g EXCEPT !.waits = @ \ {i}] : g \in R.leaving}
  BY ONLY Core(R, N), Q = Waited(R, i), CoreWaited
<1>2. Q.streams = R.streams /\ Q.subs = R.subs /\ Q.users = R.users /\ Q.trans = R.trans
  BY ONLY <1>1 DEF Wanes, ListsStill
<1>3. R.leaving \subseteq Leavings
  BY ConfFacts DEF Core, Good
<1>4. \A g \in Leavings : [g EXCEPT !.waits = @ \ {i}].trans = g.trans /\ [g EXCEPT !.waits = @ \ {i}].waits = g.waits \ {i}
  BY DEF Leavings
<1>5. /\ \A h \in Q.leaving : \E g \in R.leaving : h.trans = g.trans /\ h.waits = g.waits \ {i}
      /\ \A g \in R.leaving : \E h \in Q.leaving : h.trans = g.trans
  BY ONLY <1>1, <1>3, <1>4
<1>6. Left(Q, Q.users)
  <2>1. Left(R, R.users)
    BY DEF Sound
  <2> QED
    BY ONLY <1>1, <1>2, <1>5, <2>1, i \notin DOMAIN R.ops DEF Left, OpsOn
<1>7. ASSUME NEW j \in Ids
      PROVE  Whole(Q, N, j)
  <2>1. Whole(R, N, j)
    BY DEF Sound
  <2>2. /\ \A k : Has(Q, j, k) <=> Has(R, j, k)
        /\ Unserved(Q, j) <=> Unserved(R, j)
        /\ \A w : Recycling(Q, j, w) <=> Recycling(R, j, w)
        /\ \A ws : Ended(Q, j, ws) <=> Ended(R, j, ws)
    BY ONLY <1>1 DEF Has, Unserved, Recycling, Ended
  <2>3. /\ Awaited(Q, j) <=> Awaited(R, j)
        /\ Ending(Q, j) <=> Ending(R, j)
        /\ Closing(Q, j) <=> Closing(R, j)
        /\ Late(Q, j) <=> Late(R, j)
        /\ Listed(Q, j) <=> Listed(R, j)
        /\ Up(Q, j) <=> Up(R, j)
    BY ONLY <1>2, <2>2 DEF Awaited, Ending, Closing, Late, Listed, Up
  <2>4. Carried(Q, j)
    BY ONLY <1>1, <1>2, <2>1, <2>2, <2>3 DEF Whole, Carried
  <2>5. Sourced(Q, j)
    BY ONLY <1>2, <2>1, <2>3 DEF Whole, Sourced
  <2>6. Followed(Q, j)
    BY ONLY <1>1, <1>2, <2>1, <2>2, <2>3 DEF Whole, Followed
  <2>7. OnNode(Q, N, j)
    BY ONLY <1>1, <2>1, <2>2 DEF Whole, OnNode
  <2>8. TransHeld(Q, N, j)
    BY ONLY <1>1, <1>2, <1>5, <2>1, <2>2 DEF Whole, TransHeld
  <2>9. SessionHeld(Q, N, j)
    BY ONLY <1>1, <2>1, <2>2, <2>3 DEF Whole, SessionHeld
  <2> QED
    BY ONLY <2>4, <2>5, <2>6, <2>7, <2>8, <2>9 DEF Whole
<1> QED
  BY ONLY <1>6, <1>7 DEF Sound

(* An operation was ended on its node; or it was ended before.             *)
LEMMA SoundOpTerminated ==
  ASSUME Core(conf, nodes), Sound(conf, nodes), NEW c \in conf.calls, OpTerminated(c), conf'.mishaps = {}, ~Fail
  PROVE  Sound(conf', nodes')
<1>1. PICK i : i = c.id
  OBVIOUS
<1>2. PICK D : D = Done(c)
  OBVIOUS
<1>3. PICK A : A = OnAborted(D, i)
  OBVIOUS
<1>4. PICK F : F = [A EXCEPT !.ops = Without(@, i)]
  OBVIOUS
<1>5. PICK Q : Q = conf'
  OBVIOUS
<1>6. /\ c.call = "terminate" /\ c.why \in Operation /\ \A d \in conf.calls : d.call = "initiate" => d.id # i
      /\ nodes' = nodes
      /\ \/ i \in DOMAIN conf.ops /\ conf.ops[i].trans \in nodes.trans /\ Q = Waited(F, i)
         \/ ~(i \in DOMAIN conf.ops /\ conf.ops[i].trans \in nodes.trans) /\ Q = Waited(D, i)
  BY ONLY <1>1, <1>2, <1>3, <1>4, <1>5, OpTerminated(c), ~Fail DEF OpTerminated, Operation
<1>7. Answered(conf, D, c) /\ Core(D, nodes)
  BY ONLY <1>2, Core(conf, nodes), CoreDone
<1>8. i \in Ids
  BY <1>1, <1>6, ConfFacts, CallTypes DEF Core, Good
<1>9. /\ D.streams = conf.streams /\ D.subs = conf.subs /\ D.users = conf.users /\ D.trans = conf.trans
      /\ D.leaving = conf.leaving /\ D.ops = conf.ops /\ D.sessions = conf.sessions
      /\ D.calls = conf.calls \ {c}
  BY ONLY <1>7 DEF Answered, Wanes, ListsStill
<1>10. Whole(conf, nodes, i)
  BY ONLY <1>8, Sound(conf, nodes) DEF Sound
<1>11. CallsApart(conf, nodes) /\ KindsApart(conf)
  BY DEF Core
<1>12. i \notin bound.sessions
  BY ONLY <1>1, <1>6, <1>11, c \in conf.calls DEF CallsApart
<1>13. i \notin DOMAIN conf.sessions
  BY ONLY <1>11, <1>12 DEF KindsApart
<1>14. ~Unserved(conf, i) /\ ~Has(conf, i, "initiate")
  BY ONLY <1>6 DEF Unserved, Has
<1>15. Apart(conf, D, {i}) /\ Left(D, D.users) /\ NodesApart(conf, nodes, nodes, {i})
  BY ONLY <1>1, <1>7, <1>9, NodesSame, AnsweredApart, Sound(conf, nodes) DEF Sound
<1>16. CASE i \in DOMAIN conf.ops /\ conf.ops[i].trans \in nodes.trans /\ Q = Waited(F, i)
  <2>1. Fades(D, A, {i}) /\ (Unthrown(A) => ~Listed(A, i))
    BY ONLY <1>3, <1>7, <1>8, OnAbortedFacts DEF Core
  <2>2. Core(A, nodes)
    BY ONLY <1>7, <2>1, CoreFades
  <2>3. \A d \in A.calls : d.call = "initiate" => d.id # i
    <3>1. \A d \in A.calls : d.call # "terminate" => d \in D.calls
      BY ONLY <2>1, FadesCalls
    <3> QED
      BY ONLY <1>6, <1>9, <3>1
  <2>4. Core(F, nodes) /\ ForgetsOp(A, F, i)
    BY ONLY <1>4, <2>2, <2>3, CoreForgetOp
  <2>5. /\ F.streams = A.streams /\ F.subs = A.subs /\ F.users = A.users /\ F.trans = A.trans
        /\ F.calls = A.calls /\ F.sessions = A.sessions /\ F.mishaps = A.mishaps /\ F.leaving = A.leaving
        /\ \A d : d \in DOMAIN F.ops <=> d \in DOMAIN A.ops /\ d # i
        /\ \A d \in DOMAIN F.ops : F.ops[d] = A.ops[d]
    BY ONLY <2>4 DEF ForgetsOp, Wanes, ListsStill, Part
  <2>6. Unthrown(A)
    <3>1. Q.mishaps = F.mishaps
      BY ONLY <1>16, <2>4, CoreWaited
    <3> QED
      BY ONLY <1>5, <2>5, <3>1, conf'.mishaps = {} DEF Unthrown
  <2>7. Apart(A, F, {i})
    BY ONLY <2>5 DEF Apart
  <2>8. ASSUME NEW j \in Ids, j \notin {i}
        PROVE  Whole(F, nodes, j)
    <3>1. Whole(conf, nodes, j)
      BY ONLY Sound(conf, nodes) DEF Sound
    <3>2. Whole(D, nodes, j)
      BY ONLY <1>15, <2>8, <3>1, ApartWhole
    <3>3. Whole(A, nodes, j)
      BY ONLY <1>7, <2>1, <2>6, <2>8, <3>2, FadeWhole
    <3>4. NodesApart(A, nodes, nodes, {i})
      BY ONLY NodesSame
    <3> QED
      BY ONLY <2>7, <2>8, <3>3, <3>4, ApartWhole
  <2>9. /\ A.users = D.users /\ A.trans = D.trans /\ A.leaving = D.leaving /\ A.ops = D.ops
        /\ Part(D.sessions, A.sessions)
    BY ONLY <2>1 DEF Fades, Still
  <2>10. ~Listed(F, i) /\ i \notin DOMAIN F.ops /\ i \notin DOMAIN F.sessions
    BY ONLY <1>9, <1>13, <2>1, <2>5, <2>6, <2>9 DEF Listed, Part
  <2>11. ~Has(F, i, "node")
    <3>1. Has(A, i, "node") <=> Has(D, i, "node")
      BY ONLY <2>1, FadesCalls
    <3> QED
      BY ONLY <1>9, <1>11, <1>16, <2>5, <3>1 DEF Has, CallsApart
  <2>12. Carried(F, i) /\ Sourced(F, i) /\ Followed(F, i) /\ OnNode(F, nodes, i) /\ SessionHeld(F, nodes, i)
    BY ONLY <1>12, <2>10, <2>11 DEF Carried, Sourced, Followed, OnNode, SessionHeld, Listed, Has
  <2>13. TransHeld(F, nodes, i)
    BY ONLY <1>9, <1>10, <1>14, <2>5, <2>9 DEF Whole, TransHeld
  <2>14. Left(F, F.users)
    <3>1. Left(A, A.users)
      BY ONLY <1>15, <2>1, <2>9, FadeLeft
    <3> QED
      BY ONLY <2>5, <3>1 DEF Left, OpsOn
  <2>15. Sound(F, nodes)
    BY ONLY <2>8, <2>12, <2>13, <2>14 DEF Sound, Whole
  <2>16. Sound(Q, nodes)
    BY ONLY <1>16, <2>4, <2>10, <2>15, SoundWaited
  <2> QED
    BY ONLY <1>5, <1>6, <2>16
<1>17. CASE ~(i \in DOMAIN conf.ops /\ conf.ops[i].trans \in nodes.trans) /\ Q = Waited(D, i)
  <2>1. i \notin DOMAIN conf.ops
    BY ONLY <1>10, <1>14, <1>17 DEF Whole, OnNode
  <2>2. Listed(D, i) <=> Listed(conf, i)
    BY ONLY <1>9 DEF Listed
  <2>3. /\ Has(D, i, "node") <=> Has(conf, i, "node")
        /\ Unserved(D, i) <=> Unserved(conf, i)
    BY ONLY <1>6, <1>9 DEF Has, Unserved
  <2>4. Carried(D, i)
    BY ONLY <1>9, <1>10, <1>12, <2>1, <2>2, <2>3 DEF Whole, Carried
  <2>5. Sourced(D, i)
    BY ONLY <1>9, <1>12, <2>1, <2>4 DEF Carried, Sourced, Listed, Awaited
  <2>6. Followed(D, i) /\ OnNode(D, nodes, i) /\ SessionHeld(D, nodes, i)
    BY ONLY <1>9, <1>12, <1>13, <2>1 DEF Followed, OnNode, SessionHeld
  <2>7. TransHeld(D, nodes, i)
    BY ONLY <1>9, <1>10, <2>3 DEF Whole, TransHeld
  <2>8. Sound(D, nodes)
    <3>1. Whole(D, nodes, i)
      BY ONLY <2>4, <2>5, <2>6, <2>7 DEF Whole
    <3> QED
      BY ONLY <1>15, <3>1, Sound(conf, nodes), SoundOne
  <2>9. Sound(Q, nodes)
    BY ONLY <1>7, <1>9, <1>17, <2>1, <2>8, SoundWaited
  <2> QED
    BY ONLY <1>5, <1>6, <2>9
<1> QED
  BY ONLY <1>6, <1>16, <1>17

(* The transports of who left are destroyed: no operation is on them.      *)
LEMMA SoundLeaveDone ==
  ASSUME Core(conf, nodes), Sound(conf, nodes), NEW g, LeaveDone(g)
  PROVE  Sound(conf', nodes')
<1>1. PICK L : L = conf.leaving \ {g}
  OBVIOUS
<1>2. PICK Q, M : Q = conf' /\ M = nodes'
  OBVIOUS
<1>3. /\ g \in conf.leaving /\ g.waits = {}
      /\ Q = [conf EXCEPT !.leaving = L] /\ M = [nodes EXCEPT !.trans = @ \ g.trans, !.held = @ \ g.trans]
  BY ONLY <1>1, <1>2, LeaveDone(g) DEF LeaveDone
<1>4. conf \in ConfType /\ KindsApart(conf) /\ NodesType(conf, nodes)
  BY DEF Core, Good
<1>5. /\ Q.streams = conf.streams /\ Q.subs = conf.subs /\ Q.users = conf.users /\ Q.trans = conf.trans
      /\ Q.calls = conf.calls /\ Q.sessions = conf.sessions /\ Q.ops = conf.ops /\ Q.leaving = L
  BY ONLY <1>3, <1>4 DEF ConfType
<1>6. M.sessions = nodes.sessions /\ M.trans = nodes.trans \ g.trans /\ M.held = nodes.held \ g.trans
  BY ONLY <1>3, <1>4 DEF NodesType
<1>7. Left(conf, conf.users)
  BY DEF Sound
<1>8. /\ g.trans \subseteq DOMAIN conf.trans
      /\ \A t \in g.trans : conf.trans[t].owner \notin conf.users
      /\ \A j \in DOMAIN conf.ops : conf.ops[j].trans \notin g.trans
  BY ONLY <1>3, <1>7 DEF Left, OpsOn
<1>9. Left(Q, Q.users)
  BY ONLY <1>1, <1>5, <1>7 DEF Left, OpsOn
<1>10. ASSUME NEW i \in Ids
       PROVE  Whole(Q, M, i)
  <2>1. Whole(conf, nodes, i)
    BY DEF Sound
  <2>2. /\ \A k : Has(Q, i, k) <=> Has(conf, i, k)
        /\ Unserved(Q, i) <=> Unserved(conf, i)
        /\ \A w : Recycling(Q, i, w) <=> Recycling(conf, i, w)
        /\ \A ws : Ended(Q, i, ws) <=> Ended(conf, i, ws)
    BY ONLY <1>5 DEF Has, Unserved, Recycling, Ended
  <2>3. /\ Awaited(Q, i) <=> Awaited(conf, i)
        /\ Ending(Q, i) <=> Ending(conf, i)
        /\ Closing(Q, i) <=> Closing(conf, i)
        /\ Late(Q, i) <=> Late(conf, i)
        /\ Listed(Q, i) <=> Listed(conf, i)
        /\ Up(Q, i) <=> Up(conf, i)
    BY ONLY <1>5, <2>2 DEF Awaited, Ending, Closing, Late, Listed, Up
  <2>4. Carried(Q, i)
    BY ONLY <1>5, <2>1, <2>2, <2>3 DEF Whole, Carried
  <2>5. Sourced(Q, i)
    BY ONLY <1>5, <2>1, <2>3 DEF Whole, Sourced
  <2>6. Followed(Q, i)
    BY ONLY <1>5, <2>1, <2>2, <2>3 DEF Whole, Followed
  <2>7. OnNode(Q, M, i)
    BY ONLY <1>5, <1>6, <1>8, <2>1, <2>2 DEF Whole, OnNode
  <2>8. TransHeld(Q, M, i)
    <3>1. \A h \in conf.leaving : i \in h.trans => h = g \/ h \in L
      BY ONLY <1>1
    <3> QED
      BY ONLY <1>5, <1>6, <1>8, <2>1, <2>2, <3>1 DEF Whole, TransHeld
  <2>9. SessionHeld(Q, M, i)
    <3>1. i \in bound.sessions => i \notin g.trans
      BY ONLY <1>4, <1>8 DEF KindsApart
    <3> QED
      BY ONLY <1>5, <1>6, <2>1, <2>2, <2>3, <3>1 DEF Whole, SessionHeld
  <2> QED
    BY ONLY <2>4, <2>5, <2>6, <2>7, <2>8, <2>9 DEF Whole
<1> QED
  BY ONLY <1>2, <1>9, <1>10 DEF Sound

(* A session was ended on its node, whose node is then given back; or it   *)
(* was ended before.                                                       *)
LEMMA SoundSessionTerminated ==
  ASSUME Core(conf, nodes), Sound(conf, nodes), NEW c \in conf.calls, SessionTerminated(c), ~Fail
  PROVE  Sound(conf', nodes')
<1>1. PICK i, w : i = c.id /\ w = c.why
  OBVIOUS
<1>2. PICK D : D = Done(c)
  OBVIOUS
<1>3. PICK d : d = [call |-> "recycle", id |-> i, why |-> "session"]
  OBVIOUS
<1>4. PICK Q, M : Q = conf' /\ M = nodes'
  OBVIOUS
<1>5. /\ c.call = "terminate" /\ w \in {"session", "late"}
      /\ \/ /\ i \in nodes.sessions /\ M = [nodes EXCEPT !.sessions = @ \ {i}]
            /\ Q = IF w = "session" THEN Call(D, d) ELSE D
         \/ i \notin nodes.sessions /\ M = nodes /\ Q = D
  BY ONLY <1>1, <1>2, <1>3, <1>4, SessionTerminated(c), ~Fail DEF SessionTerminated
<1>6. Answered(conf, D, c) /\ Core(D, nodes)
  BY ONLY <1>2, Core(conf, nodes), CoreDone
<1>7. i \in Ids
  BY <1>1, <1>5, ConfFacts, CallTypes DEF Core, Good
<1>8. /\ D.streams = conf.streams /\ D.subs = conf.subs /\ D.users = conf.users /\ D.trans = conf.trans
      /\ D.leaving = conf.leaving /\ D.ops = conf.ops /\ D.sessions = conf.sessions
      /\ D.calls = conf.calls \ {c}
  BY ONLY <1>6 DEF Answered, Wanes, ListsStill
<1>9. Whole(conf, nodes, i) /\ Carried(conf, i) /\ SessionHeld(conf, nodes, i)
  BY ONLY <1>7, Sound(conf, nodes) DEF Sound, Whole
<1>10. CallsApart(conf, nodes) /\ KindsApart(conf) /\ NodesType(conf, nodes)
  BY DEF Core
<1>11. i \in bound.sessions
  BY ONLY <1>1, <1>5, <1>10, c \in conf.calls DEF CallsApart, Operation
<1>12. i \notin DOMAIN conf.ops /\ i \notin DOMAIN conf.trans /\ i \notin nodes.trans
  BY ONLY <1>10, <1>11 DEF KindsApart, NodesType
<1>13. /\ Q.streams = conf.streams /\ Q.subs = conf.subs /\ Q.users = conf.users /\ Q.trans = conf.trans
       /\ Q.leaving = conf.leaving /\ Q.ops = conf.ops /\ Q.sessions = conf.sessions
       /\ \/ Q.calls = (conf.calls \ {c}) \cup {d} /\ w = "session" /\ i \in nodes.sessions
          \/ Q.calls = conf.calls \ {c} /\ (w = "late" \/ i \notin nodes.sessions)
  <2>1. ASSUME Q = Call(D, d)
        PROVE  Made(D, Q, d)
    <3>1. d \in Calls /\ D \in ConfType
      BY <1>3, <1>6, <1>7 DEF Calls, RecycleCalls, Core, Good
    <3> QED
      BY ONLY <2>1, <3>1, MadeFacts
  <2>2. CASE Q = Call(D, d) /\ w = "session" /\ i \in nodes.sessions
    BY ONLY <1>8, <2>1, <2>2 DEF Made, Still, ListsStill
  <2>3. CASE Q = D /\ (w = "late" \/ i \notin nodes.sessions)
    BY ONLY <1>8, <2>3
  <2> QED
    BY ONLY <1>5, <2>2, <2>3
<1>14. /\ M.trans = nodes.trans /\ M.held = nodes.held /\ i \notin M.sessions
       /\ \A j : j # i => (j \in M.sessions <=> j \in nodes.sessions)
  BY ONLY <1>5, <1>10 DEF NodesType
<1>15. d.call = "recycle" /\ d.id = i /\ d.why = "session"
  BY ONLY <1>3
<1>16. Apart(conf, Q, {i})
  BY ONLY <1>1, <1>13, <1>15 DEF Apart
<1>17. NodesApart(conf, nodes, M, {i})
  BY ONLY <1>14 DEF NodesApart
<1>18. Left(Q, Q.users)
  BY ONLY <1>13, Sound(conf, nodes) DEF Sound, Left, OpsOn
<1>19. /\ Has(Q, i, "node") <=> Has(conf, i, "node")
       /\ Has(Q, i, "initiate") <=> Has(conf, i, "initiate")
       /\ Has(Q, i, "subscribe") <=> Has(conf, i, "subscribe")
       /\ Unserved(Q, i) <=> Unserved(conf, i)
       /\ Recycling(Q, i, "late") <=> Recycling(conf, i, "late")
       /\ Recycling(conf, i, "session") => Recycling(Q, i, "session")
  BY ONLY <1>5, <1>13, <1>15 DEF Has, Unserved, Recycling
<1>20. /\ Late(Q, i) => Late(conf, i)
       /\ w = "late" => Late(conf, i)
       /\ w = "session" => Closing(conf, i)
  BY ONLY <1>1, <1>5, <1>13, <1>15, c \in conf.calls DEF Late, Closing, Ended
<1>21. Listed(Q, i) <=> Listed(conf, i)
  BY ONLY <1>13 DEF Listed
<1>22. Awaited(Q, i) <=> Awaited(conf, i)
  BY ONLY <1>19 DEF Awaited
<1>23. w = "session" /\ i \in DOMAIN conf.sessions =>
         conf.sessions[i].state # "initialized" /\ Recycling(Q, i, "session")
  <2>1. w = "session" /\ i \in nodes.sessions => Recycling(Q, i, "session")
    BY ONLY <1>13, <1>15 DEF Recycling
  <2> QED
    BY ONLY <1>9, <1>11, <1>19, <1>20, <2>1 DEF SessionHeld
<1>24. ~Listed(conf, i) /\ (i \in DOMAIN conf.sessions => w = "session" /\ Closing(Q, i))
  BY ONLY <1>5, <1>9, <1>11, <1>20, <1>23 DEF Carried, SessionHeld, Closing
<1>25. Carried(Q, i) /\ Sourced(Q, i)
  BY ONLY <1>11, <1>13, <1>21, <1>24 DEF Carried, Sourced, Listed
<1>26. Followed(Q, i) /\ OnNode(Q, M, i)
  BY ONLY <1>12, <1>13, <1>23, <1>24 DEF Followed, OnNode
<1>27. TransHeld(Q, M, i)
  BY ONLY <1>11, <1>12, <1>13, <1>14 DEF TransHeld
<1>28. SessionHeld(Q, M, i)
  <2>1. i \in nodes.held => Has(Q, i, "initiate") \/ Recycling(Q, i, "session") \/ Recycling(Q, i, "late")
    <3>1. w = "session" /\ i \in nodes.sessions => Recycling(Q, i, "session")
      BY ONLY <1>13, <1>15 DEF Recycling
    <3> QED
      BY ONLY <1>5, <1>9, <1>11, <1>19, <1>20, <3>1 DEF SessionHeld
  <2> QED
    BY ONLY <1>9, <1>11, <1>13, <1>14, <1>19, <1>20, <1>23, <1>24, <2>1 DEF SessionHeld
<1>29. Whole(Q, M, i)
  BY ONLY <1>25, <1>26, <1>27, <1>28 DEF Whole
<1> QED
  BY ONLY <1>4, <1>16, <1>17, <1>18, <1>29, Sound(conf, nodes), SoundOne

(* The node of a session is given back.                                    *)
LEMMA SoundRecycled ==
  ASSUME Core(conf, nodes), Sound(conf, nodes), NEW c \in conf.calls, Recycled(c), ~Fail
  PROVE  Sound(conf', nodes')
<1>1. PICK i, w : i = c.id /\ w = c.why
  OBVIOUS
<1>2. PICK D : D = Done(c)
  OBVIOUS
<1>3. PICK F : F = [D EXCEPT !.sessions = Without(@, i)]
  OBVIOUS
<1>4. PICK Q, M : Q = conf' /\ M = nodes'
  OBVIOUS
<1>5. /\ c.call = "recycle" /\ M = [nodes EXCEPT !.held = @ \ {i}]
      /\ Q = IF w = "session" THEN F ELSE D
  BY ONLY <1>1, <1>2, <1>3, <1>4, Recycled(c), ~Fail DEF Recycled
<1>6. Answered(conf, D, c) /\ Core(D, nodes)
  BY ONLY <1>2, Core(conf, nodes), CoreDone
<1>7. i \in Ids /\ w \in {"session", "late"}
  BY <1>1, <1>5, ConfFacts, CallTypes DEF Core, Good
<1>8. /\ D.streams = conf.streams /\ D.subs = conf.subs /\ D.users = conf.users /\ D.trans = conf.trans
      /\ D.leaving = conf.leaving /\ D.ops = conf.ops /\ D.sessions = conf.sessions
      /\ D.calls = conf.calls \ {c}
  BY ONLY <1>6 DEF Answered, Wanes, ListsStill
<1>9. Forgets(D, F, i)
  BY ONLY <1>3, <1>6, CoreForget
<1>10. /\ Q.streams = conf.streams /\ Q.subs = conf.subs /\ Q.users = conf.users /\ Q.trans = conf.trans
       /\ Q.leaving = conf.leaving /\ Q.ops = conf.ops /\ Q.calls = conf.calls \ {c}
       /\ \A j : j # i => (j \in DOMAIN Q.sessions <=> j \in DOMAIN conf.sessions)
       /\ \A j \in DOMAIN Q.sessions : Q.sessions[j] = conf.sessions[j]
       /\ i \in DOMAIN Q.sessions => i \in DOMAIN conf.sessions /\ w = "late"
  <2>1. CASE Q = F /\ w = "session"
    BY ONLY <1>8, <1>9, <2>1 DEF Forgets, Wanes, ListsStill, Part
  <2>2. CASE Q = D /\ w = "late"
    BY ONLY <1>8, <2>2
  <2> QED
    BY ONLY <1>5, <1>7, <2>1, <2>2
<1>11. Whole(conf, nodes, i) /\ Carried(conf, i) /\ SessionHeld(conf, nodes, i)
  BY ONLY <1>7, Sound(conf, nodes) DEF Sound, Whole
<1>12. CallsApart(conf, nodes) /\ KindsApart(conf) /\ NodesType(conf, nodes)
  BY DEF Core
<1>13. i \in bound.sessions /\ ~Unserved(conf, i)
  BY ONLY <1>1, <1>5, <1>12, c \in conf.calls DEF CallsApart
<1>14. i \notin DOMAIN conf.ops /\ i \notin DOMAIN conf.trans /\ i \notin nodes.trans
  BY ONLY <1>12, <1>13 DEF KindsApart, NodesType
<1>15. M.sessions = nodes.sessions /\ M.trans = nodes.trans /\ M.held = nodes.held \ {i}
  BY ONLY <1>5, <1>12 DEF NodesType
<1>16. Apart(conf, Q, {i})
  BY ONLY <1>1, <1>10 DEF Apart
<1>17. NodesApart(conf, nodes, M, {i})
  <2>1. \A j \in DOMAIN conf.ops : conf.ops[j].trans # i
    BY ONLY <1>12, <1>14 DEF KindsApart
  <2> QED
    BY ONLY <1>15, <2>1 DEF NodesApart
<1>18. Left(Q, Q.users)
  BY ONLY <1>10, Sound(conf, nodes) DEF Sound, Left, OpsOn
<1>19. Recycling(conf, i, w)
  BY ONLY <1>1, <1>5, c \in conf.calls DEF Recycling
<1>20. ~Listed(conf, i)
  BY ONLY <1>7, <1>11, <1>13, <1>19 DEF Carried, SessionHeld, Closing
<1>21. i \notin DOMAIN Q.sessions
  BY ONLY <1>7, <1>10, <1>11, <1>13, <1>19 DEF SessionHeld
<1>22. /\ Unserved(Q, i) <=> Unserved(conf, i)
       /\ Recycling(Q, i, "session") => Recycling(conf, i, "session")
       /\ Late(Q, i) <=> Late(conf, i)
  BY ONLY <1>5, <1>10 DEF Unserved, Recycling, Late, Ended
<1>23. Carried(Q, i) /\ Sourced(Q, i) /\ Followed(Q, i) /\ OnNode(Q, M, i)
  BY ONLY <1>10, <1>13, <1>14, <1>20, <1>21 DEF Carried, Sourced, Followed, OnNode, Listed
<1>24. TransHeld(Q, M, i)
  BY ONLY <1>10, <1>13, <1>14, <1>15 DEF TransHeld
<1>25. SessionHeld(Q, M, i)
  <2>1. i \in nodes.sessions => Late(conf, i)
    BY ONLY <1>7, <1>11, <1>13, <1>19 DEF SessionHeld
  <2> QED
    BY ONLY <1>11, <1>13, <1>15, <1>21, <1>22, <2>1 DEF SessionHeld
<1>26. Whole(Q, M, i)
  BY ONLY <1>23, <1>24, <1>25 DEF Whole
<1> QED
  BY ONLY <1>4, <1>16, <1>17, <1>18, <1>26, Sound(conf, nodes), SoundOne

(* All but whether what is ready is told.                                  *)
Borne(R, N, i) ==
  Carried(R, i) /\ Sourced(R, i) /\ OnNode(R, N, i) /\ TransHeld(R, N, i) /\ SessionHeld(R, N, i)

(* What is ready is told to the room controller.                           *)
LEMMA EntersWhole ==
  ASSUME NEW R, NEW N, NEW Q, NEW is, Enters(R, Q, is), Q.mishaps = {}, NEW i, Borne(R, N, i),
         \/ Followed(R, i)
         \/ i \in is /\ (i \in DOMAIN R.sessions => R.sessions[i].state # "initialized")
  PROVE  Whole(Q, N, i)
<1>1. /\ Q.users = R.users /\ Q.ops = R.ops /\ Q.trans = R.trans /\ Q.leaving = R.leaving
      /\ Q.subs = R.subs /\ Q.sessions = R.sessions
  BY DEF Enters, Still
<1>2. /\ \A s : s \in DOMAIN Q.streams <=> s \in DOMAIN R.streams
      /\ \A s \in DOMAIN Q.streams : s \notin is => Q.streams[s] = R.streams[s]
      /\ \A s \in DOMAIN Q.streams : s \in is => Q.streams[s].up
      /\ i \in is /\ i \in Streams => i \in DOMAIN Q.streams
  <2>1. /\ \A s : s \in DOMAIN Q.streams <=> s \in DOMAIN R.streams \/ s \in is \cap Streams
        /\ is \cap Streams \subseteq DOMAIN R.streams
    BY ONLY Enters(R, Q, is), Q.mishaps = {} DEF Enters
  <2>2. ASSUME NEW s \in DOMAIN Q.streams
        PROVE  (s \notin is => Q.streams[s] = R.streams[s]) /\ (s \in is => Q.streams[s].up)
    <3>1. PICK o : o = SpecOf(R, s).owner
      OBVIOUS
    <3>2. Q.streams[s] = IF s \in is THEN [owner |-> o, up |-> TRUE] ELSE R.streams[s]
      BY ONLY <3>1, s \in DOMAIN Q.streams, Enters(R, Q, is) DEF Enters
    <3> QED
      BY ONLY <3>1, <3>2
  <2> QED
    BY ONLY <2>1, <2>2
<1>3. /\ \A c \in R.calls : c \in Q.calls
      /\ \A c \in Q.calls : c \in R.calls \/ c.call = "subscribe"
      /\ i \in is /\ i \notin Streams => Has(Q, i, "subscribe")
  BY DEF Enters, Has
<1>4. /\ Has(Q, i, "node") <=> Has(R, i, "node")
      /\ Has(Q, i, "initiate") <=> Has(R, i, "initiate")
      /\ Has(R, i, "subscribe") => Has(Q, i, "subscribe")
      /\ Unserved(Q, i) <=> Unserved(R, i)
      /\ \A w : Recycling(Q, i, w) <=> Recycling(R, i, w)
      /\ \A ws : Ended(Q, i, ws) <=> Ended(R, i, ws)
  <2>1. \A c : c.call # "subscribe" => (c \in Q.calls <=> c \in R.calls)
    BY ONLY <1>3
  <2>2. \A k : k # "subscribe" => (Has(Q, i, k) <=> Has(R, i, k))
    BY ONLY <2>1 DEF Has
  <2>3. Has(R, i, "subscribe") => Has(Q, i, "subscribe")
    BY ONLY <1>3 DEF Has
  <2>4. Unserved(Q, i) <=> Unserved(R, i)
    BY ONLY <2>1 DEF Unserved
  <2>5. \A w : Recycling(Q, i, w) <=> Recycling(R, i, w)
    BY ONLY <2>1 DEF Recycling
  <2>6. \A ws : Ended(Q, i, ws) <=> Ended(R, i, ws)
    BY ONLY <2>1 DEF Ended
  <2> QED
    BY ONLY <2>2, <2>3, <2>4, <2>5, <2>6
<1>5. /\ Awaited(Q, i) <=> Awaited(R, i)
      /\ Ending(Q, i) <=> Ending(R, i)
      /\ Closing(Q, i) <=> Closing(R, i)
      /\ Late(Q, i) <=> Late(R, i)
  BY ONLY <1>4 DEF Awaited, Ending, Closing, Late
<1>6. Listed(Q, i) <=> Listed(R, i)
  BY ONLY <1>1, <1>2 DEF Listed
<1>7. Up(R, i) => Up(Q, i)
  BY ONLY <1>1, <1>2 DEF Up
<1>8. i \in is => Up(Q, i) \/ Has(Q, i, "subscribe")
  BY ONLY <1>2, <1>3 DEF Up
<1>9. Carried(Q, i)
  <2>1. \A c \in Q.calls : c.call = "node" => c \in R.calls
    BY ONLY <1>3
  <2> QED
    BY ONLY <1>1, <1>4, <1>5, <1>6, <2>1, Borne(R, N, i) DEF Borne, Carried
<1>10. Sourced(Q, i)
  BY ONLY <1>1, <1>2, <1>5, Borne(R, N, i) DEF Borne, Sourced
<1>11. OnNode(Q, N, i) /\ TransHeld(Q, N, i)
  BY ONLY <1>1, <1>4, Borne(R, N, i) DEF Borne, OnNode, TransHeld
<1>12. SessionHeld(Q, N, i)
  BY ONLY <1>1, <1>4, <1>5, Borne(R, N, i) DEF Borne, SessionHeld
<1>13. Followed(Q, i)
  <2>1. CASE Followed(R, i)
    BY ONLY <1>1, <1>4, <1>5, <1>7, <2>1 DEF Followed
  <2>2. CASE i \in is /\ (i \in DOMAIN R.sessions => R.sessions[i].state # "initialized")
    BY ONLY <1>1, <1>8, <2>2 DEF Followed
  <2> QED
    BY ONLY <2>1, <2>2, Followed(R, i) \/ (i \in is /\ (i \in DOMAIN R.sessions => R.sessions[i].state # "initialized"))
<1> QED
  BY ONLY <1>9, <1>10, <1>11, <1>12, <1>13 DEF Whole

LEMMA EntersLeft ==
  ASSUME NEW R, NEW Q, NEW is, Enters(R, Q, is), Left(R, R.users)
  PROVE  Left(Q, Q.users)
BY DEF Enters, Still, Left, OpsOn

(* Fading bears what was borne.                                            *)
LEMMA FadeBorne ==
  ASSUME NEW R, NEW N, Core(R, N), NEW Q, Fades(R, Q, {}), Unthrown(Q), NEW i \in Ids, Borne(R, N, i)
  PROVE  Borne(Q, N, i) /\ (Followed(R, i) => Followed(Q, i))
<1>1. i \notin {}
  OBVIOUS
<1>2. /\ OnNode(R, N, i) => OnNode(Q, N, i)
      /\ TransHeld(R, N, i) => TransHeld(Q, N, i)
      /\ SessionHeld(R, N, i) => SessionHeld(Q, N, i)
  BY ONLY Core(R, N), Fades(R, Q, {}), FadeHeld
<1>3. /\ Carried(R, i) => Carried(Q, i)
      /\ Carried(R, i) /\ Sourced(R, i) => Sourced(Q, i)
      /\ Followed(R, i) => Followed(Q, i)
  BY ONLY <1>1, Core(R, N), Fades(R, Q, {}), Unthrown(Q), i \in Ids, FadeListed
<1> QED
  BY ONLY <1>2, <1>3, Borne(R, N, i) DEF Borne

(* Operations are ready: those that are not welcome are ended.             *)
LEMMA SoundOpsEstablished ==
  ASSUME NEW R, NEW N, Core(R, N), NEW is, is \subseteq DOMAIN R.ops, \A i \in is : WasReady(R, i) /\ Unready(R, i),
         \A i \in Ids : Borne(R, N, i), \A i \in Ids : i \notin is => Followed(R, i), Left(R, R.users),
         NEW Q, Q = OpsEstablished(R, is), Q.mishaps = {}
  PROVE  Sound(Q, N)
<1>1. Good(R) /\ SpecsKnown(R) /\ R \in ConfType /\ KindsApart(R)
  BY DEF Core, Good
<1>2. \A i \in is : SpecOf(R, i) = R.ops[i].spec /\ i \notin DOMAIN R.sessions
  BY <1>1 DEF SpecOf, KindsApart
<1>3. \A i \in is : SpecOf(R, i) \in SpecsOf(i)
  <2>1. \A i \in is : Known(R, i, SpecOf(R, i))
    BY <1>2 DEF Known
  <2> QED
    BY ONLY <1>1, <2>1 DEF SpecsKnown
<1>4. \A x \in DOMAIN R.subs : R.subs[x].up => R.subs[x].from \notin is
  BY DEF Unready
<1>5. PICK W, T :
        /\ Fades(R, T, {}) /\ ListsStill(R, T) /\ Smoothly(R, T)
        /\ \A i \in is : i \notin W => Ended(T, i, {"asked"})
        /\ Enters(T, Q, W)
  BY ONLY <1>1, <1>3, <1>4, is \subseteq DOMAIN R.ops, Q = OpsEstablished(R, is), OpsEstablishedFacts
<1>6. Core(T, N)
  BY ONLY <1>5, Core(R, N), CoreFades
<1>7. Unthrown(T)
  <2>1. T.mishaps \subseteq Q.mishaps
    BY ONLY <1>5 DEF Enters
  <2> QED
    BY ONLY <2>1, Q.mishaps = {} DEF Unthrown
<1>8. T.sessions = R.sessions /\ T.users = R.users
  BY ONLY <1>5 DEF Fades, Still, Smoothly
<1>9. ASSUME NEW i \in Ids
      PROVE  Whole(Q, N, i)
  <2>1. Borne(R, N, i)
    BY ONLY <1>9, \A j \in Ids : Borne(R, N, j)
  <2>2. Borne(T, N, i) /\ (Followed(R, i) => Followed(T, i))
    BY ONLY <1>5, <1>7, <1>9, <2>1, Core(R, N), FadeBorne
  <2>3. CASE i \notin is
    <3>1. Followed(R, i)
      BY ONLY <1>9, <2>3, \A j \in Ids : j \notin is => Followed(R, j)
    <3> QED
      BY ONLY <1>5, <2>2, <3>1, Q.mishaps = {}, EntersWhole
  <2>4. CASE i \in is /\ i \in W
    <3>1. i \notin DOMAIN T.sessions
      BY ONLY <1>2, <1>8, <2>4
    <3> QED
      BY ONLY <1>5, <2>2, <2>4, <3>1, Q.mishaps = {}, EntersWhole
  <2>5. CASE i \in is /\ i \notin W
    <3>1. Ending(T, i)
      BY ONLY <1>5, <2>5 DEF Ending, Ended, Operation
    <3>2. Followed(T, i)
      BY ONLY <1>2, <1>8, <2>5, <3>1 DEF Followed
    <3> QED
      BY ONLY <1>5, <2>2, <3>2, Q.mishaps = {}, EntersWhole
  <2> QED
    BY ONLY <2>3, <2>4, <2>5
<1>10. Left(Q, Q.users)
  <2>1. Left(T, T.users)
    BY ONLY <1>5, <1>8, Left(R, R.users), FadeLeft
  <2> QED
    BY ONLY <1>5, <2>1, EntersLeft
<1> QED
  BY ONLY <1>9, <1>10 DEF Sound

(* A session is ready.                                                     *)
LEMMA SoundSessionReady ==
  ASSUME Core(conf, nodes), Sound(conf, nodes), NEW i, SessionReady(i), conf'.mishaps = {}
  PROVE  Sound(conf', nodes')
<1>1. PICK R : R = [conf EXCEPT !.sessions[i].state = "connected", !.sessions[i].ready = TRUE]
  OBVIOUS
<1>2. /\ i \in nodes.sessions /\ i \in DOMAIN conf.sessions /\ ~conf.sessions[i].ready
      /\ conf' = SessionEstablished(R, i) /\ nodes' = nodes
  BY ONLY <1>1, SessionReady(i) DEF SessionReady
<1>3. PICK r : r = [conf.sessions[i] EXCEPT !.state = "connected", !.ready = TRUE]
  OBVIOUS
<1>4. PICK T : T = [conf.sessions EXCEPT ![i] = r]
  OBVIOUS
<1>5. conf \in ConfType /\ KindsApart(conf) /\ CallsApart(conf, nodes) /\ ReadyOnce(conf) /\ NodesType(conf, nodes)
  BY DEF Core, Good
<1>6. conf.sessions[i] \in SessionRecords /\ i \in Ids
  BY <1>2, <1>5, KeyFacts
<1>7. r \in SessionRecords /\ r.ready /\ r.state = "connected" /\ r.spec = conf.sessions[i].spec
  BY ONLY <1>3, <1>6 DEF SessionRecords
<1>8. R = [conf EXCEPT !.sessions = T]
  BY ONLY <1>1, <1>3, <1>4, <1>2, <1>5, <1>6 DEF ConfType, SessionRecords
<1>9. ~Has(conf, i, "node") /\ ~Unserved(conf, i)
  <2>1. ~NotBegun(conf, nodes, i)
    BY ONLY <1>2 DEF NotBegun
  <2> QED
    BY ONLY <1>5, <2>1 DEF CallsApart, Has, Unserved
<1>10. Core(R, nodes) /\ Advances(conf, R, i, r)
  BY ONLY <1>2, <1>4, <1>7, <1>8, <1>9, Core(conf, nodes), CoreState
<1>11. /\ R.sessions[i] = r /\ DOMAIN R.sessions = DOMAIN conf.sessions
       /\ \A d \in DOMAIN conf.sessions : d # i => R.sessions[d] = conf.sessions[d]
       /\ R.calls = conf.calls /\ R.ops = conf.ops /\ R.pub = conf.pub /\ R.subs = conf.subs
       /\ R.streams = conf.streams /\ R.users = conf.users /\ R.trans = conf.trans /\ R.leaving = conf.leaving
  BY ONLY <1>10 DEF Advances, CarriersOnly, ListsStill
<1>12. i \in bound.sessions /\ i \notin DOMAIN conf.ops /\ i \notin DOMAIN conf.trans /\ i \notin nodes.trans
  BY ONLY <1>2, <1>5 DEF KindsApart, NodesType
<1>13. Unready(R, i)
  <2>1. ~WasReady(conf, i)
    BY ONLY <1>2 DEF WasReady
  <2>2. Unready(conf, i)
    BY ONLY <1>5, <2>1, NotReady
  <2> QED
    BY ONLY <1>11, <2>2 DEF Unready
<1>14. Apart(conf, R, {i}) /\ NodesApart(conf, nodes, nodes, {i})
  BY ONLY <1>11, NodesSame DEF Apart
<1>15. Left(R, R.users)
  BY ONLY <1>11, Sound(conf, nodes) DEF Sound, Left, OpsOn
<1>16. Borne(R, nodes, i)
  <2>1. Whole(conf, nodes, i)
    BY ONLY <1>6, Sound(conf, nodes) DEF Sound
  <2>2. /\ \A k : Has(R, i, k) <=> Has(conf, i, k)
        /\ Unserved(R, i) <=> Unserved(conf, i)
        /\ \A w : Recycling(R, i, w) <=> Recycling(conf, i, w)
        /\ \A ws : Ended(R, i, ws) <=> Ended(conf, i, ws)
    BY ONLY <1>11 DEF Has, Unserved, Recycling, Ended
  <2>3. /\ Awaited(R, i) <=> Awaited(conf, i)
        /\ Closing(R, i) <=> Closing(conf, i)
        /\ Late(R, i) <=> Late(conf, i)
        /\ Listed(R, i) <=> Listed(conf, i)
    BY ONLY <1>11, <2>2 DEF Awaited, Closing, Late, Listed
  <2>4. Carried(R, i) /\ Sourced(R, i)
    BY ONLY <1>11, <1>12, <2>1, <2>3 DEF Whole, Carried, Sourced
  <2>5. OnNode(R, nodes, i) /\ TransHeld(R, nodes, i)
    BY ONLY <1>11, <1>12 DEF OnNode, TransHeld
  <2>6. SessionHeld(R, nodes, i)
    BY ONLY <1>2, <1>7, <1>11, <2>1, <2>2, <2>3 DEF Whole, SessionHeld
  <2> QED
    BY ONLY <2>4, <2>5, <2>6 DEF Borne
<1>17. PICK Q : Q = conf'
  OBVIOUS
<1>18. CASE Welcome(R, i)
  <2>1. Q = Enter(R, {i})
    BY ONLY <1>2, <1>17, <1>18 DEF SessionEstablished
  <2>2. PICK is : is = {i}
    OBVIOUS
  <2>3. SpecsKnown(R) /\ Good(R)
    BY ONLY <1>10 DEF Core
  <2>4. SpecOf(R, i) \in SpecsOf(i)
    <3>1. Known(R, i, SpecOf(R, i))
      BY ONLY <1>2, <1>11 DEF Known, SpecOf
    <3> QED
      BY ONLY <2>3, <3>1 DEF SpecsKnown
  <2>5. /\ is \subseteq Ids
        /\ \A j \in is : SpecOf(R, j) \in SpecsOf(j)
        /\ \A x \in DOMAIN R.subs : R.subs[x].up => R.subs[x].from \notin is
    BY ONLY <1>6, <1>13, <2>2, <2>4 DEF Unready
  <2>6. Enters(R, Q, is)
    BY ONLY <2>1, <2>2, <2>3, <2>5, EnterFacts
  <2>7. Q.mishaps = {}
    BY ONLY <1>17, conf'.mishaps = {}
  <2>8. ASSUME NEW j \in Ids
        PROVE  Whole(Q, nodes, j)
    <3>1. CASE j = i
      <4>1. i \in is /\ (i \in DOMAIN R.sessions => R.sessions[i].state # "initialized")
        BY ONLY <1>7, <1>11, <2>2
      <4> QED
        BY ONLY <1>16, <2>6, <2>7, <3>1, <4>1, EntersWhole
    <3>2. CASE j \notin {i}
      <4>1. Whole(conf, nodes, j)
        BY ONLY <2>8, Sound(conf, nodes) DEF Sound
      <4>2. Whole(R, nodes, j)
        BY ONLY <1>14, <3>2, <4>1, ApartWhole
      <4>3. Borne(R, nodes, j) /\ Followed(R, j)
        BY ONLY <4>2 DEF Whole, Borne
      <4> QED
        BY ONLY <2>6, <2>7, <4>3, EntersWhole
    <3> QED
      BY ONLY <3>1, <3>2
  <2>9. Left(Q, Q.users)
    BY ONLY <1>15, <2>6, EntersLeft
  <2> QED
    BY ONLY <1>2, <1>17, <2>8, <2>9 DEF Sound
<1>19. CASE ~Welcome(R, i)
  <2>1. Q = Terminate(R, i)
    BY ONLY <1>2, <1>17, <1>19 DEF SessionEstablished
  <2>2. Good(R)
    BY ONLY <1>10 DEF Core
  <2>3. /\ Fades(R, Q, {})
        /\ i \in DOMAIN R.sessions /\ i \in DOMAIN Q.sessions => Ended(Q, i, {"session"})
    BY ONLY <1>6, <2>1, <2>2, TerminateFacts
  <2>4. Unthrown(Q)
    BY ONLY <1>17, conf'.mishaps = {} DEF Unthrown
  <2>5. Borne(Q, nodes, i)
    BY ONLY <1>6, <1>10, <1>16, <2>3, <2>4, FadeBorne
  <2>6. Followed(Q, i)
    <3>1. /\ i \notin DOMAIN Q.ops
          /\ i \in DOMAIN Q.sessions => i \in DOMAIN R.sessions /\ Q.sessions[i] = r
      BY ONLY <1>11, <1>12, <2>3 DEF Fades, Still, Part
    <3> QED
      BY ONLY <1>7, <2>3, <3>1 DEF Followed, Closing
  <2>7. Fades(R, Q, {i})
    BY ONLY <2>3, {} \subseteq {i}, FadesMore
  <2>8. /\ OnNode(R, nodes, i) /\ TransHeld(R, nodes, i) /\ SessionHeld(R, nodes, i)
        /\ Carried(Q, i) /\ Sourced(Q, i)
    BY ONLY <1>16, <2>5 DEF Borne
  <2>9. Sound(Q, nodes)
    BY ONLY <1>10, <1>14, <1>15, <2>4, <2>6, <2>7, <2>8, Sound(conf, nodes), SoundFaded
  <2> QED
    BY ONLY <1>2, <1>17, <2>9
<1> QED
  BY ONLY <1>18, <1>19

(* All tracks of an operation are there.                                   *)
LEMMA SoundTracksComplete ==
  ASSUME Core(conf, nodes), Sound(conf, nodes), NEW i, TracksComplete(i), conf'.mishaps = {}
  PROVE  Sound(conf', nodes')
<1>1. PICK R : R = [conf EXCEPT !.ops[i].done = TRUE]
  OBVIOUS
<1>2. PICK is : is = {i}
  OBVIOUS
<1>3. /\ i \in DOMAIN conf.ops /\ ~conf.ops[i].done /\ nodes' = nodes
      /\ \A c \in conf.calls : c.call = "initiate" => c.id # i
      /\ conf' = IF R.trans[R.ops[i].trans].ready THEN OpsEstablished(R, is) ELSE R
  BY ONLY <1>1, <1>2, TracksComplete(i) DEF TracksComplete
<1>4. KindsApart(conf) /\ CallsApart(conf, nodes) /\ ReadyOnce(conf) /\ conf \in ConfType
  BY DEF Core, Good
<1>5. /\ Core(R, nodes) /\ CarriersOnly(conf, R) /\ R.sessions = conf.sessions /\ R.trans = conf.trans
      /\ DOMAIN R.ops = DOMAIN conf.ops /\ \A d \in DOMAIN conf.ops : d # i => R.ops[d] = conf.ops[d]
      /\ R.ops[i].done /\ R.ops[i].trans = conf.ops[i].trans
  BY ONLY <1>1, <1>3, Core(conf, nodes), CoreOpDone
<1>6. /\ R.calls = conf.calls /\ R.pub = conf.pub /\ R.subs = conf.subs /\ R.streams = conf.streams
      /\ R.users = conf.users /\ R.leaving = conf.leaving
  BY ONLY <1>5 DEF CarriersOnly, ListsStill
<1>7. i \in Ids /\ i \notin bound.sessions /\ i \notin DOMAIN R.sessions
  BY ONLY <1>3, <1>4, <1>5, KeyFacts DEF KindsApart
<1>8. Apart(conf, R, {i}) /\ NodesApart(conf, nodes, nodes, {i})
  BY ONLY <1>5, <1>6, NodesSame DEF Apart
<1>9. Left(R, R.users)
  <2>1. \A ts : OpsOn(R, ts) = OpsOn(conf, ts)
    BY ONLY <1>3, <1>5 DEF OpsOn
  <2> QED
    BY ONLY <1>5, <1>6, <2>1, Sound(conf, nodes) DEF Sound, Left
<1>10. Borne(R, nodes, i)
  <2>1. Whole(conf, nodes, i)
    BY ONLY <1>7, Sound(conf, nodes) DEF Sound
  <2>2. /\ \A k : Has(R, i, k) <=> Has(conf, i, k)
        /\ Unserved(R, i) <=> Unserved(conf, i)
        /\ \A ws : Ended(R, i, ws) <=> Ended(conf, i, ws)
    BY ONLY <1>6 DEF Has, Unserved, Ended
  <2>3. /\ Awaited(R, i) <=> Awaited(conf, i)
        /\ Ending(R, i) <=> Ending(conf, i)
        /\ Listed(R, i) <=> Listed(conf, i)
    BY ONLY <1>6, <2>2 DEF Awaited, Ending, Listed
  <2>4. Carried(R, i)
    BY ONLY <1>5, <1>6, <1>7, <2>1, <2>2, <2>3 DEF Whole, Carried
  <2>5. Sourced(R, i)
    BY ONLY <1>6, <1>7, <2>1, <2>3 DEF Whole, Sourced
  <2>6. OnNode(R, nodes, i)
    BY ONLY <1>3, <1>5, <2>1, <2>2 DEF Whole, OnNode
  <2>7. TransHeld(R, nodes, i)
    BY ONLY <1>3, <1>5, <1>6, <2>1, <2>2 DEF Whole, TransHeld
  <2>8. SessionHeld(R, nodes, i)
    BY ONLY <1>7 DEF SessionHeld
  <2> QED
    BY ONLY <2>4, <2>5, <2>6, <2>7, <2>8 DEF Borne
<1>11. ASSUME NEW j \in Ids, j # i
       PROVE  Whole(R, nodes, j)
  <2>1. Whole(conf, nodes, j)
    BY ONLY <1>11, Sound(conf, nodes) DEF Sound
  <2>2. j \notin {i}
    BY ONLY <1>11
  <2> QED
    BY ONLY <1>8, <2>1, <2>2, ApartWhole
<1>12. CASE R.trans[R.ops[i].trans].ready
  <2>1. PICK Q : Q = OpsEstablished(R, is)
    OBVIOUS
  <2>2. conf' = Q
    BY ONLY <1>3, <1>12, <2>1
  <2>3. WasReady(R, i)
    <3>1. ~Has(R, i, "node")
      BY ONLY <1>3, <1>4, <1>6 DEF CallsApart, Has
    <3> QED
      BY ONLY <1>3, <1>5, <1>7, <1>12, <3>1 DEF WasReady
  <2>4. Unready(R, i)
    <3>1. ~WasReady(conf, i)
      BY ONLY <1>3 DEF WasReady
    <3>2. Unready(conf, i)
      BY ONLY <1>4, <3>1, NotReady
    <3> QED
      BY ONLY <1>6, <3>2 DEF Unready
  <2>5. is \subseteq DOMAIN R.ops /\ \A j \in is : WasReady(R, j) /\ Unready(R, j)
    BY ONLY <1>2, <1>3, <1>5, <2>3, <2>4
  <2>6. \A j \in Ids : Borne(R, nodes, j)
    BY ONLY <1>10, <1>11 DEF Whole, Borne
  <2>7. \A j \in Ids : j \notin is => Followed(R, j)
    BY ONLY <1>2, <1>11 DEF Whole
  <2>8. Q.mishaps = {}
    BY ONLY <2>2, conf'.mishaps = {}
  <2>9. Sound(Q, nodes)
    BY ONLY <1>5, <1>9, <2>1, <2>5, <2>6, <2>7, <2>8, SoundOpsEstablished
  <2> QED
    BY ONLY <1>3, <2>2, <2>9
<1>13. CASE ~R.trans[R.ops[i].trans].ready
  <2>1. conf' = R
    BY ONLY <1>3, <1>13
  <2>2. Followed(R, i)
    BY ONLY <1>7, <1>13 DEF Followed
  <2>3. Whole(R, nodes, i)
    BY ONLY <1>10, <2>2 DEF Whole, Borne
  <2>4. Sound(R, nodes)
    BY ONLY <1>8, <1>9, <2>3, Sound(conf, nodes), SoundOne
  <2> QED
    BY ONLY <1>3, <2>1, <2>4
<1> QED
  BY ONLY <1>12, <1>13

(* A transport is ready: so is what was complete on it.                    *)
LEMMA SoundTransportReady ==
  ASSUME Core(conf, nodes), Sound(conf, nodes), NEW t, TransportReady(t), conf'.mishaps = {}
  PROVE  Sound(conf', nodes')
<1>1. PICK R : R = [conf EXCEPT !.trans[t].ready = TRUE]
  OBVIOUS
<1>2. PICK is : is = {i \in OpsOn(conf, {t}) : conf.ops[i].done}
  OBVIOUS
<1>3. /\ t \in nodes.trans /\ ~conf.trans[t].ready /\ nodes' = nodes
      /\ conf' = OpsEstablished(R, is)
  BY ONLY <1>1, <1>2, TransportReady(t) DEF TransportReady, TransportConnected
<1>4. KindsApart(conf) /\ CallsApart(conf, nodes) /\ ReadyOnce(conf) /\ NodesType(conf, nodes)
  BY DEF Core
<1>5. t \in DOMAIN conf.trans
  BY ONLY <1>3, <1>4 DEF NodesType
<1>6. /\ Core(R, nodes) /\ CarriersOnly(conf, R) /\ R.sessions = conf.sessions /\ R.ops = conf.ops
      /\ DOMAIN R.trans = DOMAIN conf.trans /\ \A d \in DOMAIN conf.trans : d # t => R.trans[d] = conf.trans[d]
      /\ R.trans[t].ready /\ R.trans[t].owner = conf.trans[t].owner
  BY ONLY <1>1, <1>5, Core(conf, nodes), CoreTransReady
<1>7. /\ R.calls = conf.calls /\ R.pub = conf.pub /\ R.subs = conf.subs /\ R.streams = conf.streams
      /\ R.users = conf.users /\ R.leaving = conf.leaving
  BY ONLY <1>6 DEF CarriersOnly, ListsStill
<1>8. \A i : i \in is <=> i \in DOMAIN conf.ops /\ conf.ops[i].trans = t /\ conf.ops[i].done
  BY ONLY <1>2 DEF OpsOn
<1>9. ASSUME NEW i \in is
      PROVE  WasReady(R, i) /\ Unready(R, i)
  <2>1. i \in DOMAIN conf.ops /\ conf.ops[i].trans = t /\ conf.ops[i].done
    BY ONLY <1>8, <1>9
  <2>2. i \notin DOMAIN R.sessions
    BY ONLY <1>4, <1>6, <2>1 DEF KindsApart
  <2>3. ~Has(R, i, "node")
    BY ONLY <1>4, <1>7, <2>1 DEF CallsApart, Has
  <2>4. WasReady(R, i)
    BY ONLY <1>6, <2>1, <2>2, <2>3 DEF WasReady
  <2>5. ~WasReady(conf, i)
    BY ONLY <1>3, <2>1 DEF WasReady
  <2>6. Unready(conf, i)
    BY ONLY <1>4, <2>5, NotReady
  <2> QED
    BY ONLY <1>7, <2>4, <2>6 DEF Unready
<1>10. is \subseteq DOMAIN R.ops
  BY ONLY <1>6, <1>8
<1>11. \A d \in DOMAIN conf.trans : R.trans[d].owner = conf.trans[d].owner
  BY ONLY <1>6
<1>12. Left(R, R.users)
  <2>1. \A ts : OpsOn(R, ts) = OpsOn(conf, ts)
    BY ONLY <1>6 DEF OpsOn
  <2>2. Left(conf, conf.users)
    BY ONLY Sound(conf, nodes) DEF Sound
  <2> SUFFICES ASSUME NEW g \in R.leaving
               PROVE  /\ g.trans \subseteq DOMAIN R.trans
                      /\ \A d \in g.trans : R.trans[d].owner \notin R.users
                      /\ OpsOn(R, g.trans) \subseteq g.waits
    BY DEF Left
  <2>3. /\ g.trans \subseteq DOMAIN conf.trans
        /\ \A d \in g.trans : conf.trans[d].owner \notin conf.users
        /\ OpsOn(conf, g.trans) \subseteq g.waits
    BY ONLY <1>7, <2>2, g \in R.leaving DEF Left
  <2> QED
    BY ONLY <1>6, <1>7, <1>11, <2>1, <2>3
<1>13. ASSUME NEW i \in Ids
       PROVE  Borne(R, nodes, i) /\ (i \notin is => Followed(R, i))
  <2>1. Whole(conf, nodes, i)
    BY ONLY <1>13, Sound(conf, nodes) DEF Sound
  <2>2. /\ \A k : Has(R, i, k) <=> Has(conf, i, k)
        /\ Unserved(R, i) <=> Unserved(conf, i)
        /\ \A w : Recycling(R, i, w) <=> Recycling(conf, i, w)
        /\ \A ws : Ended(R, i, ws) <=> Ended(conf, i, ws)
    BY ONLY <1>7 DEF Has, Unserved, Recycling, Ended
  <2>3. /\ Awaited(R, i) <=> Awaited(conf, i)
        /\ Ending(R, i) <=> Ending(conf, i)
        /\ Closing(R, i) <=> Closing(conf, i)
        /\ Late(R, i) <=> Late(conf, i)
        /\ Listed(R, i) <=> Listed(conf, i)
        /\ Up(R, i) <=> Up(conf, i)
    BY ONLY <1>7, <2>2 DEF Awaited, Ending, Closing, Late, Listed, Up
  <2>4. Carried(R, i)
    BY ONLY <1>6, <1>7, <2>1, <2>2, <2>3 DEF Whole, Carried
  <2>5. Sourced(R, i)
    BY ONLY <1>7, <2>1, <2>3 DEF Whole, Sourced
  <2>6. OnNode(R, nodes, i)
    BY ONLY <1>6, <2>1, <2>2 DEF Whole, OnNode
  <2>7. TransHeld(R, nodes, i)
    BY ONLY <1>6, <1>7, <1>11, <2>1, <2>2 DEF Whole, TransHeld
  <2>8. SessionHeld(R, nodes, i)
    BY ONLY <1>6, <2>1, <2>2, <2>3 DEF Whole, SessionHeld
  <2>9. ASSUME i \notin is
        PROVE  Followed(R, i)
    <3>1. i \in DOMAIN conf.ops /\ conf.ops[i].done => conf.ops[i].trans # t
      BY ONLY <1>8, <2>9
    <3>2. i \in DOMAIN conf.ops => conf.ops[i].trans \in DOMAIN conf.trans
      BY ONLY <1>4 DEF KindsApart
    <3> QED
      BY ONLY <1>6, <2>1, <2>2, <2>3, <3>1, <3>2 DEF Whole, Followed
  <2> QED
    BY ONLY <2>4, <2>5, <2>6, <2>7, <2>8, <2>9 DEF Borne
<1>14. PICK Q : Q = OpsEstablished(R, is)
  OBVIOUS
<1>15. Q.mishaps = {}
  BY ONLY <1>3, <1>14, conf'.mishaps = {}
<1>16. Sound(Q, nodes)
  BY ONLY <1>6, <1>9, <1>10, <1>12, <1>13, <1>14, <1>15, SoundOpsEstablished
<1> QED
  BY ONLY <1>3, <1>14, <1>16

-----------------------------------------------------------------------------
(* A mishap is never forgotten.                                            *)
Keeps(R, Q) ==
  "mishaps" \in DOMAIN R => "mishaps" \in DOMAIN Q /\ R.mishaps \subseteq Q.mishaps

LEMMA KeepsSelf ==
  ASSUME NEW R
  PROVE  Keeps(R, R)
BY DEF Keeps

LEMMA KeepsTrans ==
  ASSUME NEW R, NEW P, NEW Q, Keeps(R, P), Keeps(P, Q)
  PROVE  Keeps(R, Q)
BY DEF Keeps

(* A field that is set, a note that is made.                               *)
LEMMA KeepsSet ==
  ASSUME NEW R, NEW v
  PROVE  /\ Keeps(R, [R EXCEPT !.calls = v]) /\ Keeps(R, [R EXCEPT !.sessions = v]) /\ Keeps(R, [R EXCEPT !.ops = v])
         /\ Keeps(R, [R EXCEPT !.trans = v]) /\ Keeps(R, [R EXCEPT !.users = v]) /\ Keeps(R, [R EXCEPT !.streams = v])
         /\ Keeps(R, [R EXCEPT !.taken = v]) /\ Keeps(R, [R EXCEPT !.polls = v]) /\ Keeps(R, [R EXCEPT !.leaving = v])
         /\ Keeps(R, [R EXCEPT !.used = v])
         /\ \A w : /\ Keeps(R, [R EXCEPT !.subs = v, !.before = w])
                   /\ Keeps(R, [R EXCEPT !.calls = v, !.sessions = w])
                   /\ Keeps(R, [R EXCEPT !.pub = v, !.taken = w])
                   /\ Keeps(R, [R EXCEPT !.users = v, !.met = w])
         /\ \A w, z : /\ Keeps(R, [R EXCEPT !.taken = v, !.subs = w, !.before = z])
                      /\ Keeps(R, [R EXCEPT !.streams = v, !.pub = w, !.calls = z])
BY DEF Keeps

LEMMA KeepsNote ==
  ASSUME NEW R, NEW e
  PROVE  Keeps(R, Note(R, e))
BY DEF Keeps, Note

LEMMA KeepsCall ==
  ASSUME NEW R, NEW c
  PROVE  Keeps(R, Call(R, c))
BY DEF Keeps, Call

LEMMA KeepsUnpublish ==
  ASSUME NEW R, NEW ss
  PROVE  Keeps(R, Unpublish(R, ss))
BY KeepsSet DEF Unpublish

LEMMA KeepsRemoveSubs ==
  ASSUME NEW R, NEW xs
  PROVE  Keeps(R, RemoveSubs(R, xs))
BY KeepsSet DEF RemoveSubs

LEMMA KeepsTerminateSessions ==
  ASSUME NEW R, NEW is
  PROVE  Keeps(R, TerminateSessions(R, is))
BY KeepsSet DEF TerminateSessions

LEMMA KeepsTerminateOps ==
  ASSUME NEW R, NEW is, NEW why
  PROVE  Keeps(R, TerminateOps(R, is, why))
BY KeepsSet DEF TerminateOps

LEMMA KeepsEndSubs ==
  ASSUME NEW R, NEW xs
  PROVE  Keeps(R, EndSubs(R, xs))
<1>1. PICK sessions : sessions = xs \cap DOMAIN R.sessions
  OBVIOUS
<1>2. PICK A : A = TerminateOps(R, xs \ sessions, "asked")
  OBVIOUS
<1>3. PICK B : B = TerminateSessions(A, sessions)
  OBVIOUS
<1>4. EndSubs(R, xs) = RemoveSubs(B, sessions)
  BY ONLY <1>1, <1>2, <1>3 DEF EndSubs
<1>5. Keeps(R, A)
  BY ONLY <1>2, KeepsTerminateOps
<1>6. Keeps(A, B)
  BY ONLY <1>3, KeepsTerminateSessions
<1>7. Keeps(B, RemoveSubs(B, sessions))
  BY ONLY KeepsRemoveSubs
<1> QED
  BY ONLY <1>4, <1>5, <1>6, <1>7, KeepsTrans

LEMMA KeepsRemoveStreams ==
  ASSUME NEW R, NEW ss
  PROVE  Keeps(R, RemoveStreams(R, ss))
<1>1. PICK there : there = ss \cap DOMAIN R.streams
  OBVIOUS
<1>2. PICK untracked : untracked = {x \in DOMAIN R.subs : ~R.subs[x].up /\ x \in bound.sessions}
  OBVIOUS
<1>3. PICK seen : seen = {x \in DOMAIN R.subs : \A y \in untracked : <<x, y>> \in R.before}
  OBVIOUS
<1>4. PICK ended : ended = EndSubs(R, {x \in seen : R.subs[x].from \in there})
  OBVIOUS
<1>5. PICK bare : bare = Unpublish(ended, {s \in there : R.streams[s].up})
  OBVIOUS
<1>6. RemoveStreams(R, ss) =
        IF there = {} THEN R
        ELSE IF untracked # {} THEN Note(ended, "removal_threw")
        ELSE [bare EXCEPT !.streams = WithoutAll(@, there)]
  BY ONLY <1>1, <1>2, <1>3, <1>4, <1>5 DEF RemoveStreams
<1>7. Keeps(R, ended)
  BY ONLY <1>4, KeepsEndSubs
<1>8. Keeps(ended, Note(ended, "removal_threw"))
  BY ONLY KeepsNote
<1>9. Keeps(ended, bare)
  BY ONLY <1>5, KeepsUnpublish
<1>10. PICK last : last = [bare EXCEPT !.streams = WithoutAll(@, there)]
  OBVIOUS
<1>11. Keeps(bare, last)
  BY ONLY <1>10, KeepsSet
<1>12. Keeps(R, R)
  BY ONLY KeepsSelf
<1> QED
  BY ONLY <1>6, <1>7, <1>8, <1>9, <1>10, <1>11, <1>12, KeepsTrans

LEMMA KeepsOnAborted ==
  ASSUME NEW R, NEW i
  PROVE  Keeps(R, OnAborted(R, i))
BY ONLY KeepsRemoveStreams, KeepsRemoveSubs DEF OnAborted

LEMMA KeepsTerminate ==
  ASSUME NEW R, NEW i
  PROVE  Keeps(R, Terminate(R, i))
<1>1. PICK is : is = {i}
  OBVIOUS
<1>2. PICK A : A = TerminateSessions(R, is)
  OBVIOUS
<1>3. Keeps(R, A) /\ Keeps(A, OnAborted(A, i)) /\ Keeps(R, TerminateOps(R, is, "asked"))
  BY ONLY <1>2, KeepsTerminateSessions, KeepsOnAborted, KeepsTerminateOps
<1>4. Terminate(R, i) = IF i \in DOMAIN R.sessions THEN OnAborted(A, i) ELSE TerminateOps(R, is, "asked")
  BY ONLY <1>1, <1>2 DEF Terminate
<1> QED
  BY ONLY <1>3, <1>4, KeepsTrans

LEMMA KeepsTerminateMisnamed ==
  ASSUME NEW R, NEW i
  PROVE  Keeps(R, TerminateMisnamed(R, i))
BY ONLY KeepsNote, KeepsSelf DEF TerminateMisnamed

LEMMA KeepsEnter ==
  ASSUME NEW R, NEW is
  PROVE  Keeps(R, Enter(R, is))
<1>1. PICK ss : ss = is \cap Streams
  OBVIOUS
<1>2. PICK P : P = IF ss \subseteq DOMAIN R.streams THEN R ELSE Note(R, "revived")
  OBVIOUS
<1>3. PICK v : v = [s \in DOMAIN R.streams \cup ss |->
                       IF s \in ss THEN [owner |-> SpecOf(R, s).owner, up |-> TRUE] ELSE R.streams[s]]
  OBVIOUS
<1>4. PICK z : z = {[call |-> "subscribe", id |-> x, owner |-> SpecOf(R, x).owner, from |-> SpecOf(R, x).from] :
                      x \in is \ Streams}
  OBVIOUS
<1>5. PICK Q : Q = Enter(R, is)
  OBVIOUS
<1>6. Q = [P EXCEPT !.streams = [s \in DOMAIN R.streams \cup ss |->
                      IF s \in ss THEN [owner |-> SpecOf(R, s).owner, up |-> TRUE] ELSE R.streams[s]],
                      !.pub = @ \cup ss, !.calls = @ \cup
                        {[call |-> "subscribe", id |-> x, owner |-> SpecOf(R, x).owner, from |-> SpecOf(R, x).from] :
                           x \in is \ Streams}]
  BY ONLY <1>1, <1>2, <1>5 DEF Enter
<1>7. Q = [P EXCEPT !.streams = v, !.pub = @ \cup ss, !.calls = @ \cup z]
  BY ONLY <1>3, <1>4, <1>6
<1>8. Keeps(R, P)
  BY ONLY <1>2, KeepsSelf, KeepsNote
<1>9. Keeps(P, Q)
  BY ONLY <1>7, KeepsSet
<1> QED
  BY ONLY <1>5, <1>8, <1>9, KeepsTrans

LEMMA KeepsSessionEstablished ==
  ASSUME NEW R, NEW i
  PROVE  Keeps(R, SessionEstablished(R, i))
BY ONLY KeepsEnter, KeepsTerminate DEF SessionEstablished

LEMMA KeepsOpsEstablished ==
  ASSUME NEW R, NEW is
  PROVE  Keeps(R, OpsEstablished(R, is))
<1>1. PICK welcome : welcome = {i \in is : Welcome(R, i)}
  OBVIOUS
<1>2. PICK A : A = TerminateOps(R, is \ welcome, "asked")
  OBVIOUS
<1>3. OpsEstablished(R, is) = Enter(A, welcome)
  BY ONLY <1>1, <1>2 DEF OpsEstablished
<1> QED
  BY ONLY <1>2, <1>3, KeepsTerminateOps, KeepsEnter, KeepsTrans

LEMMA KeepsListing ==
  ASSUME NEW R, NEW x, NEW owner, NEW from, NEW up
  PROVE  Keeps(R, Listing(R, x, owner, from, up))
BY ONLY KeepsSet DEF Listing

LEMMA KeepsSubscribed ==
  ASSUME NEW R, NEW c
  PROVE  Keeps(R, Subscribed(R, c))
<1>1. PICK P : P = IF c.id \in DOMAIN R.subs THEN R ELSE Note(R, "revived")
  OBVIOUS
<1>2. PICK L : L = Listing(P, c.id, c.owner, c.from, TRUE)
  OBVIOUS
<1>3. PICK Q : Q = [L EXCEPT !.taken = Put(@, c.id, c.from)]
  OBVIOUS
<1>4. Keeps(R, P) /\ Keeps(P, L) /\ Keeps(L, Q)
  BY ONLY <1>1, <1>2, <1>3, KeepsSelf, KeepsNote, KeepsListing, KeepsSet
<1>5. Subscribed(R, c) = IF Present(R, c.owner) THEN Q ELSE Terminate(R, c.id)
  BY ONLY <1>1, <1>2, <1>3 DEF Subscribed
<1> QED
  BY ONLY <1>4, <1>5, KeepsTerminate, KeepsTrans

LEMMA KeepsTerminateTransports ==
  ASSUME NEW R, NEW ts
  PROVE  Keeps(R, TerminateTransports(R, ts))
<1>1. PICK A : A = TerminateOps(R, OpsOn(R, ts), "left")
  OBVIOUS
<1>2. \E v : TerminateTransports(R, ts) = [A EXCEPT !.leaving = v]
  BY ONLY <1>1 DEF TerminateTransports
<1> QED
  BY ONLY <1>1, <1>2, KeepsTerminateOps, KeepsSet, KeepsTrans

LEMMA KeepsRemoveParticipant ==
  ASSUME NEW R, NEW u
  PROVE  Keeps(R, RemoveParticipant(R, u))
<1>1. PICK A : A = RemoveSubs(R, {x \in DOMAIN R.subs : R.subs[x].owner = u})
  OBVIOUS
<1>2. PICK B : B = RemoveStreams(A, {s \in DOMAIN R.streams : R.streams[s].owner = u})
  OBVIOUS
<1>3. \E v : RemoveParticipant(R, u) = [B EXCEPT !.users = v]
  BY ONLY <1>1, <1>2 DEF RemoveParticipant
<1>4. Keeps(R, A) /\ Keeps(A, B)
  BY ONLY <1>1, <1>2, KeepsRemoveSubs, KeepsRemoveStreams
<1> QED
  BY ONLY <1>3, <1>4, KeepsSet, KeepsTrans

LEMMA KeepsBegun ==
  ASSUME NEW R, NEW i, NEW spec
  PROVE  Keeps(R, Begun(R, i, spec))
<1>1. PICK U : U = [R EXCEPT !.used = @ \cup {i}]
  OBVIOUS
<1>2. PICK S : S = [U EXCEPT !.streams = Put(@, i, [owner |-> spec.owner, up |-> FALSE])]
  OBVIOUS
<1>3. Begun(R, i, spec) = IF i \in Streams THEN S ELSE Listing(U, i, spec.owner, spec.from, FALSE)
  BY ONLY <1>1, <1>2 DEF Begun
<1>4. Keeps(R, U) /\ Keeps(U, S) /\ Keeps(U, Listing(U, i, spec.owner, spec.from, FALSE))
  BY ONLY <1>1, <1>2, KeepsSet, KeepsListing
<1> QED
  BY ONLY <1>3, <1>4, KeepsTrans

LEMMA KeepsNewOp ==
  ASSUME NEW R, NEW i, NEW t, NEW spec
  PROVE  Keeps(R, NewOp(R, i, t, spec))
<1>1. PICK A : A = [R EXCEPT !.ops = Put(@, i, [trans |-> t, done |-> FALSE, spec |-> spec])]
  OBVIOUS
<1>2. PICK c : c = [call |-> "initiate", id |-> i, spec |-> spec, served |-> FALSE]
  OBVIOUS
<1>3. NewOp(R, i, t, spec) = Call(A, c)
  BY ONLY <1>1, <1>2 DEF NewOp
<1> QED
  BY ONLY <1>1, <1>3, KeepsSet, KeepsCall, KeepsTrans

LEMMA KeepsAsked ==
  ASSUME NEW u, NEW i, NEW spec, NEW Q \in Asked(u, i, spec)
  PROVE  Keeps(conf, Q)
<1>1. PICK R : R = Begun(conf, i, spec)
  OBVIOUS
<1>2. PICK c : c = [call |-> "node", id |-> i, spec |-> spec]
  OBVIOUS
<1>3. Q = Call(R, c) \/ \E t : Q = NewOp(R, i, t, spec)
  BY ONLY <1>1, <1>2, Q \in Asked(u, i, spec) DEF Asked
<1>4. Keeps(conf, R) /\ Keeps(R, Q)
  BY ONLY <1>1, <1>3, KeepsBegun, KeepsCall, KeepsNewOp
<1> QED
  BY ONLY <1>4, KeepsTrans

LEMMA KeepsOrdered ==
  ASSUME NEW i, NEW spec
  PROVE  Keeps(conf, Ordered(i, spec))
<1>1. PICK R : R = Begun(conf, i, spec)
  OBVIOUS
<1>2. PICK S : S = [R EXCEPT !.sessions = Put(@, i, [state |-> "initialized", ready |-> FALSE, spec |-> spec])]
  OBVIOUS
<1>3. PICK c : c = [call |-> "node", id |-> i, spec |-> spec]
  OBVIOUS
<1>4. Ordered(i, spec) = Call(S, c)
  BY ONLY <1>1, <1>2, <1>3 DEF Ordered
<1>5. Keeps(conf, R) /\ Keeps(R, S) /\ Keeps(S, Call(S, c))
  BY ONLY <1>1, <1>2, KeepsBegun, KeepsSet, KeepsCall
<1> QED
  BY ONLY <1>4, <1>5, KeepsTrans

LEMMA KeepsDone ==
  ASSUME NEW c
  PROVE  Keeps(conf, Done(c))
BY ONLY KeepsSet DEF Done

LEMMA KeepsWaited ==
  ASSUME NEW R, NEW i
  PROVE  Keeps(R, Waited(R, i))
BY ONLY KeepsSet DEF Waited

(* The steps, but those that fail.                                         *)
LEMMA KeepsRequests ==
  ASSUME NEW u, NEW i, \/ Join(u) \/ Leave(u) \/ Drop(u) \/ Publish(u, i) \/ Subscribe(u, i)
                       \/ AddStreamingIn(u) \/ AddServerSideSubscription(u) \/ End(u)
  PROVE  Keeps(conf, conf')
<1>1. CASE Join(u)
  BY ONLY <1>1, KeepsSet DEF Join
<1>2. CASE Leave(u)
  <2>1. PICK A : A = TerminateTransports(conf, TransOf(conf, u))
    OBVIOUS
  <2>2. conf' = RemoveParticipant(A, u)
    BY ONLY <1>2, <2>1 DEF Leave
  <2> QED
    BY ONLY <2>1, <2>2, KeepsTerminateTransports, KeepsRemoveParticipant, KeepsTrans
<1>3. CASE Drop(u)
  BY ONLY <1>3, KeepsCall DEF Drop
<1>4. CASE Publish(u, i)
  BY ONLY <1>4, KeepsAsked DEF Publish
<1>5. CASE Subscribe(u, i)
  BY ONLY <1>5, KeepsAsked DEF Subscribe
<1>6. CASE AddStreamingIn(u)
  BY ONLY <1>6, KeepsOrdered DEF AddStreamingIn
<1>7. CASE AddServerSideSubscription(u)
  BY ONLY <1>7, KeepsOrdered DEF AddServerSideSubscription
<1>8. CASE End(u)
  BY ONLY <1>8, KeepsTerminate DEF End
<1> QED
  BY <1>1, <1>2, <1>3, <1>4, <1>5, <1>6, <1>7, <1>8

LEMMA KeepsAnswers ==
  ASSUME NEW c, Answers(c), ~NoNode(c), ~NotInitiated(c)
  PROVE  Keeps(conf, conf')
<1>1. PICK D : D = Done(c)
  OBVIOUS
<1>2. Keeps(conf, D)
  BY ONLY <1>1, KeepsDone
<1>3. CASE Dropped(c)
  <2>1. PICK gone : gone = RemoveParticipant(D, c.id)
    OBVIOUS
  <2>2. conf' = gone \/ conf' = Note(gone, "dropped")
    BY ONLY <1>1, <1>3, <2>1 DEF Dropped
  <2> QED
    BY ONLY <1>2, <2>1, <2>2, KeepsRemoveParticipant, KeepsNote, KeepsTrans
<1>4. CASE OpNode(c)
  <2>1. PICK R : R = IF c.spec.owner \in conf.users THEN D ELSE Note(D, "late_node")
    OBVIOUS
  <2>2. PICK T : T = [R EXCEPT !.trans = Put(@, c.id, [owner |-> c.spec.owner, ready |-> FALSE])]
    OBVIOUS
  <2>3. conf' = NewOp(T, c.id, c.id, c.spec)
    BY ONLY <1>1, <1>4, <2>1, <2>2 DEF OpNode
  <2>4. Keeps(D, R) /\ Keeps(R, T) /\ Keeps(T, conf')
    BY ONLY <2>1, <2>2, <2>3, KeepsSelf, KeepsNote, KeepsSet, KeepsNewOp
  <2> QED
    BY ONLY <1>2, <2>4, KeepsTrans
<1>5. CASE SessionNode(c)
  <2>1. PICK d : d = [call |-> "initiate", id |-> c.id, spec |-> c.spec, served |-> FALSE]
    OBVIOUS
  <2>2. PICK e : e = [call |-> "recycle", id |-> c.id, why |-> "late"]
    OBVIOUS
  <2>3. PICK E : E = Call(D, e)
    OBVIOUS
  <2>4. conf' = IF c.id \in DOMAIN conf.sessions THEN Call(D, d) ELSE OnAborted(E, c.id)
    BY ONLY <1>1, <1>5, <2>1, <2>2, <2>3 DEF SessionNode
  <2> QED
    BY ONLY <1>2, <2>3, <2>4, KeepsCall, KeepsOnAborted, KeepsTrans
<1>6. CASE Serve(c)
  <2>1. \E d : conf' = Call(D, d)
    BY ONLY <1>1, <1>6 DEF Serve
  <2> QED
    BY ONLY <1>2, <2>1, KeepsCall, KeepsTrans
<1>7. CASE OpInitiated(c)
  <2>1. PICK T : T = TerminateMisnamed(D, c.id)
    OBVIOUS
  <2>2. conf' = D \/ \E xs : conf' = RemoveSubs(T, xs)
    BY ONLY <1>1, <1>7, <2>1 DEF OpInitiated
  <2> QED
    BY ONLY <1>2, <2>1, <2>2, KeepsTerminateMisnamed, KeepsRemoveSubs, KeepsTrans
<1>8. CASE SessionInitiated(c)
  <2>1. PICK d, e : /\ d = [call |-> "terminate", id |-> c.id, why |-> "late"]
                    /\ e = [call |-> "recycle", id |-> c.id, why |-> "late"]
    OBVIOUS
  <2>2. PICK A, B : A = Call(D, d) /\ B = Call(A, e)
    OBVIOUS
  <2>3. PICK on : on = [D EXCEPT !.sessions[c.id].state = "connecting"]
    OBVIOUS
  <2>4. PICK T : T = TerminateMisnamed(on, c.id)
    OBVIOUS
  <2>5. \/ conf' = OnAborted(B, c.id)
        \/ \E xs : conf' = RemoveSubs(T, xs)
        \/ \E v : conf' = [on EXCEPT !.polls = v]
    BY ONLY <1>1, <1>8, <2>1, <2>2, <2>3, <2>4 DEF SessionInitiated
  <2>6. Keeps(D, A) /\ Keeps(A, B) /\ Keeps(D, on) /\ Keeps(on, T)
    BY ONLY <2>2, <2>3, <2>4, KeepsCall, KeepsSet, KeepsTerminateMisnamed
  <2> QED
    BY ONLY <1>2, <2>5, <2>6, KeepsOnAborted, KeepsRemoveSubs, KeepsSet, KeepsTrans
<1>9. CASE SubscribeDone(c)
  <2>1. conf' = Subscribed(D, c) \/ conf' = Terminate(D, c.id)
    BY ONLY <1>1, <1>9 DEF SubscribeDone
  <2> QED
    BY ONLY <1>2, <2>1, KeepsSubscribed, KeepsTerminate, KeepsTrans
<1>10. CASE OpTerminated(c)
  <2>1. PICK A : A = OnAborted(D, c.id)
    OBVIOUS
  <2>2. PICK B : B = [A EXCEPT !.ops = Without(@, c.id)]
    OBVIOUS
  <2>3. conf' = Waited(B, c.id) \/ conf' = Waited(D, c.id)
    BY ONLY <1>1, <1>10, <2>1, <2>2 DEF OpTerminated
  <2>4. Keeps(D, A) /\ Keeps(A, B) /\ Keeps(B, Waited(B, c.id)) /\ Keeps(D, Waited(D, c.id))
    BY ONLY <2>1, <2>2, KeepsOnAborted, KeepsSet, KeepsWaited
  <2> QED
    BY ONLY <1>2, <2>3, <2>4, KeepsTrans
<1>11. CASE SessionTerminated(c)
  <2>1. conf' = D \/ \E d : conf' = Call(D, d)
    BY ONLY <1>1, <1>11 DEF SessionTerminated
  <2> QED
    BY ONLY <1>2, <2>1, KeepsCall, KeepsTrans
<1>12. CASE Recycled(c)
  <2>1. PICK E : E = [D EXCEPT !.sessions = Without(@, c.id)]
    OBVIOUS
  <2>2. conf' = D \/ conf' = E
    BY ONLY <1>1, <1>12, <2>1 DEF Recycled
  <2>3. Keeps(D, E)
    BY ONLY <2>1, KeepsSet
  <2> QED
    BY ONLY <1>2, <2>2, <2>3, KeepsTrans
<1>13. \/ Dropped(c) \/ OpNode(c) \/ SessionNode(c) \/ Serve(c) \/ OpInitiated(c) \/ SessionInitiated(c)
       \/ SubscribeDone(c) \/ OpTerminated(c) \/ SessionTerminated(c) \/ Recycled(c)
  BY ONLY Answers(c), ~NoNode(c), ~NotInitiated(c) DEF Answers
<1> QED
  BY ONLY <1>3, <1>4, <1>5, <1>6, <1>7, <1>8, <1>9, <1>10, <1>11, <1>12, <1>13

LEMMA KeepsReports ==
  ASSUME NEW i, PollOver(i) \/ LeaveDone(i) \/ SessionReady(i) \/ TracksComplete(i) \/ TransportReady(i)
  PROVE  Keeps(conf, conf')
<1>1. CASE PollOver(i)
  <2>1. PICK R : R = [conf EXCEPT !.polls = @ \ {i}]
    OBVIOUS
  <2>2. PICK T : T = TerminateMisnamed(R, i)
    OBVIOUS
  <2>3. conf' = R \/ conf' = OnAborted(T, i)
    BY ONLY <1>1, <2>1, <2>2 DEF PollOver
  <2>4. Keeps(conf, R) /\ Keeps(R, T) /\ Keeps(T, OnAborted(T, i))
    BY ONLY <2>1, <2>2, KeepsSet, KeepsTerminateMisnamed, KeepsOnAborted
  <2> QED
    BY ONLY <2>3, <2>4, KeepsTrans
<1>2. CASE LeaveDone(i)
  BY ONLY <1>2, KeepsSet DEF LeaveDone
<1>3. CASE SessionReady(i)
  <2>1. PICK R : R = [conf EXCEPT !.sessions[i].state = "connected", !.sessions[i].ready = TRUE]
    OBVIOUS
  <2>2. Keeps(conf, R)
    BY ONLY <2>1 DEF Keeps
  <2>3. conf' = SessionEstablished(R, i)
    BY ONLY <1>3, <2>1 DEF SessionReady
  <2> QED
    BY ONLY <2>2, <2>3, KeepsSessionEstablished, KeepsTrans
<1>4. CASE TracksComplete(i)
  <2>1. PICK R : R = [conf EXCEPT !.ops[i].done = TRUE]
    OBVIOUS
  <2>2. PICK is : is = {i}
    OBVIOUS
  <2>3. conf' = R \/ conf' = OpsEstablished(R, is)
    BY ONLY <1>4, <2>1, <2>2 DEF TracksComplete
  <2> QED
    BY ONLY <2>1, <2>3, KeepsSet, KeepsOpsEstablished, KeepsTrans
<1>5. CASE TransportReady(i)
  <2>1. PICK R : R = [conf EXCEPT !.trans[i].ready = TRUE]
    OBVIOUS
  <2>2. \E is : conf' = OpsEstablished(R, is)
    BY ONLY <1>5, <2>1 DEF TransportReady, TransportConnected
  <2> QED
    BY ONLY <2>1, <2>2, KeepsSet, KeepsOpsEstablished, KeepsTrans
<1> QED
  BY <1>1, <1>2, <1>3, <1>4, <1>5

LEMMA KeepsSteps ==
  ASSUME Faulted, Next, ~Fail
  PROVE  Keeps(conf, conf')
<1>1. ASSUME NEW c, NoNode(c) \/ NotInitiated(c)
      PROVE  FALSE
  BY ONLY <1>1, ~Fail DEF NoNode, NotInitiated
<1>2. ASSUME NEW i, SessionFailed(i) \/ TransportFailed(i)
      PROVE  FALSE
  BY ONLY <1>2, ~Fail DEF SessionFailed, TransportFailed
<1>3. ~WebrtcNodeLost /\ ~AccessNodeLost
  BY ONLY ~Fail DEF WebrtcNodeLost, AccessNodeLost
<1>4. ASSUME NEW c \in conf.calls, Answers(c)
      PROVE  Keeps(conf, conf')
  BY ONLY <1>1, <1>4, KeepsAnswers
<1>5. ASSUME NEW u, NEW i, \/ Join(u) \/ Leave(u) \/ Drop(u) \/ Publish(u, i) \/ Subscribe(u, i)
                           \/ AddStreamingIn(u) \/ AddServerSideSubscription(u) \/ End(u)
      PROVE  Keeps(conf, conf')
  BY ONLY <1>5, KeepsRequests
<1>6. ASSUME NEW i, PollOver(i) \/ LeaveDone(i) \/ SessionReady(i) \/ TracksComplete(i) \/ TransportReady(i)
      PROVE  Keeps(conf, conf')
  BY ONLY <1>6, KeepsReports
<1> QED
  BY ONLY Next, <1>2, <1>3, <1>4, <1>5, <1>6 DEF Next

-----------------------------------------------------------------------------
(* As long as nothing fails and nothing is cut short, what is listed and   *)
(* what carries it go together.                                            *)
SoundInv == CoreInv /\ (Smooth => Sound(conf, nodes))

LEMMA SoundAnswers ==
  ASSUME Core(conf, nodes), Sound(conf, nodes), ~Fail, conf'.mishaps = {}, NEW c \in conf.calls, Answers(c)
  PROVE  Sound(conf', nodes')
<1>1. ~NoNode(c) /\ ~NotInitiated(c)
  BY ONLY ~Fail DEF NoNode, NotInitiated
<1>2. Unthrown(conf')
  BY ONLY conf'.mishaps = {} DEF Unthrown
<1>3. \/ Dropped(c) \/ OpNode(c) \/ SessionNode(c) \/ Serve(c) \/ OpInitiated(c) \/ SessionInitiated(c)
      \/ SubscribeDone(c) \/ OpTerminated(c) \/ SessionTerminated(c) \/ Recycled(c)
  BY ONLY Answers(c), <1>1 DEF Answers
<1> QED
  BY ONLY <1>2, <1>3, Core(conf, nodes), Sound(conf, nodes), ~Fail, conf'.mishaps = {}, c \in conf.calls,
     SoundDropped, SoundOpNode, SoundSessionNode, SoundServe, SoundOpInitiated, SoundSessionInitiated,
     SoundSubscribeDone, SoundOpTerminated, SoundSessionTerminated, SoundRecycled

LEMMA SoundSteps ==
  ASSUME Core(conf, nodes), Sound(conf, nodes), Next, ~Fail, conf'.mishaps = {}
  PROVE  Sound(conf', nodes')
<1>1. ASSUME NEW i, SessionFailed(i) \/ TransportFailed(i)
      PROVE  FALSE
  BY ONLY <1>1, ~Fail DEF SessionFailed, TransportFailed
<1>2. ~WebrtcNodeLost /\ ~AccessNodeLost
  BY ONLY ~Fail DEF WebrtcNodeLost, AccessNodeLost
<1>3. Unthrown(conf')
  BY ONLY conf'.mishaps = {} DEF Unthrown
<1>4. ASSUME NEW u \in Users, Join(u) \/ Leave(u) \/ Drop(u)
      PROVE  Sound(conf', nodes')
  BY ONLY <1>3, <1>4, Core(conf, nodes), Sound(conf, nodes), SoundJoin, SoundLeave, SoundDropStep
<1>5. ASSUME NEW u \in Users, NEW s \in Streams, Publish(u, s)
      PROVE  Sound(conf', nodes')
  BY ONLY <1>5, Core(conf, nodes), Sound(conf, nodes), SoundPublish
<1>6. ASSUME NEW u \in Users, NEW x \in Subs, Subscribe(u, x)
      PROVE  Sound(conf', nodes')
  BY ONLY <1>6, Core(conf, nodes), Sound(conf, nodes), SoundSubscribe
<1>7. ASSUME NEW i, AddStreamingIn(i) \/ AddServerSideSubscription(i)
      PROVE  Sound(conf', nodes')
  BY ONLY <1>7, Core(conf, nodes), Sound(conf, nodes), SoundAddStreamingIn, SoundAddServerSideSubscription
<1>8. ASSUME NEW i \in Streams \cup Subs, End(i) \/ PollOver(i)
      PROVE  Sound(conf', nodes')
  <2>1. i \in Ids
    BY ONLY <1>8 DEF Ids
  <2> QED
    BY ONLY <1>3, <1>8, <2>1, Core(conf, nodes), Sound(conf, nodes), conf'.mishaps = {}, SoundEnd, SoundPollOver
<1>9. ASSUME NEW c \in conf.calls, Answers(c)
      PROVE  Sound(conf', nodes')
  BY ONLY <1>9, Core(conf, nodes), Sound(conf, nodes), ~Fail, conf'.mishaps = {}, SoundAnswers
<1>10. ASSUME NEW g \in conf.leaving, LeaveDone(g)
       PROVE  Sound(conf', nodes')
  BY ONLY <1>10, Core(conf, nodes), Sound(conf, nodes), SoundLeaveDone
<1>11. ASSUME NEW i, SessionReady(i) \/ TracksComplete(i) \/ TransportReady(i)
       PROVE  Sound(conf', nodes')
  BY ONLY <1>11, Core(conf, nodes), Sound(conf, nodes), conf'.mishaps = {}, SoundSessionReady, SoundTracksComplete,
     SoundTransportReady
<1> QED
  BY ONLY Next, <1>1, <1>2, <1>4, <1>5, <1>6, <1>7, <1>8, <1>9, <1>10, <1>11 DEF Next

LEMMA InitSoundInv ==
  ASSUME Init
  PROVE  SoundInv
BY ONLY Init, InitCore, InitSound DEF SoundInv

LEMMA SoundNext ==
  ASSUME SoundInv, [Next]_vars
  PROVE  SoundInv'
<1>1. CoreInv /\ CoreInv'
  BY ONLY SoundInv, [Next]_vars, CoreNext DEF SoundInv
<1>2. ASSUME Next, Smooth'
      PROVE  Sound(conf, nodes)'
  <2>1. Core(conf, nodes) /\ Faulted /\ conf \in ConfType
    BY ONLY <1>1 DEF CoreInv, Core, Good
  <2>2. bound' = bound /\ (faults' = faults \/ Fail)
    BY ONLY <1>2, <2>1, FaultsCounted
  <2>3. faults' = 0 /\ conf'.mishaps = {}
    BY ONLY <1>2 DEF Smooth
  <2>4. faults \in Int /\ faults >= 0
    <3>1. bound \in Bounds /\ faults \in 0 .. bound.faults
      BY ONLY <2>1 DEF Faulted
    <3> QED
      BY ONLY <3>1
  <2>5. ~Fail
    BY ONLY <2>3, <2>4 DEF Fail
  <2>6. conf.mishaps = {}
    <3>1. Keeps(conf, conf')
      BY ONLY <1>2, <2>1, <2>5, KeepsSteps
    <3>2. "mishaps" \in DOMAIN conf
      BY ONLY <2>1 DEF ConfType
    <3> QED
      BY ONLY <2>3, <3>1, <3>2 DEF Keeps
  <2>7. Smooth
    BY ONLY <2>2, <2>3, <2>5, <2>6 DEF Smooth
  <2>8. Sound(conf', nodes')
    BY ONLY <1>2, <2>1, <2>3, <2>5, <2>7, SoundInv, SoundSteps DEF SoundInv
  <2> QED
    BY ONLY <2>2, <2>8 DEF Sound, Left, OpsOn, Whole, Carried, Sourced, Followed, OnNode, TransHeld, SessionHeld,
       Up, Ending, Closing, Late, Awaited, Listed, Has, Unserved, Recycling, Ended, Operation
<1>3. ASSUME UNCHANGED vars, Smooth'
      PROVE  Sound(conf, nodes)'
  <2>1. conf' = conf /\ nodes' = nodes /\ faults' = faults /\ bound' = bound
    BY ONLY <1>3 DEF vars
  <2>2. Sound(conf, nodes)
    BY ONLY <1>3, <2>1, SoundInv DEF SoundInv, Smooth
  <2>3. Sound(conf', nodes')
    BY ONLY <2>1, <2>2
  <2> QED
    BY ONLY <2>1, <2>3 DEF Sound, Left, OpsOn, Whole, Carried, Sourced, Followed, OnNode, TransHeld, SessionHeld,
       Up, Ending, Closing, Late, Awaited, Listed, Has, Unserved, Recycling, Ended, Operation
<1>4. Smooth' => Sound(conf, nodes)'
  BY ONLY <1>2, <1>3, [Next]_vars
<1> QED
  BY ONLY <1>1, <1>4 DEF SoundInv

LEMMA SoundAlways == Spec => []SoundInv
<1>1. Init => SoundInv
  BY InitSoundInv
<1>2. SoundInv /\ [Next]_vars => SoundInv'
  BY SoundNext
<1> QED
  BY <1>1, <1>2, PTL DEF Spec

(* No call is under way: nobody waits, and nothing is on its way out.      *)
LEMMA Resting ==
  ASSUME AtRest
  PROVE  /\ \A i : /\ ~Awaited(conf, i) /\ ~Ending(conf, i) /\ ~Closing(conf, i) /\ ~Late(conf, i)
                   /\ ~Unserved(conf, i) /\ \A k : ~Has(conf, i, k)
                   /\ \A w : ~Recycling(conf, i, w)
         /\ \A g : g \notin conf.leaving
BY DEF AtRest, Awaited, Ending, Closing, Late, Ended, Unserved, Has, Recycling

LEMMA RestFacts ==
  ASSUME SoundInv, AtRest, Smooth
  PROVE  /\ \A i \in Ids : Whole(conf, nodes, i)
         /\ KindsApart(conf) /\ NodesType(conf, nodes) /\ UsedOnce(conf, nodes) /\ InRoom(conf)
         /\ DOMAIN conf.sessions \subseteq Ids /\ DOMAIN conf.ops \subseteq Ids /\ DOMAIN conf.trans \subseteq Ids
         /\ DOMAIN conf.streams \subseteq Ids /\ DOMAIN conf.subs \subseteq Ids
         /\ nodes.held \subseteq Ids /\ nodes.sessions \subseteq Ids /\ nodes.trans \subseteq Ids
<1>1. Core(conf, nodes) /\ Sound(conf, nodes)
  BY DEF SoundInv, CoreInv
<1>2. /\ conf \in ConfType /\ InRoom(conf) /\ KindsApart(conf) /\ NodesType(conf, nodes) /\ UsedOnce(conf, nodes)
  BY ONLY <1>1 DEF Core, Good
<1>3. /\ DOMAIN conf.sessions \subseteq Ids /\ DOMAIN conf.ops \subseteq Ids /\ DOMAIN conf.trans \subseteq Ids
      /\ DOMAIN conf.streams \subseteq Ids /\ DOMAIN conf.subs \subseteq Ids
  BY ONLY <1>2, KeyFacts DEF Ids
<1>4. conf.used \subseteq Ids
  BY ONLY <1>2, ConfFacts
<1>5. nodes.held \subseteq Ids /\ nodes.sessions \subseteq Ids /\ nodes.trans \subseteq Ids
  BY ONLY <1>2, <1>3, <1>4 DEF UsedOnce, NodesType
<1> QED
  BY ONLY <1>1, <1>2, <1>3, <1>5 DEF Sound

(* The streams of the participants, of the room controller and of the      *)
(* subscriptions are the same: what is listed as ready is published, and   *)
(* once no call is under way, and if nothing failed, every subscription is *)
(* to a stream that is there.                                              *)
THEOREM StreamsTogether == Spec => []StreamsAgree
<1>1. SoundInv => SourcesPresent
  <2> SUFFICES ASSUME SoundInv, AtRest, Smooth, NEW x \in DOMAIN conf.subs
               PROVE  conf.subs[x].from \in DOMAIN conf.streams
    BY DEF SourcesPresent
  <2>1. Sourced(conf, x) /\ ~Ending(conf, x) /\ ~Awaited(conf, x)
    BY ONLY SoundInv, AtRest, Smooth, x \in DOMAIN conf.subs, RestFacts, Resting DEF Whole
  <2> QED
    BY ONLY <2>1, x \in DOMAIN conf.subs DEF Sourced
<1> QED
  BY <1>1, SoundAlways, TypeCorrect, RoomFollows, PTL DEF StreamsAgree

(* What is listed is carried by a session or an operation and holds its    *)
(* node, and nothing else is: once no call is under way, if nothing        *)
(* failed, no carrier, no node and no transport is left behind.            *)
THEOREM ResourcesTogether == Spec => []ResourcesAgree
<1>1. ASSUME SoundInv, AtRest, Smooth
      PROVE  DOMAIN conf.sessions \cup DOMAIN conf.ops = DOMAIN conf.streams \cup DOMAIN conf.subs
  <2>1. ASSUME NEW i \in Ids
        PROVE  i \in DOMAIN conf.sessions \cup DOMAIN conf.ops <=> Listed(conf, i)
    <3>1. Carried(conf, i) /\ ~Ending(conf, i) /\ ~Closing(conf, i) /\ ~Has(conf, i, "node")
      BY ONLY <1>1, <2>1, RestFacts, Resting DEF Whole
    <3>2. KindsApart(conf)
      BY ONLY <1>1, RestFacts
    <3> QED
      BY ONLY <3>1, <3>2 DEF Carried, KindsApart
  <2> QED
    BY ONLY <1>1, <2>1, RestFacts DEF Listed
<1>2. ASSUME SoundInv, AtRest, Smooth
      PROVE  /\ nodes.sessions = DOMAIN conf.sessions
             /\ nodes.trans = {t \in DOMAIN conf.trans : conf.trans[t].owner \in conf.users}
             /\ nodes.held = nodes.sessions \cup nodes.trans
  <2>1. ASSUME NEW i \in Ids
        PROVE  /\ i \in nodes.sessions <=> i \in DOMAIN conf.sessions
               /\ i \in nodes.trans <=> i \in DOMAIN conf.trans /\ conf.trans[i].owner \in conf.users
               /\ i \in nodes.held <=> i \in nodes.sessions \/ i \in nodes.trans
    <3>1. TransHeld(conf, nodes, i) /\ SessionHeld(conf, nodes, i)
      BY ONLY <1>2, <2>1, RestFacts DEF Whole
    <3>2. /\ ~Awaited(conf, i) /\ ~Late(conf, i) /\ ~Unserved(conf, i) /\ ~Has(conf, i, "initiate")
          /\ \A w : ~Recycling(conf, i, w)
      BY ONLY <1>2, Resting
    <3>3. \A g : g \notin conf.leaving
      BY ONLY <1>2, Resting
    <3>4. /\ i \in DOMAIN conf.sessions => i \in bound.sessions
          /\ i \in nodes.sessions => i \in bound.sessions
          /\ i \in DOMAIN conf.trans => i \notin bound.sessions
          /\ i \in nodes.trans => i \in DOMAIN conf.trans
      BY ONLY <1>2, RestFacts DEF KindsApart, NodesType
    <3>5. i \in nodes.sessions <=> i \in DOMAIN conf.sessions
      BY ONLY <3>1, <3>2, <3>4 DEF SessionHeld
    <3>6. i \in nodes.trans <=> i \in DOMAIN conf.trans /\ conf.trans[i].owner \in conf.users
      BY ONLY <3>1, <3>2, <3>3, <3>4 DEF TransHeld
    <3>7. i \in nodes.held <=> i \in nodes.sessions \/ i \in nodes.trans
      BY ONLY <3>1, <3>2, <3>3, <3>4 DEF TransHeld, SessionHeld
    <3> QED
      BY ONLY <3>5, <3>6, <3>7
  <2>2. /\ DOMAIN conf.sessions \subseteq Ids /\ DOMAIN conf.trans \subseteq Ids
        /\ nodes.held \subseteq Ids /\ nodes.sessions \subseteq Ids /\ nodes.trans \subseteq Ids
    BY ONLY <1>2, RestFacts
  <2>3. nodes.sessions = DOMAIN conf.sessions
    BY ONLY <2>1, <2>2
  <2>4. nodes.trans = {t \in DOMAIN conf.trans : conf.trans[t].owner \in conf.users}
    BY ONLY <2>1, <2>2
  <2>5. nodes.held = nodes.sessions \cup nodes.trans
    BY ONLY <2>1, <2>2
  <2> QED
    BY ONLY <2>3, <2>4, <2>5
<1>3. SoundInv => ResourcesAgree
  BY ONLY <1>1, <1>2 DEF ResourcesAgree, CarriersAgree, HoldsAgree
<1> QED
  BY <1>3, SoundAlways, PTL

(* Whatever was ready has been told to the room controller, whichever of   *)
(* its tracks and its transport came last.                                 *)
THEOREM ReadyIsTold == Spec => []ReadyIsUp
<1>1. SoundInv => ReadyIsUp
  <2> SUFFICES ASSUME SoundInv, AtRest, Smooth, NEW i \in Ids,
                      \/ i \in DOMAIN conf.sessions /\ conf.sessions[i].ready
                      \/ i \in DOMAIN conf.ops /\ conf.ops[i].done /\ conf.trans[conf.ops[i].trans].ready
               PROVE  Up(conf, i)
    BY DEF ReadyIsUp, Up, Ids
  <2>1. Followed(conf, i) /\ ~Ending(conf, i) /\ ~Closing(conf, i) /\ ~Has(conf, i, "subscribe")
    BY ONLY SoundInv, AtRest, Smooth, i \in Ids, RestFacts, Resting DEF Whole
  <2> QED
    BY <2>1 DEF Followed
<1> QED
  BY <1>1, SoundAlways, PTL
=============================================================================
