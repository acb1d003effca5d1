------------------------------ MODULE AudioNode ------------------------------
(***************************************************************************)
(* An audio node: the inputs and outputs its controller asked for, the     *)
(* engine behind them, and the clients of other nodes' streams.  The       *)
(* engine mixes every input, or only the loudest: then a ranker, in a      *)
(* thread of its own, links inputs to the few places there are and reports *)
(* changes by a queue; or it tells the controller which are the loudest.   *)
(***************************************************************************)
EXTENDS Integers, FiniteSets, SequencesExt, InternalRouter

CONSTANTS
  Streams,      \* streams of other nodes
  Connections,  \* inputs published before their source is known
  Outputs,      \* ids of outputs
  Places,       \* top_k
  Whom,         \* views and participants outputs are made for
  Bounds        \* what a run does: [engine, requests, ranks, faults]

BoundsAssumption ==
  /\ Places \in Nat \ {0}
  /\ \A b \in Bounds : b.engine \in {"mixing", "ranked", "selecting"} /\ {b.requests, b.ranks, b.faults} \subseteq Nat

VARIABLES
  inputs,       \* the streams that are inputs
  unlinkedInputs, fromMap,
  outputs,      \* output -> for whom
  router,
  engine,       \* [inputs, mixed, outs, rank]: what it was given, and what is where
  ranker,       \* [linked, others, last]: of the native ranker
  changes,      \* its reports that are under way
  past, used, bound

vars == <<inputs, unlinkedInputs, fromMap, outputs, router, engine, ranker, changes, past, used, bound>>

Slots == 1 .. Places
NoRank == [i \in Slots |-> None]

Init ==
  /\ bound \in Bounds
  /\ inputs = {} /\ unlinkedInputs = {} /\ fromMap = << >> /\ outputs = << >>
  /\ router = EmptyRouter
  /\ engine = [inputs |-> {}, mixed |-> << >>, outs |-> {}, rank |-> NoRank]
  /\ ranker = [linked |-> NoRank, others |-> {}, last |-> NoRank]
  /\ changes = << >>
  /\ past = [published |-> {}, left |-> {}, shared |-> {}, stray |-> {}, refused |-> {}, again |-> {}]
  /\ used = [requests |-> 0, ranks |-> 0, faults |-> 0]

Use(kind) == used[kind] < bound[kind] /\ used' = [used EXCEPT ![kind] = @ + 1]
Without(f, S) == Restrict(f, DOMAIN f \ S)
Ranks == bound.engine # "mixing"

-----------------------------------------------------------------------------
(* The ranker.  An input takes the place that is free, the last first; who *)
(* leaves a place gives it to one of the others.                           *)
Free(K) == {i \in Slots : K.linked[i] = None}

RankerAdd(s) ==
  IF Free(ranker) = {} THEN ranker' = [ranker EXCEPT !.others = @ \cup {s}]
  ELSE \E i \in Free(ranker) : ranker' = [ranker EXCEPT !.linked[i] = s]

RankerRemove(s) ==
  IF s \in ranker.others \/ ranker.others = {}
  THEN ranker' = [ranker EXCEPT !.others = @ \ {s}, !.linked = [i \in Slots |-> IF @[i] = s THEN None ELSE @[i]]]
  ELSE \E o \in ranker.others :
         ranker' = [ranker EXCEPT !.others = @ \ {o}, !.linked = [i \in Slots |-> IF @[i] = s THEN o ELSE @[i]]]

(* updateInput: one of the others is louder than one that has a place.     *)
UpdateInput(i, s) ==
  /\ Ranks /\ s \in ranker.others /\ ranker.linked[i] # None
  /\ Use("ranks")
  /\ ranker' = [ranker EXCEPT !.linked[i] = s, !.others = (@ \ {s}) \cup {ranker.linked[i]}]
  /\ UNCHANGED <<inputs, unlinkedInputs, fromMap, outputs, router, engine, changes, past, bound>>

(* A change is reported at once or, within the interval, later: what the   *)
(* places are by then is compared with the report before.                  *)
TriggerRankChange ==
  /\ ranker.linked # ranker.last
  /\ ranker' = [ranker EXCEPT !.last = ranker.linked]
  /\ changes' = Append(changes, ranker.linked)
  /\ UNCHANGED <<inputs, unlinkedInputs, fromMap, outputs, router, engine, past, used, bound>>

(* SelectiveMixer: what lost a place leaves the mixer, then what has a new *)
(* one enters it; a stream that is no input any more is skipped.           *)

(* Faulty: one that only changes its place is not entered again.           *)
Ranked_stays_out(E, new) ==
  LET moved == {i \in Slots : E.rank[i] # new[i]}
      left == Without(E.mixed, {E.rank[i] : i \in moved} \cap E.inputs)
      enter == {i \in moved : new[i] \in E.inputs \ ToSet(E.rank)}
  IN [E EXCEPT !.rank = new, !.mixed = [s \in {new[i] : i \in enter} |-> CHOOSE i \in enter : new[i] = s] @@ left]

Ranked(E, new) ==
  LET moved == {i \in Slots : E.rank[i] # new[i]}
      left == Without(E.mixed, {E.rank[i] : i \in moved} \cap E.inputs)
      enter == {i \in moved : new[i] \in E.inputs}
  IN [E EXCEPT !.rank = new, !.mixed = [s \in {new[i] : i \in enter} |-> CHOOSE i \in enter : new[i] = s] @@ left]

(* ActiveAudioSelector: the controller is told of what has a new place;    *)
(* mixed is here what it was told of each place.                           *)
Told(E, new) ==
  LET moved == {i \in Slots : E.rank[i] # new[i] /\ new[i] \in E.inputs}
  IN [E EXCEPT !.rank = new, !.mixed = [i \in moved |-> new[i]] @@ @]

OnRankChange ==
  /\ changes # << >>
  /\ changes' = Tail(changes)
  /\ engine' = IF bound.engine = "ranked" THEN Ranked(engine, Head(changes)) ELSE Told(engine, Head(changes))
  /\ UNCHANGED <<inputs, unlinkedInputs, fromMap, outputs, router, ranker, past, used, bound>>

-----------------------------------------------------------------------------
(* What the environment remembers.  published: streams published with      *)
(* their address.  left: streams whose connection was cut off, which takes *)
(* nothing out.  shared: streams taken out for one of those that publish   *)
(* them.  stray: connections unpublished before they were linked.          *)
(* refused: streams the engine refused, which keep their client.  again:   *)
(* streams that come back while a report still names them.                 *)
Past(P, R, F) == /\ past' = P
                 /\ used' = [used EXCEPT !.requests = @ + R, !.faults = @ + F]

Requests == used.requests < bound.requests
Answers == {0} \cup (IF used.faults < bound.faults THEN {1} ELSE {})

Reported == ToSet(ranker.last) \cup UNION {ToSet(changes[k]) : k \in DOMAIN changes}

EngineAdd(s) ==
  /\ engine' = [engine EXCEPT !.inputs = @ \cup {s}, !.mixed = IF Ranks THEN @ ELSE (s :> 1) @@ @]
  /\ IF Ranks THEN RankerAdd(s) ELSE UNCHANGED ranker

EngineRemove(s) ==
  /\ engine' =
       CASE bound.engine = "mixing" -> [engine EXCEPT !.inputs = @ \ {s}, !.mixed = Without(@, {s})]
         [] bound.engine = "ranked" ->
              [engine EXCEPT !.inputs = @ \ {s},
                             !.mixed = IF s \in ToSet(engine.rank) THEN Without(@, {s}) ELSE @,
                             !.rank = [i \in Slots |-> IF @[i] = s THEN None ELSE @[i]]]
         [] bound.engine = "selecting" -> [engine EXCEPT !.inputs = @ \ {s}]
  /\ IF Ranks THEN RankerRemove(s) ELSE UNCHANGED ranker

(* addInput of a stream whose address is known.  One it has is updated by  *)
(* the mixer and refused by the others; what is refused keeps its client.  *)
Taken(s, fault) == fault = 0 /\ ~(Ranks /\ s \in engine.inputs)

AddInput(s, fault, P) ==
  LET ok == Taken(s, fault)
      again == IF Ranks /\ s \in Reported THEN {s} ELSE {}
  IN /\ router' = Created(router, {s}, None)
     /\ IF ok /\ s \notin engine.inputs THEN EngineAdd(s) ELSE UNCHANGED <<engine, ranker>>
     /\ inputs' = IF ok THEN inputs \cup {s} ELSE inputs
     /\ Past([P EXCEPT !.again = IF ok THEN @ \cup again ELSE @,
                       !.refused = IF ok \/ s \in inputs THEN @ \ {s} ELSE @ \cup {s}], 1, fault)

(* Faulty: the client of the stream stays.                                 *)
RemoveInput_client_stays(s) ==
  IF s \in inputs
  THEN /\ EngineRemove(s)
       /\ inputs' = inputs \ {s}
       /\ UNCHANGED router
  ELSE UNCHANGED <<engine, ranker, router, inputs>>

RemoveInput(s) ==
  IF s \in inputs
  THEN /\ EngineRemove(s)
       /\ router' = DestroyRemoteSource(router, s)
       /\ inputs' = inputs \ {s}
  ELSE UNCHANGED <<engine, ranker, router, inputs>>

(* publish, of a stream with its address.                                  *)
PublishStream(s) ==
  /\ Requests
  /\ IF s \in inputs
     THEN Past(past, 1, 0) /\ UNCHANGED <<engine, ranker, router, inputs>>
     ELSE \E fault \in Answers :
            AddInput(s, fault, IF fault = 0 THEN [past EXCEPT !.published = @ \cup {s}] ELSE past)
  /\ UNCHANGED <<unlinkedInputs, fromMap, outputs, changes, bound>>

(* publish, of a connection whose source comes with linkup.                *)
PublishConnection(c) ==
  /\ Requests /\ c \notin unlinkedInputs \cup DOMAIN fromMap
  /\ unlinkedInputs' = unlinkedInputs \cup {c}
  /\ Past([past EXCEPT !.stray = @ \ {c}], 1, 0)
  /\ UNCHANGED <<inputs, fromMap, outputs, router, engine, ranker, changes, bound>>

(* linkup takes the source of the video: of a source of audio alone it     *)
(* throws, and the connection is no longer waiting.  Without an address    *)
(* the stream must be known.                                               *)
LinkInput(c, s) ==
  /\ Requests /\ c \in unlinkedInputs
  /\ unlinkedInputs' = unlinkedInputs \ {c}
  /\ \/ \E fault \in Answers :
          /\ AddInput(s, fault, IF c \in past.stray /\ Taken(s, fault) THEN [past EXCEPT !.left = @ \cup {s}] ELSE past)
          /\ fromMap' = IF Taken(s, fault) THEN (c :> s) @@ fromMap ELSE fromMap
     \/ Past(past, 1, 0) /\ UNCHANGED <<inputs, fromMap, router, engine, ranker>>
  /\ UNCHANGED <<outputs, changes, bound>>

Takers(s) == {c \in DOMAIN fromMap : fromMap[c] = s}

Unpublish(x) ==
  /\ Requests
  /\ LET s == IF x \in DOMAIN fromMap THEN fromMap[x] ELSE x
         still == Takers(s) \ {x} # {} \/ (x # s /\ s \in past.published)
     IN /\ RemoveInput(s)
        /\ Past([past EXCEPT !.published = @ \ {x},
                             !.left = @ \ {s},
                             !.shared = IF s \notin inputs THEN @ ELSE IF still THEN @ \cup {s} ELSE @ \ {s},
                             !.stray = IF x \in unlinkedInputs THEN @ \cup {x} ELSE @], 1, 0)
  /\ fromMap' = Without(fromMap, {x})
  /\ UNCHANGED <<unlinkedInputs, outputs, changes, bound>>

(* cutoff forgets where the connection came from.                          *)
Cutoff(c) ==
  /\ Requests /\ c \in DOMAIN fromMap
  /\ fromMap' = Without(fromMap, {c})
  /\ Past([past EXCEPT !.left = @ \cup ({fromMap[c]} \cap inputs)], 1, 0)
  /\ UNCHANGED <<inputs, unlinkedInputs, outputs, router, engine, ranker, changes, bound>>

-----------------------------------------------------------------------------
(* Faulty: the output that is there is not looked for.                     *)
Existing_none(w) == {}

Existing(w) == {o \in DOMAIN outputs : outputs[o] = w}

AddOutput(o, w) ==
  /\ outputs' = (o :> w) @@ outputs
  /\ engine' = [engine EXCEPT !.outs = @ \cup {o}]
  /\ router' = AddConnection(router, o, "audio", "in", {"audio"})

RemoveOutput(o) ==
  /\ outputs' = Without(outputs, {o})
  /\ engine' = [engine EXCEPT !.outs = @ \ {o}]
  /\ router' = RemoveConnection(router, o)

(* generate answers with the output there is for whom it is asked.         *)
Generate(w) ==
  /\ Requests /\ bound.engine # "selecting"
  /\ IF Existing(w) # {} THEN Past(past, 1, 0) /\ UNCHANGED <<outputs, engine, router>>
     ELSE \/ \E o \in Outputs \ DOMAIN outputs : AddOutput(o, w) /\ Past(past, 1, 0)
          \/ 1 \in Answers /\ Past(past, 1, 1) /\ UNCHANGED <<outputs, engine, router>>
  /\ UNCHANGED <<inputs, unlinkedInputs, fromMap, ranker, changes, bound>>

Degenerate(o) ==
  /\ Requests /\ o \in DOMAIN outputs
  /\ RemoveOutput(o) /\ Past(past, 1, 0)
  /\ UNCHANGED <<inputs, unlinkedInputs, fromMap, ranker, changes, bound>>

Next ==
  \/ \E s \in Streams : PublishStream(s) \/ Unpublish(s)
  \/ \E c \in Connections : PublishConnection(c) \/ Unpublish(c) \/ Cutoff(c)
  \/ \E c \in Connections, s \in Streams : LinkInput(c, s)
  \/ \E w \in Whom : Generate(w)
  \/ \E o \in Outputs : Degenerate(o)
  \/ \E i \in Slots, s \in Streams : UpdateInput(i, s)
  \/ TriggerRankChange \/ OnRankChange

Spec == Init /\ [][Next]_vars

-----------------------------------------------------------------------------
TypeOK ==
  /\ inputs \subseteq Streams /\ unlinkedInputs \subseteq Connections
  /\ DOMAIN fromMap \subseteq Connections /\ Range(fromMap) \subseteq Streams
  /\ DOMAIN outputs \subseteq Outputs /\ Range(outputs) \subseteq Whom
  /\ ToSet(ranker.linked) \cup ranker.others \subseteq Streams \cup {None}

(* What the engine has is what the node's table has, each with a client of *)
(* the router, as far as the engine did not refuse it; each output is      *)
(* there once for whom it is, in engine and router (audio/index.js).       *)
TablesAgree ==
  /\ engine.inputs = inputs
  /\ DOMAIN router.remote = inputs \cup past.refused
  /\ Ids(router) = DOMAIN router.remote \cup DOMAIN outputs
  /\ engine.outs = DOMAIN outputs /\ IsInjective(outputs)

(* What is heard is what somebody publishes, by itself or over a           *)
(* connection; but for what a cutoff left or a stray connection brought,   *)
(* and what was taken out for one of several that publish it.              *)
HeardIsPublished ==
  LET published == past.published \cup {fromMap[c] : c \in DOMAIN fromMap \ past.stray}
  IN /\ inputs \ past.left \subseteq published
     /\ published \ past.shared \subseteq inputs

(* At rest, what the ranker gave a place is mixed from that place, or told *)
(* the controller, and nothing else; but for what came back while a report *)
(* named it (selectiveMixer.js, activeAudioSelector.js, AudioRanker.cpp).  *)
PlacesAgree ==
  Ranks /\ changes = << >> /\ ranker.linked = ranker.last =>
    /\ \A i, j \in Slots : ranker.linked[i] = ranker.linked[j] => i = j \/ ranker.linked[i] = None
    /\ ToSet(ranker.linked) \cup ranker.others = inputs \cup (ToSet(ranker.linked) \cap {None})
    /\ None \in ToSet(ranker.linked) => ranker.others = {}
    /\ bound.engine = "ranked" =>
         \A i \in Slots, s \in Streams \ past.again :
           ranker.linked[i] = s <=> s \in DOMAIN engine.mixed /\ engine.mixed[s] = i
    /\ bound.engine = "selecting" =>
         \A i \in Slots : ranker.linked[i] \in Streams \ past.again =>
           i \in DOMAIN engine.mixed /\ engine.mixed[i] = ranker.linked[i]
=============================================================================
