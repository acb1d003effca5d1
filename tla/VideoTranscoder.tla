--------------------------- MODULE VideoTranscoder ---------------------------
(***************************************************************************)
(* A video transcoder: one input, published with the address of its stream *)
(* or over a connection that is linked later, and outputs in the formats   *)
(* the controller asked for; behind them the native engine, and in the     *)
(* router the client of the input's node and a source for each output.     *)
(***************************************************************************)
EXTENDS Integers, FiniteSets, SequencesExt, InternalRouter

CONSTANTS
  Streams,      \* streams of other nodes
  Connections,  \* inputs published before their source is known
  Formats,      \* codec, resolution, frame rate, bit rate and key frame interval of an output
  Supported,    \* the formats the engine encodes
  Outputs,      \* ids of outputs
  Bounds        \* what a run does: [requests, faults]

BoundsAssumption ==
  /\ Supported \subseteq Formats
  /\ \A b \in Bounds : {b.requests, b.faults} \subseteq Nat

VARIABLES
  input, inputConnId, unlinkedInput,
  outputs,      \* output -> its format
  router,
  engine,       \* [inputs, count, outs]: the native transcoder
  past, used, bound

vars == <<input, inputConnId, unlinkedInput, outputs, router, engine, past, used, bound>>

Init ==
  /\ bound \in Bounds
  /\ input = None /\ inputConnId = None /\ unlinkedInput = None
  /\ outputs = << >>
  /\ router = EmptyRouter
  /\ engine = [inputs |-> {}, count |-> 0, outs |-> {}]
  /\ past = [published |-> {}, stray |-> {}, unplugged |-> {}, lost |-> {}]
  /\ used = [requests |-> 0, faults |-> 0]

(* What the environment remembers.  published: what was published and not  *)
(* unpublished or cut off.  stray: connections unpublished before they     *)
(* were linked.  unplugged: an input whose client was destroyed under it.  *)
(* lost: streams the engine counted and did not take.                      *)
Past(P, fault) ==
  /\ used.requests < bound.requests
  /\ used.faults + fault <= bound.faults
  /\ used' = [requests |-> used.requests + 1, faults |-> used.faults + fault]
  /\ past' = P

(* VideoTranscoder::setInput, native: there is one place.  What cannot be  *)
(* decoded is counted all the same, and is in no table.                    *)
Full == engine.count = 1

(* setInput of a stream whose address is known; P is what is remembered    *)
(* when it succeeds.                                                       *)
SetInput(s, connection, fault, P) ==
  IF Full
  THEN /\ fault = 0
       /\ router' = DestroyRemoteSource(Created(router, {s}, None), s)
       /\ Past([past EXCEPT !.unplugged = IF s = input THEN {s} ELSE @], 0)
       /\ UNCHANGED <<engine, input, inputConnId>>
  ELSE /\ router' = Created(router, {s}, None)
       /\ engine' = [engine EXCEPT !.count = 1, !.inputs = IF fault = 1 THEN {} ELSE {s}]
       /\ input' = s
       /\ inputConnId' = connection
       /\ Past([P EXCEPT !.lost = IF fault = 1 THEN {s} ELSE @], fault)

(* publish, of a stream with its address.                                  *)
PublishStream(s) ==
  /\ IF input = None
     THEN \E fault \in {0, 1} : SetInput(s, inputConnId, fault, [past EXCEPT !.published = @ \cup {s}])
     ELSE Past(past, 0) /\ UNCHANGED <<router, engine, input, inputConnId>>
  /\ UNCHANGED <<unlinkedInput, outputs, bound>>

(* publish, of a connection: the last one waits.                           *)
PublishConnection(c) ==
  /\ IF input = None
     THEN /\ unlinkedInput' = c
          /\ Past([past EXCEPT !.published = (@ \ Connections) \cup {c}, !.stray = @ \ {c}], 0)
     ELSE Past(past, 0) /\ UNCHANGED unlinkedInput
  /\ UNCHANGED <<input, inputConnId, outputs, router, engine, bound>>

(* linkup does not look whether there is an input by now.  Without an      *)
(* address a stream that is not known cannot be linked; the connection is  *)
(* not waiting any more.                                                   *)
LinkInput(c, s) ==
  /\ unlinkedInput = c
  /\ unlinkedInput' = None
  /\ \/ \E fault \in {0, 1} : SetInput(s, c, fault, past)
     \/ s \notin Ids(router) /\ Past(past, 0) /\ UNCHANGED <<router, engine, input, inputConnId>>
  /\ UNCHANGED <<outputs, bound>>

IsInput(x) == x \in {input, inputConnId}

(* unpublish and cutoff take the input out.  A connection that still waits *)
(* goes on waiting.                                                        *)
Unpublish(x) ==
  /\ IF IsInput(x)
     THEN /\ engine' = IF input \in engine.inputs THEN [engine EXCEPT !.inputs = {}, !.count = 0] ELSE engine
          /\ router' = DestroyRemoteSource(router, input)
          /\ input' = None /\ inputConnId' = None
          /\ Past([past EXCEPT !.published = @ \ {input, inputConnId}, !.unplugged = {},
                               !.stray = @ \ {inputConnId}], 0)
     ELSE /\ Past([past EXCEPT !.published = @ \ {x}, !.stray = IF x = unlinkedInput THEN @ \cup {x} ELSE @], 0)
          /\ UNCHANGED <<engine, router, input, inputConnId>>
  /\ UNCHANGED <<unlinkedInput, outputs, bound>>

-----------------------------------------------------------------------------
Existing(f) == {o \in DOMAIN outputs : outputs[o] = f}

AddOutput(o, f) ==
  /\ engine' = [engine EXCEPT !.outs = @ \cup {o}]
  /\ outputs' = (o :> f) @@ outputs
  /\ router' = AddConnection(router, o, "vtrasncoder", "in", {"video"})

(* generate answers with the output of that format there is, refuses what  *)
(* cannot be encoded, and fails with the engine.                           *)
Generate(f) ==
  /\ \/ Existing(f) = {} /\ f \in Supported /\ Past(past, 0) /\ \E o \in Outputs \ DOMAIN outputs : AddOutput(o, f)
     \/ /\ Existing(f) # {} \/ f \notin Supported
        /\ Past(past, 0) /\ UNCHANGED <<outputs, engine, router>>
     \/ Existing(f) = {} /\ f \in Supported /\ Past(past, 1) /\ UNCHANGED <<outputs, engine, router>>
  /\ UNCHANGED <<input, inputConnId, unlinkedInput, bound>>

Degenerate(o) ==
  /\ o \in DOMAIN outputs
  /\ engine' = [engine EXCEPT !.outs = @ \ {o}]
  /\ outputs' = Restrict(outputs, DOMAIN outputs \ {o})
  /\ router' = RemoveConnection(router, o)
  /\ Past(past, 0)
  /\ UNCHANGED <<input, inputConnId, unlinkedInput, bound>>

Next ==
  \/ \E s \in Streams : PublishStream(s) \/ Unpublish(s)
  \/ \E c \in Connections : PublishConnection(c) \/ Unpublish(c)
  \/ \E c \in Connections, s \in Streams : LinkInput(c, s)
  \/ \E f \in Formats : Generate(f)
  \/ \E o \in Outputs : Degenerate(o)

Spec == Init /\ [][Next]_vars

-----------------------------------------------------------------------------
TypeOK ==
  /\ input \in Streams \cup {None} /\ {inputConnId, unlinkedInput} \subseteq Connections \cup {None}
  /\ DOMAIN outputs \subseteq Outputs /\ Range(outputs) \subseteq Formats

(* The node, the engine and the router have the same input and outputs,    *)
(* and one output of a format; but for an input that lost its client to a  *)
(* second connection with the same source, and one the engine counts       *)
(* although it could not take it (vtranscoder.js, VideoTranscoder.cpp).    *)
TablesAgree ==
  LET taken == {input} \ {None}
  IN /\ past.lost = {} => engine.inputs = taken /\ engine.count = Cardinality(taken)
     /\ DOMAIN router.remote = taken \ past.unplugged
     /\ Ids(router) = DOMAIN router.remote \cup DOMAIN outputs
     /\ engine.outs = DOMAIN outputs /\ IsInjective(outputs)

(* What is transcoded is published, by itself or over its connection, but  *)
(* for one that was unpublished while it waited; and what waits is not the *)
(* connection of the input (vtranscoder.js).                               *)
InputIsPublished ==
  /\ input # None => {input, inputConnId} \cap (past.published \cup past.stray) # {}
  /\ inputConnId # None => input # None /\ inputConnId \in past.published \cup past.stray
=============================================================================
