----------------------------- MODULE VideoMixer -----------------------------
(***************************************************************************)
(* A video node that mixes: the inputs it manages (those mixed and those   *)
(* that wait for room), the native engine that mixes them, and the layout  *)
(* processor that gives each a region and tells the controller.  Requests  *)
(* of the controller come in any order, sources disconnect, and the engine *)
(* may refuse an input.                                                    *)
(***************************************************************************)
EXTENDS Integers, FiniteSets, SequencesExt

CONSTANTS
  None,
  Streams,      \* streams, known by the node's address of their source
  Connections,  \* inputs published before their source is known
  MaxInput,
  Templates,    \* the sizes of the configured layouts
  Bounds        \* what the environment does: [requests, faults]

MixerAssumption == MaxInput \in Nat \ {0} /\ Templates \subseteq Nat \ {0}

VARIABLES
  inputManager, \* [inputs, pendingInputs, freeIndex]
  engine,       \* input id -> the stream the engine mixes there
  layout,       \* [inputList, regions, templates, solution], the layout processor
  told,         \* region -> stream, as the controller was last told
  sources,      \* the streams the router has a client for
  unlinkedInputs, fromMap,
  past,
  bound

vars == <<inputManager, engine, layout, told, sources, unlinkedInputs, fromMap, past, bound>>

(* Input ids count from 0, regions from 1.                                 *)
InputIds == 0 .. MaxInput - 1

TypeOK ==
  /\ \A i \in DOMAIN inputManager.inputs : inputManager.inputs[i].id \in InputIds
  /\ \A i \in DOMAIN inputManager.pendingInputs : inputManager.pendingInputs[i].id = None
  /\ Range(inputManager.freeIndex) \subseteq InputIds
  /\ DOMAIN engine \subseteq InputIds /\ Range(engine) \subseteq Streams
  /\ Range(layout.inputList) \subseteq InputIds
  /\ sources \subseteq Streams /\ unlinkedInputs \subseteq Connections
  /\ Range(fromMap) \subseteq Streams

Init ==
  /\ inputManager = [inputs |-> << >>, pendingInputs |-> << >>,
                     freeIndex |-> [i \in 1 .. MaxInput |-> MaxInput - i]]
  /\ engine = << >>
  /\ layout = [inputList |-> << >>, regions |-> 0, templates |-> Templates, solution |-> << >>]
  /\ told = << >> /\ sources = {} /\ unlinkedInputs = {} /\ fromMap = << >>
  /\ past = [requests |-> 0, faults |-> 0, asked |-> {}, wanted |-> {}, refused |-> {}, failed |-> {},
             cut |-> {}, unplaced |-> {},
             silent |-> FALSE, gaps |-> FALSE, stray |-> {}, shared |-> {}]
  /\ bound \in Bounds

-----------------------------------------------------------------------------
(* InputManager, as operators on M.                                        *)

InputOf(M, s) == SelectSeq(M.inputs \o M.pendingInputs, LAMBDA e : e.stream = s)[1]

StreamsIn(q) == {q[i].stream : i \in DOMAIN q}

Has(M, s) == s \in StreamsIn(M.inputs) \cup StreamsIn(M.pendingInputs)

IsPending(M, s) == s \in StreamsIn(M.pendingInputs)

Drop(q, s) == SelectSeq(q, LAMBDA e : e.stream # s)

Entry(s, id, n) == [stream |-> s, id |-> id, primaryCount |-> n]

(* What is added again keeps its place.                                    *)
Add(M, s) ==
  IF s \in StreamsIn(M.inputs) THEN M
  ELSE IF M.freeIndex # << >>
  THEN [M EXCEPT !.inputs = Append(@, Entry(s, Last(M.freeIndex), 0)), !.freeIndex = Front(@)]
  ELSE IF ~IsPending(M, s) THEN [M EXCEPT !.pendingInputs = Append(@, Entry(s, None, 0))]
  ELSE [M EXCEPT !.pendingInputs = [i \in DOMAIN @ |-> IF @[i].stream = s THEN Entry(s, None, 0) ELSE @[i]]]

RemoveFrom(M, s) ==
  IF IsPending(M, s) THEN [M EXCEPT !.pendingInputs = Drop(@, s)]
  ELSE [M EXCEPT !.inputs = Drop(@, s), !.freeIndex = Append(@, InputOf(M, s).id)]

(* enable: a pending stream takes the place of another.                    *)
Enable(M, s, out) ==
  LET id == InputOf(M, out).id
  IN [M EXCEPT !.inputs = Append(Drop(@, out), Entry(s, id, InputOf(M, s).primaryCount)),
               !.pendingInputs = Append(Drop(@, s), Entry(out, None, InputOf(M, out).primaryCount))]

(* The first of those that were primary least often.                       *)
LeastPrimary(M) ==
  LET least == {i \in DOMAIN M.inputs : \A j \in DOMAIN M.inputs :
                  M.inputs[i].primaryCount <= M.inputs[j].primaryCount}
  IN M.inputs[CHOOSE i \in least : \A j \in least : i <= j].stream

(* promotePendingStream, for the index that was freed last.                *)

(* Faulty: the index stays among those that are free.                      *)
Promote_index_free(M) ==
  LET e == Head(M.pendingInputs)
  IN [M EXCEPT !.inputs = Append(@, Entry(e.stream, Last(M.freeIndex), e.primaryCount)),
               !.pendingInputs = Tail(@)]

Promote(M) ==
  LET e == Head(M.pendingInputs)
  IN [M EXCEPT !.inputs = Append(@, Entry(e.stream, Last(M.freeIndex), e.primaryCount)),
               !.pendingInputs = Tail(@), !.freeIndex = Front(@)]

getStreamFromInput(M, id) ==
  IF \E i \in DOMAIN M.inputs : M.inputs[i].id = id
  THEN (CHOOSE e \in Range(M.inputs) : e.id = id).stream ELSE None

-----------------------------------------------------------------------------
(* LayoutProcessor, as operators on L.                                     *)

(* choseTemplate: the smallest that covers; the old one when none does.    *)
Chosen(L) ==
  LET fit == {n \in L.templates : Len(L.inputList) <= n}
  IN IF fit = {} THEN L.regions ELSE CHOOSE n \in fit : \A k \in fit : n <= k

Positions(L, regions) ==
  [L EXCEPT !.regions = regions,
            !.solution = [k \in 1 .. regions |-> IF k <= Len(L.inputList) THEN L.inputList[k] ELSE None]]

WithList(L, list) == LET K == [L EXCEPT !.inputList = list] IN Positions(K, Chosen(K))

Listed(L, id) == id \in Range(L.inputList)

LayoutAdd(L, id) == IF Listed(L, id) THEN L ELSE WithList(L, Append(L.inputList, id))

LayoutRemove(L, id) ==
  IF ~Listed(L, id) THEN L
  ELSE WithList(L, RemoveAt(L.inputList, CHOOSE i \in DOMAIN L.inputList :
                      L.inputList[i] = id /\ \A j \in 1 .. i - 1 : L.inputList[j] # id))

Swapped(L, i, j) ==
  Positions([L EXCEPT !.inputList = [@ EXCEPT ![i] = L.inputList[j], ![j] = L.inputList[i]]], L.regions)

Position(L, id) == CHOOSE i \in DOMAIN L.inputList : L.inputList[i] = id

LayoutPrimary(L, id) == IF Listed(L, id) /\ Position(L, id) > 1 THEN Swapped(L, Position(L, id), 1) ELSE L

(* specifyInputRegion, false when it answers so.                           *)
Specifies(L, id, r) == r <= L.regions /\ r <= Len(L.inputList) /\ Listed(L, id)

(* What layoutChange says: the streams the inputs are for at that moment.  *)
Shown(L, M) == [k \in DOMAIN L.solution |->
                  IF L.solution[k] = None THEN None ELSE getStreamFromInput(M, L.solution[k])]

-----------------------------------------------------------------------------
(* What the model remembers.  asked: connections published.  wanted:       *)
(* streams published with their address.  refused: inputs the engine would *)
(* not take.  unplaced: indexes in use that have no region, because the    *)
(* engine refused their input or setLayout had none for it.  silent: the   *)
(* stream of an index changed and layoutChange was not emitted since.      *)
(* gaps: setLayout left a region empty, and positions were not updated     *)
(* since.  failed: streams whose      *)
(* addition was answered with an error.  cut: connections unpublished or   *)
(* cut off.  stray: connections unpublished before they were linked.         *)
(* shared: streams removed by another request than that of a connection    *)
(* that is linked to them.                                                 *)

Without(f, S) == Restrict(f, DOMAIN f \ S)

Requests == past.requests < bound.requests

(* The engine takes an input, or refuses it.                               *)
Answers == {TRUE} \cup (IF past.faults < bound.faults THEN {FALSE} ELSE {})

Fault(ok) == IF ok THEN 0 ELSE 1

(* Positions that were updated are told.                                   *)
Updates(P, L, M) ==
  /\ layout' = L
  /\ told' = Shown(L, M)
  /\ past' = [P EXCEPT !.silent = FALSE, !.gaps = FALSE]

Keeps(P) ==
  /\ past' = P
  /\ UNCHANGED <<layout, told>>

(* addInput for a stream whose address is known: a client, an input, a     *)
(* region.  What the engine refuses stays an input and loses its client;   *)
(* what has to wait has its client already.                                *)
AddInput(s, ok, P) ==
  LET M == Add(inputManager, s)
      new == s \in StreamsIn(M.inputs) \ StreamsIn(inputManager.inputs)
      id == InputOf(M, s).id
  IN /\ new \/ ok
     /\ inputManager' = M
     /\ engine' = IF new /\ ok THEN (id :> s) @@ engine ELSE engine
     /\ sources' = IF ok THEN sources \cup {s} ELSE sources \ {s}
     /\ IF new /\ ok /\ ~Listed(layout, id) THEN Updates(P, LayoutAdd(layout, id), M)
        ELSE Keeps([P EXCEPT !.faults = @ + Fault(ok),
                             !.refused = IF ok THEN @ ELSE @ \cup {s},
                             !.failed = IF ok THEN @ ELSE @ \cup {s},
                             !.unplaced = IF ok THEN @ ELSE @ \cup {id}])

(* removeInput: the first that waits takes the index that was freed, and   *)
(* with it the region; of that the layout processor says nothing.          *)
RemoveInput(s, ok, P) ==
  LET M == RemoveFrom(inputManager, s)
      id == InputOf(inputManager, s).id
      promotes == id # None /\ M.pendingInputs # << >>
      N == IF promotes THEN Promote(M) ELSE M
      next == Head(M.pendingInputs).stream
      left == Without(engine, {id})
      Q == [P EXCEPT !.faults = @ + Fault(ok), !.wanted = @ \ {s}, !.failed = @ \ {s},
                     !.refused = (@ \ {s}) \cup (IF ok THEN {} ELSE {next}),
                     !.unplaced = IF ~ok THEN @ \cup {id} ELSE IF promotes THEN @ ELSE @ \ {id},
                     !.silent = @ \/ promotes]
  IN /\ promotes \/ ok
     /\ inputManager' = N
     /\ engine' = IF promotes /\ ok THEN (id :> next) @@ left ELSE left
     /\ sources' = sources \ {s}
     /\ IF (~promotes \/ ~ok) /\ Listed(layout, id) THEN Updates(Q, LayoutRemove(layout, id), N)
        ELSE Keeps(Q)

Removed(s, P) ==
  IF Has(inputManager, s) THEN \E ok \in Answers : RemoveInput(s, ok, P)
  ELSE Keeps(P) /\ UNCHANGED <<inputManager, engine, sources>>

(* The engine refused the input of an index; its region goes.              *)
Refuses(id, P, M) ==
  LET Q == [P EXCEPT !.unplaced = @ \cup {id}]
  IN IF Listed(layout, id) THEN Updates(Q, LayoutRemove(layout, id), M) ELSE Keeps(Q)

(* The index of an input was given to one that waited.                     *)
Switch(M, s, ok) ==
  LET id == InputOf(M, s).id
  IN /\ inputManager' = M
     /\ engine' = IF ok THEN (id :> s) @@ engine ELSE Without(engine, {id})

Switched(s, out, ok) ==
  [past EXCEPT !.requests = @ + 1, !.faults = @ + Fault(ok), !.silent = TRUE,
               !.refused = (@ \ {out}) \cup (IF ok THEN {} ELSE {s})]

-----------------------------------------------------------------------------
Requested == [past EXCEPT !.requests = @ + 1]

(* publish of a stream that has an address.                                *)
PublishStream(s) ==
  /\ Requests
  /\ LET P == [Requested EXCEPT !.wanted = @ \cup {s}]
     IN IF Has(inputManager, s) THEN Keeps(P) /\ UNCHANGED <<inputManager, engine, sources>>
        ELSE \E ok \in Answers : AddInput(s, ok, P)
  /\ UNCHANGED <<unlinkedInputs, fromMap, bound>>

(* publish of a connection whose source comes with linkup.                 *)
PublishConnection(c) ==
  /\ Requests /\ c \notin past.asked
  /\ unlinkedInputs' = unlinkedInputs \cup {c}
  /\ past' = [Requested EXCEPT !.asked = @ \cup {c}]
  /\ UNCHANGED <<inputManager, engine, layout, told, sources, fromMap, bound>>

(* linkup.  A stream this node has no client for needs an address.         *)
Linkup(c, s) ==
  /\ Requests /\ c \in unlinkedInputs
  /\ unlinkedInputs' = unlinkedInputs \ {c}
  /\ \/ \E ok \in Answers :
          /\ AddInput(s, ok, Requested)
          /\ fromMap' = IF ok THEN (c :> s) @@ fromMap ELSE fromMap
     \/ /\ s \notin sources
        /\ past' = Requested
        /\ UNCHANGED <<inputManager, engine, layout, told, sources, fromMap>>
  /\ UNCHANGED bound

Others(c) == {d \in DOMAIN fromMap \ {c} : fromMap[d] = fromMap[c]}

(* unpublish and cutoff of a connection: one is for both, since removeInput*)
(* of what is no input does nothing.                                       *)
CutoffConnection(c) ==
  /\ Requests /\ c \in past.asked
  /\ IF c \in DOMAIN fromMap
     THEN Removed(fromMap[c], [Requested EXCEPT !.cut = @ \cup {c}, !.shared = @ \cup Others(c)])
     ELSE Removed(c, [Requested EXCEPT !.cut = @ \cup {c}, !.stray = @ \cup (unlinkedInputs \cap {c})])
  /\ fromMap' = Without(fromMap, {c})
  /\ UNCHANGED <<unlinkedInputs, bound>>

LinkedTo(s) == {d \in DOMAIN fromMap : fromMap[d] = s}

CutoffStream(s) ==
  /\ Requests /\ Has(inputManager, s)
  /\ Removed(s, [Requested EXCEPT !.shared = @ \cup LinkedTo(s)])
  /\ UNCHANGED <<unlinkedInputs, fromMap, bound>>

(* The client reports that its stream's node is gone.                      *)
Disconnected(s) ==
  /\ Requests /\ s \in sources
  /\ Removed(s, [Requested EXCEPT !.shared = @ \cup LinkedTo(s)])
  /\ UNCHANGED <<unlinkedInputs, fromMap, bound>>

-----------------------------------------------------------------------------
Primaried(M, s) ==
  [M EXCEPT !.inputs = [i \in DOMAIN @ |-> IF @[i].stream = s THEN [@[i] EXCEPT !.primaryCount = @ + 1] ELSE @[i]]]

setPrimary(s) ==
  /\ Requests /\ Has(inputManager, s)
  /\ LET out == LeastPrimary(inputManager)
         M == IF IsPending(inputManager, s) THEN Enable(inputManager, s, out) ELSE inputManager
         id == InputOf(M, s).id
         P == IF M = inputManager THEN Requested ELSE Switched(s, out, TRUE)
     IN \/ /\ IF M = inputManager THEN inputManager' = Primaried(M, s) /\ UNCHANGED engine
              ELSE Switch(Primaried(M, s), s, TRUE)
           /\ IF Listed(layout, id) /\ Position(layout, id) > 1
              THEN Updates(P, LayoutPrimary(layout, id), M) ELSE Keeps(P)
        \/ /\ M # inputManager /\ FALSE \in Answers
           /\ Switch(M, s, FALSE)
           /\ Refuses(id, Switched(s, out, FALSE), M)
  /\ UNCHANGED <<sources, unlinkedInputs, fromMap, bound>>

(* setRegion.  A stream that waits takes the index that is in the region.  *)
setRegion(s, r) ==
  /\ Requests /\ Has(inputManager, s)
  /\ IF IsPending(inputManager, s)
     THEN /\ r <= layout.regions /\ r <= Len(layout.inputList)
          /\ LET out == getStreamFromInput(inputManager, layout.inputList[r])
                 M == Enable(inputManager, s, out)
                 P(ok) == Switched(s, out, ok)
             IN \E ok \in Answers :
                  /\ Switch(M, s, ok)
                  /\ IF ok THEN Keeps(P(ok)) ELSE Refuses(layout.inputList[r], P(ok), M)
     ELSE /\ Specifies(layout, InputOf(inputManager, s).id, r)
          /\ LET L == Swapped(layout, Position(layout, InputOf(inputManager, s).id), r)
             IN IF layout.inputList[r] = InputOf(inputManager, s).id THEN Keeps(Requested)
                ELSE Updates(Requested, L, inputManager)
          /\ UNCHANGED <<inputManager, engine>>
  /\ UNCHANGED <<sources, unlinkedInputs, fromMap, bound>>

(* setLayout takes all inputs out and puts them in again, those the layout *)
(* names first and in reverse; reset changes nothing, since constructor is *)
(* not the constructor there.  Regions without a stream get those that are *)
(* not named, in their order.                                              *)
Emptied(M) ==
  [inputs |-> << >>, pendingInputs |-> << >>,
   freeIndex |-> M.freeIndex \o [i \in DOMAIN M.inputs |-> M.inputs[i].id]]

Readded(M, named) ==
  LET list == [i \in DOMAIN (M.inputs \o M.pendingInputs) |-> (M.inputs \o M.pendingInputs)[i].stream]
      order == Reverse(SelectSeq(list, LAMBDA s : s \in named)) \o SelectSeq(list, LAMBDA s : s \notin named)
  IN FoldLeft(Add, Emptied(M), order)

Filled(lay, M) ==
  LET rest == SelectSeq(M.inputs, LAMBDA e : e.stream \notin Range(lay))
      nth(k) == Cardinality({j \in 1 .. k : lay[j] = None})
  IN [k \in DOMAIN lay |->
        IF lay[k] = None /\ nth(k) <= Len(rest) THEN rest[nth(k)].stream ELSE lay[k]]

Placed(M, lay) ==
  LET at == [k \in DOMAIN lay |-> IF lay[k] = None THEN None ELSE InputOf(M, lay[k]).id]
  IN [inputList |-> SelectSeq(at, LAMBDA id : id # None), regions |-> Len(at),
      templates |-> {Len(at)}, solution |-> at]

setLayout(lay) ==
  /\ Requests
  /\ LET named == Range(lay) \ {None}
         M == Readded(inputManager, named)
         L == Placed(M, Filled(lay, M))
     IN \E lost \in SUBSET StreamsIn(M.inputs) :
          /\ past.faults + Cardinality(lost) <= bound.faults
          /\ inputManager' = M
          /\ engine' = [id \in {e.id : e \in {e \in Range(M.inputs) : e.stream \notin lost}} |->
                         getStreamFromInput(M, id)]
          /\ LET P == [Requested EXCEPT !.faults = @ + Cardinality(lost), !.refused = lost]
             IN \/ /\ \E s \in named : ~Has(M, s)
                   /\ Keeps([P EXCEPT !.silent = TRUE])
                \/ /\ \A s \in named : Has(M, s)
                   /\ layout' = L
                   /\ told' = Shown(L, M)
                   /\ past' = [P EXCEPT !.silent = FALSE,
                        !.unplaced = {e.id : e \in Range(M.inputs)} \ Range(L.inputList),
                        !.gaps = \E j, k \in DOMAIN L.solution :
                                   j < k /\ L.solution[j] = None /\ L.solution[k] # None]
  /\ UNCHANGED <<sources, unlinkedInputs, fromMap, bound>>

Layouts ==
  UNION {{f \in [1 .. n -> Streams \cup {None}] :
            \A i, j \in 1 .. n : f[i] = f[j] => i = j \/ f[i] = None} : n \in Templates}

Next ==
  \/ \E s \in Streams : PublishStream(s) \/ CutoffStream(s) \/ Disconnected(s) \/ setPrimary(s)
  \/ \E c \in Connections : PublishConnection(c) \/ CutoffConnection(c)
  \/ \E c \in Connections, s \in Streams : Linkup(c, s)
  \/ \E s \in Streams, r \in 1 .. MaxInput : setRegion(s, r)
  \/ \E lay \in Layouts : setLayout(lay)

Spec == Init /\ [][Next]_vars

-----------------------------------------------------------------------------
AllInputs == StreamsIn(inputManager.inputs) \cup StreamsIn(inputManager.pendingInputs)

Used == {e.id : e \in Range(inputManager.inputs)}

(* An index is free or the input's of one stream; a stream waits only when *)
(* none is free; the engine mixes under each index the stream that has it, *)
(* whatever was swapped, promoted or laid out (vmixer.js, InputManager).   *)
InputsAgree ==
  /\ IsInjective(inputManager.freeIndex)
  /\ Range(inputManager.freeIndex) = InputIds \ Used
  /\ Cardinality(Used) = Len(inputManager.inputs)
  /\ Cardinality(AllInputs) = Len(inputManager.inputs) + Len(inputManager.pendingInputs)
  /\ inputManager.pendingInputs # << >> => inputManager.freeIndex = << >>
  /\ engine = [id \in {e.id : e \in {e \in Range(inputManager.inputs) : e.stream \notin past.refused}} |->
                 getStreamFromInput(inputManager, id)]

(* The regions go to the indexes in use, each once, and the positions are  *)
(* those of the list (layout.js); except for what has no region and the    *)
(* gaps of a layout that was set.                                          *)
LayoutAgrees ==
  /\ IsInjective(layout.inputList)
  /\ Range(layout.inputList) = Used \ past.unplaced
  /\ layout.solution = Positions(layout, layout.regions).solution \/ past.gaps

(* What the controller was told last is what is shown, unless the stream   *)
(* of an index changed in silence.                                         *)
ToldIsShown == told = Shown(layout, inputManager) \/ past.silent

(* There is a client for each stream that is mixed or waits, and no other; *)
(* except where the engine refused the stream when it came.                *)
SourcesAgree ==
  /\ sources \subseteq AllInputs
  /\ AllInputs \ sources \subseteq past.failed

(* What is mixed was published or linked and not taken away since, and     *)
(* what is linked is mixed or waits.                                       *)
MixedIsWanted ==
  /\ \A s \in AllInputs : s \in past.wanted \cup past.failed \/ LinkedTo(s) # {}
  /\ \A c \in DOMAIN fromMap : fromMap[c] \in AllInputs \/ c \in past.shared
  /\ \A c \in past.cut : c \in DOMAIN fromMap \cup unlinkedInputs => c \in past.stray
=============================================================================
