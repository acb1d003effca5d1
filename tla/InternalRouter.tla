--------------------------- MODULE InternalRouter ---------------------------
(***************************************************************************)
(* The connection table every media node keeps (Connections) and the       *)
(* router around it (InternalConnectionRouter), as operators on a record:  *)
(*   conns  : id -> [type, dir, kinds, from], the table;                   *)
(*   remote : id -> [dests, maker], the streams of other nodes the router  *)
(*            has an internal connection for, and who asked for it;        *)
(*   links  : the <<source, kind, destination>> the native objects hold.   *)
(* The table and the native links are two records of one thing.            *)
(***************************************************************************)
EXTENDS Functions

CONSTANT None

Kinds == {"audio", "video", "data"}

(* cutOffFrom and cutOffTo know of two kinds only.                         *)
CutKinds == {"audio", "video"}

(* linkupConnection takes the kinds in this order and stops at the first   *)
(* that cannot be linked.                                                  *)
Rank == [audio |-> 1, video |-> 2, data |-> 3]

EmptyRouter == [conns |-> << >>, remote |-> << >>, links |-> {}]

Ids(R) == DOMAIN R.conns

Connection(type, dir, kinds) ==
  [type |-> type, dir |-> dir, kinds |-> kinds, from |-> [k \in Kinds |-> None]]

AddConnection(R, id, type, dir, kinds) ==
  [R EXCEPT !.conns =
     [x \in Ids(R) \cup {id} |-> IF x \in Ids(R) THEN R.conns[x] ELSE Connection(type, dir, kinds)]]

(* Everything the table says is fed by id.                                 *)
FedBy(R, id) ==
  {x \in Ids(R) \X CutKinds : R.conns[x[1]].dir = "out" /\ R.conns[x[1]].from[x[2]] = id}

CutOffFrom(R, id) ==
  LET fed == FedBy(R, id)
  IN [R EXCEPT
        !.links = @ \ {<<id, x[2], x[1]>> : x \in fed},
        !.conns = [d \in Ids(R) |->
                     [R.conns[d] EXCEPT !.from =
                        [k \in Kinds |-> IF <<d, k>> \in fed THEN None ELSE @[k]]]]]

CutOffTo(R, id) ==
  LET from == R.conns[id].from
      cut == {k \in CutKinds : from[k] \in Ids(R) /\ R.conns[from[k]].dir = "in"}
  IN [R EXCEPT !.links = @ \ {<<from[k], k, id>> : k \in cut},
               !.conns[id].from = [k \in Kinds |-> IF k \in cut THEN None ELSE from[k]]]

CutoffConnection(R, id) ==
  IF id \notin Ids(R) THEN R
  ELSE IF R.conns[id].dir = "in" THEN CutOffFrom(R, id) ELSE CutOffTo(R, id)

RemoveConnection(R, id) ==
  LET S == CutoffConnection(R, id)
  IN [S EXCEPT !.conns = Restrict(@, Ids(R) \ {id})]

-----------------------------------------------------------------------------
(* A client is opened to the node of each stream this router does not have;*)
(* when it disconnects, the callback of its maker is called.               *)
Created(R, ids, maker) ==
  LET new == ids \ (Ids(R) \cup DOMAIN R.remote)
  IN [R EXCEPT !.conns = [x \in Ids(R) \cup new |->
                            IF x \in new THEN Connection("internal", "in", Kinds) ELSE @[x]],
               !.remote = [x \in DOMAIN @ \cup new |->
                            IF x \in new THEN [dests |-> {}, maker |-> maker] ELSE @[x]]]

DestroyRemoteSource(R, id) ==
  IF id \notin DOMAIN R.remote THEN R
  ELSE [RemoveConnection(R, id) EXCEPT !.remote = Restrict(@, DOMAIN @ \ {id})]

(* The kinds of from that linkupConnection reaches: those before the first *)
(* whose source is gone or that the destination cannot receive.            *)
Linkable(R, dst, from) ==
  LET wrong == {k \in DOMAIN from : from[k] \notin Ids(R) \/ k \notin R.conns[dst].kinds}
  IN {k \in DOMAIN from : \A f \in wrong : Rank[k] < Rank[f]}

(* The earlier source of a kind is replaced in the table and keeps its     *)
(* native link.                                                            *)
LinkupConnection(R, dst, from) ==
  IF dst \notin Ids(R) THEN R
  ELSE LET done == Linkable(R, dst, from)
       IN [R EXCEPT
             !.links = @ \cup {<<from[k], k, dst>> : k \in {d \in done : d \in R.conns[from[d]].kinds}},
             !.conns[dst].from = [k \in Kinds |-> IF k \in done THEN from[k] ELSE @[k]]]

(* linkup: first the clients for the sources this router does not have, in *)
(* order and up to the first that has no address; only then the links.     *)
Sources(R, from, addressed) ==
  LET unknown == {k \in DOMAIN from : from[k] \notin Ids(R) \cup DOMAIN R.remote \cup addressed}
  IN {from[k] : k \in {k \in DOMAIN from : \A u \in unknown : Rank[k] < Rank[u]}} \ Ids(R)

Remember(R, ids, dst) ==
  [R EXCEPT !.remote =
     [x \in DOMAIN @ |-> IF x \in ids THEN [@[x] EXCEPT !.dests = @ \cup {dst}] ELSE @[x]]]

Linkup(R, dst, from, addressed) ==
  LET need == {from[k] : k \in DOMAIN from} \ Ids(R)
      have == Sources(R, from, addressed)
      S == Remember(Created(R, have, None), have, dst)
  IN IF have = need THEN LinkupConnection(S, dst, from) ELSE S

(* What the tables say is linked.                                          *)
TableLinks(R) ==
  {<<R.conns[x[1]].from[x[2]], x[2], x[1]>> :
     x \in {y \in Ids(R) \X Kinds : R.conns[y[1]].from[y[2]] # None}}
=============================================================================
