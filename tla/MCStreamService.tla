-------------------------- MODULE MCStreamService ---------------------------
(* The stream service with two participants.                               *)
EXTENDS StreamService, TLC

CONSTANTS u1, u2, s1, s2, x1

One == (u1 :> 1) @@ (u2 :> 1)
Two == (u1 :> 1) @@ (u2 :> 2)

(* A participant that takes the other's publication, on one engine and on  *)
(* two; one that takes its own; one that moves between two publications   *)
(* while one is ended, while calls fail, and twice.                        *)
MCBounds ==
  LET all == {u1, u2, s1, x1}
      apart == (s1 :> u1) @@ (x1 :> u2)
      both == (s1 :> u1) @@ (s2 :> u1) @@ (x1 :> u1)
  IN {[owner |-> apart, home |-> One, ends |-> all, faults |-> 1, updates |-> 0],
      [owner |-> apart, home |-> Two, ends |-> all, faults |-> 0, updates |-> 0],
      [owner |-> (s1 :> u1) @@ (x1 :> u1), home |-> One, ends |-> all, faults |-> 0, updates |-> 1],
      [owner |-> both, home |-> One, ends |-> {s1, x1}, faults |-> 0, updates |-> 1],
      [owner |-> both, home |-> One, ends |-> {x1}, faults |-> 1, updates |-> 1],
      [owner |-> both, home |-> One, ends |-> {x1}, faults |-> 0, updates |-> 2]}
=============================================================================
