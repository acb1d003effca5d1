------------------------------ MODULE MCPortal ------------------------------
(* A portal with a few sockets.                                            *)
EXTENDS Portal

CONSTANTS c1, c2, c3

Base == [logins |-> 1, messages |-> 0, breaks |-> 0, pauses |-> 0, drops |-> 0, faults |-> 0,
         versions |-> {"1.2"}]

(* Two logins, without messages and with one, which a socket that is used  *)
(* again inherits; drops and failures; reconnections with messages, and    *)
(* with a pause.                                                           *)
MCBounds ==
  {[Base EXCEPT !.logins = 2],
   [Base EXCEPT !.drops = 1, !.faults = 1],
   [Base EXCEPT !.logins = 2, !.messages = 1],
   [Base EXCEPT !.messages = 3, !.breaks = 2, !.versions = {"1.1", "1.2"}],
   [Base EXCEPT !.messages = 2, !.breaks = 1, !.pauses = 1]}
=============================================================================
