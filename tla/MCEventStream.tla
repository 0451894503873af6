---------------------------- MODULE MCEventStream ----------------------------
(* Two pages of events, two clients that read both, two lost connections and  *)
(* two resets: each client can make an event of the other late, and a page can *)
(* be selected again between the resets or follow the run over both.          *)
EXTENDS EventStream

CONSTANTS c1, c2
=============================================================================
