-------------------------- MODULE MCSpoolAssignment --------------------------
(* Two attempts and two or three spool files: every session of one turn on    *)
(* three instants, one of two turns, and three files that must be skipped.    *)
EXTENDS SpoolAssignment

CONSTANTS k1, k2

Turn(sequence, attempt, key, at) ==
    [sequence |-> sequence, attempt |-> attempt, key |-> key, price |-> 1, at |-> at,
     usable |-> TRUE, turn |-> TRUE]

ToolCall(sequence, key, at) == [Turn(sequence, 1, key, at) EXCEPT !.turn = FALSE]

\* A turn on the first instant and one on the second, then a tool call.
TwoTurns(key) == <<Turn(0, 1, key, 0), Turn(1, 1, key, 1), ToolCall(2, key, 2)>>

\* Two agents in one file, a file whose sequence starts again, no turn at all.
Poisoned ==
    { <<Turn(0, 1, k1, 0), Turn(1, 2, k2, 0)>>,
      <<Turn(1, 1, k1, 1), Turn(0, 1, k1, 1)>>,
      <<ToolCall(0, k1, 0)>> }

MCFiles ==
    { <<Turn(0, 1, key, at)>> : key \in Keys, at \in 0 .. MaxTime }
    \cup { TwoTurns(key) : key \in Keys } \cup Poisoned
=============================================================================
