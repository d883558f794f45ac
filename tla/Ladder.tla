------------------------------- MODULE Ladder -------------------------------
(***************************************************************************)
(* What life-migrate promises of the schema, whoever runs it and wherever  *)
(* it stops: the schema moves one version at a time, each move announced   *)
(* before and confirmed after; and a move that was left half-way is never  *)
(* taken up again, until somebody has declared the version.                *)
(***************************************************************************)
EXTENDS Integers

CONSTANT Last   \* the newest version

VARIABLES
    level,   \* the version the schema is at
    status   \* of the move: none, announced, made, or abandoned

vars == <<level, status>>

Init == level = 0 /\ status = "still"

Passes(from, to) == status = from /\ status' = to

Announce == Passes("still", "moving") /\ UNCHANGED level
Move     == Passes("moving", "moved") /\ level' \in {level - 1, level + 1} \cap 0..Last
Confirm  == Passes("moved", "still") /\ UNCHANGED level
Abandon  == (Passes("moving", "broken") \/ Passes("moved", "broken")) /\ UNCHANGED level
Declare  == Passes("broken", "still") /\ UNCHANGED level

Next == Announce \/ Move \/ Confirm \/ Abandon \/ Declare
Spec == Init /\ [][Next]_vars

=============================================================================
