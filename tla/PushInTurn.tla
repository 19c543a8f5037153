----------------------------- MODULE PushInTurn -----------------------------
(***************************************************************************)
(* The push with either of two kinds of completion queue: one that returns *)
(* the completions of sends and of receives in any order, and one that     *)
(* returns what it holds in turn.  The code tells sends from receives and  *)
(* relies on no order, but only with the second kind do its queues never   *)
(* hold more than src/temp/config.py makes them for.                       *)
(***************************************************************************)
EXTENDS PushFile

VARIABLE inTurn    \* which of the two: chosen at the start and kept

turnVars == <<vars, inTurn>>

TurnInit == Init /\ inTurn \in BOOLEAN

TurnNext == Next /\ (inTurn => InTurn) /\ UNCHANGED inTurn

TurnSpec == TurnInit /\ [][TurnNext]_turnVars

TurnFairSpec == TurnSpec /\ Fairness

\* With completion queues in turn, no queue of either side is asked to hold more
\* than it was made for, although neither method counts the sends it has posted.
QueuesFitInTurn == inTurn => QueuesFit
=============================================================================
