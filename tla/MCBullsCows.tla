-------------------------- MODULE MCBullsCows --------------------------
(***************************************************************************)
(* BullsCows, and what is claimed of it, with one or two client processes. *)
(***************************************************************************)
EXTENDS BullsCowsClaims

CONSTANTS p1, p2

MCIds == {1, 2}

\* One process, or two of two players.
One == {p1}
Two == {p1, p2}
OneId == p1 :> 1
TwoIds == p1 :> 1 @@ p2 :> 2

\* Who tries a word.
Nobody == [p \in Procs |-> 0]
TheFirst == [p \in Procs |-> IF p = p1 THEN 1 ELSE 0]
Everybody == [p \in Procs |-> 1]
===============================================================================
