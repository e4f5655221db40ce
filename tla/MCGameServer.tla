---------------------------- MODULE MCGameServer -----------------------------
(***************************************************************************)
(* GameServer with three players for two seats.  One read() returns one or *)
(* two lines.                                                              *)
(***************************************************************************)
EXTENDS GameServer

MCIds == 1..3

\* Every line parse_message may meet; those it refuses for the length of the
\* argument or for the id are there once or twice.
MCLine == {l \in Line : /\ l.arg = "toolong" => l.id = 1
                       /\ l.id = BadId => l.arg = "none"}

MCBatches == {<<a>> : a \in MCLine} \cup {<<a, b>> : a, b \in MCLine}

MCNext == Step(MCBatches)
MCSpec == Init /\ [][MCNext]_vars
===============================================================================
