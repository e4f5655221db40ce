--------------------------- MODULE BullsCowsClaims ----------------------------
(***************************************************************************)
(* What the report of the course project (os_KP/report/src) says of the    *)
(* game and the code does not keep.  Each formula is refuted by a run of   *)
(* its own.                                                                *)
(***************************************************************************)
EXTENDS BullsCows

\* results.tex:13: the server sends WIN to all players and ends the game.  When the
\* broadcast is over, every running client of a player has been sent it or has read
\* it (server.c 289).
WinReachesAllPlayers ==
    pc = "won" =>
        \A p \in Procs :
            cpc[p] \in {"loop", "eof", "gap"} /\ active[p] /\ SeatsOf(p) # {} => "WIN" \in Told(p)

\* results.tex:17: when a player disconnects, the server marks it as inactive.  Once
\* the server has read all there is, no player whose client has cleaned up and gone
\* counts as active (client.c 17-22; server.c 318-329).
DisconnectsAreNoticed ==
    pc = "select" /\ srv_buf = <<>> => \A p \in Procs : cpc[p] = "gone" => ~Seated(p)

===============================================================================
