------------------------------- MODULE Session -------------------------------
(***************************************************************************)
(* What the game server promises about one game, whatever its pipes do:    *)
(* players take seats while the game is in the lobby, the game starts once *)
(* all seats are taken, it is played once, and the server is told to stop  *)
(* only when nobody is left or by a signal.                                *)
(***************************************************************************)
EXTENDS Naturals, Sequences

CONSTANTS
    Ids,         \* the ids of the players
    Required     \* seats of the game (required_players)

VARIABLES
    seats,       \* the ids in the order they joined; a seat is never given back
    present,     \* the seats whose player takes part
    phase,       \* "lobby", "playing" or "over"
    open,        \* the server goes on serving
    told         \* a signal told the server to stop

svars == <<seats, present, phase, open, told>>

SInit ==
    /\ seats = <<>>
    /\ present = {}
    /\ phase = "lobby"
    /\ open = TRUE
    /\ told = FALSE

Join(id) ==
    /\ phase = "lobby" /\ Len(seats) < Required
    /\ \A k \in present : seats[k] # id
    /\ seats' = Append(seats, id)
    /\ present' = present \cup {Len(seats) + 1}
    /\ UNCHANGED <<phase, open, told>>

\* A player leaves, or the server takes it to have left.
Leave(k) ==
    /\ k \in present
    /\ present' = present \ {k}
    /\ UNCHANGED <<seats, phase, open, told>>

Start ==
    /\ phase = "lobby" /\ Len(seats) = Required
    /\ phase' = "playing"
    /\ UNCHANGED <<seats, present, open, told>>

Win ==
    /\ phase = "playing" /\ present # {}
    /\ phase' = "over"
    /\ UNCHANGED <<seats, present, open, told>>

Abandon ==
    /\ phase = "playing" /\ present = {}
    /\ phase' = "over"
    /\ open' = FALSE
    /\ UNCHANGED <<seats, present, told>>

Close ==
    /\ open /\ present = {}
    /\ open' = FALSE
    /\ UNCHANGED <<seats, present, phase, told>>

Interrupted ==
    /\ open' = FALSE /\ told' = TRUE
    /\ UNCHANGED <<seats, present, phase>>

SNext ==
    \/ \E id \in Ids : Join(id)
    \/ \E k \in present : Leave(k)
    \/ Start \/ Win \/ Abandon \/ Close \/ Interrupted

SSpec == SInit /\ [][SNext]_svars
===============================================================================
