------------------------------- MODULE Messages -------------------------------
(***************************************************************************)
(* The protocol of the game: what the server and a client can tell apart   *)
(* in the text they send each other (shared.h, parse_message in server.c,  *)
(* handle_server_message in client.c).                                     *)
(***************************************************************************)
EXTENDS Naturals

CONSTANT Ids      \* the ids that players use

ASSUME IdsAssumption == Ids \subseteq (Nat \ {0})

\* An id that atoi() gives for a field that is no positive number.
BadId == 0

\* A line as parse_message cuts it up: its type, the player's id and the class
\* of its argument.  A word is the secret ("right"), another valid word
\* ("wrong"), one that validate_guess refuses ("invalid") or one that is too
\* long for parse_message ("toolong").  A "garbled" argument has the text of
\* another line run into it, because two writers' lines met in the pipe: it is
\* of any of these classes but the secret.
Line == [type : {"CONNECT"}, id : Ids \cup {BadId}, arg : {"name", "toolong", "garbled"}]
          \cup [type : {"GUESS"}, id : Ids \cup {BadId},
                arg : {"right", "wrong", "invalid", "toolong", "garbled"}]
          \cup [type : {"DISCONNECT"}, id : Ids \cup {BadId}, arg : {"none", "garbled"}]
          \cup [type : {"junk"}, id : {BadId}, arg : {"none"}]

\* The server's messages.  GAME_STATE is sent with two texts, START and OVER,
\* and RESULT with the score or with an ERROR.
Kinds == {"CONNECT", "START", "RESULT", "ERROR", "WIN", "DISCONNECT", "OVER"}

Message == [kind : Kinds, id : Ids]
===============================================================================
