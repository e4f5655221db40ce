----------------------------- MODULE GameServer ------------------------------
(***************************************************************************)
(* The server of the game (os_KP/src/server.c): its table of players, its  *)
(* loop over the lines it reads, and its handlers, one step per system     *)
(* call that another process can interleave with or make fail.             *)
(*                                                                         *)
(* The pipes are not in this module.  An operator that depends on one      *)
(* takes the outcome of the call as a parameter; Next offers every         *)
(* outcome, and a module that has the pipes conjoins the one they give.    *)
(***************************************************************************)
EXTENDS Messages, Integers, Sequences, FiniteSets

CONSTANTS
    Required,       \* required_players
    MAX_PLAYERS

ASSUME RequiredAssumption ==
    MAX_PLAYERS \in Nat /\ Required \in 1..MAX_PLAYERS

VARIABLES
    players,       \* game.players up to player_count: ids and active flags
    game_active,   \* game.game_active
    running,
    armed,         \* the signals whose handler is still installed
    inbox,         \* lines of the last read() not yet parsed
    out,           \* the message being sent, to whom, and what comes after
    pc

vars == <<players, game_active, running, armed, inbox, out, pc>>

\* What the server knows of the game, without its position in the code.
table == <<players, game_active, running>>

player_count == Len(players)
ActiveSeats == {k \in 1..player_count : players[k].active}

Handled == {"SIGINT", "SIGTERM", "SIGPIPE"}

NoSend == [msg |-> [kind |-> "none", id |-> BadId], to |-> 0, all |-> FALSE, after |-> "lines"]

Afters == {"welcomed", "won", "left", "lines"}

Send == {NoSend} \cup [msg : Message, to : Nat \ {0}, all : BOOLEAN, after : Afters]

Init ==
    /\ players = <<>>
    /\ game_active = FALSE
    /\ running = TRUE
    /\ armed = Handled
    /\ inbox = <<>>
    /\ out = NoSend
    /\ pc = "loop"

-------------------------------------------------------------------------------
(***************************************************************************)
(* Finding players and sending to them.                                    *)
(***************************************************************************)

\* find_player_index: the first active seat of the id, 0 when there is none.
find_player_index(id) ==
    IF \E k \in ActiveSeats : players[k].id = id
      THEN CHOOSE k \in ActiveSeats :
               /\ players[k].id = id
               /\ \A m \in ActiveSeats : players[m].id = id => k <= m
      ELSE 0

Deactivated(k) == [players EXCEPT ![k].active = FALSE]

\* A handler calls send_text_to_player for one seat, or broadcast_message.
SendTo(k, kind, id, after) ==
    /\ out' = [msg |-> [kind |-> kind, id |-> id], to |-> k, all |-> FALSE, after |-> after]
    /\ pc' = "open"

Broadcast(kind, id, after) ==
    /\ out' = [msg |-> [kind |-> kind, id |-> id], to |-> 1, all |-> TRUE, after |-> after]
    /\ pc' = "broadcast"

\* send_text_to_player returns: to the loop of broadcast_message, or to the
\* handler.
SendReturns ==
    /\ out' = IF out.all THEN [out EXCEPT !.to = @ + 1] ELSE out
    /\ pc' = IF out.all THEN "broadcast" ELSE out.after

\* One iteration of broadcast_message.  An active player whose pipe stat()
\* does not find is taken off.
\* (mutant: inactive players are sent to as well)
BroadcastToAll(found) ==
    /\ pc = "broadcast" /\ out.to \in 1..player_count
    /\ IF found
         THEN /\ pc' = "open"
              /\ UNCHANGED <<players, out>>
         ELSE /\ players' = Deactivated(out.to)
              /\ out' = [out EXCEPT !.to = @ + 1]
              /\ UNCHANGED pc
    /\ UNCHANGED <<game_active, running, armed, inbox>>

BroadcastNext(found) ==
    /\ pc = "broadcast" /\ out.to \in ActiveSeats
    /\ IF found
         THEN /\ pc' = "open"
              /\ UNCHANGED <<players, out>>
         ELSE /\ players' = Deactivated(out.to)
              /\ out' = [out EXCEPT !.to = @ + 1]
              /\ UNCHANGED pc
    /\ UNCHANGED <<game_active, running, armed, inbox>>

BroadcastSkip ==
    /\ pc = "broadcast" /\ out.to \in (1..player_count) \ ActiveSeats
    /\ out' = [out EXCEPT !.to = @ + 1]
    /\ UNCHANGED <<players, game_active, running, armed, inbox, pc>>

BroadcastDone ==
    /\ pc = "broadcast" /\ out.to > player_count
    /\ pc' = out.after
    /\ UNCHANGED <<players, game_active, running, armed, inbox, out>>

\* open() of the player's pipe for writing.  It blocks until the pipe has a
\* reader; this step is its return.  ENOENT takes the player off.  The tests of
\* the seat before it never fail: see SendsToASeat.
SendOpen(result) ==
    /\ pc = "open"
    /\ \/ /\ result = "ok"
          /\ pc' = "write"
          /\ UNCHANGED <<players, out>>
       \/ /\ result = "ENOENT"
          /\ players' = Deactivated(out.to)
          /\ SendReturns
    /\ UNCHANGED <<game_active, running, armed, inbox>>

\* A signal is delivered, by the disposition that signal() gives in a C11
\* build: the handler runs once and is then removed.
Raise(sig) == armed' = armed \ {sig}

\* write() of the message.  Without a reader it raises SIGPIPE: the first time
\* the handler runs, write() fails with EPIPE and the player is taken off.
SendWrite(reader) ==
    /\ pc = "write"
    /\ \/ /\ reader
          /\ pc' = "newline"
          /\ UNCHANGED <<players, out, armed>>
       \/ /\ ~reader /\ "SIGPIPE" \in armed
          /\ Raise("SIGPIPE")
          /\ players' = Deactivated(out.to)
          /\ SendReturns
    /\ UNCHANGED <<game_active, running, inbox>>

\* write() of the newline, whose result is not looked at, and close().
SendNewline(reader) ==
    /\ pc = "newline"
    /\ reader \/ "SIGPIPE" \in armed
    /\ IF reader THEN UNCHANGED armed ELSE Raise("SIGPIPE")
    /\ SendReturns
    /\ UNCHANGED <<players, game_active, running, inbox>>

\* open() or write() fails in another way, which is only logged: the player stays.
SendFails ==
    /\ pc \in {"open", "write"}
    /\ SendReturns
    /\ UNCHANGED <<table, armed, inbox>>

\* A second SIGPIPE finds the default disposition and kills the server.
KilledBySigpipe(reader) ==
    /\ pc \in {"write", "newline"}
    /\ ~reader /\ "SIGPIPE" \notin armed
    /\ pc' = "killed"
    /\ UNCHANGED <<table, armed, inbox, out>>

-------------------------------------------------------------------------------
(***************************************************************************)
(* The handlers.  Each starts from the next line of the last read().       *)
(***************************************************************************)

line == Head(inbox)

\* parse_message hands the line to a handler.
Parsed(type) ==
    /\ pc = "lines" /\ inbox # <<>>
    /\ line.type = type
    /\ line.id # BadId /\ line.arg # "toolong"

\* The tests before the handlers' first effect, stat() aside.
\* (mutants of the first: one test is missing)
MayConnectAgain == player_count < Required
MayConnectPastLimit == find_player_index(line.id) = 0
MayConnect == find_player_index(line.id) = 0 /\ player_count < Required
MayGuess == game_active /\ find_player_index(line.id) # 0
MayDisconnect == find_player_index(line.id) # 0

\* A line that parse_message or the handler turns away.  The garbled name or
\* word may be too long.
DropLine ==
    /\ pc = "lines" /\ inbox # <<>>
    /\ \/ /\ line.type \in {"CONNECT", "GUESS"}
          /\ line.arg = "garbled"
       \/ /\ ~(Parsed("CONNECT") /\ MayConnect)
          /\ ~(Parsed("GUESS") /\ MayGuess)
          /\ ~(Parsed("DISCONNECT") /\ MayDisconnect)
    /\ inbox' = Tail(inbox)
    /\ UNCHANGED <<table, armed, out, pc>>

\* handle_client_connect, up to the welcome.  A client without a pipe is
\* turned away.
HandleConnect(found) ==
    /\ Parsed("CONNECT") /\ MayConnect
    /\ inbox' = Tail(inbox)
    /\ IF found
         THEN /\ players' = Append(players, [id |-> line.id, active |-> TRUE])
              /\ SendTo(player_count + 1, "CONNECT", line.id, "welcomed")
         ELSE UNCHANGED <<players, out, pc>>
    /\ UNCHANGED <<game_active, running, armed>>

\* The rest of handle_client_connect: the last seat starts the game.
\* (mutant: every player starts the game)
WelcomedStarts ==
    /\ pc = "welcomed"
    /\ game_active' = TRUE
    /\ Broadcast("START", players[player_count].id, "lines")
    /\ UNCHANGED <<players, running, armed, inbox>>

Welcomed ==
    /\ pc = "welcomed"
    /\ IF player_count >= Required
         THEN /\ game_active' = TRUE
              /\ Broadcast("START", players[player_count].id, "lines")
         ELSE /\ pc' = "lines" /\ out' = NoSend
              /\ UNCHANGED game_active
    /\ UNCHANGED <<players, running, armed, inbox>>

\* handle_client_guess with a word that validate_guess refuses.
HandleInvalidGuess ==
    /\ Parsed("GUESS") /\ MayGuess
    /\ line.arg \in {"invalid", "garbled"}
    /\ inbox' = Tail(inbox)
    /\ SendTo(find_player_index(line.id), "ERROR", line.id, "lines")
    /\ UNCHANGED <<table, armed>>

HandleWrongGuess ==
    /\ Parsed("GUESS") /\ MayGuess
    /\ line.arg \in {"wrong", "garbled"}
    /\ inbox' = Tail(inbox)
    /\ Broadcast("RESULT", line.id, "lines")
    /\ UNCHANGED <<table, armed>>

HandleRightGuess ==
    /\ Parsed("GUESS") /\ MayGuess
    /\ line.arg = "right"
    /\ game_active' = FALSE
    /\ inbox' = Tail(inbox)
    /\ Broadcast("WIN", line.id, "won")
    /\ UNCHANGED <<players, running, armed>>

\* The end of handle_client_guess after the delay of one second.
Won ==
    /\ pc = "won"
    /\ running' = (running /\ ActiveSeats # {})
    /\ pc' = "lines" /\ out' = NoSend
    /\ UNCHANGED <<players, game_active, armed, inbox>>

\* handle_client_disconnect: the player is taken off, its pipe is unlinked (an
\* effect for the module that has the pipes), and the others are told while
\* the game is on.
HandleDisconnect ==
    /\ Parsed("DISCONNECT") /\ MayDisconnect
    /\ players' = Deactivated(find_player_index(line.id))
    /\ inbox' = Tail(inbox)
    /\ IF game_active THEN Broadcast("DISCONNECT", line.id, "left")
                      ELSE pc' = "left" /\ UNCHANGED out
    /\ UNCHANGED <<game_active, running, armed>>

\* The rest of handle_client_disconnect: with nobody left, a game that is on
\* ends and the loop is told to stop.  The broadcast of the end of the game
\* goes through a table without active players and sends nothing.
\* (mutant: the game ends with the first player that leaves)
LeftEndsAll ==
    /\ pc = "left"
    /\ game_active' = FALSE /\ running' = FALSE
    /\ pc' = "lines" /\ out' = NoSend
    /\ UNCHANGED <<players, armed, inbox>>

Left ==
    /\ pc = "left"
    /\ IF ActiveSeats = {}
         THEN game_active' = FALSE /\ running' = FALSE
         ELSE UNCHANGED <<game_active, running>>
    /\ pc' = "lines" /\ out' = NoSend
    /\ UNCHANGED <<players, armed, inbox>>

-------------------------------------------------------------------------------
(***************************************************************************)
(* game_loop and main.                                                     *)
(***************************************************************************)

\* The loop is told to go on and enters select().
Wait ==
    /\ pc = "loop" /\ running
    /\ pc' = "select"
    /\ UNCHANGED <<table, armed, inbox, out>>

\* select() reports the pipe and read() returns data.  After a signal that
\* interrupts select() the iteration goes on to the read() as well.
Read(batch) ==
    /\ pc = "select"
    /\ batch \in Seq(Line)
    /\ inbox' = batch
    /\ pc' = "lines"
    /\ UNCHANGED <<table, armed, out>>

\* The timeout of one second passes, or read() finds nothing.
NothingRead ==
    /\ pc = "select"
    /\ pc' = "loop"
    /\ UNCHANGED <<table, armed, inbox, out>>

LinesDone ==
    /\ pc = "lines" /\ inbox = <<>>
    /\ pc' = "loop" /\ out' = NoSend
    /\ UNCHANGED <<table, armed, inbox>>

\* read() returns end-of-file ...
ReadEof ==
    /\ pc = "select"
    /\ pc' = "eof"
    /\ UNCHANGED <<table, armed, inbox, out>>

\* ... the server closes its pipe ...
CloseOnEof ==
    /\ pc = "eof"
    /\ pc' = "gap"
    /\ UNCHANGED <<table, armed, inbox, out>>

\* ... and opens it again 10 ms later.
Reopen ==
    /\ pc = "gap"
    /\ pc' = "loop"
    /\ UNCHANGED <<table, armed, inbox, out>>

\* select() fails, or the pipe can neither be opened nor made again: the loop is
\* left, and the rest is as in Exit.
SelectFails ==
    /\ pc = "select"
    /\ pc' = "exited"
    /\ UNCHANGED <<table, armed, inbox, out>>

ReopenFails ==
    /\ pc = "gap"
    /\ pc' = "exited"
    /\ UNCHANGED <<table, armed, inbox, out>>

\* main returns and the atexit handler runs.
Exit ==
    /\ pc = "loop" /\ ~running
    /\ pc' = "exited"
    /\ UNCHANGED <<table, armed, inbox, out>>

\* SIGINT or SIGTERM: the first of each runs signal_handler.  A server blocked
\* in open() leaves it with EINTR; one that has not called it yet does not.
Interrupt(sig) ==
    /\ pc \notin {"exited", "killed"}
    /\ sig \in armed
    /\ Raise(sig)
    /\ running' = FALSE
    /\ \/ UNCHANGED <<out, pc>>
       \/ pc = "open" /\ SendReturns
    /\ UNCHANGED <<players, game_active, inbox>>

\* Another SIGINT or SIGTERM finds the default disposition.
KilledBySignal(sig) ==
    /\ pc \notin {"exited", "killed"}
    /\ sig \notin armed
    /\ pc' = "killed"
    /\ UNCHANGED <<table, armed, inbox, out>>

\* One step; "batches" are the sequences of lines that a read() may return.
Step(batches) ==
    \/ \E found \in BOOLEAN : BroadcastNext(found) \/ HandleConnect(found)
    \/ BroadcastSkip \/ BroadcastDone
    \/ \E result \in {"ok", "ENOENT"} : SendOpen(result)
    \/ \E reader \in BOOLEAN :
          SendWrite(reader) \/ SendNewline(reader) \/ KilledBySigpipe(reader)
    \/ SendFails \/ SelectFails \/ ReopenFails
    \/ DropLine
    \/ Welcomed \/ Won \/ Left
    \/ HandleInvalidGuess \/ HandleWrongGuess \/ HandleRightGuess \/ HandleDisconnect
    \/ \E batch \in batches : Read(batch)
    \/ Wait \/ NothingRead \/ LinesDone \/ ReadEof \/ CloseOnEof \/ Reopen \/ Exit
    \/ \E sig \in {"SIGINT", "SIGTERM"} : Interrupt(sig) \/ KilledBySignal(sig)

Next == Step(Seq(Line))

Spec == Init /\ [][Next]_vars

-------------------------------------------------------------------------------
Positions == {"loop", "select", "eof", "gap", "lines", "broadcast", "open", "write", "newline",
              "welcomed", "won", "left", "exited", "killed"}

TypeOK ==
    /\ players \in Seq([id : Ids, active : BOOLEAN])
    /\ player_count <= Required
    /\ game_active \in BOOLEAN
    /\ running \in BOOLEAN
    /\ armed \subseteq Handled
    /\ inbox \in Seq(Line)
    /\ out \in Send
    /\ pc \in Positions

\* A player holds one seat at most, however often it connects, is taken off
\* and connects again (server.c 79-86, 192-223).  Otherwise it would be sent
\* everything twice, and a disconnect would leave it seated.
OneSeatPerPlayer ==
    \A k, m \in ActiveSeats : players[k].id = players[m].id => k = m

\* A message goes to a seat of the table that was active when the send began,
\* and only send_text_to_player itself takes it off meanwhile (server.c 118-127):
\* the index kept across the blocking calls never goes stale.
SendsToASeat ==
    pc \in {"open", "write", "newline"} => out.to \in ActiveSeats

\* The table seen as the game of Session.  While the last player is being
\* welcomed the game has not started.
WelcomePending == out.after = "welcomed"

Game == INSTANCE Session WITH
    seats   <- [k \in 1..player_count |-> players[k].id],
    present <- ActiveSeats,
    phase   <- IF game_active THEN "playing"
               ELSE IF player_count < Required \/ WelcomePending THEN "lobby" ELSE "over",
    open    <- running,
    told    <- ~({"SIGINT", "SIGTERM"} \subseteq armed)

\* The server plays one game by the rules of Session: in particular the game
\* never starts twice, and nobody joins once it has started.
GameSpec == Game!SSpec
===============================================================================
