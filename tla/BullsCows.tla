------------------------------ MODULE BullsCows ------------------------------
(***************************************************************************)
(* The whole game: the server, its clients (os_KP/src/client.c) and the    *)
(* named pipes between them.                                               *)
(*                                                                         *)
(* A named pipe is known by the process that made it: the server makes one *)
(* and each client makes one.  A path names at most one pipe, and a pipe   *)
(* outlives its name for those who have it open.  What was written and not *)
(* read is lost when the last end is closed.                               *)
(*                                                                         *)
(* The bytes of a line and its newline are written by two calls, so they   *)
(* are two items of the server's pipe.  A client's pipe has one writer,    *)
(* whose newline always follows its message: there an item is a message.   *)
(* A read() returns everything the pipe holds (the buffer of 255 bytes     *)
(* holds the few lines that are ever pending here).                        *)
(***************************************************************************)
EXTENDS GameServer, SequencesExt

CONSTANTS
    Procs,          \* the client processes that may be started
    IdOf,           \* the id each is started with
    None,           \* no process
    Words,          \* the classes of the words its user tries
    MaxGuesses,     \* bound: how many words each client's user tries
    Faults          \* which of the disturbances below happen

ASSUME ProcsAssumption == IdOf \in [Procs -> Ids] /\ None \notin Procs
ASSUME WordsAssumption == Words \subseteq {"right", "wrong", "invalid", "toolong"}
\* A user quits; a client gets SIGINT or SIGTERM; a client is killed; the server
\* gets SIGINT or SIGTERM; a call of the server fails for no reason of these.
ASSUME FaultsAssumption == Faults \subseteq {"quit", "signal", "kill", "interrupt", "calls"}
ASSUME BoundsAssumption == MaxGuesses \in [Procs -> Nat]

VARIABLES
    peer,          \* the process whose pipe the server is opening or has open
    \* the server's pipe
    srv_path,      \* its name exists
    srv_buf,       \* written and not read
    srv_used,      \* a writer has come since the server opened it
    \* the clients and their pipes
    path,          \* the process whose pipe the path of an id names
    cpc,           \* where a client is
    active,        \* its loop is told to go on
    line_out,      \* the line it is sending
    guesses,       \* how many words its user has tried
    cread,         \* it has its pipe open
    cbuf,          \* its pipe: written and not read
    cused          \* its pipe: a writer has come since it was opened

server == vars
srv_pipe == <<srv_path, srv_buf, srv_used>>
own_pipe == <<cread, cbuf, cused>>
clients == <<cpc, active, line_out, guesses>>
bvars == <<server, peer, srv_pipe, path, clients, own_pipe>>

NoLine == [type |-> "junk", id |-> BadId, arg |-> "none"]
NL == [type |-> "newline", id |-> BadId, arg |-> "none"]

\* A client whose process is not there: not started, ended by its own cleanup,
\* or killed without one.
Ended(p) == cpc[p] \in {"gone", "dead"}
Alive(p) == cpc[p] # "new" /\ ~Ended(p)

\* Who has which end of which pipe.  A call of open() that still waits for the
\* other end holds its own already.
ServerReading == pc \notin {"gap", "exited", "killed"}
Writing(p) == cpc[p] \in {"blocked", "write", "newline"}
Writers == {p \in Procs : Writing(p)}
ServerWritesTo(p) == peer = p

\* Where a client is that has told the server of itself, and is not sending.
Connected == {"connected", "loop", "interrupted", "fgets", "eof", "gap"}

BInit ==
    /\ Init
    /\ peer = None
    /\ srv_path = TRUE /\ srv_buf = <<>> /\ srv_used = FALSE
    /\ path = [id \in Ids |-> None]
    /\ cpc = [p \in Procs |-> "new"]
    /\ active = [p \in Procs |-> TRUE]
    /\ line_out = [p \in Procs |-> NoLine]
    /\ guesses = [p \in Procs |-> 0]
    /\ cread = [p \in Procs |-> FALSE]
    /\ cbuf = [p \in Procs |-> <<>>]
    /\ cused = [p \in Procs |-> FALSE]

-------------------------------------------------------------------------------
(***************************************************************************)
(* The server and the pipes.                                               *)
(***************************************************************************)

\* Steps of the server that touch no pipe.
ServerAlone ==
    /\ \/ BroadcastSkip \/ BroadcastDone
       \/ DropLine
       \/ Welcomed \/ Won \/ Left
       \/ HandleInvalidGuess \/ HandleWrongGuess \/ HandleRightGuess
       \/ Wait \/ LinesDone
    /\ UNCHANGED <<peer, srv_pipe, path, clients, own_pipe>>

ServerStats ==
    /\ \/ pc = "broadcast" /\ out.to <= Len(players)
          /\ BroadcastNext(path[players[out.to].id] # None)
       \/ pc = "lines" /\ inbox # <<>> /\ line.id # BadId
          /\ HandleConnect(path[line.id] # None)
    /\ UNCHANGED <<peer, srv_pipe, path, clients, own_pipe>>

ServerDisconnects ==
    /\ HandleDisconnect
    /\ path' = [path EXCEPT ![line.id] = None]
    /\ UNCHANGED <<peer, srv_pipe, clients, own_pipe>>

\* open() finds the pipe that the path names now.  It returns if the client has
\* it open for reading, and waits for that otherwise.
ServerOpens ==
    /\ pc = "open" /\ peer = None
    /\ LET found == path[players[out.to].id]
       IN  IF found = None
             THEN SendOpen("ENOENT") /\ UNCHANGED <<peer, cused>>
             ELSE /\ IF cread[found] THEN SendOpen("ok") ELSE UNCHANGED server
                  /\ peer' = found
                  /\ cused' = [cused EXCEPT ![found] = cread[found]]
    /\ UNCHANGED <<srv_pipe, path, clients, cread, cbuf>>

ServerWrites ==
    /\ SendWrite(cread[peer])
    /\ IF cread[peer]
         THEN /\ cbuf' = [cbuf EXCEPT ![peer] = Append(@, out.msg)]
              /\ UNCHANGED peer
         ELSE /\ cbuf' = [cbuf EXCEPT ![peer] = <<>>]
              /\ peer' = None
    /\ UNCHANGED <<srv_pipe, path, clients, cread, cused>>

\* The newline, and close(), which drops what no reader has open.
\* (mutant: the pipe is not closed)
ServerKeepsOpen ==
    /\ SendNewline(cread[peer])
    /\ cbuf' = [cbuf EXCEPT ![peer] = IF cread[peer] THEN @ ELSE <<>>]
    /\ UNCHANGED <<peer, srv_pipe, path, clients, cread, cused>>

ServerFinishes ==
    /\ SendNewline(cread[peer])
    /\ cbuf' = [cbuf EXCEPT ![peer] = IF cread[peer] THEN @ ELSE <<>>]
    /\ peer' = None
    /\ UNCHANGED <<srv_pipe, path, clients, cread, cused>>

\* The pipes that the server leaves behind when it is killed keep their names.
KilledServer ==
    /\ \/ pc \in {"write", "newline"} /\ KilledBySigpipe(cread[peer])
       \/ /\ "interrupt" \in Faults
          /\ \E sig \in {"SIGINT", "SIGTERM"} : KilledBySignal(sig)
    /\ cbuf' = [p \in Procs |-> IF p = peer /\ ~cread[p] THEN <<>> ELSE cbuf[p]]
    /\ srv_buf' = IF Writers # {} THEN srv_buf ELSE <<>>
    /\ peer' = None
    /\ UNCHANGED <<srv_path, srv_used, path, clients, cread, cused>>

\* A call of open() that a signal finds blocked fails with EINTR.
ServerInterrupted ==
    /\ "interrupt" \in Faults
    /\ \E sig \in {"SIGINT", "SIGTERM"} : Interrupt(sig)
    /\ pc' # pc => peer # None
    /\ peer' = IF pc' # pc THEN None ELSE peer
    /\ UNCHANGED <<srv_pipe, path, clients, own_pipe>>

\* open() or write() of a player's pipe fails, or select() does and the server ends.
\* The pipe that a failed open() did not make again is a matter of ServerStart.
ServerCallFails ==
    /\ "calls" \in Faults
    /\ \/ /\ SendFails
          /\ pc = "open" => peer = None
          /\ cbuf' = [p \in Procs |-> IF p = peer /\ ~cread[p] THEN <<>> ELSE cbuf[p]]
          /\ UNCHANGED srv_buf
       \/ /\ SelectFails
          /\ srv_buf' = IF Writers # {} THEN srv_buf ELSE <<>>
          /\ UNCHANGED cbuf
    /\ peer' = None
    /\ UNCHANGED <<srv_path, srv_used, path, clients, cread, cused>>

\* Where the lines begin that game_loop finds in what it has read, and the n-th of
\* these places: each newline ends a line, the last line may have none.
Starts(items) == {i \in 1..Len(items) : items[i] # NL /\ (i = 1 \/ items[i - 1] = NL)}

NthOf(places, n) == CHOOSE i \in places : Cardinality({k \in places : k <= i}) = n

\* The lines themselves.  One that another was written into is garbled.
LineAt(items, i) ==
    IF i < Len(items) /\ items[i + 1] # NL THEN [items[i] EXCEPT !.arg = "garbled"] ELSE items[i]

LinesOf(items) ==
    [n \in 1..Cardinality(Starts(items)) |-> LineAt(items, NthOf(Starts(items), n))]

ServerReads ==
    /\ srv_buf # <<>>
    /\ Read(LinesOf(srv_buf))
    /\ srv_buf' = <<>>
    /\ UNCHANGED <<peer, srv_path, srv_used, path, clients, own_pipe>>

\* select() reports an empty pipe as readable once a writer has come and all have
\* gone, and read() finds its end.  After a select() that a signal has ended read()
\* is called anyway, and finds the end of a pipe that no writer has open.
AtEof == srv_used /\ Writers = {}

ServerAtEof ==
    /\ ReadEof
    /\ srv_buf = <<>>
    /\ AtEof \/ (~running /\ Writers = {})
    /\ UNCHANGED <<peer, srv_pipe, path, clients, own_pipe>>

ServerIdles ==
    /\ NothingRead
    /\ srv_buf = <<>> /\ ~AtEof
    /\ UNCHANGED <<peer, srv_pipe, path, clients, own_pipe>>

ServerCloses ==
    /\ CloseOnEof
    /\ srv_buf' = IF Writers # {} THEN srv_buf ELSE <<>>
    /\ UNCHANGED <<peer, srv_path, srv_used, path, clients, own_pipe>>

\* The clients that waited for the server's end go on.
\* (mutant: nobody is woken)
ServerReopensAlone ==
    /\ Reopen
    /\ srv_used' = (Writers # {})
    /\ UNCHANGED <<peer, srv_path, srv_buf, path, clients, own_pipe>>

ServerReopens ==
    /\ Reopen
    /\ srv_used' = (Writers # {})
    /\ cpc' = [p \in Procs |-> IF cpc[p] = "blocked" THEN "write" ELSE cpc[p]]
    /\ UNCHANGED <<peer, srv_path, srv_buf, path, active, line_out, guesses, own_pipe>>

\* (mutant: active players' ids are among them)
AllIds == {players[k].id : k \in 1..Len(players)}
InactiveIds == {players[k].id : k \in (1..Len(players)) \ ActiveSeats}

\* cleanup_client_pipes, run in every hundredth iteration of the loop: the pipes
\* of inactive players lose their names.
Unlinked(ids) == [id \in Ids |-> IF id \in ids THEN None ELSE path[id]]

ServerSweeps ==
    /\ pc = "loop"
    /\ \E id \in InactiveIds : path[id] # None
    /\ path' = Unlinked(InactiveIds)
    /\ UNCHANGED <<server, peer, srv_pipe, clients, own_pipe>>

\* main returns, the server's end of the pipe is closed ...
ServerExits ==
    /\ Exit
    /\ srv_buf' = IF Writers # {} THEN srv_buf ELSE <<>>
    /\ UNCHANGED <<peer, srv_path, srv_used, path, clients, own_pipe>>

\* ... and cleanup removes its name and those of inactive players' pipes.
ServerCleansUp ==
    /\ pc = "exited" /\ srv_path
    /\ srv_path' = FALSE
    /\ path' = Unlinked(InactiveIds)
    /\ UNCHANGED <<server, peer, srv_buf, srv_used, clients, own_pipe>>

ServerStep ==
    \/ ServerAlone \/ ServerStats \/ ServerDisconnects
    \/ ServerOpens \/ ServerWrites \/ ServerFinishes
    \/ ServerReads \/ ServerAtEof \/ ServerIdles \/ ServerCloses \/ ServerReopens
    \/ ServerExits \/ ServerCleansUp

-------------------------------------------------------------------------------
(***************************************************************************)
(* The clients.                                                            *)
(***************************************************************************)
Goto(p, where) == cpc' = [cpc EXCEPT ![p] = where]

\* Opening the server's pipe for a line, from connect_to_server, send_to_server
\* or, without blocking, cleanup.
Prepare(p, type, arg) ==
    /\ line_out' = [line_out EXCEPT ![p] = [type |-> type, id |-> IdOf[p], arg |-> arg]]
    /\ Goto(p, "open")

\* connect_to_server fails: the path loses its name and the client exits.
ConnectFails(p) ==
    /\ path' = [path EXCEPT ![IdOf[p]] = None]
    /\ Prepare(p, "DISCONNECT", "none")

\* connect_to_server: the old pipe of the id loses its name, whosever it is, and a
\* new one is made.
Start(p) ==
    /\ cpc[p] = "new"
    /\ path' = [path EXCEPT ![IdOf[p]] = p]
    /\ Prepare(p, "CONNECT", "name")
    /\ UNCHANGED <<server, peer, srv_pipe, active, guesses, own_pipe>>

\* What the server's pipe holds once p gives up its end.
LeftBy(p) == IF ServerReading \/ Writers \ {p} # {} THEN srv_buf ELSE <<>>

\* open() of the server's pipe, which waits while the server has it closed.
ClientOpens(p) ==
    /\ cpc[p] = "open" /\ line_out[p].type # "DISCONNECT"
    /\ srv_path
    /\ Goto(p, IF ServerReading THEN "write" ELSE "blocked")
    /\ srv_used' = TRUE
    /\ UNCHANGED <<server, peer, srv_path, srv_buf, path, active, line_out, guesses, own_pipe>>

\* Without a server connect_to_server fails and send_to_server ends the loop.
ClientFindsNoServer(p) ==
    /\ cpc[p] = "open" /\ line_out[p].type # "DISCONNECT"
    /\ ~srv_path
    /\ IF line_out[p].type = "CONNECT"
         THEN ConnectFails(p) /\ UNCHANGED active
         ELSE /\ active' = [active EXCEPT ![p] = FALSE]
              /\ Goto(p, "loop")
              /\ UNCHANGED <<path, line_out>>
    /\ UNCHANGED <<server, peer, srv_pipe, guesses, own_pipe>>

\* cleanup opens with O_NONBLOCK and goes without the line if that fails.
ClientOpensLast(p) ==
    /\ cpc[p] = "open" /\ line_out[p].type = "DISCONNECT"
    /\ IF srv_path /\ ServerReading
         THEN Goto(p, "write") /\ srv_used' = TRUE /\ UNCHANGED line_out
         ELSE /\ Goto(p, "closing")
              /\ line_out' = [line_out EXCEPT ![p] = NoLine]
              /\ UNCHANGED srv_used
    /\ UNCHANGED <<server, peer, srv_path, srv_buf, path, active, guesses, own_pipe>>

ClientWrites(p) ==
    /\ cpc[p] = "write" /\ ServerReading
    /\ srv_buf' = Append(srv_buf, line_out[p])
    /\ Goto(p, "newline")
    /\ UNCHANGED <<server, peer, srv_path, srv_used, path, active, line_out, guesses, own_pipe>>

\* The newline and close(); then on to opening its own pipe, back to the loop or
\* on with the cleanup.
ClientFinishes(p) ==
    /\ cpc[p] = "newline" /\ ServerReading
    /\ srv_buf' = Append(srv_buf, NL)
    /\ Goto(p, CASE line_out[p].type = "CONNECT" -> "connected"
                 [] line_out[p].type = "GUESS" -> "loop"
                 [] OTHER -> "closing")
    /\ line_out' = [line_out EXCEPT ![p] = NoLine]
    /\ UNCHANGED <<server, peer, srv_path, srv_used, path, active, guesses, own_pipe>>

\* The process ends where it stands and its ends of the pipes are closed.
Dies(p) ==
    /\ Goto(p, "dead")
    /\ srv_buf' = LeftBy(p)
    /\ cread' = [cread EXCEPT ![p] = FALSE]
    /\ cused' = [cused EXCEPT ![p] = FALSE]
    /\ cbuf' = [cbuf EXCEPT ![p] = IF ServerWritesTo(p) THEN @ ELSE <<>>]
    /\ line_out' = [line_out EXCEPT ![p] = NoLine]
    /\ UNCHANGED <<server, peer, srv_path, srv_used, path, active, guesses>>

\* A client has no handler for SIGPIPE: a write() that finds the server's end
\* closed kills it.
ClientSigpipe(p) ==
    /\ cpc[p] \in {"write", "newline"} /\ ~ServerReading
    /\ Dies(p)

ClientKilled(p) ==
    /\ "kill" \in Faults
    /\ Alive(p)
    /\ Dies(p)

\* An iteration of the loop ends after its own pipe has been looked at.  One in
\* which the client was told to stop may still call fgets(), if select() has
\* reported input or was ended by the signal.
IterationEnds(p) == Goto(p, "loop") \/ (~active[p] /\ Goto(p, "fgets"))

\* open() of its own pipe, which never blocks: after the connection, and 10 ms
\* after an end-of-file.  It lets a server go on that waits for a reader.
\* (mutant: the server is not let go on)
ClientOpensOwnAlone(p) ==
    /\ cpc[p] \in {"connected", "gap"}
    /\ path[IdOf[p]] = p
    /\ IF cpc[p] = "gap" THEN IterationEnds(p) ELSE Goto(p, "loop")
    /\ cread' = [cread EXCEPT ![p] = TRUE]
    /\ cused' = [cused EXCEPT ![p] = ServerWritesTo(p)]
    /\ UNCHANGED <<server, peer, srv_pipe, path, active, line_out, guesses, cbuf>>

ClientOpensOwn(p) ==
    /\ cpc[p] \in {"connected", "gap"}
    /\ path[IdOf[p]] = p
    /\ IF cpc[p] = "gap" THEN IterationEnds(p) ELSE Goto(p, "loop")
    /\ cread' = [cread EXCEPT ![p] = TRUE]
    /\ cused' = [cused EXCEPT ![p] = ServerWritesTo(p)]
    /\ IF pc = "open" /\ ServerWritesTo(p) THEN SendOpen("ok") ELSE UNCHANGED server
    /\ UNCHANGED <<peer, srv_pipe, path, active, line_out, guesses, cbuf>>

\* The name of its own pipe is gone: connect_to_server fails; client_loop goes on
\* without a pipe and does not try again, because FD_ISSET of -1 is not set from
\* then on.
ClientLostOwn(p) ==
    /\ cpc[p] \in {"connected", "gap"}
    /\ path[IdOf[p]] # p
    /\ IF cpc[p] = "connected" THEN ConnectFails(p)
                               ELSE IterationEnds(p) /\ UNCHANGED <<path, line_out>>
    /\ UNCHANGED <<server, peer, srv_pipe, active, guesses, own_pipe>>

\* The user tries a word.
Guesses(p) ==
    /\ guesses[p] < MaxGuesses[p]
    /\ \E word \in Words : Prepare(p, "GUESS", word)
    /\ guesses' = [guesses EXCEPT ![p] = @ + 1]

ClientGuesses(p) ==
    /\ cpc[p] = "fgets" \/ (cpc[p] = "loop" /\ active[p])
    /\ Guesses(p)
    /\ UNCHANGED <<server, peer, srv_pipe, path, active, own_pipe>>

\* The kinds of the messages that wait for p in its pipe.
Told(p) == {m.kind : m \in Range(cbuf[p])}

\* client_loop reads its pipe and handles the messages; WIN ends the loop, after
\* this iteration has looked at the user's input.
ClientReads(p) ==
    /\ cpc[p] = "loop" /\ active[p] /\ cread[p] /\ cbuf[p] # <<>>
    /\ cbuf' = [cbuf EXCEPT ![p] = <<>>]
    /\ active' = [active EXCEPT ![p] = "WIN" \notin Told(p)]
    /\ UNCHANGED <<cpc, line_out, guesses>> \/ Guesses(p)
    /\ UNCHANGED <<server, peer, srv_pipe, path, cread, cused>>

ClientAtEof(p) ==
    /\ cpc[p] = "loop" /\ active[p] /\ cread[p] /\ cbuf[p] = <<>> /\ cused[p]
    /\ ~ServerWritesTo(p)
    /\ Goto(p, "eof")
    /\ UNCHANGED <<server, peer, srv_pipe, path, active, line_out, guesses, own_pipe>>

\* After a select() that a signal has ended, the sets of descriptors are as the
\* call was given them: the client reads its pipe, which is at its end if nobody
\* has it open for writing, and then calls fgets().  A message of WIN tells it
\* nothing new.
ClientReadsAnyway(p) ==
    /\ cpc[p] = "interrupted"
    /\ Goto(p, IF cread[p] /\ cbuf[p] = <<>> /\ ~ServerWritesTo(p) THEN "eof" ELSE "fgets")
    /\ cbuf' = [cbuf EXCEPT ![p] = IF cread[p] THEN <<>> ELSE @]
    /\ UNCHANGED <<server, peer, srv_pipe, path, active, line_out, guesses, cread, cused>>

\* close() of its own pipe, at an end-of-file or in cleanup.
ClientCloses(p) ==
    /\ cpc[p] \in {"eof", "closing"}
    /\ Goto(p, IF cpc[p] = "eof" THEN "gap" ELSE "unlink")
    /\ cread' = [cread EXCEPT ![p] = FALSE]
    /\ cused' = [cused EXCEPT ![p] = FALSE]
    /\ cbuf' = [cbuf EXCEPT ![p] = IF ServerWritesTo(p) THEN @ ELSE <<>>]
    /\ UNCHANGED <<server, peer, srv_pipe, path, active, line_out, guesses>>

\* The last step of cleanup: the path loses its name, whosever pipe it names.
ClientUnlinks(p) ==
    /\ cpc[p] = "unlink"
    /\ path' = [path EXCEPT ![IdOf[p]] = None]
    /\ Goto(p, "gone")
    /\ UNCHANGED <<server, peer, srv_pipe, active, line_out, guesses, own_pipe>>

\* The loop has ended: main returns and the atexit handler runs.
ClientLeaves(p) ==
    /\ cpc[p] = "loop" /\ ~active[p]
    /\ Prepare(p, "DISCONNECT", "none")
    /\ UNCHANGED <<server, peer, srv_pipe, path, active, guesses, own_pipe>>

\* /quit or the end of the input.
ClientQuits(p) ==
    /\ "quit" \in Faults
    /\ cpc[p] = "fgets" \/ (cpc[p] = "loop" /\ active[p])
    /\ Goto(p, "loop")
    /\ active' = [active EXCEPT ![p] = FALSE]
    /\ UNCHANGED <<server, peer, srv_pipe, path, line_out, guesses, own_pipe>>

\* The handler of SIGINT and SIGTERM.  It ends a call of open() that is blocked,
\* one of select() and one of fgets().  A signal that comes again finds no handler
\* and kills the client: that is ClientKilled.
ClientSignalled(p) ==
    /\ "signal" \in Faults
    /\ active' = [active EXCEPT ![p] = FALSE]
    /\ \/ /\ cpc[p] \in {"open", "write", "newline"} \cup (Connected \ {"fgets"})
          /\ line_out[p].type # "DISCONNECT"
          /\ UNCHANGED <<cpc, line_out, srv_buf, path>>
       \/ /\ cpc[p] = "loop" /\ active[p]
          /\ Goto(p, "interrupted")
          /\ UNCHANGED <<line_out, srv_buf, path>>
       \/ /\ cpc[p] = "fgets"
          /\ Goto(p, "loop")
          /\ UNCHANGED <<line_out, srv_buf, path>>
       \/ /\ cpc[p] = "blocked"
          /\ IF line_out[p].type = "CONNECT" THEN ConnectFails(p)
                                            ELSE Goto(p, "loop") /\ UNCHANGED <<path, line_out>>
          /\ srv_buf' = LeftBy(p)
    /\ UNCHANGED <<server, peer, srv_path, srv_used, guesses, own_pipe>>

\* What a client does once it is started, if nobody disturbs it.
ClientStep(p) ==
    \/ ClientOpens(p) \/ ClientFindsNoServer(p) \/ ClientOpensLast(p)
    \/ ClientWrites(p) \/ ClientFinishes(p) \/ ClientSigpipe(p)
    \/ ClientOpensOwn(p) \/ ClientLostOwn(p) \/ ClientReads(p) \/ ClientAtEof(p)
    \/ ClientReadsAnyway(p)
    \/ ClientLeaves(p) \/ ClientCloses(p) \/ ClientUnlinks(p)

BNext ==
    \/ ServerStep \/ ServerSweeps \/ KilledServer \/ ServerInterrupted \/ ServerCallFails
    \/ \E p \in Procs :
          \/ Start(p) \/ ClientStep(p) \/ ClientGuesses(p)
          \/ ClientQuits(p) \/ ClientSignalled(p) \/ ClientKilled(p)

BSpec == BInit /\ [][BNext]_bvars

\* The processes are scheduled: one that can go on does.  Users, signals and the
\* starting of clients are free.
Fairness == WF_bvars(ServerStep) /\ \A p \in Procs : WF_bvars(ClientStep(p))

FairSpec == BSpec /\ Fairness

-------------------------------------------------------------------------------
Places == {"new", "open", "blocked", "write", "newline", "connected", "loop", "interrupted",
           "fgets", "eof", "gap", "closing", "unlink", "gone", "dead"}

\* The server holds a pipe only inside send_text_to_player, and it is a pipe of
\* the player it is sending to.
BTypeOK ==
    /\ TypeOK
    /\ peer # None => peer \in Procs /\ IdOf[peer] = players[out.to].id
    /\ peer # None => pc \in {"open", "write", "newline"}
    /\ pc \in {"write", "newline"} => peer # None
    /\ srv_path \in BOOLEAN /\ srv_used \in BOOLEAN
    /\ srv_buf \in Seq(Line \cup {NL})
    /\ \A id \in Ids : path[id] # None => path[id] \in Procs /\ IdOf[path[id]] = id
    /\ cpc \in [Procs -> Places]
    /\ active \in [Procs -> BOOLEAN]
    /\ line_out \in [Procs -> Line]
    /\ \A p \in Procs : guesses[p] \in 0..MaxGuesses[p]
    /\ cread \in [Procs -> BOOLEAN] /\ cused \in [Procs -> BOOLEAN]
    /\ cbuf \in [Procs -> Seq(Message)]

\* The seats a process may speak for.
SeatsOf(p) == {k \in 1..Len(players) : players[k].id = IdOf[p]}
Seated(p) == \E k \in SeatsOf(p) : players[k].active

\* The news a client gets is true: a client told that the game started, or told
\* a score, is in a full game, and once one is told of a win the game is over for
\* good, so that no guess sent after it can be judged (server.c 239-249, 255,
\* 281-289; client.c 178-198).
NewsIsTrue ==
    \A p \in Procs :
        /\ Told(p) \cap {"START", "RESULT", "ERROR", "WIN"} # {} => Len(players) = Required
        /\ "WIN" \in Told(p) => ~game_active

\* As long as every player has an id of its own, no running client loses the name
\* of its pipe while the server counts it among the active players: an unlink by
\* handle_client_disconnect or cleanup_client_pipes never hits it (server.c
\* 180-187, 331).
ActivePlayersKeepTheirPipe ==
    \A p \in Procs : Seated(p) /\ cpc[p] \in Connected => path[IdOf[p]] = p

\* The server and the clients never wait for each other: while the server is in
\* open() for the other end of a player's pipe, that end is not there, and no
\* client is in open() for the server's; clients that waited while the server
\* had its pipe closed have been let go on (server.c 129, 537-542; client.c 64, 89).
OpensNeverCross ==
    pc = "open" /\ peer # None =>
        /\ ~cread[peer]
        /\ \A p \in Procs : cpc[p] # "blocked"

\* The server waits for a player in open() only while the player's process is
\* there to end the wait, or for ever if it has ended (server.c 129).
WaitsOnlyForTheEnded ==
    \A p \in Procs :
        pc = "open" /\ peer = p ~> ~(pc = "open" /\ peer = p) \/ Ended(p)

\* A client that waits for the server to open its pipe again does not wait for
\* ever, unless the server is no more (client.c 64, 89; server.c 537-542).
ClientsGetThrough ==
    \A p \in Procs : cpc[p] = "blocked" ~> cpc[p] # "blocked" \/ pc \in {"exited", "killed"}

\* As long as no client's process ends, the server always comes back to select():
\* clients that open and close their pipes at any moment cannot hold it up
\* (server.c 129, 491-568; client.c 299-317).
ServesWhileAllLive ==
    []<>(pc \in {"select", "exited", "killed"}) \/ <>(\E p \in Procs : Ended(p))
===============================================================================
