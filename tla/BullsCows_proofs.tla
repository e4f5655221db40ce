-------------------------- MODULE BullsCows_proofs ---------------------------
(***************************************************************************)
(* The whole game for any number of clients, any words and any             *)
(* disturbances.  What its server does are steps of GameServer, so what is *)
(* proved of the server alone holds of the server among its clients; and   *)
(* the news that is under way in the pipes stays true until it is read.    *)
(***************************************************************************)
EXTENDS BullsCows, GameServer_proofs, FiniteSetTheorems

\* Whether a write finds a reader is true or false.
LEMMA ReaderOrNone ==
    ASSUME NEW r
    PROVE  /\ SendWrite(r) => SendWrite(TRUE) \/ SendWrite(FALSE)
           /\ SendNewline(r) => SendNewline(TRUE) \/ SendNewline(FALSE)
           /\ KilledBySigpipe(r) => KilledBySigpipe(TRUE) \/ KilledBySigpipe(FALSE)
<1>1. CASE r  BY <1>1 DEF SendWrite, SendNewline, KilledBySigpipe
<1>2. CASE ~r  BY <1>2 DEF SendWrite, SendNewline, KilledBySigpipe
<1> QED  BY <1>1, <1>2

\* A step of the whole game is a step of the server, or leaves the server alone.
LEMMA StepOfServer == [BNext]_bvars => [Next]_vars
<1> SUFFICES ASSUME [BNext]_bvars PROVE Next \/ UNCHANGED vars  OBVIOUS
<1>1. CASE ServerAlone  BY <1>1 DEF ServerAlone, Next, Step
<1>2. CASE ServerStats
  <2>1. \A k : (path[k] # None) \in BOOLEAN  OBVIOUS
  <2> QED  BY <1>2, <2>1 DEF ServerStats, Next, Step
<1>3. CASE ServerDisconnects  BY <1>3 DEF ServerDisconnects, Next, Step
<1>4. CASE ServerOpens
  <2>1. SendOpen("ENOENT") \/ SendOpen("ok") \/ UNCHANGED server  BY <1>4 DEF ServerOpens
  <2> QED  BY <2>1 DEF server, Next, Step
<1>5. CASE ServerWrites \/ ServerFinishes
  <2>1. SendWrite(cread[peer]) \/ SendNewline(cread[peer])
    BY <1>5 DEF ServerWrites, ServerFinishes
  <2>2. \E r \in BOOLEAN : SendWrite(r) \/ SendNewline(r)  BY <2>1, ReaderOrNone
  <2> QED  BY <2>2 DEF Next, Step
<1>6. CASE ServerReads
  <2>1. \E batch \in Seq(Line) : Read(batch)
    <3>1. Read(LinesOf(srv_buf))  BY <1>6 DEF ServerReads
    <3>2. LinesOf(srv_buf) \in Seq(Line)  BY <3>1 DEF Read
    <3> QED  BY <3>1, <3>2
  <2> QED  BY <2>1 DEF Next, Step
<1>7. CASE ServerAtEof \/ ServerIdles \/ ServerCloses \/ ServerReopens \/ ServerExits
  BY <1>7 DEF ServerAtEof, ServerIdles, ServerCloses, ServerReopens, ServerExits, Next, Step
<1>8. CASE ServerCleansUp \/ ServerSweeps
  BY <1>8 DEF ServerCleansUp, ServerSweeps, server
<1>9. CASE KilledServer
  <2>1. CASE KilledBySigpipe(cread[peer])
    <3>1. \E r \in BOOLEAN : KilledBySigpipe(r)  BY <2>1, ReaderOrNone
    <3> QED  BY <3>1 DEF Next, Step
  <2>2. CASE \E sig \in {"SIGINT", "SIGTERM"} : KilledBySignal(sig)
    BY <2>2 DEF Next, Step
  <2> QED  BY <1>9, <2>1, <2>2 DEF KilledServer
<1>10. CASE ServerInterrupted \/ ServerCallFails
  BY <1>10 DEF ServerInterrupted, ServerCallFails, Next, Step
<1>11. ASSUME NEW p \in Procs, ClientOpensOwn(p) PROVE Next \/ UNCHANGED vars
  <2>1. SendOpen("ok") \/ UNCHANGED server  BY <1>11 DEF ClientOpensOwn
  <2> QED  BY <2>1 DEF server, Next, Step
<1>12. ASSUME NEW p \in Procs,
              \/ Start(p) \/ ClientOpens(p) \/ ClientFindsNoServer(p) \/ ClientOpensLast(p)
              \/ ClientWrites(p) \/ ClientFinishes(p) \/ ClientSigpipe(p) \/ ClientKilled(p)
              \/ ClientLostOwn(p) \/ ClientReads(p) \/ ClientAtEof(p) \/ ClientLeaves(p)
              \/ ClientCloses(p) \/ ClientUnlinks(p) \/ ClientGuesses(p) \/ ClientQuits(p)
              \/ ClientSignalled(p) \/ ClientReadsAnyway(p)
       PROVE  UNCHANGED server
  BY <1>12 DEF Start, ClientOpens, ClientFindsNoServer, ClientOpensLast, ClientWrites, ClientFinishes,
     ClientSigpipe, ClientKilled, Dies, ClientLostOwn, ClientReads, ClientAtEof, ClientLeaves,
     ClientCloses, ClientUnlinks, ClientGuesses, ClientQuits, ClientSignalled,
     ClientReadsAnyway
<1>13. CASE UNCHANGED bvars  BY <1>13 DEF bvars, server
<1> QED
  BY <1>1, <1>2, <1>3, <1>4, <1>5, <1>6, <1>7, <1>8, <1>9, <1>10, <1>11, <1>12, <1>13
     DEF BNext, ServerStep, ClientStep, server

\* The server among its clients behaves as GameServer says, whatever they do.
THEOREM ServerAmongClients == BSpec => Spec
<1>1. BInit => Init  BY DEF BInit
<1> QED  BY <1>1, StepOfServer, PTL DEF BSpec, Spec

\* No player of the whole game holds two active seats, however its clients come,
\* are taken off, are killed and come again (server.c 79-86, 192; client.c 50-71).
THEOREM OneSeatAmongClients == BSpec => []OneSeatPerPlayer
BY ServerAmongClients, OneSeat, PTL

\* What the server sends goes to an active seat, although clients open, close and
\* unlink their pipes in the middle of it (server.c 117-178).
THEOREM SendsSeatedAmongClients == BSpec => []SendsToASeat
BY ServerAmongClients, SendsSeated, PTL

\* The server and its clients together play one game by the rules of Session.
THEOREM PlaysAmongClients == BSpec => GameSpec
BY ServerAmongClients, PlaysBySession, PTL

-------------------------------------------------------------------------------
(***************************************************************************)
(* The news in the pipes.                                                  *)
(***************************************************************************)

\* What is told of the game is true while it is on its way: it is told once the
\* game has left the lobby, and a win once it is over.
True(m) ==
    /\ m.kind \in {"START", "RESULT", "ERROR", "WIN"} => Phase # "lobby"
    /\ m.kind = "WIN" => Phase = "over"

\* It is so of the message that the server is sending and of all in the pipes.
TrueInHand == True(out.msg)
TrueInPipes == \A p \in Procs : \A k \in 1..Len(cbuf[p]) : True(cbuf[p][k])

PipesTyped == cbuf \in [Procs -> Seq(Message)]

NInv == IInv /\ PipesTyped /\ TrueInHand /\ TrueInPipes

LEMMA InitNInv == BInit => NInv
<1> SUFFICES ASSUME BInit PROVE NInv  OBVIOUS
<1>1. IInv  BY InitIInv DEF BInit
<1>2. out.msg.kind = "none"  BY DEF BInit, Init, NoSend
<1>3. TrueInHand  BY <1>2 DEF TrueInHand, True
<1>4. cbuf = [p \in Procs |-> <<>>]  BY DEF BInit
<1>5. PipesTyped /\ TrueInPipes  BY <1>4 DEF PipesTyped, TrueInPipes
<1> QED  BY <1>1, <1>3, <1>5 DEF NInv

\* A game of Session never goes back to the lobby, and is over once.
LEMMA GameGoesOn ==
    ASSUME IInv, IInv', [Next]_vars
    PROVE  /\ Phase # "lobby" => Phase' # "lobby"
           /\ Phase = "over" => Phase' = "over"
<1>1. [Game!SNext]_(Game!svars)  BY NextGame
<1>2. CASE Game!SNext
  BY <1>2 DEF Game!SNext, Game!Join, Game!Leave, Game!Start, Game!Win, Game!Abandon, Game!Close,
     Game!Interrupted, Phase
<1>3. CASE UNCHANGED Game!svars  BY <1>3 DEF Game!svars, Phase
<1> QED  BY <1>1, <1>2, <1>3

\* So news stays true through every step of the server.
LEMMA NewsStaysTrue ==
    ASSUME IInv, IInv', [Next]_vars, NEW m, True(m)
    PROVE  True(m)'
BY GameGoesOn DEF True

\* What the server takes in hand is true.
LEMMA NewInHand ==
    ASSUME IInv, IInv', [Next]_vars, TrueInHand
    PROVE  TrueInHand'
<1> USE DEF TrueInHand
<1>1. PICK m : m = out.msg  OBVIOUS
<1>2. ASSUME out'.msg = out.msg PROVE TrueInHand'
  <2>1. True(m)'  BY <1>1, NewsStaysTrue
  <2> QED  BY <1>1, <1>2, <2>1 DEF True
<1>3. ASSUME out'.msg.kind \in {"none", "CONNECT", "DISCONNECT"} PROVE TrueInHand'
  BY <1>3 DEF True
<1>4. ASSUME game_active' = TRUE, out'.msg.kind \in {"START", "RESULT", "ERROR"} PROVE TrueInHand'
  BY <1>4 DEF True, Phase
<1>5. ASSUME SendReturns PROVE out'.msg = out.msg
  <2>1. out \in Send  BY DEF IInv, TypeOK
  <2> QED  BY <1>5, <2>1 DEF SendReturns, Send, NoSend
<1>6. \A o \in Send : [o EXCEPT !.to = @ + 1].msg = o.msg
  BY DEF Send, NoSend
<1>7. out \in Send  BY DEF IInv, TypeOK
<1>8. ASSUME NEW found \in BOOLEAN, BroadcastNext(found) PROVE TrueInHand'
  BY <1>2, <1>6, <1>7, <1>8 DEF BroadcastNext
<1>9. ASSUME BroadcastSkip \/ BroadcastDone PROVE TrueInHand'
  BY <1>2, <1>6, <1>7, <1>9 DEF BroadcastSkip, BroadcastDone
<1>10. ASSUME NEW result \in {"ok", "ENOENT"}, SendOpen(result) PROVE TrueInHand'
  BY <1>2, <1>5, <1>10 DEF SendOpen
<1>11. ASSUME SendFails \/ \E reader \in BOOLEAN : SendWrite(reader) \/ SendNewline(reader)
       PROVE  TrueInHand'
  BY <1>2, <1>5, <1>11 DEF SendWrite, SendNewline, SendFails
<1>12. ASSUME NEW sig \in {"SIGINT", "SIGTERM"}, Interrupt(sig) PROVE TrueInHand'
  BY <1>2, <1>5, <1>12 DEF Interrupt
<1>13. ASSUME \/ \E reader \in BOOLEAN : KilledBySigpipe(reader)
              \/ \E sig \in {"SIGINT", "SIGTERM"} : KilledBySignal(sig)
              \/ \E batch \in Seq(Line) : Read(batch)
              \/ DropLine \/ Wait \/ NothingRead \/ ReadEof \/ CloseOnEof \/ Reopen \/ Exit
              \/ SelectFails \/ ReopenFails \/ UNCHANGED vars
       PROVE  TrueInHand'
  <2>1. out' = out
    BY <1>13 DEF KilledBySigpipe, KilledBySignal, Read, DropLine, Wait, NothingRead, ReadEof,
       CloseOnEof, Reopen, Exit, SelectFails, ReopenFails, vars
  <2> QED  BY <1>2, <2>1
<1>14. ASSUME NEW found \in BOOLEAN, HandleConnect(found) PROVE TrueInHand'
  <2>1. out' = out \/ out'.msg.kind = "CONNECT"  BY <1>14 DEF HandleConnect, SendTo
  <2> QED  BY <1>2, <1>3, <2>1
<1>15. ASSUME Welcomed PROVE TrueInHand'
  <2>1. \/ game_active' = TRUE /\ out'.msg.kind = "START"
        \/ out'.msg.kind = "none"
    BY <1>15 DEF Welcomed, Broadcast, NoSend
  <2> QED  BY <1>3, <1>4, <2>1
<1>16. ASSUME Won \/ Left \/ LinesDone PROVE TrueInHand'
  <2>1. out'.msg.kind = "none"  BY <1>16 DEF Won, Left, LinesDone, NoSend
  <2> QED  BY <1>3, <2>1
<1>17. ASSUME HandleInvalidGuess \/ HandleWrongGuess PROVE TrueInHand'
  <2>1. game_active' = TRUE /\ out'.msg.kind \in {"ERROR", "RESULT"}
    BY <1>17 DEF HandleInvalidGuess, HandleWrongGuess, MayGuess, table, SendTo, Broadcast, IInv, TypeOK
  <2> QED  BY <1>4, <2>1
<1>18. ASSUME HandleRightGuess PROVE TrueInHand'
  <2>1. Phase = "playing"  BY <1>18 DEF HandleRightGuess, MayGuess, Phase
  <2>2. Phase' # "lobby"  BY <2>1, GameGoesOn
  <2>3. game_active' = FALSE  BY <1>18 DEF HandleRightGuess
  <2>4. Phase' = "over"  BY <2>2, <2>3 DEF Phase
  <2> QED  BY <2>4 DEF True
<1>19. ASSUME HandleDisconnect PROVE TrueInHand'
  <2>1. out' = out \/ out'.msg.kind = "DISCONNECT"  BY <1>19 DEF HandleDisconnect, Broadcast
  <2> QED  BY <1>2, <1>3, <2>1
<1> QED
  BY <1>8, <1>9, <1>10, <1>11, <1>12, <1>13, <1>14, <1>15, <1>16, <1>17, <1>18, <1>19 DEF Next, Step

\* What a step adds to a pipe is the message in hand; all else it leaves there or
\* takes away.
Sent(before, after) ==
    \/ after \in {before, <<>>}
    \/ out.msg \in Message /\ after = Append(before, out.msg)

LEMMA PipesHoldWhatWasSent ==
    ASSUME NInv, [BNext]_bvars
    PROVE  PipesTyped' /\ \A p \in Procs : Sent(cbuf[p], cbuf'[p])
<1>1. cbuf \in [Procs -> Seq(Message)]  BY DEF NInv, PipesTyped
<1>2. ASSUME NEW q, NEW c, cbuf' = [cbuf EXCEPT ![q] = c],
             q \in Procs => c \in Seq(Message) /\ Sent(cbuf[q], c)
      PROVE  PipesTyped' /\ \A p \in Procs : Sent(cbuf[p], cbuf'[p])
  BY <1>1, <1>2 DEF Sent, PipesTyped
<1>3. ASSUME NEW q, \/ UNCHANGED cbuf
                    \/ cbuf' = [cbuf EXCEPT ![q] = cbuf[q]]
                    \/ cbuf' = [cbuf EXCEPT ![q] = <<>>]
      PROVE  PipesTyped' /\ \A p \in Procs : Sent(cbuf[p], cbuf'[p])
  <2>1. <<>> \in Seq(Message) /\ \A c : Sent(c, c) /\ Sent(c, <<>>)  BY DEF Sent
  <2>2. CASE UNCHANGED cbuf  BY <1>1, <2>1, <2>2 DEF PipesTyped
  <2> QED  BY <1>1, <1>2, <1>3, <2>1, <2>2
<1>4. CASE ServerWrites
  <2>1. pc = "write" /\ out \in Send /\ out # NoSend
    BY <1>4 DEF ServerWrites, SendWrite, NInv, IInv, TypeOK, MessageInHand, Sending
  <2>2. out.msg \in Message  BY <2>1, SendOrNone DEF RealSend
  <2>3. \/ cbuf' = [cbuf EXCEPT ![peer] = Append(cbuf[peer], out.msg)]
        \/ cbuf' = [cbuf EXCEPT ![peer] = <<>>]
    BY <1>4 DEF ServerWrites
  <2>4. peer \in Procs =>
          Append(cbuf[peer], out.msg) \in Seq(Message) /\ <<>> \in Seq(Message)
    BY <1>1, <2>2
  <2>5. Sent(cbuf[peer], Append(cbuf[peer], out.msg)) /\ Sent(cbuf[peer], <<>>)
    BY <2>2 DEF Sent
  <2> QED  BY <1>2, <2>3, <2>4, <2>5
<1>5. CASE ServerFinishes
  <2>1. \/ cbuf' = [cbuf EXCEPT ![peer] = cbuf[peer]]
        \/ cbuf' = [cbuf EXCEPT ![peer] = <<>>]
    BY <1>5 DEF ServerFinishes
  <2> QED  BY <1>1, <1>3, <2>1 DEF PipesTyped
<1>6. CASE KilledServer \/ ServerCallFails
  <2>1. \A p \in Procs : cbuf'[p] \in {cbuf[p], <<>>}
    BY <1>1, <1>6 DEF KilledServer, ServerCallFails
  <2>2. cbuf' \in [Procs -> Seq(Message)]
    <3>1. CASE UNCHANGED cbuf  BY <1>1, <3>1
    <3>2. CASE cbuf' = [p \in Procs |-> IF p = peer /\ ~cread[p] THEN <<>> ELSE cbuf[p]]
      BY <1>1, <3>2
    <3> QED  BY <1>6, <3>1, <3>2 DEF KilledServer, ServerCallFails
  <2> QED  BY <2>1, <2>2 DEF Sent, PipesTyped
<1>7. ASSUME NEW p \in Procs,
             \/ ClientSigpipe(p) \/ ClientKilled(p) \/ ClientReads(p) \/ ClientReadsAnyway(p)
             \/ ClientCloses(p)
      PROVE  PipesTyped' /\ \A q \in Procs : Sent(cbuf[q], cbuf'[q])
  <2>1. \/ cbuf' = [cbuf EXCEPT ![p] = <<>>]
        \/ cbuf' = [cbuf EXCEPT ![p] = cbuf[p]]
    BY <1>7 DEF ClientSigpipe, ClientKilled, Dies, ClientReads, ClientReadsAnyway, ClientCloses
  <2> QED  BY <1>1, <1>3, <2>1
<1>8. ASSUME \/ ServerAlone \/ ServerStats \/ ServerDisconnects \/ ServerOpens
             \/ ServerReads \/ ServerAtEof \/ ServerIdles \/ ServerCloses \/ ServerReopens
             \/ ServerExits \/ ServerCleansUp \/ ServerSweeps \/ ServerInterrupted
             \/ UNCHANGED bvars
      PROVE  UNCHANGED cbuf
  BY <1>8 DEF ServerAlone, ServerStats, ServerDisconnects, ServerOpens, ServerReads, ServerAtEof,
     ServerIdles, ServerCloses, ServerReopens, ServerExits, ServerCleansUp, ServerSweeps,
     ServerInterrupted, own_pipe, bvars
<1>9. ASSUME NEW p \in Procs,
             \/ Start(p) \/ ClientOpens(p) \/ ClientFindsNoServer(p) \/ ClientOpensLast(p)
             \/ ClientWrites(p) \/ ClientFinishes(p) \/ ClientOpensOwn(p) \/ ClientLostOwn(p)
             \/ ClientAtEof(p) \/ ClientLeaves(p) \/ ClientUnlinks(p) \/ ClientGuesses(p)
             \/ ClientQuits(p) \/ ClientSignalled(p)
      PROVE  UNCHANGED cbuf
  BY <1>9 DEF Start, ClientOpens, ClientFindsNoServer, ClientOpensLast, ClientWrites,
     ClientFinishes, ClientOpensOwn, ClientLostOwn, ClientAtEof, ClientLeaves, ClientUnlinks,
     ClientGuesses, ClientQuits, ClientSignalled, own_pipe
<1> QED
  BY <1>3, <1>4, <1>5, <1>6, <1>7, <1>8, <1>9 DEF BNext, ServerStep, ClientStep

LEMMA NextNInv == NInv /\ [BNext]_bvars => NInv'
<1> SUFFICES ASSUME NInv, [BNext]_bvars PROVE NInv'  OBVIOUS
<1>1. [Next]_vars  BY StepOfServer
<1>2. IInv /\ IInv'  BY <1>1, NextIInv DEF NInv
<1>3. TrueInHand'  BY <1>1, <1>2, NewInHand DEF NInv
<1>4. PipesTyped' /\ \A p \in Procs : Sent(cbuf[p], cbuf'[p])
  BY PipesHoldWhatWasSent
<1>5. TrueInPipes'
  <2> SUFFICES ASSUME NEW p \in Procs, NEW k \in 1..Len(cbuf'[p])
               PROVE  True(cbuf[p][k])'
    BY DEF TrueInPipes
  <2>1. cbuf[p] \in Seq(Message)  BY DEF NInv, PipesTyped
  <2>2. PICK m : m = cbuf'[p][k]  OBVIOUS
  <2>3. m = out.msg \/ (k \in 1..Len(cbuf[p]) /\ m = cbuf[p][k])
    BY <1>4, <2>1, <2>2 DEF Sent
  <2>4. True(m)  BY <2>3 DEF NInv, TrueInHand, TrueInPipes
  <2>5. True(m)'  BY <1>1, <1>2, <2>4, NewsStaysTrue
  <2> QED  BY <2>2, <2>5 DEF True
<1> QED  BY <1>2, <1>3, <1>4, <1>5 DEF NInv


\* The news a client gets is true, for any number of clients: a client told that the
\* game started, or told a score, is in a full game, and a win is told only when no
\* guess can be judged any more (server.c 239-249, 255, 281-289; client.c 178-198).
THEOREM NewsThatArrivesIsTrue == BSpec => []NewsIsTrue
<1>1. NInv => NewsIsTrue
  <2> SUFFICES ASSUME NInv, NEW p \in Procs
               PROVE  /\ Told(p) \cap {"START", "RESULT", "ERROR", "WIN"} # {} => Len(players) = Required
                      /\ "WIN" \in Told(p) => ~game_active
    BY DEF NewsIsTrue
  <2>1. cbuf[p] \in Seq(Message)  BY DEF NInv, PipesTyped
  <2>2. \A kind \in Told(p) : \E k \in 1..Len(cbuf[p]) : cbuf[p][k].kind = kind
    BY <2>1 DEF Told, Range
  <2>3. player_count \in Nat /\ player_count <= Required /\ Required \in Nat
    <3>1. Required \in Nat  BY RequiredAssumption
    <3>2. TypeOK  BY DEF NInv, IInv
    <3> QED  BY <3>1, <3>2 DEF TypeOK, player_count
  <2>4. Phase # "lobby" => player_count = Required
    BY <2>3 DEF Phase, NInv, IInv, OnWhenFull
  <2>5. Phase = "over" => ~game_active  BY DEF Phase
  <2>6. \A k \in 1..Len(cbuf[p]) : True(cbuf[p][k])  BY DEF NInv, TrueInPipes
  <2>7. \A kind \in Told(p) :
           /\ kind \in {"START", "RESULT", "ERROR", "WIN"} => Phase # "lobby"
           /\ kind = "WIN" => Phase = "over"
    BY <2>2, <2>6 DEF True
  <2> QED  BY <2>4, <2>5, <2>7 DEF player_count
<1> QED  BY InitNInv, NextNInv, <1>1, PTL DEF BSpec

-------------------------------------------------------------------------------
(***************************************************************************)
(* The pipes' names, the server's end of a player's pipe, and the types.   *)
(***************************************************************************)

\* A path names a pipe made for its id.
PathOK ==
    /\ path \in [Ids -> Procs \cup {None}]
    /\ \A id \in Ids : path[id] # None => IdOf[path[id]] = id

\* The server holds a pipe only while it sends, and the one it is sending to.
PeerOK ==
    /\ peer # None => peer \in Procs /\ IdOf[peer] = players[out.to].id /\ Sending
    /\ pc \in {"write", "newline"} => peer # None

ClientsOK ==
    /\ srv_path \in BOOLEAN /\ srv_used \in BOOLEAN /\ srv_buf \in Seq(Line \cup {NL})
    /\ cpc \in [Procs -> Places] /\ active \in [Procs -> BOOLEAN] /\ line_out \in [Procs -> Line]
    /\ guesses \in [Procs -> Nat] /\ \A p \in Procs : guesses[p] <= MaxGuesses[p]
    /\ cread \in [Procs -> BOOLEAN] /\ cused \in [Procs -> BOOLEAN]

BInv == NInv /\ PathOK /\ PeerOK /\ ClientsOK

LEMMA InitBInv == BInit => BInv
<1> SUFFICES ASSUME BInit PROVE BInv  OBVIOUS
<1>1. NInv  BY InitNInv
<1>2. PathOK  BY DEF BInit, PathOK
<1>3. PeerOK  BY DEF BInit, Init, PeerOK
<1>4. NoLine \in Line  BY DEF NoLine, Line
<1>5. guesses \in [Procs -> Nat] /\ \A p \in Procs : guesses[p] <= MaxGuesses[p]
  <2>1. guesses = [p \in Procs |-> 0]  BY DEF BInit
  <2>2. \A p \in Procs : MaxGuesses[p] \in Nat  BY BoundsAssumption
  <2> QED  BY <2>1, <2>2
<1>6. /\ srv_path \in BOOLEAN /\ srv_used \in BOOLEAN /\ srv_buf \in Seq(Line \cup {NL})
      /\ active \in [Procs -> BOOLEAN] /\ line_out \in [Procs -> Line]
      /\ cread \in [Procs -> BOOLEAN] /\ cused \in [Procs -> BOOLEAN]
  <2>1. <<>> \in Seq(Line \cup {NL})  OBVIOUS
  <2>2. line_out = [p \in Procs |-> NoLine]  BY DEF BInit
  <2>3. line_out \in [Procs -> Line]  BY <1>4, <2>2
  <2> QED  BY <2>1, <2>3 DEF BInit
<1>7. cpc \in [Procs -> Places]  BY DEF BInit, Places
<1>8. ClientsOK  BY <1>5, <1>6, <1>7 DEF ClientsOK
<1> QED  BY <1>1, <1>2, <1>3, <1>8 DEF BInv

\* Names come with the process that makes the pipe and go with any unlink().
LEMMA PathStaysOK == PathOK /\ [BNext]_bvars => PathOK'
<1> SUFFICES ASSUME PathOK, [BNext]_bvars PROVE PathOK'  OBVIOUS
<1>1. ASSUME NEW i, path' = [path EXCEPT ![i] = None] PROVE PathOK'
  BY <1>1 DEF PathOK
<1>2. ASSUME NEW ids, path' = Unlinked(ids) PROVE PathOK'
  BY <1>2 DEF PathOK, Unlinked
<1>3. ASSUME NEW p \in Procs, path' = [path EXCEPT ![IdOf[p]] = p] PROVE PathOK'
  BY <1>3, ProcsAssumption DEF PathOK
<1>4. ASSUME UNCHANGED path PROVE PathOK'  BY <1>4 DEF PathOK
<1>5. CASE ServerDisconnects \/ ServerSweeps \/ ServerCleansUp
  BY <1>1, <1>2, <1>5 DEF ServerDisconnects, ServerSweeps, ServerCleansUp
<1>6. ASSUME \/ ServerAlone \/ ServerStats \/ ServerOpens \/ ServerWrites \/ ServerFinishes
             \/ ServerReads \/ ServerAtEof \/ ServerIdles \/ ServerCloses \/ ServerReopens
             \/ ServerExits \/ KilledServer \/ ServerInterrupted \/ ServerCallFails
             \/ UNCHANGED bvars
      PROVE  UNCHANGED path
  BY <1>6 DEF ServerAlone, ServerStats, ServerOpens, ServerWrites, ServerFinishes, ServerReads,
     ServerAtEof, ServerIdles, ServerCloses, ServerReopens, ServerExits, KilledServer,
     ServerInterrupted, ServerCallFails, bvars
<1>7. ASSUME NEW p \in Procs,
             \/ Start(p) \/ ClientFindsNoServer(p) \/ ClientLostOwn(p) \/ ClientSignalled(p)
             \/ ClientUnlinks(p)
      PROVE  PathOK'
  BY <1>1, <1>3, <1>4, <1>7
  DEF Start, ClientFindsNoServer, ClientLostOwn, ClientSignalled, ConnectFails, ClientUnlinks
<1>8. ASSUME NEW p \in Procs,
             \/ ClientOpens(p) \/ ClientOpensLast(p) \/ ClientWrites(p) \/ ClientFinishes(p)
             \/ ClientSigpipe(p) \/ ClientKilled(p) \/ ClientOpensOwn(p)
             \/ ClientReads(p) \/ ClientReadsAnyway(p) \/ ClientAtEof(p) \/ ClientLeaves(p) \/ ClientCloses(p)
             \/ ClientGuesses(p) \/ ClientQuits(p)
      PROVE  UNCHANGED path
  BY <1>8 DEF ClientOpens, ClientOpensLast, ClientWrites, ClientFinishes, ClientSigpipe,
     ClientKilled, Dies, ClientOpensOwn, ClientReads, ClientReadsAnyway, ClientAtEof, ClientLeaves,
     ClientCloses, ClientGuesses, ClientQuits
<1> QED
  BY <1>4, <1>5, <1>6, <1>7, <1>8 DEF BNext, ServerStep, ClientStep

\* The server opens a pipe for one send and closes it at its end.
LEMMA PeerStaysOK ==
    ASSUME IInv, PathOK, PeerOK, [BNext]_bvars
    PROVE  PeerOK'
<1>1. ASSUME UNCHANGED <<server, peer>> PROVE PeerOK'
  BY <1>1 DEF server, vars, PeerOK, Sending
<1>2. ASSUME peer' = peer, ~Sending, pc' \notin {"write", "newline"} PROVE PeerOK'
  BY <1>2 DEF PeerOK
<1>3. ASSUME peer' = None, pc' \notin {"write", "newline"} PROVE PeerOK'
  BY <1>3 DEF PeerOK
<1>4. ASSUME UNCHANGED <<players, out>>, peer' \in Procs, Sending', IdOf[peer'] = players[out.to].id
      PROVE  PeerOK'
  BY <1>4, ProcsAssumption DEF PeerOK
<1>5. Sending => out \in RealSend /\ out.to \in ActiveSeats
  BY SendOrNone DEF IInv, TypeOK, MessageInHand, SendsToASeat, Sending
<1>6. CASE ServerAlone
  <2>1. ~Sending /\ peer' = peer
    BY <1>6 DEF ServerAlone, BroadcastSkip, BroadcastDone, DropLine, Welcomed, Won, Left,
       HandleInvalidGuess, HandleWrongGuess, HandleRightGuess, Parsed, Wait, LinesDone, Sending
  <2>2. pc = "broadcast" => out.after \in Afters
    BY SendOrNone DEF IInv, TypeOK, MessageInHand, RealSend
  <2>3. pc' \notin {"write", "newline"}
    BY <1>6, <2>1, <2>2 DEF ServerAlone, BroadcastSkip, BroadcastDone, DropLine, Welcomed, Won, Left,
       HandleInvalidGuess, HandleWrongGuess, HandleRightGuess, Wait, LinesDone, SendTo, Broadcast,
       Afters, Sending
  <2> QED  BY <1>2, <2>1, <2>3
<1>7. CASE ServerStats \/ ServerDisconnects
  <2>1. ~Sending /\ peer' = peer /\ pc' \notin {"write", "newline"}
    BY <1>7 DEF ServerStats, ServerDisconnects, BroadcastNext, HandleConnect, HandleDisconnect, Parsed,
       SendTo, Broadcast, Sending
  <2> QED  BY <1>2, <2>1
<1>8. CASE ServerReads \/ ServerAtEof \/ ServerIdles \/ ServerCloses \/ ServerReopens \/ ServerExits
  <2>1. ~Sending /\ peer' = peer /\ pc' \notin {"write", "newline"}
    BY <1>8 DEF ServerReads, ServerAtEof, ServerIdles, ServerCloses, ServerReopens, ServerExits,
       Read, ReadEof, NothingRead, CloseOnEof, Reopen, Exit, Sending
  <2> QED  BY <1>2, <2>1
<1>9. CASE ServerOpens
  <2>1. Sending /\ players[out.to].id \in Ids
    <3>1. Sending  BY <1>9 DEF ServerOpens, Sending
    <3>2. out.to \in 1..Len(players)  BY <1>5, <3>1 DEF ActiveSeats, player_count
    <3>3. players \in Seq(Seat)  BY DEF IInv, TypeOK, Seat
    <3>4. players[out.to] \in Seat  BY <3>2, <3>3
    <3> QED  BY <3>1, <3>4 DEF Seat
  <2> DEFINE found == path[players[out.to].id]
  <2>2. CASE found = None
    <3>1. peer' = None /\ SendReturns
      BY <1>9, <2>2 DEF ServerOpens, SendOpen
    <3> QED  BY <1>3, <1>5, <2>1, <3>1, Returned
  <2>3. CASE found # None
    <3>1. found \in Procs /\ IdOf[found] = players[out.to].id  BY <2>1, <2>3 DEF PathOK
    <3>2. SendOpen("ok") \/ UNCHANGED server  BY <1>9, <2>3 DEF ServerOpens
    <3>3. peer' = found /\ UNCHANGED <<players, out>> /\ Sending'
      BY <1>9, <2>1, <2>3, <3>2 DEF ServerOpens, SendOpen, server, vars, Sending
    <3> QED  BY <1>4, <3>1, <3>3
  <2> QED  BY <2>2, <2>3
<1>10. CASE ServerWrites
  <2>1. Sending /\ peer # None  BY <1>10 DEF ServerWrites, SendWrite, Sending, PeerOK
  <2>2. CASE cread[peer]
    <3>1. UNCHANGED <<players, out, peer>> /\ Sending'
      BY <1>10, <2>2 DEF ServerWrites, SendWrite, Sending
    <3> QED  BY <1>4, <2>1, <3>1 DEF PeerOK
  <2>3. CASE ~cread[peer]
    <3>1. peer' = None /\ SendReturns  BY <1>10, <2>3 DEF ServerWrites, SendWrite
    <3> QED  BY <1>3, <1>5, <2>1, <3>1, Returned
  <2> QED  BY <2>2, <2>3
<1>11. CASE ServerFinishes
  <2>1. Sending /\ peer' = None /\ SendReturns  BY <1>11 DEF ServerFinishes, SendNewline, Sending
  <2> QED  BY <1>3, <1>5, <2>1, Returned
<1>12. CASE KilledServer
  <2>1. peer' = None /\ pc' = "killed"  BY <1>12 DEF KilledServer, KilledBySigpipe, KilledBySignal
  <2> QED  BY <1>3, <2>1
<1>13. CASE ServerInterrupted
  <2>1. players' = players /\ (UNCHANGED <<out, pc>> \/ (pc = "open" /\ SendReturns))
        /\ peer' = IF pc' # pc THEN None ELSE peer
    BY <1>13 DEF ServerInterrupted, Interrupt
  <2>2. CASE UNCHANGED <<out, pc>>
    BY <2>1, <2>2 DEF PeerOK, Sending
  <2>3. CASE pc = "open" /\ SendReturns
    <3>1. pc' \notin {"open", "write", "newline"}  BY <1>5, <2>3, Returned DEF Sending
    <3> QED  BY <1>3, <2>1, <2>3, <3>1
  <2> QED  BY <2>1, <2>2, <2>3
<1>17. CASE ServerCallFails
  <2>1. CASE SendFails
    <3>1. Sending /\ peer' = None /\ SendReturns  BY <1>17, <2>1 DEF ServerCallFails, SendFails, Sending
    <3> QED  BY <1>3, <1>5, <3>1, Returned
  <2>2. CASE SelectFails
    <3>1. peer' = None /\ pc' = "exited"  BY <1>17, <2>2 DEF ServerCallFails, SelectFails
    <3> QED  BY <1>3, <3>1
  <2> QED  BY <1>17, <2>1, <2>2 DEF ServerCallFails
<1>14. ASSUME NEW p \in Procs, ClientOpensOwn(p) PROVE PeerOK'
  <2>1. CASE pc = "open" /\ peer = p
    <3>1. UNCHANGED <<players, out, peer>> /\ Sending'
      BY <1>14, <2>1 DEF ClientOpensOwn, ServerWritesTo, SendOpen, Sending
    <3> QED  BY <1>4, <2>1, <3>1, ProcsAssumption DEF PeerOK
  <2>2. CASE ~(pc = "open" /\ peer = p)
    BY <1>1, <1>14, <2>2 DEF ClientOpensOwn, ServerWritesTo
  <2> QED  BY <2>1, <2>2
<1>15. ASSUME \/ ServerCleansUp \/ ServerSweeps \/ UNCHANGED bvars
       PROVE  UNCHANGED <<server, peer>>
  BY <1>15 DEF ServerCleansUp, ServerSweeps, bvars
<1>16. ASSUME NEW p \in Procs,
              \/ Start(p) \/ ClientOpens(p) \/ ClientFindsNoServer(p) \/ ClientOpensLast(p)
              \/ ClientWrites(p) \/ ClientFinishes(p) \/ ClientSigpipe(p) \/ ClientKilled(p)
              \/ ClientLostOwn(p) \/ ClientReads(p) \/ ClientAtEof(p) \/ ClientLeaves(p)
              \/ ClientCloses(p) \/ ClientUnlinks(p) \/ ClientGuesses(p) \/ ClientQuits(p)
              \/ ClientSignalled(p) \/ ClientReadsAnyway(p)
       PROVE  UNCHANGED <<server, peer>>
  BY <1>16 DEF Start, ClientOpens, ClientFindsNoServer, ClientOpensLast, ClientWrites, ClientFinishes,
     ClientSigpipe, ClientKilled, Dies, ClientLostOwn, ClientReads, ClientAtEof, ClientLeaves,
     ClientCloses, ClientUnlinks, ClientGuesses, ClientQuits, ClientSignalled,
     ClientReadsAnyway
<1> QED
  BY <1>1, <1>6, <1>7, <1>8, <1>9, <1>10, <1>11, <1>12, <1>13, <1>14, <1>15, <1>16,
     <1>17
     DEF BNext, ServerStep, ClientStep

\* A client's line is one of the protocol, and its place one of the program.
LEMMA Prepared ==
    ASSUME line_out \in [Procs -> Line], cpc \in [Procs -> Places], NEW p \in Procs, NEW type, NEW arg,
           Prepare(p, type, arg),
           \/ type = "CONNECT" /\ arg = "name"
           \/ type = "DISCONNECT" /\ arg = "none"
           \/ type = "GUESS" /\ arg \in Words
    PROVE  line_out' \in [Procs -> Line] /\ cpc' \in [Procs -> Places]
<1>1. IdOf[p] \in Ids  BY ProcsAssumption
<1>2. [type |-> type, id |-> IdOf[p], arg |-> arg] \in Line
  <2>1. CASE type = "CONNECT" /\ arg = "name"  BY <1>1, <2>1 DEF Line
  <2>2. CASE type = "DISCONNECT" /\ arg = "none"  BY <1>1, <2>2 DEF Line
  <2>3. CASE type = "GUESS" /\ arg \in Words  BY <1>1, <2>3, WordsAssumption DEF Line
  <2> QED  BY <2>1, <2>2, <2>3
<1>3. "open" \in Places  BY DEF Places
<1> QED  BY <1>2, <1>3 DEF Prepare, Goto

LEMMA Gone ==
    ASSUME cpc \in [Procs -> Places], NEW p \in Procs, NEW where \in Places, Goto(p, where)
    PROVE  cpc' \in [Procs -> Places]
BY DEF Goto

LEMMA ClientsStayOK ==
    ASSUME ClientsOK, PathOK, [BNext]_bvars
    PROVE  ClientsOK'
<1>0. <<>> \in Seq(Line \cup {NL}) /\ NoLine \in Line  BY DEF NoLine, Line
<1>1. ASSUME UNCHANGED <<srv_pipe, clients, cread, cused>> PROVE ClientsOK'
  BY <1>1 DEF srv_pipe, clients, ClientsOK
<1>2. CASE \/ ServerAlone \/ ServerStats \/ ServerDisconnects \/ ServerWrites \/ ServerFinishes
           \/ ServerAtEof \/ ServerIdles \/ ServerSweeps \/ ServerInterrupted \/ UNCHANGED bvars
  <2>1. UNCHANGED <<srv_pipe, clients, cread, cused>>
    BY <1>2 DEF ServerAlone, ServerStats, ServerDisconnects, ServerWrites, ServerFinishes, ServerAtEof,
       ServerIdles, ServerSweeps, ServerInterrupted, own_pipe, bvars
  <2> QED  BY <1>1, <2>1
<1>3. CASE ServerOpens
  <2> DEFINE found == path[players[out.to].id]
  <2>1. UNCHANGED <<srv_pipe, clients, cread>>  BY <1>3 DEF ServerOpens
  <2>2. cused' = cused \/ cused' = [cused EXCEPT ![found] = cread[found]]  BY <1>3 DEF ServerOpens
  <2>3. cused' \in [Procs -> BOOLEAN]  BY <2>2 DEF ClientsOK
  <2> QED  BY <2>1, <2>3 DEF srv_pipe, clients, ClientsOK
<1>4. CASE \/ ServerReads \/ ServerCloses \/ ServerExits \/ ServerCleansUp \/ KilledServer
           \/ ServerCallFails
  <2>1. UNCHANGED <<clients, cread, cused, srv_used>> /\ srv_path' \in {srv_path, FALSE}
        /\ srv_buf' \in {srv_buf, <<>>}
    BY <1>4 DEF ServerReads, ServerCloses, ServerExits, ServerCleansUp, KilledServer, ServerCallFails,
       own_pipe
  <2> QED  BY <1>0, <2>1 DEF clients, ClientsOK
<1>5. CASE ServerReopens
  <2>1. UNCHANGED <<srv_path, srv_buf, active, line_out, guesses, cread, cused>>
        /\ srv_used' \in BOOLEAN
    BY <1>5 DEF ServerReopens, own_pipe
  <2>2. cpc' \in [Procs -> Places]
    BY <1>5 DEF ServerReopens, ClientsOK, Places
  <2> QED  BY <2>1, <2>2 DEF ClientsOK
<1>6. ASSUME NEW p \in Procs,
             \/ Start(p) \/ ClientFindsNoServer(p) \/ ClientLostOwn(p) \/ ClientLeaves(p)
      PROVE  ClientsOK'
  <2>1. UNCHANGED <<srv_path, srv_used, srv_buf, guesses, cread, cused>>
    BY <1>6 DEF Start, ClientFindsNoServer, ClientLostOwn, ClientLeaves, srv_pipe, own_pipe
  <2>2. active' \in [Procs -> BOOLEAN]
    BY <1>6 DEF Start, ClientFindsNoServer, ClientLostOwn, ClientLeaves, ClientsOK
  <2>3. \/ Prepare(p, "CONNECT", "name") \/ Prepare(p, "DISCONNECT", "none")
        \/ (Goto(p, "loop") \/ Goto(p, "fgets")) /\ UNCHANGED line_out
    BY <1>6 DEF Start, ClientFindsNoServer, ClientLostOwn, ClientLeaves, ConnectFails, IterationEnds
  <2>4. line_out' \in [Procs -> Line] /\ cpc' \in [Procs -> Places]
    BY <2>3, Prepared, Gone DEF ClientsOK, Places
  <2> QED  BY <2>1, <2>2, <2>4 DEF ClientsOK
<1>7. ASSUME NEW p \in Procs,
             ClientOpens(p) \/ ClientOpensLast(p) \/ ClientWrites(p) \/ ClientFinishes(p)
      PROVE  ClientsOK'
  <2>1. UNCHANGED <<srv_path, active, guesses, cread, cused>> /\ srv_used' \in BOOLEAN
    BY <1>7 DEF ClientOpens, ClientOpensLast, ClientWrites, ClientFinishes, own_pipe, ClientsOK
  <2>2. srv_buf' \in {srv_buf, Append(srv_buf, line_out[p]), Append(srv_buf, NL)}
    BY <1>7 DEF ClientOpens, ClientOpensLast, ClientWrites, ClientFinishes
  <2>3. srv_buf' \in Seq(Line \cup {NL})
    <3>1. line_out[p] \in Line \cup {NL} /\ NL \in Line \cup {NL} /\ srv_buf \in Seq(Line \cup {NL})
      BY DEF ClientsOK
    <3> QED  BY <2>2, <3>1
  <2>4. line_out' \in [Procs -> Line]
    <3>1. line_out' = line_out \/ line_out' = [line_out EXCEPT ![p] = NoLine]
      BY <1>7 DEF ClientOpens, ClientOpensLast, ClientWrites, ClientFinishes
    <3> QED  BY <1>0, <3>1 DEF ClientsOK
  <2>5. \E where \in Places : Goto(p, where)
    <3>1. ASSUME ClientFinishes(p)
          PROVE  \E where \in Places : Goto(p, where)
      BY <3>1 DEF ClientFinishes, Places
    <3>2. ASSUME ClientOpens(p) \/ ClientOpensLast(p) \/ ClientWrites(p)
          PROVE  \E where \in Places : Goto(p, where)
      BY <3>2 DEF ClientOpens, ClientOpensLast, ClientWrites, Places
    <3> QED  BY <1>7, <3>1, <3>2
  <2>6. cpc' \in [Procs -> Places]  BY <2>5, Gone DEF ClientsOK
  <2> QED  BY <2>1, <2>3, <2>4, <2>6 DEF ClientsOK
<1>8. ASSUME NEW p \in Procs, ClientSigpipe(p) \/ ClientKilled(p) PROVE ClientsOK'
  <2>1. Dies(p)  BY <1>8 DEF ClientSigpipe, ClientKilled
  <2>2. srv_buf' \in {srv_buf, <<>>}  BY <2>1 DEF Dies, LeftBy
  <2>3. cpc' \in [Procs -> Places]  BY <2>1, Gone DEF Dies, ClientsOK, Places
  <2>4. srv_buf' \in Seq(Line \cup {NL})  BY <1>0, <2>2 DEF ClientsOK
  <2> QED  BY <1>0, <2>1, <2>3, <2>4 DEF Dies, ClientsOK
<1>9. ASSUME NEW p \in Procs,
             \/ ClientOpensOwn(p) \/ ClientReadsAnyway(p) \/ ClientAtEof(p) \/ ClientCloses(p)
             \/ ClientUnlinks(p)
      PROVE  ClientsOK'
  <2>1. UNCHANGED <<srv_path, srv_used, srv_buf, active, line_out, guesses>>
    BY <1>9 DEF ClientOpensOwn, ClientReadsAnyway, ClientAtEof, ClientCloses, ClientUnlinks, srv_pipe
  <2>2. \E where \in Places : Goto(p, where)
    BY <1>9 DEF ClientOpensOwn, IterationEnds, ClientReadsAnyway, ClientAtEof, ClientCloses,
       ClientUnlinks, Places
  <2>3. cpc' \in [Procs -> Places]  BY <2>2, Gone DEF ClientsOK
  <2>4. cread' \in [Procs -> BOOLEAN] /\ cused' \in [Procs -> BOOLEAN]
    BY <1>9 DEF ClientOpensOwn, ClientReadsAnyway, ClientAtEof, ClientCloses, ClientUnlinks,
       ServerWritesTo, own_pipe, ClientsOK
  <2> QED  BY <2>1, <2>3, <2>4 DEF ClientsOK
<1>10. ASSUME NEW p \in Procs, Guesses(p)
       PROVE  /\ line_out' \in [Procs -> Line] /\ cpc' \in [Procs -> Places]
              /\ guesses' \in [Procs -> Nat] /\ \A q \in Procs : guesses'[q] <= MaxGuesses[q]
  <2>1. line_out' \in [Procs -> Line] /\ cpc' \in [Procs -> Places]
    BY <1>10, Prepared DEF Guesses, ClientsOK
  <2>2. guesses[p] < MaxGuesses[p] /\ guesses' = [guesses EXCEPT ![p] = guesses[p] + 1]
    BY <1>10 DEF Guesses
  <2>3. guesses \in [Procs -> Nat] /\ \A q \in Procs : guesses[q] <= MaxGuesses[q]  BY DEF ClientsOK
  <2>4. \A q \in Procs : MaxGuesses[q] \in Nat  BY BoundsAssumption
  <2> QED  BY <2>1, <2>2, <2>3, <2>4
<1>11. ASSUME NEW p \in Procs, ClientGuesses(p) \/ ClientReads(p) PROVE ClientsOK'
  <2>1. UNCHANGED <<srv_path, srv_used, srv_buf, cread, cused>>
    BY <1>11 DEF ClientGuesses, ClientReads, srv_pipe, own_pipe
  <2>2. active' \in [Procs -> BOOLEAN]  BY <1>11 DEF ClientGuesses, ClientReads, ClientsOK
  <2>3. Guesses(p) \/ UNCHANGED <<cpc, line_out, guesses>>
    BY <1>11 DEF ClientGuesses, ClientReads
  <2> QED  BY <1>10, <2>1, <2>2, <2>3 DEF ClientsOK
<1>12. ASSUME NEW p \in Procs, ClientQuits(p) \/ ClientSignalled(p) PROVE ClientsOK'
  <2>1. UNCHANGED <<srv_path, srv_used, guesses, cread, cused>>
    BY <1>12 DEF ClientQuits, ClientSignalled, srv_pipe, own_pipe
  <2>2. active' = [active EXCEPT ![p] = FALSE]  BY <1>12 DEF ClientQuits, ClientSignalled
  <2>3. srv_buf' \in {srv_buf, <<>>}  BY <1>12 DEF ClientQuits, ClientSignalled, srv_pipe, LeftBy
  <2>4. \/ UNCHANGED <<cpc, line_out>>
        \/ Prepare(p, "DISCONNECT", "none")
        \/ UNCHANGED line_out /\ (Goto(p, "loop") \/ Goto(p, "interrupted"))
    BY <1>12 DEF ClientQuits, ClientSignalled, ConnectFails
  <2>5. line_out' \in [Procs -> Line] /\ cpc' \in [Procs -> Places]
    BY <2>4, Prepared, Gone DEF ClientsOK, Places
  <2>6. srv_buf' \in Seq(Line \cup {NL})  BY <1>0, <2>3 DEF ClientsOK
  <2> QED  BY <2>1, <2>2, <2>5, <2>6 DEF ClientsOK
<1> QED
  BY <1>2, <1>3, <1>4, <1>5, <1>6, <1>7, <1>8, <1>9, <1>11, <1>12 DEF BNext, ServerStep, ClientStep

LEMMA NextBInv == BInv /\ [BNext]_bvars => BInv'
BY StepOfServer, NextNInv, PathStaysOK, PeerStaysOK, ClientsStayOK DEF BInv, NInv

\* The server holds a player's pipe only inside send_text_to_player, and it is that of
\* the player it sends to; a path names a pipe that a client made for its id; the rest
\* is typed (server.c 115-178; client.c 36-48).
THEOREM GameTyped == BSpec => []BTypeOK
<1>1. BInv => BTypeOK
  <2> SUFFICES ASSUME BInv PROVE BTypeOK  OBVIOUS
  <2>1. \A p \in Procs : guesses[p] \in 0..MaxGuesses[p]
    BY BoundsAssumption DEF BInv, ClientsOK
  <2>2. \A id \in Ids : path[id] # None => path[id] \in Procs /\ IdOf[path[id]] = id
    BY DEF BInv, PathOK
  <2> QED  BY <2>1, <2>2 DEF BInv, NInv, IInv, PipesTyped, PeerOK, ClientsOK, BTypeOK, Sending
<1> QED  BY InitBInv, NextBInv, <1>1, PTL DEF BSpec

-------------------------------------------------------------------------------
(***************************************************************************)
(* Who waits in open() for whom.                                           *)
(***************************************************************************)

\* A call that waits does so for an end that is not there.
WaitsForServer == \A p \in Procs : cpc[p] = "blocked" => ~ServerReading
WaitsForPlayer == pc = "open" /\ peer # None => ~cread[peer]

\* A server that has closed its pipe, or is no more, opens it by Reopen only.
LEMMA NotReadingStays ==
    ASSUME [Next]_vars, ~ServerReading, ~Reopen
    PROVE  ~ServerReading'
<1>1. pc \in {"gap", "exited", "killed"}  BY DEF ServerReading
<1> QED
  BY <1>1
  DEF ServerReading, Next, Step, vars, BroadcastNext, HandleConnect, BroadcastSkip, BroadcastDone,
      SendOpen, SendWrite, SendNewline, KilledBySigpipe, DropLine, Welcomed, Won, Left,
      HandleInvalidGuess, HandleWrongGuess, HandleRightGuess, HandleDisconnect, Parsed, Read, Wait,
      NothingRead, LinesDone, ReadEof, CloseOnEof, Exit, Interrupt, KilledBySignal, SendFails,
      SelectFails, ReopenFails

LEMMA WaitsForServerStays ==
    ASSUME BInv, WaitsForServer, [BNext]_bvars
    PROVE  WaitsForServer'
<1>t. cpc \in [Procs -> Places]  BY DEF BInv, ClientsOK
<1>1. ASSUME ~Reopen, UNCHANGED cpc PROVE WaitsForServer'
  BY <1>1, NotReadingStays, StepOfServer DEF WaitsForServer
\* A client that moves does not move to where it waits, unless it has found
\* the server's end closed.
<1>2. ASSUME NEW p \in Procs, UNCHANGED pc, NEW place, cpc' = [cpc EXCEPT ![p] = place],
             place # "blocked" \/ ~ServerReading
      PROVE  WaitsForServer'
  <2> SUFFICES ASSUME NEW q \in Procs, cpc'[q] = "blocked" PROVE ~ServerReading'
    BY DEF WaitsForServer
  <2>1. ServerReading' = ServerReading  BY <1>2 DEF ServerReading
  <2> QED  BY <1>t, <1>2, <2>1 DEF WaitsForServer
<1>3. CASE ServerReopens
  <2>1. \A p \in Procs : cpc'[p] # "blocked"  BY <1>3 DEF ServerReopens
  <2> QED  BY <2>1 DEF WaitsForServer
<1>4. CASE \/ ServerAlone \/ ServerStats \/ ServerDisconnects \/ ServerOpens \/ ServerWrites
           \/ ServerFinishes \/ ServerReads \/ ServerAtEof \/ ServerIdles \/ ServerCloses
           \/ ServerExits \/ ServerCleansUp \/ ServerSweeps \/ KilledServer \/ ServerInterrupted
           \/ ServerCallFails \/ UNCHANGED bvars
  <2>1. UNCHANGED cpc
    BY <1>4
    DEF ServerAlone, ServerStats, ServerDisconnects, ServerOpens, ServerWrites, ServerFinishes,
        ServerReads, ServerAtEof, ServerIdles, ServerCloses, ServerExits, ServerCleansUp, ServerSweeps,
        KilledServer, ServerInterrupted, ServerCallFails, clients, bvars
  <2>2. CASE Reopen
    <3>1. pc = "gap" /\ pc' = "loop"  BY <2>2 DEF Reopen
    <3> QED
      BY <1>4, <3>1
      DEF ServerAlone, ServerStats, ServerDisconnects, ServerOpens, ServerWrites, ServerFinishes,
          ServerReads, ServerAtEof, ServerIdles, ServerCloses, ServerExits, ServerCleansUp,
          ServerSweeps, KilledServer, ServerInterrupted, ServerCallFails, bvars, server, vars,
          SendFails, SelectFails, BroadcastNext,
          HandleConnect, BroadcastSkip, BroadcastDone, SendOpen, SendWrite, SendNewline,
          KilledBySigpipe, DropLine, Welcomed, Won, Left, HandleInvalidGuess, HandleWrongGuess,
          HandleRightGuess, HandleDisconnect, Parsed, Read, Wait, NothingRead, LinesDone, ReadEof,
          CloseOnEof, Exit, Interrupt, KilledBySignal
  <2>3. CASE ~Reopen  BY <2>1, <2>3, <1>1
  <2> QED  BY <2>2, <2>3
<1>5. ASSUME NEW p \in Procs, ClientOpens(p) PROVE WaitsForServer'
  BY <1>5, <1>2 DEF ClientOpens, Goto, server, vars
<1>6. ASSUME NEW p \in Procs, ClientOpensOwn(p) PROVE WaitsForServer'
  <2>1. PICK place \in {"loop", "fgets"} : cpc' = [cpc EXCEPT ![p] = place]
    BY <1>6 DEF ClientOpensOwn, IterationEnds, Goto
  <2>2. CASE UNCHANGED server  BY <1>2, <2>1, <2>2 DEF server, vars
  <2>3. CASE SendOpen("ok")
    <3>1. ServerReading  BY <2>3 DEF SendOpen, ServerReading
    <3> QED  BY <1>t, <2>1, <3>1 DEF WaitsForServer
  <2> QED  BY <1>6, <2>2, <2>3 DEF ClientOpensOwn
<1>7. ASSUME NEW p \in Procs,
             \/ Start(p) \/ ClientFindsNoServer(p) \/ ClientOpensLast(p) \/ ClientWrites(p)
             \/ ClientFinishes(p) \/ ClientSigpipe(p) \/ ClientKilled(p) \/ ClientLostOwn(p)
             \/ ClientAtEof(p) \/ ClientLeaves(p) \/ ClientCloses(p) \/ ClientUnlinks(p)
             \/ ClientGuesses(p) \/ ClientQuits(p) \/ ClientReadsAnyway(p)
      PROVE  WaitsForServer'
  <2>1. UNCHANGED pc
    BY <1>7
    DEF Start, ClientFindsNoServer, ClientOpensLast, ClientWrites, ClientFinishes, ClientSigpipe,
        ClientKilled, Dies, ClientLostOwn, ClientAtEof, ClientLeaves, ClientCloses, ClientUnlinks,
        ClientGuesses, ClientQuits, ClientReadsAnyway, server, vars
  <2>2. \E place \in Places \ {"blocked"} : cpc' = [cpc EXCEPT ![p] = place]
    BY <1>7
    DEF Start, ClientFindsNoServer, ClientOpensLast, ClientWrites, ClientFinishes, ClientSigpipe,
        ClientKilled, Dies, ClientLostOwn, ClientAtEof, ClientLeaves, ClientCloses, ClientUnlinks,
        ClientGuesses, Guesses, ClientQuits, ClientReadsAnyway, ConnectFails, IterationEnds, Prepare,
        Goto, Places
  <2> QED  BY <2>1, <2>2, <1>2
<1>8. ASSUME NEW p \in Procs, ClientReads(p) \/ ClientSignalled(p) PROVE WaitsForServer'
  <2>1. UNCHANGED pc  BY <1>8 DEF ClientReads, ClientSignalled, server, vars
  <2>2. ~Reopen  BY <2>1 DEF Reopen
  <2>3. cpc' = cpc \/ \E place \in {"open", "interrupted", "loop"} : cpc' = [cpc EXCEPT ![p] = place]
    BY <1>8 DEF ClientReads, ClientSignalled, ConnectFails, Guesses, Prepare, Goto
  <2> QED  BY <2>1, <2>2, <2>3, <1>1, <1>2
<1> QED
  BY <1>3, <1>4, <1>5, <1>6, <1>7, <1>8 DEF BNext, ServerStep, ClientStep

LEMMA WaitsForPlayerStays ==
    ASSUME BInv, WaitsForPlayer, [BNext]_bvars
    PROVE  WaitsForPlayer'
<1>t. cread \in [Procs -> BOOLEAN]  BY DEF BInv, ClientsOK
<1>p. peer # None => peer \in Procs /\ Sending  BY DEF BInv, PeerOK
\* The server is, or comes to be, elsewhere; or no reader has come.
<1>1. ASSUME pc' # "open" \/ peer' = None PROVE WaitsForPlayer'
  BY <1>1 DEF WaitsForPlayer
<1>2. ASSUME UNCHANGED <<pc, peer>>,
             UNCHANGED cread \/ \E p \in Procs : cread' = [cread EXCEPT ![p] = FALSE]
      PROVE  WaitsForPlayer'
  BY <1>t, <1>p, <1>2 DEF WaitsForPlayer
<1>3. ASSUME UNCHANGED peer, ~Sending PROVE WaitsForPlayer'
  BY <1>p, <1>3, <1>1
<1>4. CASE \/ ServerAlone \/ ServerStats \/ ServerDisconnects \/ ServerReads \/ ServerAtEof
           \/ ServerIdles \/ ServerCloses \/ ServerReopens \/ ServerExits
  <2>1. ~Sending /\ UNCHANGED peer
    BY <1>4
    DEF ServerAlone, ServerStats, ServerDisconnects, ServerReads, ServerAtEof, ServerIdles,
        ServerCloses, ServerReopens, ServerExits, BroadcastNext, HandleConnect, BroadcastSkip,
        BroadcastDone, DropLine, Welcomed, Won, Left, HandleInvalidGuess, HandleWrongGuess,
        HandleRightGuess, HandleDisconnect, Parsed, Read, Wait, NothingRead, LinesDone, ReadEof,
        CloseOnEof, Reopen, Exit, Sending
  <2> QED  BY <2>1, <1>3
<1>5. CASE ServerOpens
  <2> DEFINE found == path[players[out.to].id]
  <2>1. CASE found = None  BY <1>1, <1>5, <2>1 DEF ServerOpens
  <2>2. CASE found # None /\ cread[found]
    <3>1. pc' = "write"  BY <1>5, <2>2 DEF ServerOpens, SendOpen
    <3> QED  BY <3>1, <1>1
  <2>3. CASE found # None /\ ~cread[found]
    <3>1. peer' = found /\ UNCHANGED cread  BY <1>5, <2>3 DEF ServerOpens
    <3> QED  BY <2>3, <3>1 DEF WaitsForPlayer
  <2> QED  BY <2>1, <2>2, <2>3
<1>6. CASE ServerWrites
  <2>1. CASE cread[peer]
    <3>1. pc' = "newline"  BY <1>6, <2>1 DEF ServerWrites, SendWrite
    <3> QED  BY <3>1, <1>1
  <2>2. CASE ~cread[peer]  BY <1>1, <1>6, <2>2 DEF ServerWrites
  <2> QED  BY <2>1, <2>2
<1>7. CASE ServerFinishes \/ KilledServer \/ ServerCallFails
  BY <1>1, <1>7 DEF ServerFinishes, KilledServer, ServerCallFails
<1>8. CASE ServerInterrupted
  <2>1. CASE pc' = pc  BY <1>2, <1>8, <2>1 DEF ServerInterrupted, own_pipe
  <2>2. CASE pc' # pc  BY <1>1, <1>8, <2>2 DEF ServerInterrupted
  <2> QED  BY <2>1, <2>2
<1>9. CASE ServerCleansUp \/ ServerSweeps \/ UNCHANGED bvars
  BY <1>2, <1>9 DEF ServerCleansUp, ServerSweeps, bvars, server, vars, own_pipe
<1>10. ASSUME NEW p \in Procs, ClientOpensOwn(p) PROVE WaitsForPlayer'
  <2>1. UNCHANGED peer /\ cread' = [cread EXCEPT ![p] = TRUE]  BY <1>10 DEF ClientOpensOwn
  <2>2. CASE pc = "open" /\ peer = p
    <3>1. pc' = "write"  BY <1>10, <2>2 DEF ClientOpensOwn, ServerWritesTo, SendOpen
    <3> QED  BY <3>1, <1>1
  <2>3. CASE pc = "open" /\ peer # p
    <3>1. UNCHANGED pc  BY <1>10, <2>3 DEF ClientOpensOwn, ServerWritesTo, server, vars
    <3>2. peer # None => cread'[peer] = cread[peer]  BY <1>t, <1>p, <2>1, <2>3
    <3> QED  BY <2>1, <2>3, <3>1, <3>2 DEF WaitsForPlayer
  <2>4. CASE pc # "open"
    <3>1. UNCHANGED pc  BY <1>10, <2>4 DEF ClientOpensOwn, server, vars
    <3> QED  BY <2>4, <3>1, <1>1
  <2> QED  BY <2>2, <2>3, <2>4
<1>11. ASSUME NEW p \in Procs,
              \/ Start(p) \/ ClientOpens(p) \/ ClientFindsNoServer(p) \/ ClientOpensLast(p)
              \/ ClientWrites(p) \/ ClientFinishes(p) \/ ClientSigpipe(p) \/ ClientKilled(p)
              \/ ClientLostOwn(p) \/ ClientReads(p) \/ ClientAtEof(p) \/ ClientLeaves(p)
              \/ ClientCloses(p) \/ ClientUnlinks(p) \/ ClientGuesses(p) \/ ClientQuits(p)
              \/ ClientSignalled(p) \/ ClientReadsAnyway(p)
       PROVE  WaitsForPlayer'
  <2>1. UNCHANGED <<pc, peer>>
        /\ (UNCHANGED cread \/ cread' = [cread EXCEPT ![p] = FALSE])
    BY <1>11
    DEF Start, ClientOpens, ClientFindsNoServer, ClientOpensLast, ClientWrites, ClientFinishes,
        ClientSigpipe, ClientKilled, Dies, ClientLostOwn, ClientReads, ClientAtEof, ClientLeaves,
        ClientCloses, ClientUnlinks, ClientGuesses, ClientQuits, ClientSignalled, ClientReadsAnyway, own_pipe,
        server, vars
  <2> QED  BY <2>1, <1>2
<1> QED
  BY <1>4, <1>5, <1>6, <1>7, <1>8, <1>9, <1>10, <1>11 DEF BNext, ServerStep, ClientStep

\* For any number of clients and any disturbances, the server and the clients
\* never wait for each other in open() (server.c 129, 537-542; client.c 64, 89).
THEOREM NoCrossedOpens == BSpec => []OpensNeverCross
<1> DEFINE OInv == BInv /\ WaitsForServer /\ WaitsForPlayer
<1>1. BInit => OInv
  BY InitBInv DEF BInit, Init, WaitsForServer, WaitsForPlayer
<1>2. OInv /\ [BNext]_bvars => OInv'
  BY NextBInv, WaitsForServerStays, WaitsForPlayerStays
<1>3. OInv => OpensNeverCross
  BY DEF OpensNeverCross, WaitsForServer, WaitsForPlayer, ServerReading
<1> HIDE DEF OInv
<1> QED  BY <1>1, <1>2, <1>3, PTL DEF BSpec

-------------------------------------------------------------------------------
(***************************************************************************)
(* The lines on their way to the server.                                   *)
(***************************************************************************)

\* Where in a sequence the lines of one type are that speak for the player of p.
From(lines, type, p) == {j \in 1..Len(lines) : lines[j].type = type /\ lines[j].id = IdOf[p]}

AtMostOne(S) == \A j, k \in S : j = k

\* On the way from one place to the next no such line appears or is doubled.
NoMore(before, after, p) ==
    \A type \in {"CONNECT", "DISCONNECT"} :
        /\ From(after, type, p) # {} => From(before, type, p) # {}
        /\ AtMostOne(From(before, type, p)) => AtMostOne(From(after, type, p))

LEMMA NoMoreWhenKept ==
    ASSUME NEW s, NEW p
    PROVE  NoMore(s, s, p) /\ NoMore(s, <<>>, p)
BY DEF NoMore, From, AtMostOne

\* The server takes the first line.
LEMMA NoMoreInTail ==
    ASSUME NEW S, NEW s \in Seq(S), s # <<>>, NEW p
    PROVE  NoMore(s, Tail(s), p)
<1>1. Len(s) \in Nat /\ Len(Tail(s)) = Len(s) - 1  OBVIOUS
<1>2. \A j \in 1..Len(Tail(s)) : Tail(s)[j] = s[j + 1] /\ j + 1 \in 1..Len(s)  BY <1>1
<1>3. ASSUME NEW type, NEW j \in From(Tail(s), type, p) PROVE j + 1 \in From(s, type, p) /\ j \in Int
  BY <1>2 DEF From
<1>4. ASSUME NEW type, AtMostOne(From(s, type, p)) PROVE AtMostOne(From(Tail(s), type, p))
  <2> SUFFICES ASSUME NEW j \in From(Tail(s), type, p), NEW k \in From(Tail(s), type, p) PROVE j = k
    BY DEF AtMostOne
  <2>1. j \in Int /\ k \in Int /\ j + 1 = k + 1  BY <1>3, <1>4 DEF AtMostOne
  <2> QED  BY <2>1
<1> QED  BY <1>3, <1>4 DEF NoMore

\* A client writes an item that is nothing of the kind.
LEMMA NoMoreWithOther ==
    ASSUME NEW S, NEW s \in Seq(S), NEW item \in S, NEW p,
           item.type \notin {"CONNECT", "DISCONNECT"} \/ item.id # IdOf[p]
    PROVE  NoMore(s, Append(s, item), p)
<1> SUFFICES ASSUME NEW type \in {"CONNECT", "DISCONNECT"}
             PROVE  From(Append(s, item), type, p) = From(s, type, p)
  BY DEF NoMore
<1>1. Len(s) \in Nat /\ Len(Append(s, item)) = Len(s) + 1  OBVIOUS
<1>2. \A j \in 1..Len(s) + 1 : Append(s, item)[j] = IF j = Len(s) + 1 THEN item ELSE s[j]  BY <1>1
<1> QED  BY <1>1, <1>2 DEF From

\* A client writes a line.
LEMMA OneMoreWhenWritten ==
    ASSUME NEW S, NEW s \in Seq(S), NEW item \in S, NEW p, NEW type
    PROVE  /\ item.type # type => From(Append(s, item), type, p) = From(s, type, p)
           /\ From(Append(s, item), type, p) \subseteq From(s, type, p) \cup {Len(s) + 1}
<1>1. Len(s) \in Nat /\ Len(Append(s, item)) = Len(s) + 1  OBVIOUS
<1>2. \A j \in 1..Len(s) + 1 : Append(s, item)[j] = IF j = Len(s) + 1 THEN item ELSE s[j]  BY <1>1
<1> QED  BY <1>1, <1>2 DEF From

\* Every place of a finite set of places is the n-th for one n.
LEMMA NthIsThere ==
    ASSUME NEW S \in SUBSET Nat, IsFiniteSet(S), NEW n \in 1..Cardinality(S)
    PROVE  NthOf(S, n) \in S /\ Cardinality({k \in S : k <= NthOf(S, n)}) = n
<1> DEFINE UpTo(i) == {k \in S : k <= i}
           rank == [i \in S |-> Cardinality(UpTo(i))]
<1>1. Cardinality(S) \in Nat  BY FS_CardinalityType
<1>2. ASSUME NEW i \in S
      PROVE  IsFiniteSet(UpTo(i)) /\ Cardinality(UpTo(i)) \in 1..Cardinality(S)
  <2>1. UpTo(i) \in SUBSET S  OBVIOUS
  <2>2. IsFiniteSet(UpTo(i)) /\ Cardinality(UpTo(i)) <= Cardinality(S)  BY <2>1, FS_Subset
  <2>3. Cardinality(UpTo(i)) \in Nat  BY <2>2, FS_CardinalityType
  <2>4. i \in UpTo(i)  BY <1>2
  <2>5. Cardinality(UpTo(i)) # 0
    <3>1. Cardinality(UpTo(i)) = 0 => UpTo(i) = {}  BY <2>2, FS_EmptySet
    <3> QED  BY <2>4, <3>1
  <2> QED  BY <1>1, <2>2, <2>3, <2>5
<1>3. ASSUME NEW i \in S, NEW k \in S, i < k PROVE rank[i] # rank[k]
  <2>1. UpTo(i) \in SUBSET UpTo(k)
    <3>1. \A j, a, b \in Nat : j <= a /\ a < b => j <= b  OBVIOUS
    <3> QED  BY <1>3, <3>1
  <2>2. k \in UpTo(k) /\ k \notin UpTo(i)  BY <1>3
  <2>3. UpTo(i) # UpTo(k)  BY <2>2
  <2>4. IsFiniteSet(UpTo(k))  BY <1>2
  <2>5. Cardinality(UpTo(i)) # Cardinality(UpTo(k))  BY <2>1, <2>3, <2>4, FS_Subset
  <2> QED  BY <2>5
<1>4. rank \in Injection(S, 1..Cardinality(S))
  <2>1. rank \in [S -> 1..Cardinality(S)]  BY <1>2
  <2>2. \A i, k \in S : rank[i] = rank[k] => i = k
    <3> SUFFICES ASSUME NEW i \in S, NEW k \in S, i # k PROVE rank[i] # rank[k]  OBVIOUS
    <3>1. i < k \/ k < i  OBVIOUS
    <3> HIDE DEF rank
    <3> QED  BY <1>3, <3>1
  <2> QED  BY <2>1, <2>2 DEF Injection, IsInjective
<1>5. IsFiniteSet(1..Cardinality(S)) /\ Cardinality(1..Cardinality(S)) = Cardinality(S)
  BY <1>1, FS_Interval
<1>6. rank \in Surjection(S, 1..Cardinality(S))  BY <1>4, <1>5, FS_Injection
<1>7. PICK i \in S : rank[i] = n  BY <1>6 DEF Surjection
<1>8. Cardinality({k \in S : k <= i}) = n  BY <1>7
<1> QED  BY <1>8 DEF NthOf

\* Each line that game_loop finds has the type and the id of an item of its own.
LEMMA NoMoreWhenCut ==
    ASSUME NEW S, NEW s \in Seq(S), NEW p, \A item \in S : DOMAIN item = {"type", "id", "arg"}
    PROVE  NoMore(s, LinesOf(s), p)
<1> DEFINE starts == Starts(s)
           nth(n) == NthOf(starts, n)
<1>1. Len(s) \in Nat /\ starts \in SUBSET (1..Len(s))  BY DEF Starts
<1>2. IsFiniteSet(starts)
  <2>1. IsFiniteSet(1..Len(s))  BY <1>1, FS_Interval
  <2> HIDE DEF starts
  <2> QED  BY <1>1, <2>1, FS_Subset
<1>3. Cardinality(starts) \in Nat  BY <1>2, FS_CardinalityType
<1>4. starts \in SUBSET Nat
  <2>1. 1..Len(s) \subseteq Nat  BY <1>1
  <2> QED  BY <1>1, <2>1
<1>5. \A n \in 1..Cardinality(starts) :
          nth(n) \in starts /\ Cardinality({k \in starts : k <= nth(n)}) = n
  BY <1>2, <1>4, NthIsThere
<1> HIDE DEF starts
<1>6. \A i \in 1..Len(s) : LineAt(s, i).type = s[i].type /\ LineAt(s, i).id = s[i].id
  <2> TAKE i \in 1..Len(s)
  <2>1. s[i] \in S  OBVIOUS
  <2>2. [s[i] EXCEPT !.arg = "garbled"].type = s[i].type /\ [s[i] EXCEPT !.arg = "garbled"].id = s[i].id
    BY <2>1
  <2> QED  BY <2>2 DEF LineAt
<1>7. LinesOf(s) = [n \in 1..Cardinality(starts) |-> LineAt(s, nth(n))]
  BY DEF LinesOf, starts
<1> HIDE DEF nth
<1>8. Len(LinesOf(s)) = Cardinality(starts)  BY <1>3, <1>7
<1>9. ASSUME NEW type, NEW n \in From(LinesOf(s), type, p)
      PROVE  n \in 1..Cardinality(starts) /\ nth(n) \in From(s, type, p)
  <2>1. n \in 1..Cardinality(starts) /\ LinesOf(s)[n] = LineAt(s, nth(n))
    BY <1>7, <1>8 DEF From
  <2>2. nth(n) \in 1..Len(s)  BY <1>1, <1>5, <2>1
  <2> QED  BY <1>6, <2>1, <2>2 DEF From
<1>10. ASSUME NEW type, AtMostOne(From(s, type, p)) PROVE AtMostOne(From(LinesOf(s), type, p))
  <2> SUFFICES ASSUME NEW m \in From(LinesOf(s), type, p), NEW n \in From(LinesOf(s), type, p)
               PROVE  m = n
    BY DEF AtMostOne
  <2>1. nth(m) = nth(n)  BY <1>9, <1>10 DEF AtMostOne
  <2>2. m \in 1..Cardinality(starts) /\ n \in 1..Cardinality(starts)  BY <1>9
  <2>3. Cardinality({k \in starts : k <= nth(m)}) = m  BY <1>5, <2>2
  <2>4. Cardinality({k \in starts : k <= nth(n)}) = n  BY <1>5, <2>2
  <2> QED  BY <2>1, <2>3, <2>4
<1> QED  BY <1>9, <1>10 DEF NoMore

-------------------------------------------------------------------------------
(***************************************************************************)
(* The names of the clients' pipes, while every client has an id of its    *)
(* own.  A client asks for a seat once: until the line is written, while   *)
(* it is in the server's pipe, while the server holds it and when it has   *)
(* led to a seat, it is in none of the other places.  It says that it      *)
(* leaves when it runs no more.                                            *)
(***************************************************************************)
OwnIds == \A p, q \in Procs : IdOf[p] = IdOf[q] => p = q

Unsent(p) ==
    \/ cpc[p] = "new"
    \/ cpc[p] \in {"open", "blocked", "write"} /\ line_out[p].type = "CONNECT"

\* Before its cleanup.
Running(p) ==
    \/ cpc[p] \in Connected
    \/ cpc[p] \in {"open", "blocked", "write", "newline"} /\ line_out[p].type # "DISCONNECT"

InPipe(type, p) == From(srv_buf, type, p)
InHand(type, p) == From(inbox, type, p)

AsksOnce(p) ==
    /\ Unsent(p) => InPipe("CONNECT", p) = {} /\ InHand("CONNECT", p) = {} /\ SeatsOf(p) = {}
    /\ InPipe("CONNECT", p) # {} => InHand("CONNECT", p) = {} /\ SeatsOf(p) = {}
    /\ InHand("CONNECT", p) # {} => SeatsOf(p) = {}
    /\ AtMostOne(InPipe("CONNECT", p)) /\ AtMostOne(InHand("CONNECT", p)) /\ AtMostOne(SeatsOf(p))

LeavesLast(p) ==
    InPipe("DISCONNECT", p) # {} \/ InHand("DISCONNECT", p) # {} => cpc[p] # "new" /\ ~Running(p)

\* It sends its own lines, and does not wait for the server with the last one.
OwnLine(p) ==
    /\ cpc[p] \in {"open", "blocked", "write", "newline"} => line_out[p].id = IdOf[p]
    /\ cpc[p] = "blocked" => line_out[p].type # "DISCONNECT"

\* Whoever has a seat, or may still get one.
Asking(p) == Unsent(p) \/ InPipe("CONNECT", p) # {} \/ InHand("CONNECT", p) # {}

NameKept(p) == Running(p) /\ (Asking(p) \/ Seated(p)) => path[IdOf[p]] = p

Kept(p) == AsksOnce(p) /\ LeavesLast(p) /\ OwnLine(p) /\ NameKept(p)

KInv == BInv /\ \A p \in Procs : Kept(p)

LEMMA InitKInv == BInit => KInv
<1> SUFFICES ASSUME BInit PROVE KInv  OBVIOUS
<1>1. BInv  BY InitBInv
<1>2. ASSUME NEW p \in Procs PROVE Kept(p)
  <2>1. cpc[p] = "new" /\ srv_buf = <<>> /\ inbox = <<>> /\ players = <<>>
    BY <1>2 DEF BInit, Init
  <2>2. \A type : InPipe(type, p) = {} /\ InHand(type, p) = {}  BY <2>1 DEF InPipe, InHand, From
  <2>3. SeatsOf(p) = {}  BY <2>1 DEF SeatsOf
  <2>4. AsksOnce(p)  BY <2>2, <2>3 DEF AsksOnce, AtMostOne
  <2>5. LeavesLast(p) /\ OwnLine(p) /\ NameKept(p)
    BY <2>1, <2>2 DEF LeavesLast, OwnLine, NameKept, Running, Connected
  <2> QED  BY <2>4, <2>5 DEF Kept
<1> QED  BY <1>1, <1>2 DEF KInv

\* How a client goes on: it does not ask again and, once it runs no more, never runs
\* again.
GoesOn(p) ==
    /\ Unsent(p)' => Unsent(p)
    /\ Running(p)' => Running(p)
    /\ cpc'[p] = "new" => cpc[p] = "new"
    /\ OwnLine(p)'

LEMMA KeptWhenGoingOn ==
    ASSUME NEW p \in Procs, Kept(p), GoesOn(p),
           NoMore(srv_buf, srv_buf', p), NoMore(inbox, inbox', p),
           SeatsOf(p)' = SeatsOf(p), Seated(p)' => Seated(p),
           \/ path'[IdOf[p]] = path[IdOf[p]]
           \/ ~Running(p)'
           \/ ~Asking(p) /\ ~Seated(p)
    PROVE  Kept(p)'
<1>1. \A type \in {"CONNECT", "DISCONNECT"} :
          /\ InPipe(type, p)' # {} => InPipe(type, p) # {}
          /\ InHand(type, p)' # {} => InHand(type, p) # {}
  BY DEF NoMore, InPipe, InHand, From
<1>2. /\ AtMostOne(InPipe("CONNECT", p)) => AtMostOne(InPipe("CONNECT", p)')
      /\ AtMostOne(InHand("CONNECT", p)) => AtMostOne(InHand("CONNECT", p)')
  BY DEF NoMore, InPipe, InHand, From
<1>3. AtMostOne(SeatsOf(p)) => AtMostOne(SeatsOf(p)')  OBVIOUS
<1>4. AsksOnce(p)'
  <2>1. Unsent(p)' => InPipe("CONNECT", p)' = {} /\ InHand("CONNECT", p)' = {} /\ SeatsOf(p)' = {}
    BY <1>1 DEF GoesOn, Kept, AsksOnce
  <2>2. InPipe("CONNECT", p)' # {} => InHand("CONNECT", p)' = {} /\ SeatsOf(p)' = {}
    BY <1>1 DEF Kept, AsksOnce
  <2>3. InHand("CONNECT", p)' # {} => SeatsOf(p)' = {}
    BY <1>1 DEF Kept, AsksOnce
  <2>4. AtMostOne(InPipe("CONNECT", p)') /\ AtMostOne(InHand("CONNECT", p)') /\ AtMostOne(SeatsOf(p)')
    BY <1>2, <1>3 DEF Kept, AsksOnce
  <2> QED  BY <2>1, <2>2, <2>3, <2>4 DEF AsksOnce, AtMostOne
<1>5. LeavesLast(p)'
  <2>1. InPipe("DISCONNECT", p)' # {} \/ InHand("DISCONNECT", p)' # {} => cpc'[p] # "new" /\ ~Running(p)'
    BY <1>1 DEF GoesOn, Kept, LeavesLast
  <2> QED  BY <2>1 DEF LeavesLast
<1>6. NameKept(p)'
  <2>1. Asking(p)' => Asking(p)
    <3>1. InPipe("CONNECT", p)' # {} \/ InHand("CONNECT", p)' # {} => Asking(p)  BY <1>1 DEF Asking
    <3>2. Unsent(p)' => Asking(p)  BY DEF GoesOn, Asking
    <3> QED  BY <3>1, <3>2 DEF Asking
  <2>2. Running(p)' /\ (Asking(p)' \/ Seated(p)') => path'[IdOf[p]] = p
    BY <2>1 DEF GoesOn, Kept, NameKept
  <2> QED  BY <2>2 DEF NameKept
<1> QED  BY <1>4, <1>5, <1>6 DEF GoesOn, Kept

\* A process changes its place by itself, or the server's end of the pipe lets it go on.
LEMMA ClientGoesOn ==
    ASSUME ClientsOK, NEW p \in Procs, OwnLine(p), [BNext]_bvars, ~Start(p)
    PROVE  GoesOn(p)
<1> USE DEF GoesOn, Unsent, Running, Connected, OwnLine
<1>1. ASSUME cpc'[p] = cpc[p], line_out'[p] = line_out[p] PROVE GoesOn(p)
  BY <1>1
<1>2. CASE \/ ServerAlone \/ ServerStats \/ ServerDisconnects \/ ServerOpens \/ ServerWrites
           \/ ServerFinishes \/ ServerReads \/ ServerAtEof \/ ServerIdles \/ ServerCloses
           \/ ServerExits \/ ServerCleansUp \/ ServerSweeps \/ KilledServer \/ ServerInterrupted
           \/ ServerCallFails \/ UNCHANGED bvars
  <2>1. UNCHANGED <<cpc, line_out>>
    BY <1>2 DEF ServerAlone, ServerStats, ServerDisconnects, ServerOpens, ServerWrites, ServerFinishes,
       ServerReads, ServerAtEof, ServerIdles, ServerCloses, ServerExits, ServerCleansUp, ServerSweeps,
       KilledServer, ServerInterrupted, ServerCallFails, clients, bvars
  <2> QED  BY <1>1, <2>1
<1>3. CASE ServerReopens
  <2>1. line_out' = line_out /\ cpc'[p] = IF cpc[p] = "blocked" THEN "write" ELSE cpc[p]
    BY <1>3 DEF ServerReopens
  <2> QED  BY <2>1
<1>4. cpc \in [Procs -> Places] /\ line_out \in [Procs -> Line]  BY DEF ClientsOK
<1>5. ASSUME NEW q \in Procs, NEW type, NEW arg, Prepare(q, type, arg)
      PROVE  /\ q # p => cpc'[p] = cpc[p] /\ line_out'[p] = line_out[p]
             /\ q = p => /\ cpc'[p] = "open" /\ line_out'[p].type = type
                         /\ line_out'[p].id = IdOf[p]
  BY <1>4, <1>5 DEF Prepare, Goto
<1>6. ASSUME NEW q \in Procs, NEW where, Goto(q, where)
      PROVE  /\ q # p => cpc'[p] = cpc[p]
             /\ q = p => cpc'[p] = where
  BY <1>4, <1>6 DEF Goto
<1>7. ASSUME NEW q \in Procs, Start(q) PROVE GoesOn(p)
  <2>1. q # p  BY <1>7
  <2> QED  BY <1>1, <1>5, <1>7, <2>1 DEF Start
<1>8. ASSUME NEW q \in Procs,
             ClientOpens(q) \/ ClientFindsNoServer(q) \/ ClientOpensLast(q) \/ ClientWrites(q)
      PROVE  GoesOn(p)
  <2>1. CASE ClientOpens(q)  BY <1>6, <2>1 DEF ClientOpens
  <2>2. CASE ClientFindsNoServer(q)
    <3>1. CASE Prepare(q, "DISCONNECT", "none")  BY <1>5, <3>1
    <3>2. CASE Goto(q, "loop") /\ UNCHANGED line_out /\ line_out[q].type # "DISCONNECT" /\ cpc[q] = "open"
      BY <1>6, <3>2
    <3> QED  BY <2>2, <3>1, <3>2 DEF ClientFindsNoServer, ConnectFails
  <2>3. CASE ClientOpensLast(q)
    <3>1. CASE Goto(q, "write") /\ UNCHANGED line_out /\ cpc[q] = "open" /\ line_out[q].type = "DISCONNECT"
      BY <1>6, <3>1
    <3>2. CASE Goto(q, "closing") /\ line_out' = [line_out EXCEPT ![q] = NoLine]
      BY <1>4, <1>6, <3>2
    <3> QED  BY <2>3, <3>1, <3>2 DEF ClientOpensLast
  <2>4. CASE ClientWrites(q)  BY <1>6, <2>4 DEF ClientWrites
  <2> QED  BY <1>8, <2>1, <2>2, <2>3, <2>4
<1>9. ASSUME NEW q \in Procs, ClientFinishes(q) PROVE GoesOn(p)
  <2>1. /\ cpc[q] = "newline" /\ line_out' = [line_out EXCEPT ![q] = NoLine]
        /\ \/ Goto(q, "connected") /\ line_out[q].type = "CONNECT"
           \/ Goto(q, "loop") /\ line_out[q].type = "GUESS"
           \/ Goto(q, "closing")
    BY <1>9 DEF ClientFinishes
  <2>2. cpc'[q] \in {"connected", "loop", "closing"} /\ (line_out[q].type = "DISCONNECT" => cpc'[q] = "closing")
    BY <1>4, <2>1 DEF Goto
  <2>3. CASE q = p  BY <2>1, <2>2, <2>3
  <2>4. CASE q # p  BY <1>1, <1>4, <2>1, <2>4 DEF Goto
  <2> QED  BY <2>3, <2>4
<1>10. ASSUME NEW q \in Procs, ClientSigpipe(q) \/ ClientKilled(q) PROVE GoesOn(p)
  <2>1. Goto(q, "dead") /\ line_out' = [line_out EXCEPT ![q] = NoLine]
    BY <1>10 DEF ClientSigpipe, ClientKilled, Dies
  <2> QED  BY <1>4, <1>6, <2>1
<1>11. ASSUME NEW q \in Procs,
              ClientOpensOwn(q) \/ ClientLostOwn(q) \/ ClientAtEof(q) \/ ClientLeaves(q) \/ ClientCloses(q)
              \/ ClientUnlinks(q) \/ ClientReadsAnyway(q)
       PROVE  GoesOn(p)
  <2>1. CASE ClientOpensOwn(q)  BY <1>6, <2>1 DEF ClientOpensOwn, IterationEnds
  <2>2. CASE ClientLostOwn(q)
    <3>1. CASE Prepare(q, "DISCONNECT", "none")  BY <1>5, <3>1
    <3>2. CASE IterationEnds(q) /\ UNCHANGED line_out /\ cpc[q] = "gap"
      BY <1>6, <3>2 DEF IterationEnds
    <3> QED  BY <2>2, <3>1, <3>2 DEF ClientLostOwn, ConnectFails
  <2>3. CASE ClientAtEof(q)  BY <1>6, <2>3 DEF ClientAtEof
  <2>4. CASE ClientLeaves(q)  BY <1>5, <2>4 DEF ClientLeaves
  <2>5. CASE ClientCloses(q)
    <3>1. line_out' = line_out /\ ((Goto(q, "gap") /\ cpc[q] = "eof") \/ Goto(q, "unlink"))
      BY <2>5 DEF ClientCloses
    <3> QED  BY <1>6, <3>1
  <2>6. CASE ClientUnlinks(q)  BY <1>6, <2>6 DEF ClientUnlinks
  <2>7. CASE ClientReadsAnyway(q)  BY <1>6, <2>7 DEF ClientReadsAnyway
  <2> QED  BY <1>11, <2>1, <2>2, <2>3, <2>4, <2>5, <2>6, <2>7
<1>12. ASSUME NEW q \in Procs, ClientGuesses(q) \/ ClientReads(q) PROVE GoesOn(p)
  <2>1. /\ cpc[q] \in {"fgets", "loop"}
        /\ (\E word \in Words : Prepare(q, "GUESS", word)) \/ UNCHANGED <<cpc, line_out>>
    BY <1>12 DEF ClientGuesses, ClientReads, Guesses
  <2> QED  BY <1>1, <1>5, <2>1
<1>13. ASSUME NEW q \in Procs, ClientQuits(q) \/ ClientSignalled(q) PROVE GoesOn(p)
  <2>1. \/ UNCHANGED <<cpc, line_out>>
        \/ cpc[q] \in {"fgets", "loop"} /\ UNCHANGED line_out /\ (Goto(q, "loop") \/ Goto(q, "interrupted"))
        \/ Prepare(q, "DISCONNECT", "none")
        \/ cpc[q] = "blocked" /\ UNCHANGED line_out /\ Goto(q, "loop")
    BY <1>13 DEF ClientQuits, ClientSignalled, ConnectFails
  <2> QED  BY <1>1, <1>5, <1>6, <2>1
<1> QED
  BY <1>1, <1>2, <1>3, <1>7, <1>8, <1>9, <1>10, <1>11, <1>12, <1>13 DEF BNext, ServerStep, ClientStep

\* A seat is given by handle_client_connect alone.
Joins(p) == HandleConnect(TRUE) /\ line.id = IdOf[p]

LEMMA SeatsStay ==
    ASSUME IInv, NEW p \in Procs, [Next]_vars, ~Joins(p)
    PROVE  SeatsOf(p)' = SeatsOf(p) /\ (Seated(p)' => Seated(p))
<1> USE DEF SeatsOf, Seated
<1>1. players \in Seq(Seat)  BY DEF IInv, TypeOK, Seat
<1>2. ASSUME players' = players
      PROVE  SeatsOf(p)' = SeatsOf(p) /\ (Seated(p)' => Seated(p))
  BY <1>2
<1>3. ASSUME NEW k \in ActiveSeats, players' = Deactivated(k)
      PROVE  SeatsOf(p)' = SeatsOf(p) /\ (Seated(p)' => Seated(p))
  <2>1. /\ Len(players') = Len(players)
        /\ \A m \in 1..Len(players) : players'[m].id = players[m].id
    BY <1>1, <1>3, TakenOff DEF player_count
  <2>2. SeatsOf(p)' = SeatsOf(p)  BY <2>1
  <2>3. ActiveIn(players') = ActiveSeats \ {k}  BY <1>1, <1>3, TakenOff
  <2>4. \A m \in 1..Len(players) : players'[m].active => players[m].active
    BY <2>1, <2>3 DEF ActiveIn, ActiveSeats, player_count
  <2>5. Seated(p)' => Seated(p)  BY <2>2, <2>4
  <2> QED  BY <2>2, <2>5
<1>4. ASSUME NEW found \in BOOLEAN, HandleConnect(found)
      PROVE  SeatsOf(p)' = SeatsOf(p) /\ (Seated(p)' => Seated(p))
  <2>1. CASE ~found  BY <1>2, <1>4, <2>1 DEF HandleConnect
  <2>2. CASE found
    <3>1. line.id # IdOf[p]  BY <1>4, <2>2 DEF Joins, HandleConnect
    <3>2. line.id \in Ids  BY <1>4, LineTyped DEF HandleConnect, Parsed, IInv, TypeOK
    <3>3. players' = Append(players, [id |-> line.id, active |-> TRUE])
      BY <1>4, <2>2 DEF HandleConnect
    <3>4. /\ Len(players') = Len(players) + 1
          /\ \A m \in 1..Len(players) : players'[m] = players[m]
          /\ players'[Len(players) + 1].id = line.id
      BY <1>1, <3>2, <3>3, Joined DEF player_count
    <3>5. Len(players) \in Nat  BY <1>1
    <3>6. \A m : m \in 1..Len(players') <=> m \in 1..Len(players) \/ m = Len(players) + 1
      BY <3>4, <3>5
    <3>7. SeatsOf(p)' = SeatsOf(p)  BY <3>1, <3>4, <3>6
    <3> QED  BY <3>4, <3>7
  <2> QED  BY <2>1, <2>2
<1>5. ASSUME \/ \E found \in BOOLEAN : BroadcastNext(found)
             \/ \E result \in {"ok", "ENOENT"} : SendOpen(result)
             \/ \E reader \in BOOLEAN : SendWrite(reader)
      PROVE  players' = players \/ (players' = Deactivated(out.to) /\ out.to \in ActiveSeats)
  BY <1>5 DEF BroadcastNext, SendOpen, SendWrite, IInv, SendsToASeat
<1>6. ASSUME HandleDisconnect
      PROVE  \E k \in ActiveSeats : players' = Deactivated(k)
  BY <1>1, <1>6, Found DEF HandleDisconnect, MayDisconnect, IInv
<1>7. ASSUME \/ \E reader \in BOOLEAN : SendNewline(reader) \/ KilledBySigpipe(reader)
             \/ \E sig \in {"SIGINT", "SIGTERM"} : Interrupt(sig) \/ KilledBySignal(sig)
             \/ \E batch \in Seq(Line) : Read(batch)
             \/ BroadcastSkip \/ BroadcastDone \/ DropLine \/ Welcomed \/ Won \/ Left
             \/ HandleInvalidGuess \/ HandleWrongGuess \/ HandleRightGuess
             \/ Wait \/ NothingRead \/ LinesDone \/ ReadEof \/ CloseOnEof \/ Reopen \/ Exit
             \/ SendFails \/ SelectFails \/ ReopenFails \/ UNCHANGED vars
      PROVE  players' = players
  BY <1>7 DEF SendNewline, KilledBySigpipe, Interrupt, KilledBySignal, Read, BroadcastSkip,
     BroadcastDone, DropLine, Welcomed, Won, Left, HandleInvalidGuess, HandleWrongGuess,
     HandleRightGuess, Wait, NothingRead, LinesDone, ReadEof, CloseOnEof, Reopen, Exit, SendFails,
     SelectFails, ReopenFails, table, vars
<1> QED  BY <1>2, <1>3, <1>4, <1>5, <1>6, <1>7 DEF Next, Step

\* The lines in the server's hand go one by one, until it has read again.
LEMMA HandStays ==
    ASSUME IInv, NEW p \in Procs, [BNext]_bvars, ~ServerReads
    PROVE  NoMore(inbox, inbox', p)
<1> DEFINE Goal == inbox' = inbox \/ (inbox # <<>> /\ inbox' = Tail(inbox))
<1>1. ASSUME ServerAlone PROVE Goal
  <2>1. ASSUME BroadcastSkip \/ BroadcastDone \/ Welcomed \/ Won \/ Left \/ Wait \/ LinesDone PROVE Goal
    BY <2>1 DEF BroadcastSkip, BroadcastDone, Welcomed, Won, Left, Wait, LinesDone
  <2>2. ASSUME DropLine \/ HandleInvalidGuess \/ HandleWrongGuess \/ HandleRightGuess PROVE Goal
    BY <2>2 DEF DropLine, HandleInvalidGuess, HandleWrongGuess, HandleRightGuess, Parsed
  <2> HIDE DEF Goal
  <2> QED  BY <1>1, <2>1, <2>2 DEF ServerAlone
<1>2. ASSUME ServerStats \/ ServerDisconnects PROVE Goal
  <2>1. ASSUME NEW found, BroadcastNext(found) \/ HandleConnect(found) PROVE Goal
    BY <2>1 DEF BroadcastNext, HandleConnect, Parsed
  <2>2. ASSUME HandleDisconnect PROVE Goal  BY <2>2 DEF HandleDisconnect, Parsed
  <2> HIDE DEF Goal
  <2> QED  BY <1>2, <2>1, <2>2 DEF ServerStats, ServerDisconnects
<1>3. ASSUME \/ ServerOpens \/ ServerWrites \/ ServerFinishes \/ ServerInterrupted
             \/ \E q \in Procs : ClientOpensOwn(q)
      PROVE  inbox' = inbox
  BY <1>3 DEF ServerOpens, ServerWrites, ServerFinishes, ServerInterrupted, ClientOpensOwn, SendOpen,
     SendWrite, SendNewline, Interrupt, server, vars
<1>4. ASSUME ServerAtEof \/ ServerIdles \/ ServerCloses \/ ServerReopens \/ ServerExits \/ KilledServer
             \/ ServerCallFails
      PROVE  inbox' = inbox
  BY <1>4 DEF ServerAtEof, ServerIdles, ServerCloses, ServerReopens, ServerExits, KilledServer,
     ServerCallFails, SendFails, SelectFails, table, ReadEof, NothingRead, CloseOnEof, Reopen, Exit, KilledBySigpipe, KilledBySignal
<1>5. ASSUME ServerCleansUp \/ ServerSweeps \/ UNCHANGED bvars PROVE inbox' = inbox
  BY <1>5 DEF ServerCleansUp, ServerSweeps, bvars, server, vars
<1>6. ASSUME NEW q \in Procs,
             \/ Start(q) \/ ClientOpens(q) \/ ClientFindsNoServer(q) \/ ClientOpensLast(q)
             \/ ClientWrites(q) \/ ClientFinishes(q) \/ ClientSigpipe(q) \/ ClientKilled(q)
             \/ ClientLostOwn(q) \/ ClientReads(q) \/ ClientAtEof(q) \/ ClientLeaves(q)
             \/ ClientCloses(q) \/ ClientUnlinks(q) \/ ClientGuesses(q) \/ ClientQuits(q)
             \/ ClientSignalled(q) \/ ClientReadsAnyway(q)
      PROVE  inbox' = inbox
  BY <1>6 DEF Start, ClientOpens, ClientFindsNoServer, ClientOpensLast, ClientWrites, ClientFinishes,
     ClientSigpipe, ClientKilled, Dies, ClientLostOwn, ClientReads, ClientAtEof, ClientLeaves,
     ClientCloses, ClientUnlinks, ClientGuesses, ClientQuits, ClientSignalled, ClientReadsAnyway,
     server, vars
<1>7. Goal
  <2>1. inbox' = inbox => Goal  OBVIOUS
  <2> HIDE DEF Goal
  <2> QED
    BY <1>1, <1>2, <1>3, <1>4, <1>5, <1>6, <2>1 DEF BNext, ServerStep, ClientStep
<1>8. inbox \in Seq(Line)  BY DEF IInv, TypeOK
<1> QED  BY <1>7, <1>8, NoMoreWhenKept, NoMoreInTail

\* The server's pipe loses everything, or gets what a client writes.
LEMMA PipeStays ==
    ASSUME ClientsOK, NEW p \in Procs, [BNext]_bvars, ~ClientWrites(p), OwnIds,
           \A q \in Procs : OwnLine(q)
    PROVE  NoMore(srv_buf, srv_buf', p)
<1>0. /\ srv_buf \in Seq(Line \cup {NL}) /\ cpc \in [Procs -> Places]
      /\ line_out \in [Procs -> Line]
  BY DEF ClientsOK
<1>1. ASSUME srv_buf' \in {srv_buf, <<>>} PROVE NoMore(srv_buf, srv_buf', p)
  BY <1>1, NoMoreWhenKept
<1>2. ASSUME \/ ServerAlone \/ ServerStats \/ ServerDisconnects \/ ServerOpens \/ ServerWrites
             \/ ServerFinishes \/ ServerReads \/ ServerAtEof \/ ServerIdles \/ ServerCloses
             \/ ServerReopens \/ ServerExits \/ ServerCleansUp \/ ServerSweeps \/ KilledServer
             \/ ServerInterrupted \/ ServerCallFails \/ UNCHANGED bvars
      PROVE  srv_buf' \in {srv_buf, <<>>}
  BY <1>2 DEF ServerAlone, ServerStats, ServerDisconnects, ServerOpens, ServerWrites, ServerFinishes,
     ServerReads, ServerAtEof, ServerIdles, ServerCloses, ServerReopens, ServerExits, ServerCleansUp,
     ServerSweeps, KilledServer, ServerInterrupted, ServerCallFails, srv_pipe, bvars
<1>3. ASSUME NEW q \in Procs,
             \/ Start(q) \/ ClientOpens(q) \/ ClientFindsNoServer(q) \/ ClientOpensLast(q)
             \/ ClientSigpipe(q) \/ ClientKilled(q) \/ ClientOpensOwn(q)
             \/ ClientLostOwn(q) \/ ClientReads(q) \/ ClientAtEof(q) \/ ClientLeaves(q)
             \/ ClientCloses(q) \/ ClientUnlinks(q) \/ ClientGuesses(q) \/ ClientQuits(q)
             \/ ClientSignalled(q) \/ ClientReadsAnyway(q)
      PROVE  srv_buf' \in {srv_buf, <<>>}
  BY <1>3 DEF Start, ClientOpens, ClientFindsNoServer, ClientOpensLast, ClientSigpipe, ClientKilled,
     Dies, LeftBy, ClientOpensOwn, ClientLostOwn, ClientReads, ClientAtEof, ClientLeaves,
     ClientCloses, ClientUnlinks, ClientGuesses, ClientQuits, ClientSignalled, ClientReadsAnyway,
     srv_pipe
<1>4. ASSUME NEW q \in Procs, ClientWrites(q) PROVE NoMore(srv_buf, srv_buf', p)
  <2>1. q # p /\ cpc[q] = "write" /\ srv_buf' = Append(srv_buf, line_out[q])
    BY <1>4 DEF ClientWrites
  <2>2. line_out[q].id # IdOf[p]  BY <2>1 DEF OwnLine, OwnIds
  <2>3. line_out[q] \in Line \cup {NL}  BY <1>0
  <2> QED  BY <1>0, <2>1, <2>2, <2>3, NoMoreWithOther
<1>5. ASSUME NEW q \in Procs, ClientFinishes(q) PROVE NoMore(srv_buf, srv_buf', p)
  <2>1. srv_buf' = Append(srv_buf, NL)  BY <1>5 DEF ClientFinishes
  <2>2. NL.type \notin {"CONNECT", "DISCONNECT"} /\ NL \in Line \cup {NL}  BY DEF NL
  <2> QED  BY <1>0, <2>1, <2>2, NoMoreWithOther
<1> QED  BY <1>1, <1>2, <1>3, <1>4, <1>5 DEF BNext, ServerStep, ClientStep

\* Who takes the name of p's pipe away: the server for a player that leaves or that is
\* off the table, or p itself, at its end.
NameTaken(p) ==
    \/ ServerDisconnects /\ line.id = IdOf[p]
    \/ (ServerSweeps \/ ServerCleansUp) /\ IdOf[p] \in InactiveIds

LEMMA NameStays ==
    ASSUME BInv, NEW p \in Procs, [BNext]_bvars, ~Start(p), ~NameTaken(p), OwnIds
    PROVE  path'[IdOf[p]] = path[IdOf[p]] \/ ~Running(p)'
<1>0. path \in [Ids -> Procs \cup {None}] /\ cpc \in [Procs -> Places] /\ line_out \in [Procs -> Line]
  BY DEF BInv, PathOK, ClientsOK
<1>1. IdOf[p] \in Ids /\ \A q \in Procs : q # p => IdOf[q] # IdOf[p]
  BY ProcsAssumption DEF OwnIds
<1>2. CASE ServerDisconnects  BY <1>0, <1>1, <1>2 DEF NameTaken, ServerDisconnects
<1>3. CASE ServerSweeps \/ ServerCleansUp
  BY <1>0, <1>1, <1>3 DEF NameTaken, ServerSweeps, ServerCleansUp, Unlinked
<1>4. ASSUME NEW q \in Procs, Start(q) PROVE path'[IdOf[p]] = path[IdOf[p]]
  <2>1. q # p  BY <1>4
  <2> QED  BY <1>0, <1>1, <1>4, <2>1 DEF Start
<1>5. ASSUME NEW q \in Procs, \/ ClientFindsNoServer(q) \/ ClientLostOwn(q) \/ ClientSignalled(q)
             \/ ClientUnlinks(q)
      PROVE  path'[IdOf[p]] = path[IdOf[p]] \/ ~Running(p)'
  <2>1. CASE UNCHANGED path  BY <2>1
  <2>2. CASE q # p /\ path' = [path EXCEPT ![IdOf[q]] = None]  BY <1>0, <1>1, <2>2
  <2>3. CASE q = p /\ Prepare(p, "DISCONNECT", "none")
    BY <1>0, <2>3 DEF Prepare, Goto, Running, Connected
  <2>4. CASE q = p /\ Goto(p, "gone")  BY <1>0, <2>4 DEF Goto, Running, Connected
  <2> QED
    BY <1>5, <2>1, <2>2, <2>3, <2>4
    DEF ClientFindsNoServer, ClientLostOwn, ClientSignalled, ConnectFails, ClientUnlinks
<1>6. ASSUME \/ ServerAlone \/ ServerStats \/ ServerOpens \/ ServerWrites \/ ServerFinishes
             \/ ServerReads \/ ServerAtEof \/ ServerIdles \/ ServerCloses \/ ServerReopens
             \/ ServerExits \/ KilledServer \/ ServerInterrupted \/ ServerCallFails
             \/ UNCHANGED bvars
      PROVE  UNCHANGED path
  BY <1>6 DEF ServerAlone, ServerStats, ServerOpens, ServerWrites, ServerFinishes, ServerReads,
     ServerAtEof, ServerIdles, ServerCloses, ServerReopens, ServerExits, KilledServer,
     ServerInterrupted, ServerCallFails, bvars
<1>7. ASSUME NEW q \in Procs,
             \/ ClientOpens(q) \/ ClientOpensLast(q) \/ ClientWrites(q) \/ ClientFinishes(q)
             \/ ClientSigpipe(q) \/ ClientKilled(q) \/ ClientOpensOwn(q)
             \/ ClientReads(q) \/ ClientReadsAnyway(q) \/ ClientAtEof(q) \/ ClientLeaves(q) \/ ClientCloses(q)
             \/ ClientGuesses(q) \/ ClientQuits(q)
      PROVE  UNCHANGED path
  BY <1>7 DEF ClientOpens, ClientOpensLast, ClientWrites, ClientFinishes, ClientSigpipe,
     ClientKilled, Dies, ClientOpensOwn, ClientReads, ClientReadsAnyway, ClientAtEof, ClientLeaves,
     ClientCloses, ClientGuesses, ClientQuits
<1> QED
  BY <1>2, <1>3, <1>4, <1>5, <1>6, <1>7 DEF BNext, ServerStep, ClientStep

\* The first line in the server's hand is one place of its kind.
LEMMA FirstInHand ==
    ASSUME inbox \in Seq(Line), inbox # <<>>, NEW p, line.id = IdOf[p], NEW type, line.type = type
    PROVE  1 \in InHand(type, p)
<1>1. Len(inbox) \in Nat /\ Len(inbox) >= 1 /\ line = inbox[1]  BY DEF line
<1> QED  BY <1>1 DEF InHand, From

\* A client that has asked is given its seat.
LEMMA KeptWhenJoining ==
    ASSUME KInv, OwnIds, NEW p \in Procs, [BNext]_bvars, Joins(p)
    PROVE  Kept(p)'
<1>1. inbox \in Seq(Line) /\ players \in Seq(Seat)  BY DEF KInv, BInv, NInv, IInv, TypeOK, Seat
<1>2. inbox # <<>> /\ line.type = "CONNECT" /\ line.id = IdOf[p] /\ inbox' = Tail(inbox)
  BY DEF Joins, HandleConnect, Parsed
<1>3. inbox' # inbox  BY <1>1, <1>2
<1>4. ~Start(p) /\ ~ClientWrites(p) /\ ~NameTaken(p)
  <2>1. ~UNCHANGED server  BY <1>3 DEF server, vars
  <2>2. ~ServerDisconnects  BY <1>2 DEF ServerDisconnects, HandleDisconnect, Parsed
  <2> QED  BY <2>1, <2>2 DEF Start, ClientWrites, NameTaken, ServerSweeps, ServerCleansUp
<1>5. GoesOn(p)  BY <1>4, ClientGoesOn DEF KInv, BInv, Kept
<1>6. NoMore(srv_buf, srv_buf', p)  BY <1>4, PipeStays DEF KInv, BInv, Kept
<1>7. path'[IdOf[p]] = path[IdOf[p]] \/ ~Running(p)'  BY <1>4, NameStays DEF KInv
<1>8. 1 \in InHand("CONNECT", p)  BY <1>1, <1>2, FirstInHand
<1>9. InHand("CONNECT", p)' = {}
  <2>1. \A j \in 1..Len(Tail(inbox)) : Tail(inbox)[j] = inbox[j + 1] /\ j + 1 \in 1..Len(inbox) /\ j + 1 # 1
    BY <1>1, <1>2
  <2>2. \A j \in 1..Len(Tail(inbox)) : j + 1 \notin InHand("CONNECT", p)
    BY <1>8, <2>1 DEF KInv, Kept, AsksOnce, AtMostOne
  <2> QED  BY <1>2, <2>1, <2>2 DEF InHand, From
<1>10. ~Unsent(p) /\ InPipe("CONNECT", p) = {} /\ SeatsOf(p) = {}
  BY <1>8 DEF KInv, Kept, AsksOnce
<1>11. ~Unsent(p)' /\ InPipe("CONNECT", p)' = {}
  BY <1>5, <1>6, <1>10 DEF GoesOn, NoMore, InPipe
<1>12. AtMostOne(SeatsOf(p)')
  <2>1. players' = Append(players, [id |-> line.id, active |-> TRUE])  BY DEF Joins, HandleConnect
  <2>2. Len(players') = Len(players) + 1 /\ \A m \in 1..Len(players) : players'[m] = players[m]
    BY <1>1, <1>2, <2>1, Joined, ProcsAssumption DEF player_count
  <2>3. Len(players) \in Nat  BY <1>1
  <2>4. \A m \in 1..Len(players') : m \in 1..Len(players) \/ m = Len(players) + 1  BY <2>2, <2>3
  <2>5. \A m \in SeatsOf(p)' : m = Len(players) + 1  BY <1>10, <2>2, <2>4 DEF SeatsOf
  <2> QED  BY <2>5 DEF AtMostOne
<1>13. AsksOnce(p)'
  <2>1. InPipe("CONNECT", p)' = {} /\ AtMostOne(InPipe("CONNECT", p)') /\ AtMostOne(InHand("CONNECT", p)')
    BY <1>9, <1>11 DEF AtMostOne
  <2> QED  BY <1>9, <1>11, <1>12, <2>1 DEF AsksOnce, AtMostOne
<1>14. LeavesLast(p)'
  <2>1. NoMore(inbox, inbox', p)  BY <1>1, <1>2, NoMoreInTail
  <2>2. /\ InPipe("DISCONNECT", p)' # {} => InPipe("DISCONNECT", p) # {}
        /\ InHand("DISCONNECT", p)' # {} => InHand("DISCONNECT", p) # {}
    BY <1>6, <2>1 DEF NoMore, InPipe, InHand, From
  <2>3. InPipe("DISCONNECT", p)' # {} \/ InHand("DISCONNECT", p)' # {} => cpc'[p] # "new" /\ ~Running(p)'
    BY <1>5, <2>2 DEF GoesOn, KInv, Kept, LeavesLast
  <2> QED  BY <2>3 DEF LeavesLast
<1>15. NameKept(p)'
  <2>1. Running(p)' => path'[IdOf[p]] = p
    BY <1>5, <1>7, <1>8 DEF GoesOn, KInv, Kept, NameKept, Asking
  <2> QED  BY <2>1 DEF NameKept
<1> QED  BY <1>5, <1>13, <1>14, <1>15 DEF Kept, GoesOn

\* A client asks, or says that it leaves.
LEMMA KeptWhenWriting ==
    ASSUME KInv, OwnIds, NEW p \in Procs, [BNext]_bvars, ClientWrites(p)
    PROVE  Kept(p)'
<1>1. /\ srv_buf \in Seq(Line \cup {NL}) /\ cpc \in [Procs -> Places]
      /\ line_out[p] \in Line \cup {NL}
  BY DEF KInv, BInv, ClientsOK
<1>2. /\ cpc[p] = "write" /\ cpc'[p] = "newline" /\ line_out' = line_out /\ path' = path
      /\ srv_buf' = Append(srv_buf, line_out[p]) /\ inbox' = inbox /\ players' = players
  BY <1>1 DEF ClientWrites, Goto, server, vars
<1>3. ~Start(p)  BY <1>2 DEF Start
<1>4. GoesOn(p)  BY <1>3, ClientGoesOn DEF KInv, BInv, Kept
<1>5. NoMore(inbox, inbox', p)  BY <1>2, NoMoreWhenKept
<1>6. SeatsOf(p)' = SeatsOf(p) /\ Seated(p)' = Seated(p)  BY <1>2 DEF SeatsOf, Seated
<1>7. \A type : /\ line_out[p].type # type => InPipe(type, p)' = InPipe(type, p)
                /\ InPipe(type, p)' \subseteq InPipe(type, p) \cup {Len(srv_buf) + 1}
  BY <1>1, <1>2, OneMoreWhenWritten DEF InPipe, From
<1>8. \A type : InHand(type, p)' = InHand(type, p)  BY <1>2 DEF InHand, From
<1>9. CASE line_out[p].type \notin {"CONNECT", "DISCONNECT"}
  <2>1. NoMore(srv_buf, srv_buf', p)  BY <1>1, <1>2, <1>9, NoMoreWithOther
  <2> QED  BY <1>2, <1>4, <1>5, <1>6, <2>1, KeptWhenGoingOn DEF KInv
<1>10. CASE line_out[p].type = "CONNECT"
  <2>1. Unsent(p) /\ ~Unsent(p)' /\ Running(p) /\ Asking(p)
    BY <1>2, <1>10 DEF Unsent, Running, Asking
  <2>2. /\ InPipe("CONNECT", p) = {} /\ InHand("CONNECT", p)' = {} /\ SeatsOf(p)' = {}
        /\ InPipe("DISCONNECT", p)' = InPipe("DISCONNECT", p)
        /\ InHand("DISCONNECT", p)' = InHand("DISCONNECT", p)
    BY <1>6, <1>7, <1>8, <1>10, <2>1 DEF KInv, Kept, AsksOnce
  <2>3. InPipe("CONNECT", p)' \subseteq {Len(srv_buf) + 1}  BY <1>7, <2>2
  <2>4. AtMostOne(InPipe("CONNECT", p)') /\ AtMostOne(InHand("CONNECT", p)') /\ AtMostOne(SeatsOf(p)')
    BY <2>2, <2>3 DEF AtMostOne
  <2>5. AsksOnce(p)'  BY <2>1, <2>2, <2>4 DEF AsksOnce, AtMostOne
  <2>6. InPipe("DISCONNECT", p)' = {} /\ InHand("DISCONNECT", p)' = {}
    BY <2>1, <2>2 DEF KInv, Kept, LeavesLast
  <2>7. LeavesLast(p)'  BY <2>6 DEF LeavesLast
  <2>8. path'[IdOf[p]] = p  BY <1>2, <2>1 DEF KInv, Kept, NameKept
  <2>9. NameKept(p)'  BY <2>8 DEF NameKept
  <2> QED  BY <1>4, <2>5, <2>7, <2>9 DEF GoesOn, Kept
<1>11. CASE line_out[p].type = "DISCONNECT"
  <2>1. ~Running(p)' /\ cpc'[p] # "new" /\ ~Unsent(p)'  BY <1>2, <1>11 DEF Running, Connected, Unsent
  <2>2. LeavesLast(p)' /\ NameKept(p)'  BY <2>1 DEF LeavesLast, NameKept
  <2>3. /\ InPipe("CONNECT", p)' = InPipe("CONNECT", p)
        /\ InHand("CONNECT", p)' = InHand("CONNECT", p)
    BY <1>7, <1>8, <1>11
  <2>4. AsksOnce(p)'
    BY <1>6, <2>1, <2>3 DEF KInv, Kept, AsksOnce, AtMostOne
  <2> QED  BY <1>4, <2>2, <2>4 DEF GoesOn, Kept
<1> QED  BY <1>9, <1>10, <1>11

LEMMA KeptByEveryStep ==
    ASSUME KInv, OwnIds, NEW p \in Procs, [BNext]_bvars
    PROVE  Kept(p)'
<1>0. Kept(p) /\ ClientsOK /\ IInv /\ \A q \in Procs : OwnLine(q)
  BY DEF KInv, Kept, BInv, NInv
<1>1. CASE Start(p)
  <2>1. cpc \in [Procs -> Places] /\ line_out \in [Procs -> Line] /\ path \in [Ids -> Procs \cup {None}]
    BY DEF KInv, BInv, ClientsOK, PathOK
  <2>2. Unsent(p)  BY <1>1 DEF Start, Unsent
  <2>3. /\ cpc'[p] = "open" /\ line_out'[p].type = "CONNECT" /\ line_out'[p].id = IdOf[p]
        /\ path'[IdOf[p]] = p
        /\ UNCHANGED <<inbox, srv_buf, players>>
    BY <1>1, <2>1, ProcsAssumption DEF Start, Prepare, Goto, server, vars, srv_pipe
  <2>4. /\ SeatsOf(p)' = SeatsOf(p)
        /\ \A type : InPipe(type, p)' = InPipe(type, p) /\ InHand(type, p)' = InHand(type, p)
    BY <2>3 DEF SeatsOf, InPipe, InHand, From
  <2>5. AsksOnce(p)'  BY <1>0, <2>2, <2>4 DEF Kept, AsksOnce, AtMostOne
  <2>6. InPipe("DISCONNECT", p)' = {} /\ InHand("DISCONNECT", p)' = {}
    <3>1. cpc[p] = "new"  BY <1>1 DEF Start
    <3> QED  BY <1>0, <2>4, <3>1 DEF Kept, LeavesLast
  <2> QED  BY <2>3, <2>5, <2>6 DEF Kept, LeavesLast, OwnLine, NameKept
<1>2. CASE ClientWrites(p)  BY <1>2, KeptWhenWriting
<1>3. CASE Joins(p)  BY <1>3, KeptWhenJoining
<1>4. CASE ~Start(p) /\ ~ClientWrites(p) /\ ~Joins(p)
  <2>1. GoesOn(p)  BY <1>0, <1>4, ClientGoesOn
  <2>2. NoMore(srv_buf, srv_buf', p)  BY <1>0, <1>4, PipeStays
  <2>3. SeatsOf(p)' = SeatsOf(p) /\ (Seated(p)' => Seated(p))
    BY <1>0, <1>4, StepOfServer, SeatsStay
  <2>4. CASE ServerReads
    <3>1. srv_buf' = <<>> /\ inbox' = LinesOf(srv_buf) /\ path' = path
      BY <2>4 DEF ServerReads, Read
    <3>2. srv_buf \in Seq(Line \cup {NL})  BY <1>0 DEF ClientsOK
    <3>3. \A item \in Line \cup {NL} : DOMAIN item = {"type", "id", "arg"}  BY DEF Line, NL
    <3>4. NoMore(srv_buf, inbox', p)  BY <3>1, <3>2, <3>3, NoMoreWhenCut
    <3>5. \A type \in {"CONNECT", "DISCONNECT"} :
              /\ InPipe(type, p)' = {}
              /\ InHand(type, p)' # {} => InPipe(type, p) # {}
              /\ AtMostOne(InPipe(type, p)) => AtMostOne(InHand(type, p)')
      <4>1. \A type : InHand(type, p)' = From(inbox', type, p) /\ InPipe(type, p) = From(srv_buf, type, p)
        BY DEF InHand, InPipe, From
      <4>2. \A type : InPipe(type, p)' = {}  BY <3>1 DEF InPipe, From
      <4> QED  BY <3>4, <4>1, <4>2 DEF NoMore
    <3>6. AtMostOne({})  BY DEF AtMostOne
    <3>7. AsksOnce(p)'
      <4>1. Unsent(p)' => InHand("CONNECT", p)' = {} /\ SeatsOf(p)' = {}
        BY <1>0, <2>1, <2>3, <3>5 DEF GoesOn, Kept, AsksOnce
      <4>2. InHand("CONNECT", p)' # {} => SeatsOf(p)' = {}
        BY <1>0, <2>3, <3>5 DEF Kept, AsksOnce
      <4>3. AtMostOne(InPipe("CONNECT", p)') /\ AtMostOne(InHand("CONNECT", p)') /\ AtMostOne(SeatsOf(p)')
        BY <1>0, <2>3, <3>5, <3>6 DEF Kept, AsksOnce
      <4> QED  BY <3>5, <4>1, <4>2, <4>3 DEF AsksOnce, AtMostOne
    <3>8. LeavesLast(p)'
      <4>1. InHand("DISCONNECT", p)' # {} => cpc'[p] # "new" /\ ~Running(p)'
        BY <1>0, <2>1, <3>5 DEF GoesOn, Kept, LeavesLast
      <4> QED  BY <3>5, <4>1 DEF LeavesLast
    <3>9. NameKept(p)'
      <4>1. Asking(p)' => Asking(p)
        <5>1. InHand("CONNECT", p)' # {} => Asking(p)  BY <3>5 DEF Asking
        <5>2. Unsent(p)' => Asking(p)  BY <2>1 DEF GoesOn, Asking
        <5> QED  BY <3>5, <5>1, <5>2 DEF Asking
      <4>2. Running(p)' /\ (Asking(p)' \/ Seated(p)') => path'[IdOf[p]] = p
        BY <1>0, <2>1, <2>3, <3>1, <4>1 DEF GoesOn, Kept, NameKept
      <4> QED  BY <4>2 DEF NameKept
    <3> QED  BY <2>1, <3>7, <3>8, <3>9 DEF GoesOn, Kept
  <2>5. CASE ~ServerReads
    <3>1. NoMore(inbox, inbox', p)  BY <1>0, <2>5, HandStays
    <3>2. \/ path'[IdOf[p]] = path[IdOf[p]]
          \/ ~Running(p)'
          \/ ~Asking(p) /\ ~Seated(p)
      <4>1. CASE ServerDisconnects /\ line.id = IdOf[p]
        <5>1. inbox # <<>> /\ line.type = "DISCONNECT"
          BY <4>1 DEF ServerDisconnects, HandleDisconnect, Parsed
        <5>2. 1 \in InHand("DISCONNECT", p)  BY <1>0, <4>1, <5>1, FirstInHand DEF IInv, TypeOK
        <5>3. ~Running(p)  BY <1>0, <5>2 DEF Kept, LeavesLast
        <5> QED  BY <2>1, <5>3 DEF GoesOn
      <4>2. CASE IdOf[p] \in InactiveIds
        <5>1. PICK k \in SeatsOf(p) : ~players[k].active
          BY <4>2 DEF InactiveIds, ActiveSeats, player_count, SeatsOf
        <5>2. ~Seated(p)  BY <1>0, <5>1 DEF Seated, Kept, AsksOnce, AtMostOne
        <5>3. ~Asking(p)  BY <1>0, <5>1 DEF Asking, Kept, AsksOnce
        <5> QED  BY <5>2, <5>3
      <4>3. CASE ~NameTaken(p)  BY <1>4, <4>3, NameStays DEF KInv
      <4> QED  BY <4>1, <4>2, <4>3 DEF NameTaken
    <3> QED  BY <1>0, <2>1, <2>2, <2>3, <3>1, <3>2, KeptWhenGoingOn
  <2> QED  BY <2>4, <2>5
<1> QED  BY <1>1, <1>2, <1>3, <1>4

\* As long as every client has an id of its own, no running client loses the name of
\* its pipe while the server counts it among the active players, whatever the clients
\* and the server go through (server.c 180-187, 331; client.c 36-48).
THEOREM NamesKept ==
    ASSUME OwnIds
    PROVE  BSpec => []ActivePlayersKeepTheirPipe
<1>1. KInv /\ [BNext]_bvars => KInv'
  <2> SUFFICES ASSUME KInv, [BNext]_bvars PROVE KInv'  OBVIOUS
  <2>1. BInv'  BY NextBInv DEF KInv
  <2>2. \A p \in Procs : Kept(p)'  BY KeptByEveryStep
  <2> QED  BY <2>1, <2>2 DEF KInv
<1>2. KInv => ActivePlayersKeepTheirPipe
  BY DEF KInv, Kept, NameKept, Running, ActivePlayersKeepTheirPipe
<1> QED  BY InitKInv, <1>1, <1>2, PTL DEF BSpec
===============================================================================
