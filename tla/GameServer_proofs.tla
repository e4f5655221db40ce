-------------------------- MODULE GameServer_proofs --------------------------
(***************************************************************************)
(* GameServer for any players, any number of seats and any lines: the type *)
(* invariant, one seat per player, sends that go to an active seat, and    *)
(* the refinement of Session.                                              *)
(***************************************************************************)
EXTENDS GameServer, TLAPS

Seat == [id : Ids, active : BOOLEAN]
ActiveIn(p) == {k \in 1..Len(p) : p[k].active}

Sending == pc \in {"open", "write", "newline"}

\* Where the server is inside a send it has something to send.
MessageInHand == Sending \/ pc = "broadcast" => out # NoSend

\* The welcome is pending from the connection to the check for the last seat.
WelcomeInPlace ==
    /\ WelcomePending => (Sending \/ pc \in {"welcomed", "killed"}) /\ ~out.all
    /\ pc = "welcomed" => WelcomePending

\* The game is on only with every seat taken and the last player welcomed.
OnWhenFull == game_active => player_count = Required /\ ~WelcomePending

IInv == /\ TypeOK /\ OneSeatPerPlayer /\ SendsToASeat
        /\ MessageInHand /\ WelcomeInPlace /\ OnWhenFull

-------------------------------------------------------------------------------
USE DEF player_count

\* The table after a player is taken off.
LEMMA TakenOff ==
    ASSUME players \in Seq(Seat), NEW k \in ActiveSeats
    PROVE  /\ Deactivated(k) \in Seq(Seat)
           /\ Len(Deactivated(k)) = player_count
           /\ ActiveIn(Deactivated(k)) = ActiveSeats \ {k}
           /\ \A m \in 1..player_count : Deactivated(k)[m].id = players[m].id
<1>1. k \in 1..Len(players) /\ players[k] \in Seat  BY DEF ActiveSeats
<1> DEFINE off == [players[k] EXCEPT !.active = FALSE]
<1>2. off \in Seat /\ off.id = players[k].id /\ ~off.active  BY <1>1 DEF Seat
<1>3. Deactivated(k) = [players EXCEPT ![k] = off]  BY DEF Deactivated
<1> HIDE DEF off
<1>4. Deactivated(k) \in Seq(Seat) /\ Len(Deactivated(k)) = Len(players)
  BY <1>1, <1>2, <1>3
<1>5. \A m \in 1..Len(players) : Deactivated(k)[m] = IF m = k THEN off ELSE players[m]
  BY <1>1, <1>3
<1> QED  BY <1>1, <1>2, <1>4, <1>5 DEF ActiveSeats, ActiveIn

\* The table after a player has joined.
LEMMA Joined ==
    ASSUME players \in Seq(Seat), NEW id \in Ids
    PROVE  LET p == Append(players, [id |-> id, active |-> TRUE])
           IN  /\ p \in Seq(Seat)
               /\ Len(p) = player_count + 1
               /\ ActiveIn(p) = ActiveSeats \cup {player_count + 1}
               /\ \A m \in 1..player_count : p[m] = players[m]
               /\ p[player_count + 1].id = id
<1> DEFINE seat == [id |-> id, active |-> TRUE]
           p == Append(players, seat)
<1>1. seat \in Seat /\ seat.id = id /\ seat.active  BY DEF Seat
<1> HIDE DEF seat
<1>2. Len(players) \in Nat  OBVIOUS
<1>3. p \in Seq(Seat) /\ Len(p) = Len(players) + 1  BY <1>1
<1>4. \A m \in 1..(Len(players) + 1) : p[m] = IF m = Len(players) + 1 THEN seat ELSE players[m]
  BY <1>1, <1>2
<1>5. ActiveIn(p) = ActiveSeats \cup {Len(players) + 1}
  BY <1>1, <1>2, <1>3, <1>4 DEF ActiveSeats, ActiveIn
<1> HIDE DEF p
<1>6. \A m \in 1..Len(players) : p[m] = players[m]
  BY <1>2, <1>4
<1>7. p[Len(players) + 1] = seat
  BY <1>2, <1>4
<1>8. /\ p \in Seq(Seat) /\ Len(p) = player_count + 1
      /\ ActiveIn(p) = ActiveSeats \cup {player_count + 1}
      /\ \A m \in 1..player_count : p[m] = players[m]
      /\ p[player_count + 1].id = id
  BY <1>1, <1>3, <1>5, <1>6, <1>7
<1> QED  BY <1>8 DEF p, seat

\* find_player_index finds an active seat of the player exactly if it has one.
LEMMA Found ==
    ASSUME players \in Seq(Seat), OneSeatPerPlayer, NEW id
    PROVE  /\ find_player_index(id) # 0 =>
                 /\ find_player_index(id) \in ActiveSeats
                 /\ players[find_player_index(id)].id = id
           /\ find_player_index(id) = 0 => \A k \in ActiveSeats : players[k].id # id
<1> DEFINE First(k) == /\ players[k].id = id
                       /\ \A m \in ActiveSeats : players[m].id = id => k <= m
<1>1. CASE \E k \in ActiveSeats : players[k].id = id
  <2>1. PICK k \in ActiveSeats : players[k].id = id  BY <1>1
  <2>2. \A m \in ActiveSeats : players[m].id = id => k = m
    BY <2>1 DEF OneSeatPerPlayer
  <2>3. \A m \in ActiveSeats : m \in Int /\ m # 0  BY DEF ActiveSeats
  <2>4. \E m \in ActiveSeats : First(m)  BY <2>1, <2>2, <2>3
  <2>5. find_player_index(id) = CHOOSE m \in ActiveSeats : First(m)
    BY <1>1 DEF find_player_index
  <2> HIDE DEF First
  <2>6. find_player_index(id) \in ActiveSeats /\ First(find_player_index(id))
    BY <2>4, <2>5
  <2> QED  BY <2>3, <2>6 DEF First
<1>2. CASE ~ \E k \in ActiveSeats : players[k].id = id
  BY <1>2 DEF find_player_index
<1> QED  BY <1>1, <1>2

\* Messages being sent, as records.
RealSend == [msg : Message, to : Nat \ {0}, all : BOOLEAN, after : Afters]

\* A send begins with a message in hand.
LEMMA SendTyped ==
    ASSUME NEW kind \in Kinds, NEW id \in Ids, NEW k \in Nat \ {0}, NEW after \in Afters
    PROVE  /\ SendTo(k, kind, id, after) =>
                 /\ out' \in RealSend /\ out'.to = k /\ ~out'.all /\ out'.after = after
                 /\ pc' = "open"
           /\ Broadcast(kind, id, after) =>
                 /\ out' \in RealSend /\ out'.after = after
                 /\ pc' = "broadcast"
<1>1. [kind |-> kind, id |-> id] \in Message  BY DEF Message, Kinds
<1>2. ASSUME NEW m \in Message
      PROVE  /\ [msg |-> m, to |-> k, all |-> FALSE, after |-> after] \in RealSend
             /\ [msg |-> m, to |-> 1, all |-> TRUE, after |-> after] \in RealSend
  BY DEF RealSend
<1> DEFINE m == [kind |-> kind, id |-> id]
<1>3. /\ [msg |-> m, to |-> k, all |-> FALSE, after |-> after] \in RealSend
      /\ [msg |-> m, to |-> 1, all |-> TRUE, after |-> after] \in RealSend
  BY <1>1, <1>2
<1>4. ASSUME SendTo(k, kind, id, after)
      PROVE  /\ out' \in RealSend /\ out'.to = k /\ ~out'.all /\ out'.after = after
             /\ pc' = "open"
  BY <1>3, <1>4 DEF SendTo
<1>5. ASSUME Broadcast(kind, id, after)
      PROVE  out' \in RealSend /\ out'.after = after /\ pc' = "broadcast"
  BY <1>3, <1>5 DEF Broadcast
<1> QED  BY <1>4, <1>5

LEMMA RealSendIsSend == RealSend \subseteq Send /\ NoSend \in Send /\ NoSend \notin RealSend
BY DEF RealSend, Send, NoSend

LEMMA SendOrNone == \A o \in Send : o = NoSend \/ o \in RealSend
BY DEF RealSend, Send

\* The next seat of a broadcast.
LEMMA NextSeat ==
    ASSUME out \in RealSend
    PROVE  LET o == [out EXCEPT !.to = @ + 1]
           IN  o \in RealSend /\ o.all = out.all /\ o.after = out.after
BY DEF RealSend

\* A line that parse_message hands to a handler names a player.
LEMMA LineTyped ==
    ASSUME inbox \in Seq(Line), inbox # <<>>, line.id # BadId
    PROVE  line \in Line /\ line.id \in Ids /\ Tail(inbox) \in Seq(Line)
<1>1. line \in Line /\ Tail(inbox) \in Seq(Line)  BY DEF line
<1> QED  BY <1>1 DEF Line

\* Returning from send_text_to_player.
LEMMA Returned ==
    ASSUME out \in RealSend, SendReturns
    PROVE  /\ out' \in RealSend /\ out'.all = out.all /\ out'.after = out.after
           /\ pc' \in {"broadcast", "welcomed", "won", "left", "lines"}
           /\ pc' = "welcomed" => ~out.all /\ out.after = "welcomed"
           /\ ~out.all => pc' = out.after
<1>1. out.after \in Afters  BY DEF RealSend
<1> QED  BY <1>1, NextSeat DEF SendReturns, Afters

-------------------------------------------------------------------------------
\* The server starts with an empty table.
LEMMA InitIInv == Init => IInv
<1> SUFFICES ASSUME Init PROVE IInv  OBVIOUS
<1>1. Len(players) = 0 /\ players \in Seq(Seat) /\ ActiveSeats = {}
  BY DEF Init, ActiveSeats
<1>2. Required \in Nat  BY RequiredAssumption
<1>3. TypeOK
  <2>1. Len(players) <= Required  BY <1>1, <1>2
  <2>2. inbox \in Seq(Line) /\ out \in Send /\ pc \in Positions /\ armed \subseteq Handled
    BY RealSendIsSend DEF Init, Positions
  <2> QED  BY <1>1, <2>1, <2>2 DEF Init, TypeOK, Seat
<1>4. ~WelcomePending  BY DEF Init, WelcomePending, NoSend
<1> QED
  BY <1>1, <1>3, <1>4 DEF Init, IInv, OneSeatPerPlayer, SendsToASeat, MessageInHand, WelcomeInPlace,
     OnWhenFull, Sending

\* The table is that of before, or a player is taken off, or one has joined:
\* in each case the facts about the table alone go on.
TableOK == /\ players \in Seq(Seat) /\ player_count <= Required
           /\ OneSeatPerPlayer

LEMMA TakenOffOK ==
    ASSUME TableOK, NEW k \in ActiveSeats, players' = Deactivated(k)
    PROVE  TableOK' /\ ActiveSeats' = ActiveSeats \ {k} /\ player_count' = player_count
<1>1. /\ players' \in Seq(Seat) /\ Len(players') = Len(players)
      /\ ActiveIn(players') = ActiveSeats \ {k}
      /\ \A m \in 1..Len(players) : players'[m].id = players[m].id
  BY TakenOff DEF TableOK
<1>2. ActiveSeats' = ActiveSeats \ {k}  BY <1>1 DEF ActiveSeats, ActiveIn
<1>3. OneSeatPerPlayer'
  BY <1>1, <1>2 DEF TableOK, OneSeatPerPlayer, ActiveSeats
<1> QED  BY <1>1, <1>2, <1>3 DEF TableOK

LEMMA JoinedOK ==
    ASSUME TableOK, NEW id \in Ids, \A k \in ActiveSeats : players[k].id # id,
           player_count < Required,
           players' = Append(players, [id |-> id, active |-> TRUE])
    PROVE  /\ TableOK' /\ ActiveSeats' = ActiveSeats \cup {player_count + 1}
           /\ player_count' = player_count + 1
<1>1. /\ players' \in Seq(Seat) /\ Len(players') = Len(players) + 1
      /\ ActiveIn(players') = ActiveSeats \cup {Len(players) + 1}
      /\ \A m \in 1..Len(players) : players'[m] = players[m]
      /\ players'[Len(players) + 1].id = id
  BY Joined DEF TableOK
<1>2. ActiveSeats' = ActiveSeats \cup {Len(players) + 1}  BY <1>1 DEF ActiveSeats, ActiveIn
<1>3. Len(players) \in Nat /\ ActiveSeats \subseteq 1..Len(players)
  BY DEF TableOK, ActiveSeats
<1>4. OneSeatPerPlayer'
  <2> SUFFICES ASSUME NEW k \in ActiveSeats', NEW m \in ActiveSeats', players'[k].id = players'[m].id
               PROVE  k = m
    BY DEF OneSeatPerPlayer
  <2>1. \A n \in ActiveSeats : players'[n] = players[n] /\ players'[n].id # id
    BY <1>1, <1>3
  <2>2. k \in ActiveSeats /\ m \in ActiveSeats => k = m
    BY <2>1 DEF TableOK, OneSeatPerPlayer
  <2> QED  BY <1>1, <1>2, <2>1, <2>2
<1>5. player_count' <= Required
  BY <1>1, <1>3, RequiredAssumption
<1> QED  BY <1>1, <1>2, <1>4, <1>5 DEF TableOK

\* Every step keeps the table, the message in hand and the position in step.
LEMMA NextIInv == IInv /\ [Next]_vars => IInv'
<1> SUFFICES ASSUME IInv, [Next]_vars PROVE IInv'  OBVIOUS
<1>0. /\ TableOK /\ game_active \in BOOLEAN /\ running \in BOOLEAN
      /\ armed \subseteq Handled /\ inbox \in Seq(Line) /\ out \in Send
      /\ pc \in Positions
      /\ Len(players) \in Nat
  BY DEF IInv, TypeOK, TableOK, Seat
<1>a. ASSUME TableOK', game_active' \in BOOLEAN, running' \in BOOLEAN,
             armed' \subseteq Handled, inbox' \in Seq(Line), out' \in Send, pc' \in Positions
      PROVE  TypeOK' /\ OneSeatPerPlayer'
  BY <1>a DEF TypeOK, TableOK, Seat
<1>b. ASSUME UNCHANGED players
      PROVE  TableOK' /\ ActiveSeats' = ActiveSeats
  BY <1>0, <1>b DEF TableOK, OneSeatPerPlayer, ActiveSeats
<1>c. pc \in {"open", "write", "newline", "broadcast"} => out \in RealSend
  BY <1>0, SendOrNone DEF IInv, MessageInHand, Sending
<1>1. ASSUME NEW found \in BOOLEAN, BroadcastNext(found) PROVE IInv'
  <2>1. out \in RealSend /\ out.to \in ActiveSeats  BY <1>1, <1>c DEF BroadcastNext
  <2>2. CASE found
    BY <1>0, <1>1, <1>a, <1>b, <2>1, <2>2, RealSendIsSend
       DEF BroadcastNext, IInv, SendsToASeat, MessageInHand, WelcomeInPlace, OnWhenFull,
           WelcomePending, Sending, Positions
  <2>3. CASE ~found
    <3>1. TableOK' /\ player_count' = player_count
      BY <1>0, <1>1, <2>1, <2>3, TakenOffOK DEF BroadcastNext
    <3>2. out' \in RealSend /\ out'.all = out.all /\ out'.after = out.after
      BY <1>1, <2>1, <2>3, NextSeat DEF BroadcastNext
    <3> QED
      BY <1>0, <1>1, <1>a, <2>3, <3>1, <3>2, RealSendIsSend
         DEF BroadcastNext, IInv, SendsToASeat, MessageInHand, WelcomeInPlace, OnWhenFull,
             WelcomePending, Sending, Positions
  <2> QED  BY <2>2, <2>3
<1>2. ASSUME BroadcastSkip PROVE IInv'
  <2>1. out \in RealSend  BY <1>2, <1>c DEF BroadcastSkip
  <2>2. out' \in RealSend /\ out'.all = out.all /\ out'.after = out.after
    BY <1>2, <2>1, NextSeat DEF BroadcastSkip
  <2> QED
    BY <1>0, <1>2, <1>a, <1>b, <2>2, RealSendIsSend
       DEF BroadcastSkip, IInv, SendsToASeat, MessageInHand, WelcomeInPlace, OnWhenFull,
           WelcomePending, Sending, Positions
<1>3. ASSUME BroadcastDone PROVE IInv'
  <2>1. out \in RealSend  BY <1>3, <1>c DEF BroadcastDone
  <2>2. pc' \in Afters /\ pc' # "welcomed"
    BY <1>3, <2>1 DEF BroadcastDone, RealSend, IInv, WelcomeInPlace, WelcomePending, Sending
  <2> QED
    BY <1>0, <1>3, <1>a, <1>b, <2>1, <2>2
       DEF BroadcastDone, IInv, SendsToASeat, MessageInHand, WelcomeInPlace, OnWhenFull,
           WelcomePending, Sending, Positions, Afters
<1>4. ASSUME NEW result \in {"ok", "ENOENT"}, SendOpen(result) PROVE IInv'
  <2>1. out \in RealSend /\ out.to \in ActiveSeats
    BY <1>4, <1>c DEF SendOpen, IInv, SendsToASeat
  <2>2. CASE result = "ok"
    BY <1>0, <1>4, <1>a, <1>b, <2>1, <2>2
       DEF SendOpen, IInv, SendsToASeat, MessageInHand, WelcomeInPlace, OnWhenFull,
           WelcomePending, Sending, Positions
  <2>3. CASE result = "ENOENT"
    <3>1. TableOK' /\ player_count' = player_count
      BY <1>0, <1>4, <2>1, <2>3, TakenOffOK DEF SendOpen
    <3>2. SendReturns  BY <1>4, <2>3 DEF SendOpen
    <3> QED
      BY <1>0, <1>4, <1>a, <2>1, <2>3, <3>1, <3>2, Returned, RealSendIsSend
         DEF SendOpen, IInv, SendsToASeat, MessageInHand, WelcomeInPlace, OnWhenFull,
             WelcomePending, Sending, Positions
  <2> QED  BY <2>2, <2>3
<1>5. ASSUME NEW reader \in BOOLEAN, SendWrite(reader) PROVE IInv'
  <2>1. out \in RealSend /\ out.to \in ActiveSeats
    BY <1>5, <1>c DEF SendWrite, IInv, SendsToASeat
  <2>2. CASE reader
    BY <1>0, <1>5, <1>a, <1>b, <2>1, <2>2
       DEF SendWrite, IInv, SendsToASeat, MessageInHand, WelcomeInPlace, OnWhenFull,
           WelcomePending, Sending, Positions
  <2>3. CASE ~reader
    <3>1. TableOK' /\ player_count' = player_count
      BY <1>0, <1>5, <2>1, <2>3, TakenOffOK DEF SendWrite
    <3>2. SendReturns /\ armed' \subseteq Handled
      BY <1>0, <1>5, <2>3 DEF SendWrite, Raise
    <3> QED
      BY <1>0, <1>5, <1>a, <2>1, <2>3, <3>1, <3>2, Returned, RealSendIsSend
         DEF SendWrite, IInv, SendsToASeat, MessageInHand, WelcomeInPlace, OnWhenFull,
             WelcomePending, Sending, Positions
  <2> QED  BY <2>2, <2>3
<1>6. ASSUME NEW reader \in BOOLEAN, SendNewline(reader) PROVE IInv'
  <2>1. out \in RealSend  BY <1>6, <1>c DEF SendNewline
  <2>2. SendReturns /\ armed' \subseteq Handled
    BY <1>0, <1>6 DEF SendNewline, Raise
  <2> QED
    BY <1>0, <1>6, <1>a, <1>b, <2>1, <2>2, Returned, RealSendIsSend
       DEF SendNewline, IInv, SendsToASeat, MessageInHand, WelcomeInPlace, OnWhenFull,
           WelcomePending, Sending, Positions
<1>7. ASSUME NEW reader \in BOOLEAN, KilledBySigpipe(reader) PROVE IInv'
  BY <1>0, <1>7, <1>a, <1>b
     DEF KilledBySigpipe, table, IInv, SendsToASeat, MessageInHand, WelcomeInPlace, OnWhenFull,
         WelcomePending, Sending, Positions
<1>8. ASSUME DropLine PROVE IInv'
  <2>1. Tail(inbox) \in Seq(Line)  BY <1>0, <1>8 DEF DropLine
  <2> QED
    BY <1>0, <1>8, <1>a, <1>b, <2>1
       DEF DropLine, table, IInv, SendsToASeat, MessageInHand, WelcomeInPlace, OnWhenFull,
           WelcomePending, Sending, Positions
<1>9. ASSUME NEW found \in BOOLEAN, HandleConnect(found) PROVE IInv'
  <2>1. line.id \in Ids /\ Tail(inbox) \in Seq(Line)
    BY <1>0, <1>9, LineTyped DEF HandleConnect, Parsed
  <2>2. /\ \A k \in ActiveSeats : players[k].id # line.id
        /\ player_count < Required
    BY <1>0, <1>9, Found DEF HandleConnect, MayConnect, TableOK
  <2>3. CASE found
    <3>1. /\ TableOK' /\ ActiveSeats' = ActiveSeats \cup {player_count + 1}
          /\ player_count' = player_count + 1
      BY <1>0, <1>9, <2>1, <2>2, <2>3, JoinedOK DEF HandleConnect
    <3>2. /\ out' \in RealSend /\ out'.to = player_count + 1 /\ ~out'.all
          /\ out'.after = "welcomed" /\ pc' = "open"
      BY <1>0, <1>9, <2>1, <2>3, SendTyped DEF HandleConnect, Kinds, Afters
    <3>3. ~game_active
      BY <1>0, <2>2, RequiredAssumption DEF IInv, OnWhenFull
    <3> QED
      BY <1>0, <1>9, <1>a, <2>1, <3>1, <3>2, <3>3, RealSendIsSend
         DEF HandleConnect, IInv, SendsToASeat, MessageInHand, WelcomeInPlace, OnWhenFull,
             WelcomePending, Sending, Positions
  <2>4. CASE ~found
    BY <1>0, <1>9, <1>a, <1>b, <2>1, <2>4
       DEF HandleConnect, Parsed, IInv, SendsToASeat, MessageInHand, WelcomeInPlace, OnWhenFull,
           WelcomePending, Sending, Positions
  <2> QED  BY <2>3, <2>4
<1>10. ASSUME Welcomed PROVE IInv'
  <2>1. CASE player_count >= Required
    <3>0. Required \in Nat /\ Required > 0  BY RequiredAssumption
    <3>1. player_count = Required /\ player_count \in 1..player_count
      BY <1>0, <2>1, <3>0 DEF TableOK
    <3>2. players[player_count].id \in Ids
      <4>1. players[player_count] \in Seat  BY <1>0, <3>1 DEF TableOK
      <4> QED  BY <4>1 DEF Seat
    <3>3. out' \in RealSend /\ out'.after = "lines" /\ pc' = "broadcast"
      BY <1>10, <2>1, <3>2, SendTyped DEF Welcomed, Kinds, Afters
    <3> QED
      BY <1>0, <1>10, <1>a, <1>b, <2>1, <3>1, <3>3, RealSendIsSend
         DEF Welcomed, IInv, SendsToASeat, MessageInHand, WelcomeInPlace, OnWhenFull,
             WelcomePending, Sending, Positions
  <2>2. CASE ~(player_count >= Required)
    <3>1. pc' = "lines" /\ out' = NoSend /\ UNCHANGED <<table, armed, inbox>>
      BY <1>10, <2>2 DEF Welcomed, table
    <3>2. out'.after = "lines"  BY <3>1 DEF NoSend
    <3>3. ~game_active
      BY <1>0, <2>2 DEF IInv, OnWhenFull
    <3> QED
      BY <1>0, <1>a, <1>b, <3>1, <3>2, <3>3, RealSendIsSend
         DEF table, IInv, SendsToASeat, MessageInHand, WelcomeInPlace, OnWhenFull,
             WelcomePending, Sending, Positions
  <2> QED  BY <2>1, <2>2
<1>11. ASSUME Won PROVE IInv'
  BY <1>0, <1>11, <1>a, <1>b, RealSendIsSend
     DEF Won, IInv, SendsToASeat, MessageInHand, WelcomeInPlace, OnWhenFull,
         WelcomePending, Sending, Positions, NoSend
<1>12. ASSUME Left PROVE IInv'
  BY <1>0, <1>12, <1>a, <1>b, RealSendIsSend
     DEF Left, IInv, SendsToASeat, MessageInHand, WelcomeInPlace, OnWhenFull,
         WelcomePending, Sending, Positions, NoSend
<1>13. ASSUME HandleInvalidGuess PROVE IInv'
  <2>1. line.id \in Ids /\ Tail(inbox) \in Seq(Line)
    BY <1>0, <1>13, LineTyped DEF HandleInvalidGuess, Parsed
  <2>2. find_player_index(line.id) \in ActiveSeats
    BY <1>0, <1>13, Found DEF HandleInvalidGuess, MayGuess, TableOK
  <2>3. find_player_index(line.id) \in Nat \ {0}
    BY <1>0, <2>2 DEF ActiveSeats
  <2>4. /\ out' \in RealSend /\ out'.to = find_player_index(line.id)
        /\ out'.after = "lines" /\ pc' = "open"
    BY <1>13, <2>1, <2>3, SendTyped DEF HandleInvalidGuess, Kinds, Afters
  <2> QED
    BY <1>0, <1>13, <1>a, <1>b, <2>1, <2>2, <2>4, RealSendIsSend
       DEF HandleInvalidGuess, table, Parsed, IInv, SendsToASeat, MessageInHand, WelcomeInPlace, OnWhenFull,
           WelcomePending, Sending, Positions
<1>14. ASSUME HandleWrongGuess PROVE IInv'
  <2>1. line.id \in Ids /\ Tail(inbox) \in Seq(Line)
    BY <1>0, <1>14, LineTyped DEF HandleWrongGuess, Parsed
  <2>2. out' \in RealSend /\ out'.after = "lines" /\ pc' = "broadcast"
    BY <1>14, <2>1, SendTyped DEF HandleWrongGuess, Kinds, Afters
  <2> QED
    BY <1>0, <1>14, <1>a, <1>b, <2>1, <2>2, RealSendIsSend
       DEF HandleWrongGuess, table, Parsed, IInv, SendsToASeat, MessageInHand, WelcomeInPlace, OnWhenFull,
           WelcomePending, Sending, Positions
<1>15. ASSUME HandleRightGuess PROVE IInv'
  <2>1. line.id \in Ids /\ Tail(inbox) \in Seq(Line)
    BY <1>0, <1>15, LineTyped DEF HandleRightGuess, Parsed
  <2>2. out' \in RealSend /\ out'.after = "won" /\ pc' = "broadcast"
    BY <1>15, <2>1, SendTyped DEF HandleRightGuess, Kinds, Afters
  <2> QED
    BY <1>0, <1>15, <1>a, <1>b, <2>1, <2>2, RealSendIsSend
       DEF HandleRightGuess, Parsed, IInv, SendsToASeat, MessageInHand, WelcomeInPlace, OnWhenFull,
           WelcomePending, Sending, Positions
<1>16. ASSUME HandleDisconnect PROVE IInv'
  <2>1. line.id \in Ids /\ Tail(inbox) \in Seq(Line)
    BY <1>0, <1>16, LineTyped DEF HandleDisconnect, Parsed
  <2>2. find_player_index(line.id) \in ActiveSeats
    BY <1>0, <1>16, Found DEF HandleDisconnect, MayDisconnect, TableOK
  <2>3. TableOK' /\ player_count' = player_count
    BY <1>0, <1>16, <2>2, TakenOffOK DEF HandleDisconnect
  <2>4. CASE game_active
    <3>1. out' \in RealSend /\ out'.after = "left" /\ pc' = "broadcast"
      BY <1>16, <2>1, <2>4, SendTyped DEF HandleDisconnect, Kinds, Afters
    <3> QED
      BY <1>0, <1>16, <1>a, <2>1, <2>3, <3>1, RealSendIsSend
         DEF HandleDisconnect, Parsed, IInv, SendsToASeat, MessageInHand, WelcomeInPlace, OnWhenFull,
             WelcomePending, Sending, Positions
  <2>5. CASE ~game_active
    BY <1>0, <1>16, <1>a, <2>1, <2>3, <2>5, RealSendIsSend
       DEF HandleDisconnect, Parsed, IInv, SendsToASeat, MessageInHand, WelcomeInPlace, OnWhenFull,
           WelcomePending, Sending, Positions
  <2> QED  BY <2>4, <2>5
<1>17. ASSUME NEW batch \in Seq(Line), Read(batch) PROVE IInv'
  <2>1. inbox' \in Seq(Line)  BY <1>17 DEF Read
  <2> QED
    BY <1>0, <1>17, <1>a, <1>b, <2>1
       DEF Read, table, IInv, SendsToASeat, MessageInHand, WelcomeInPlace, OnWhenFull,
           WelcomePending, Sending, Positions
<1>18. ASSUME LinesDone PROVE IInv'
  BY <1>0, <1>18, <1>a, <1>b, RealSendIsSend
     DEF LinesDone, table, IInv, SendsToASeat, MessageInHand, WelcomeInPlace, OnWhenFull,
         WelcomePending, Sending, Positions, NoSend
<1>19. ASSUME \/ Wait \/ NothingRead \/ ReadEof \/ CloseOnEof \/ Reopen
              \/ Exit \/ SelectFails \/ ReopenFails
       PROVE  IInv'
  BY <1>0, <1>19, <1>a, <1>b
     DEF Wait, NothingRead, ReadEof, CloseOnEof, Reopen, Exit, SelectFails, ReopenFails, table, IInv, SendsToASeat, MessageInHand,
         WelcomeInPlace, OnWhenFull, WelcomePending, Sending, Positions
<1>20. ASSUME NEW sig \in {"SIGINT", "SIGTERM"}, Interrupt(sig) PROVE IInv'
  <2>1. armed' \subseteq Handled /\ running' = FALSE
    BY <1>0, <1>20 DEF Interrupt, Raise
  <2>2. CASE UNCHANGED <<out, pc>>
    BY <1>0, <1>20, <1>a, <1>b, <2>1, <2>2
       DEF Interrupt, IInv, SendsToASeat, MessageInHand, WelcomeInPlace, OnWhenFull,
           WelcomePending, Sending, Positions
  <2>3. CASE pc = "open" /\ SendReturns
    <3>1. out \in RealSend  BY <1>c, <2>3
    <3> QED
      BY <1>0, <1>20, <1>a, <1>b, <2>1, <2>3, <3>1, Returned, RealSendIsSend
         DEF Interrupt, IInv, SendsToASeat, MessageInHand, WelcomeInPlace, OnWhenFull,
             WelcomePending, Sending, Positions
  <2> QED  BY <1>20, <2>2, <2>3 DEF Interrupt
<1>21. ASSUME NEW sig \in {"SIGINT", "SIGTERM"}, KilledBySignal(sig) PROVE IInv'
  BY <1>0, <1>21, <1>a, <1>b
     DEF KilledBySignal, table, IInv, SendsToASeat, MessageInHand, WelcomeInPlace, OnWhenFull,
         WelcomePending, Sending, Positions
<1>22. ASSUME UNCHANGED vars PROVE IInv'
  BY <1>0, <1>22, <1>a, <1>b
     DEF vars, IInv, SendsToASeat, MessageInHand, WelcomeInPlace, OnWhenFull,
         WelcomePending, Sending
<1>23. ASSUME SendFails PROVE IInv'
  <2>1. out \in RealSend  BY <1>23, <1>c DEF SendFails
  <2>2. SendReturns  BY <1>23 DEF SendFails
  <2> QED
    BY <1>0, <1>23, <1>a, <1>b, <2>1, <2>2, Returned, RealSendIsSend
       DEF SendFails, table, IInv, SendsToASeat, MessageInHand, WelcomeInPlace, OnWhenFull,
           WelcomePending, Sending, Positions
<1> QED
  BY <1>1, <1>2, <1>3, <1>4, <1>5, <1>6, <1>7, <1>8, <1>9, <1>10, <1>11, <1>12, <1>13, <1>14,
     <1>15, <1>16, <1>17, <1>18, <1>19, <1>20, <1>21, <1>22, <1>23 DEF Next, Step

\* The server's bookkeeping holds in every run.
THEOREM Bookkeeping == Spec => []IInv
BY InitIInv, NextIInv, PTL DEF Spec

\* The server's variables keep their types, and the table never holds more
\* players than the game has seats (server.c 192-223).
THEOREM ServerTyped == Spec => []TypeOK
<1>1. IInv => TypeOK  BY DEF IInv
<1> QED  BY Bookkeeping, <1>1, PTL

\* No player holds two active seats (server.c 79-86, 192).
THEOREM OneSeat == Spec => []OneSeatPerPlayer
<1>1. IInv => OneSeatPerPlayer  BY DEF IInv
<1> QED  BY Bookkeeping, <1>1, PTL

\* Every send goes to an active seat of the table (server.c 117-178).
THEOREM SendsSeated == Spec => []SendsToASeat
<1>1. IInv => SendsToASeat  BY DEF IInv
<1> QED  BY Bookkeeping, <1>1, PTL

-------------------------------------------------------------------------------
(***************************************************************************)
(* The server implements Session.                                          *)
(***************************************************************************)
Ids_of(p) == [k \in 1..Len(p) |-> p[k].id]
Phase == IF game_active THEN "playing"
         ELSE IF player_count < Required \/ WelcomePending THEN "lobby" ELSE "over"
Notified == ~({"SIGINT", "SIGTERM"} \subseteq armed)

\* The mapped variables, all at once.
SameGame == /\ Ids_of(players)' = Ids_of(players)
            /\ ActiveSeats' = ActiveSeats
            /\ Phase' = Phase
            /\ running' = running
            /\ Notified' = Notified

LEMMA StutterOfGame == SameGame => UNCHANGED Game!svars
BY DEF SameGame, Game!svars, Ids_of, Phase, Notified

\* Taking a player off is a Leave of its seat.
LEMMA LeaveOfGame ==
    ASSUME TableOK, NEW k \in ActiveSeats, players' = Deactivated(k),
           Phase' = Phase, running' = running, Notified' = Notified
    PROVE  Game!SNext
<1>1. ActiveSeats' = ActiveSeats \ {k} /\ Len(players') = Len(players)
  BY TakenOffOK
<1>2. \A m \in 1..Len(players) : players'[m].id = players[m].id
  BY TakenOff DEF TableOK
<1>3. Ids_of(players)' = Ids_of(players)
  BY <1>1, <1>2 DEF Ids_of
<1>4. Game!Leave(k)
  BY <1>1, <1>3 DEF Game!Leave, Ids_of, Phase, Notified
<1> QED  BY <1>4 DEF Game!SNext

\* The server starts in an empty lobby.
LEMMA InitGame == Init => Game!SInit
<1> SUFFICES ASSUME Init PROVE Game!SInit  OBVIOUS
<1>1. Len(players) = 0 /\ ActiveSeats = {}  BY DEF Init, ActiveSeats
<1>2. Ids_of(players) = <<>>  BY <1>1 DEF Ids_of
<1>3. Phase = "lobby"  BY <1>1, RequiredAssumption DEF Init, Phase
<1>4. Notified = FALSE  BY DEF Init, Notified, Handled
<1> QED  BY <1>1, <1>2, <1>3, <1>4 DEF Init, Game!SInit, Ids_of, Phase, Notified

\* Every step of the server is a step of Session or leaves the game as it is.
LEMMA NextGame == IInv /\ IInv' /\ [Next]_vars => [Game!SNext]_(Game!svars)
<1> SUFFICES ASSUME IInv, IInv', [Next]_vars PROVE Game!SNext \/ UNCHANGED Game!svars
  OBVIOUS
<1>0. /\ TableOK /\ game_active \in BOOLEAN /\ inbox \in Seq(Line) /\ out \in Send
      /\ running \in BOOLEAN
      /\ Len(players) \in Nat
  BY DEF IInv, TypeOK, TableOK, Seat
<1>b. ASSUME UNCHANGED players
      PROVE  Ids_of(players)' = Ids_of(players) /\ ActiveSeats' = ActiveSeats /\ player_count' = player_count
  BY <1>b DEF Ids_of, ActiveSeats
<1>c. pc \in {"open", "write", "newline", "broadcast"} => out \in RealSend
  BY <1>0, SendOrNone DEF IInv, MessageInHand, Sending
<1>1. ASSUME NEW found \in BOOLEAN, BroadcastNext(found) PROVE Game!SNext \/ UNCHANGED Game!svars
  <2>1. out \in RealSend /\ out.to \in ActiveSeats  BY <1>1, <1>c DEF BroadcastNext
  <2>2. UNCHANGED <<game_active, running, armed>> /\ out'.after = out.after
    BY <1>1, <2>1, NextSeat DEF BroadcastNext
  <2>3. CASE found
    <3>1. SameGame  BY <1>1, <1>b, <2>2, <2>3 DEF BroadcastNext, SameGame, Phase, WelcomePending, Notified
    <3> QED  BY <3>1, StutterOfGame
  <2>4. CASE ~found
    <3>1. players' = Deactivated(out.to)  BY <1>1, <2>4 DEF BroadcastNext
    <3>2. player_count' = player_count  BY <1>0, <2>1, <3>1, TakenOffOK
    <3>3. Phase' = Phase /\ running' = running /\ Notified' = Notified
      BY <2>2, <3>2 DEF Phase, WelcomePending, Notified
    <3> QED  BY <1>0, <2>1, <3>1, <3>3, LeaveOfGame
  <2> QED  BY <2>3, <2>4
<1>2. ASSUME BroadcastSkip \/ BroadcastDone PROVE Game!SNext \/ UNCHANGED Game!svars
  <2>1. out'.after = out.after /\ UNCHANGED <<players, game_active, running, armed>>
    BY <1>2, <1>c, NextSeat DEF BroadcastSkip, BroadcastDone
  <2>2. SameGame  BY <1>b, <2>1 DEF SameGame, Phase, WelcomePending, Notified
  <2> QED  BY <2>2, StutterOfGame
<1>3. ASSUME NEW result \in {"ok", "ENOENT"}, SendOpen(result)
      PROVE  Game!SNext \/ UNCHANGED Game!svars
  <2>1. out \in RealSend /\ out.to \in ActiveSeats
    BY <1>3, <1>c DEF SendOpen, IInv, SendsToASeat
  <2>2. UNCHANGED <<game_active, running, armed>> /\ out'.after = out.after
    BY <1>3, <2>1, Returned DEF SendOpen
  <2>3. CASE result = "ok"
    <3>1. SameGame  BY <1>3, <1>b, <2>2, <2>3 DEF SendOpen, SameGame, Phase, WelcomePending, Notified
    <3> QED  BY <3>1, StutterOfGame
  <2>4. CASE result = "ENOENT"
    <3>1. players' = Deactivated(out.to)  BY <1>3, <2>4 DEF SendOpen
    <3>2. player_count' = player_count  BY <1>0, <2>1, <3>1, TakenOffOK
    <3>3. Phase' = Phase /\ running' = running /\ Notified' = Notified
      BY <2>2, <3>2 DEF Phase, WelcomePending, Notified
    <3> QED  BY <1>0, <2>1, <3>1, <3>3, LeaveOfGame
  <2> QED  BY <2>3, <2>4
<1>4. ASSUME NEW reader \in BOOLEAN, SendWrite(reader)
      PROVE  Game!SNext \/ UNCHANGED Game!svars
  <2>1. out \in RealSend /\ out.to \in ActiveSeats
    BY <1>4, <1>c DEF SendWrite, IInv, SendsToASeat
  <2>2. UNCHANGED <<game_active, running>> /\ out'.after = out.after /\ Notified' = Notified
    BY <1>4, <2>1, Returned DEF SendWrite, Raise, Notified
  <2>3. CASE reader
    <3>1. SameGame  BY <1>4, <1>b, <2>2, <2>3 DEF SendWrite, SameGame, Phase, WelcomePending
    <3> QED  BY <3>1, StutterOfGame
  <2>4. CASE ~reader
    <3>1. players' = Deactivated(out.to)  BY <1>4, <2>4 DEF SendWrite
    <3>2. player_count' = player_count  BY <1>0, <2>1, <3>1, TakenOffOK
    <3>3. Phase' = Phase
      BY <2>2, <3>2 DEF Phase, WelcomePending
    <3> QED  BY <1>0, <2>1, <2>2, <3>1, <3>3, LeaveOfGame
  <2> QED  BY <2>3, <2>4
<1>5. ASSUME SendFails \/ \E reader \in BOOLEAN : SendNewline(reader)
      PROVE  Game!SNext \/ UNCHANGED Game!svars
  <2>1. out \in RealSend  BY <1>5, <1>c DEF SendNewline, SendFails
  <2>2. UNCHANGED <<players, game_active, running>> /\ out'.after = out.after /\ Notified' = Notified
    BY <1>5, <2>1, Returned DEF SendNewline, SendFails, Raise, Notified, table
  <2>3. SameGame  BY <1>b, <2>2 DEF SameGame, Phase, WelcomePending
  <2> QED  BY <2>3, StutterOfGame
<1>6. ASSUME \/ \E reader \in BOOLEAN : KilledBySigpipe(reader)
             \/ \E sig \in {"SIGINT", "SIGTERM"} : KilledBySignal(sig)
             \/ \E batch \in Seq(Line) : Read(batch)
             \/ DropLine \/ Wait \/ NothingRead \/ ReadEof \/ CloseOnEof \/ Reopen \/ Exit
             \/ SelectFails \/ ReopenFails \/ UNCHANGED vars
      PROVE  Game!SNext \/ UNCHANGED Game!svars
  <2>1. UNCHANGED <<players, game_active, running, armed, out>>
    BY <1>6 DEF KilledBySigpipe, KilledBySignal, DropLine, Wait, Read, NothingRead, ReadEof, CloseOnEof, Reopen,
                Exit, SelectFails, ReopenFails, table, vars
  <2>2. SameGame  BY <1>b, <2>1 DEF SameGame, Phase, WelcomePending, Notified
  <2> QED  BY <2>2, StutterOfGame
<1>7. ASSUME NEW found \in BOOLEAN, HandleConnect(found) PROVE Game!SNext \/ UNCHANGED Game!svars
  <2>1. line.id \in Ids /\ ~WelcomePending
    BY <1>0, <1>7, LineTyped DEF HandleConnect, Parsed, IInv, WelcomeInPlace, Sending
  <2>2. /\ \A k \in ActiveSeats : players[k].id # line.id
        /\ player_count < Required
    BY <1>0, <1>7, Found DEF HandleConnect, MayConnect, TableOK
  <2>3. ~game_active
    BY <1>0, <2>2, RequiredAssumption DEF IInv, OnWhenFull
  <2>4. CASE found
    <3>0. PICK id \in Ids : id = line.id  BY <2>1
    <3>1. players' = Append(players, [id |-> line.id, active |-> TRUE])
      BY <1>7, <2>4 DEF HandleConnect
    <3>2. /\ ActiveSeats' = ActiveSeats \cup {player_count + 1}
          /\ Len(players') = Len(players) + 1
          /\ \A m \in 1..Len(players) : players'[m] = players[m]
          /\ players'[Len(players) + 1].id = line.id
      BY <1>0, <2>1, <2>2, <3>1, JoinedOK, Joined DEF TableOK
    <3>3. Ids_of(players)' = Append(Ids_of(players), id)
      BY <1>0, <3>0, <3>2 DEF Ids_of
    <3>4. WelcomePending'  BY <1>7, <2>4 DEF HandleConnect, SendTo, WelcomePending
    <3>5. Phase = "lobby" /\ Phase' = "lobby" /\ Notified' = Notified /\ running' = running
      BY <1>7, <2>2, <2>3, <3>4 DEF HandleConnect, Phase, Notified
    <3>6. Len(Ids_of(players)) = Len(players)
      BY <1>0 DEF Ids_of
    <3>7. \A k \in ActiveSeats : Ids_of(players)[k] = players[k].id
      BY DEF Ids_of, ActiveSeats
    <3>8. Game!Join(id)
      BY <2>2, <3>0, <3>2, <3>3, <3>5, <3>6, <3>7 DEF Game!Join, Ids_of, Phase, Notified
    <3> QED  BY <3>8 DEF Game!SNext
  <2>5. CASE ~found
    <3>1. SameGame
      BY <1>7, <1>b, <2>5 DEF HandleConnect, SameGame, Phase, WelcomePending, Notified
    <3> QED  BY <3>1, StutterOfGame
  <2> QED  BY <2>4, <2>5
<1>8. ASSUME Welcomed PROVE Game!SNext \/ UNCHANGED Game!svars
  <2>1. WelcomePending /\ ~game_active
    BY <1>8 DEF Welcomed, IInv, WelcomeInPlace, OnWhenFull
  <2>2. UNCHANGED <<players, running, armed>>  BY <1>8 DEF Welcomed
  <2>3. CASE player_count >= Required
    <3>1. game_active' /\ player_count = Required
      BY <1>0, <1>8, <2>3, RequiredAssumption DEF Welcomed, TableOK
    <3>2. Phase = "lobby" /\ Phase' = "playing"
      BY <2>1, <3>1 DEF Phase
    <3>3. Len(Ids_of(players)) = Len(players)
      BY <1>0 DEF Ids_of
    <3>4. Game!Start
      BY <1>b, <2>2, <3>1, <3>2, <3>3 DEF Game!Start, Ids_of, Phase, Notified
    <3> QED  BY <3>4 DEF Game!SNext
  <2>4. CASE ~(player_count >= Required)
    <3>1. player_count < Required /\ game_active' = game_active
      BY <1>0, <1>8, <2>4, RequiredAssumption DEF Welcomed
    <3>2. SameGame
      BY <1>b, <2>1, <2>2, <3>1 DEF SameGame, Phase, Notified
    <3> QED  BY <3>2, StutterOfGame
  <2> QED  BY <2>3, <2>4
<1>9. ASSUME Won PROVE Game!SNext \/ UNCHANGED Game!svars
  <2>1. ~WelcomePending /\ ~WelcomePending'
    BY <1>9 DEF Won, IInv, WelcomeInPlace, Sending, WelcomePending, NoSend
  <2>2. /\ UNCHANGED <<players, game_active, armed>>
        /\ Phase' = Phase
    BY <1>9, <1>b, <2>1 DEF Won, Phase
  <2>3. CASE running' = running
    <3>1. SameGame  BY <1>b, <2>2, <2>3 DEF SameGame, Notified
    <3> QED  BY <3>1, StutterOfGame
  <2>4. CASE running' # running
    <3>1. running /\ running' = FALSE /\ ActiveSeats = {}
      BY <1>0, <1>9, <2>4 DEF Won
    <3>2. Game!Close
      BY <1>b, <2>2, <3>1 DEF Game!Close, Ids_of, Phase, Notified
    <3> QED  BY <3>2 DEF Game!SNext
  <2> QED  BY <2>3, <2>4
<1>10. ASSUME Left PROVE Game!SNext \/ UNCHANGED Game!svars
  <2>1. ~WelcomePending /\ ~WelcomePending'
    BY <1>10 DEF Left, IInv, WelcomeInPlace, Sending, WelcomePending, NoSend
  <2>2. UNCHANGED <<players, armed>>  BY <1>10 DEF Left
  <2>3. CASE ActiveSeats = {} /\ game_active
    <3>1. Phase = "playing"  BY <2>3 DEF Phase
    <3>2. Phase' = "over"
      BY <1>0, <1>10, <1>b, <2>1, <2>2, <2>3, RequiredAssumption DEF Left, Phase, IInv, OnWhenFull
    <3>3. Game!Abandon
      BY <1>10, <1>b, <2>2, <2>3, <3>1, <3>2 DEF Left, Game!Abandon, Ids_of, Phase, Notified
    <3> QED  BY <3>3 DEF Game!SNext
  <2>4. CASE ActiveSeats = {} /\ ~game_active /\ running
    <3>1. Phase' = Phase  BY <1>10, <1>b, <2>1, <2>2, <2>4 DEF Left, Phase
    <3>2. Game!Close
      BY <1>10, <1>b, <2>2, <2>4, <3>1 DEF Left, Game!Close, Ids_of, Phase, Notified
    <3> QED  BY <3>2 DEF Game!SNext
  <2>5. CASE ActiveSeats # {} \/ (~game_active /\ ~running)
    <3>1. (game_active' <=> game_active) /\ (running' <=> running)
      BY <1>10, <2>5 DEF Left
    <3>2. running' = running  BY <1>0, <1>10, <2>5 DEF Left
    <3>3. SameGame
      BY <1>b, <2>1, <2>2, <3>1, <3>2 DEF SameGame, Phase, Notified
    <3> QED  BY <3>3, StutterOfGame
  <2> QED  BY <1>0, <2>3, <2>4, <2>5
<1>11. ASSUME HandleInvalidGuess \/ HandleWrongGuess \/ LinesDone
       PROVE  Game!SNext \/ UNCHANGED Game!svars
  <2>1. ~WelcomePending  BY <1>11
      DEF HandleInvalidGuess, HandleWrongGuess, LinesDone, Parsed, IInv, WelcomeInPlace, Sending
  <2>2. ~WelcomePending'
    BY <1>11 DEF HandleInvalidGuess, HandleWrongGuess, LinesDone, SendTo, Broadcast, NoSend, WelcomePending
  <2>3. UNCHANGED <<players, game_active, running, armed>>
    BY <1>11 DEF HandleInvalidGuess, HandleWrongGuess, LinesDone, table
  <2>4. SameGame  BY <1>b, <2>1, <2>2, <2>3 DEF SameGame, Phase, Notified
  <2> QED  BY <2>4, StutterOfGame
<1>12. ASSUME HandleRightGuess PROVE Game!SNext \/ UNCHANGED Game!svars
  <2>1. /\ game_active /\ game_active' = FALSE /\ ~WelcomePending'
        /\ UNCHANGED <<players, running, armed>>
    BY <1>12 DEF HandleRightGuess, MayGuess, Broadcast, WelcomePending
  <2>2. ActiveSeats # {}
    BY <1>0, <1>12, Found DEF HandleRightGuess, MayGuess, TableOK
  <2>3. Phase = "playing" /\ Phase' = "over"
    BY <1>0, <1>b, <2>1, RequiredAssumption DEF Phase, IInv, OnWhenFull
  <2>4. Game!Win
    BY <1>b, <2>1, <2>2, <2>3 DEF Game!Win, Ids_of, Phase, Notified
  <2> QED  BY <2>4 DEF Game!SNext
<1>13. ASSUME HandleDisconnect PROVE Game!SNext \/ UNCHANGED Game!svars
  <2>1. find_player_index(line.id) \in ActiveSeats
    BY <1>0, <1>13, Found DEF HandleDisconnect, MayDisconnect, TableOK
  <2>2. players' = Deactivated(find_player_index(line.id)) /\ UNCHANGED <<game_active, running, armed>>
    BY <1>13 DEF HandleDisconnect
  <2>3. player_count' = player_count  BY <1>0, <2>1, <2>2, TakenOffOK
  <2>4. ~WelcomePending
    BY <1>13 DEF HandleDisconnect, Parsed, IInv, WelcomeInPlace, Sending
  <2>5. ~WelcomePending'
    BY <1>13, <2>4 DEF HandleDisconnect, Broadcast, WelcomePending
  <2>6. Phase' = Phase /\ running' = running /\ Notified' = Notified
    BY <2>2, <2>3, <2>4, <2>5 DEF Phase, Notified
  <2> QED  BY <1>0, <2>1, <2>2, <2>6, LeaveOfGame
<1>14. ASSUME NEW sig \in {"SIGINT", "SIGTERM"}, Interrupt(sig)
       PROVE  Game!SNext \/ UNCHANGED Game!svars
  <2>1. out'.after = out.after
    BY <1>14, <1>c, Returned DEF Interrupt
  <2>2. running' = FALSE /\ UNCHANGED <<players, game_active>>
    BY <1>14 DEF Interrupt
  <2>3. Notified' = TRUE
    BY <1>14 DEF Interrupt, Raise, Notified
  <2>4. Phase' = Phase  BY <1>b, <2>1, <2>2 DEF Phase, WelcomePending
  <2>5. Game!Interrupted
    BY <1>b, <2>2, <2>3, <2>4 DEF Game!Interrupted, Ids_of, Phase, Notified
  <2> QED  BY <2>5 DEF Game!SNext
<1> QED
  BY <1>1, <1>2, <1>3, <1>4, <1>5, <1>6, <1>7, <1>8, <1>9, <1>10, <1>11, <1>12, <1>13, <1>14 DEF Next, Step

\* The server plays one game by the rules of Session: nobody joins a game that
\* has started, it starts once, with all seats taken, and the server is told to
\* stop only with no player left or by a signal (server.c 189-370).
THEOREM PlaysBySession == Spec => GameSpec
<1>1. Spec => Game!SInit /\ [][Game!SNext]_(Game!svars)
  BY InitGame, NextGame, Bookkeeping, PTL DEF Spec
<1> QED  BY <1>1 DEF GameSpec, Game!SSpec
===============================================================================
