-------------------------- MODULE ServerStart_proofs --------------------------
(***************************************************************************)
(* TypeOK, ReachedWhenAlone and LeavesNoName for any number of servers and *)
(* starts, any dictionary and any faults.                                  *)
(***************************************************************************)
EXTENDS ServerStart, FiniteSetTheorems, SequenceTheorems, TLAPS

\* From the draw on the secret is a word that fits.
Secrets ==
    \A s \in Servers :
        pc[s] \in {"serve", "reopen", "reunlink", "remkfifo", "reopen2"} =>
            secret[s] \in 1 .. MAX_WORD_LEN - 1

\* One that runs alone is the only one, and has seen its own unlink() and
\* mkfifo() work.
Alone ==
    \A s \in Servers : alone[s] =>
        /\ Running(s) => \A t \in Servers : Running(t) => t = s
        /\ pc[s] \in {"mkfifo", "remkfifo"} => path = None
        /\ pc[s] \in {"word", "serve"} => path # None /\ fd[s] = path
        /\ how[s] # "EEXIST"

\* The maker of the pipe that has the name runs, past its first mkfifo(), or
\* ended in one of the ways that leave it.
Made ==
    path # None =>
        /\ maker \in Servers
        /\ Running(maker) => pc[maker] # "mkfifo"
        /\ ~ Running(maker) => how[maker] \in {"killed", "no word", "SIGSEGV"}

IInv == TypeOK /\ Secrets /\ Alone /\ Made

-------------------------------------------------------------------------------
\* There is always a pipe that no server reads.
LEMMA Spare ==
  ASSUME TypeOK
  PROVE  \E p \in Pipes : \A t \in Servers : fd[t] # p
<1> DEFINE Read == {fd[t] : t \in Servers}
<1>1. IsFiniteSet(Servers) /\ Cardinality(Servers) \in Nat  BY StartAssumption, FS_CardinalityType
<1>2. IsFiniteSet(Read) /\ Cardinality(Read) <= Cardinality(Servers)
  <2>1. fd \in Surjection(Servers, Read)  BY DEF TypeOK, Surjection
  <2> QED  BY <1>1, <2>1, FS_Surjection
<1>3. IsFiniteSet(Pipes) /\ Cardinality(Pipes) = Cardinality(Servers) + 1
  BY <1>1, FS_Interval DEF Pipes
<1>4. Cardinality(Read) \in Nat  BY <1>2, FS_CardinalityType
<1>5. SUFFICES ASSUME Pipes \subseteq Read PROVE FALSE  BY DEF Read
<1>6. Cardinality(Pipes) <= Cardinality(Read)  BY <1>2, <1>5, FS_Subset
<1> QED  BY <1>1, <1>2, <1>3, <1>4, <1>6

LEMMA MkFifoMakes ==
  ASSUME TypeOK, NEW s \in Servers, MkFifo(s)
  PROVE  path' \in Pipes /\ maker' = s /\ path = None
BY Spare DEF MkFifo

\* What a server draws fits into the room for it and is not empty.
LEMMA DrawFits ==
  ASSUME NEW s \in Servers, NEW n \in Dictionary \cup BuiltIn, words \in Files \cup {None}
  PROVE  Cut(n) \in 1 .. MAX_WORD_LEN - 1
<1>1. n \in Nat \ {0}
  <2>1. CASE n \in BuiltIn  BY <2>1, StartAssumption
  <2>2. CASE n \in Dictionary
    <3>1. words # None /\ words \in Files  BY <2>2 DEF Dictionary
    <3>2. words \in Seq([length : Nat, letters : BOOLEAN])  BY <3>1, StartAssumption
    <3>3. PICK k \in 1 .. Len(words) : IsWord(words[k]) /\ n = words[k].length
      BY <2>2, <3>1 DEF Dictionary
    <3>4. words[k] \in [length : Nat, letters : BOOLEAN]  BY <3>2, <3>3, ElementOfSeq
    <3> QED  BY <3>3, <3>4 DEF IsWord
  <2> QED  BY <2>1, <2>2
<1> QED  BY <1>1, StartAssumption DEF Cut

-------------------------------------------------------------------------------
\* The steps, one after the other.
Places == {"off", "unlink", "mkfifo", "open", "undo", "word", "serve", "reopen",
           "reunlink", "remkfifo", "reopen2", "cleanup", "ended"}
Hows == {"EEXIST", "failed", "no word", "SIGSEGV", "returned", "killed"}

\* A server that ends changes nothing of the others.
LEMMA Ends ==
  ASSUME TypeOK, NEW s \in Servers, NEW h \in Hows, End(s, h)
  PROVE  /\ pc' \in [Servers -> Places] /\ how' \in [Servers -> Hows \cup {"runs"}]
         /\ fd' \in [Servers -> Pipes \cup {None}] /\ stop' \in [Servers -> BOOLEAN]
         /\ secret' \in [Servers -> 0 .. MAX_WORD_LEN - 1]
         /\ pc'[s] = "ended" /\ how'[s] = h
         /\ \A t \in Servers \ {s} :
              pc'[t] = pc[t] /\ how'[t] = how[t] /\ fd'[t] = fd[t] /\ secret'[t] = secret[t]
<1>1. 0 \in 0 .. MAX_WORD_LEN - 1  BY StartAssumption
<1>2. secret' \in [Servers -> 0 .. MAX_WORD_LEN - 1]  BY <1>1 DEF TypeOK, End
<1>3. fd' \in [Servers -> Pipes \cup {None}]  BY DEF TypeOK, End
<1> QED  BY <1>2, <1>3 DEF TypeOK, End, Goto, Hows, Places

\* A step of a running server keeps Alone if it does for itself: a server that
\* runs alone takes no notice of those that do not run.
LEMMA StaysAlone ==
  ASSUME Alone, NEW s \in Servers, Running(s), alone' = alone,
         \A t \in Servers \ {s} : pc'[t] = pc[t] /\ how'[t] = how[t],
         alone[s] =>
           /\ pc'[s] \in {"mkfifo", "remkfifo"} => path' = None
           /\ pc'[s] \in {"word", "serve"} => path' # None /\ fd'[s] = path'
           /\ how'[s] # "EEXIST"
  PROVE  Alone'
BY DEF Alone, Running

\* What open() gives the server.
LEMMA Opens ==
  ASSUME TypeOK, NEW s \in Servers, OpenPath(s)
  PROVE  /\ path # None /\ fd' \in [Servers -> Pipes \cup {None}] /\ fd'[s] = path
         /\ \A t \in Servers \ {s} : fd'[t] = fd[t]
BY DEF TypeOK, OpenPath

\* What a draw changes, and where it leads.
LEMMA Draws ==
  ASSUME TypeOK, NEW s \in Servers, NEW lengths \in {Dictionary, BuiltIn}, Draw(s, lengths)
  PROVE  /\ secret' \in [Servers -> 0 .. MAX_WORD_LEN - 1] /\ pc' \in [Servers -> Places]
         /\ secret'[s] \in 1 .. MAX_WORD_LEN - 1 /\ pc'[s] \in {"cleanup", "serve"}
         /\ \A t \in Servers \ {s} : pc'[t] = pc[t] /\ secret'[t] = secret[t]
<1>1. PICK n \in lengths : secret' = [secret EXCEPT ![s] = Cut(n)]  BY DEF Draw
<1>2. Cut(n) \in 1 .. MAX_WORD_LEN - 1  BY <1>1, DrawFits DEF TypeOK
<1>3. pc' \in [Servers -> Places] /\ pc'[s] \in {"cleanup", "serve"}
      /\ \A t \in Servers \ {s} : pc'[t] = pc[t]
  BY DEF Draw, Loop, Goto, TypeOK, Places
<1>4. Cut(n) \in 0 .. MAX_WORD_LEN - 1  BY <1>2
<1> QED  BY <1>1, <1>2, <1>3, <1>4 DEF TypeOK

LEMMA Inductive ==
  ASSUME IInv, [Next]_vars
  PROVE  IInv'
<1> USE StartAssumption
<1>s. TypeOK /\ Secrets /\ Alone /\ Made  BY DEF IInv
<1>a. ASSUME NEW s \in Servers,
             \/ Start(s) \/ Work(s) \/ EndOfFile(s) \/ SelectFails(s) \/ Interrupt(s) \/ Kill(s)
      PROVE  IInv'
  <2>1. CASE Start(s)
    <3>1. TypeOK'  BY <1>s, <2>1 DEF TypeOK, Start, Goto
    <3>2. Secrets'  BY <1>s, <2>1 DEF TypeOK, Secrets, Start, Goto
    <3>3. Alone'  BY <1>s, <2>1 DEF TypeOK, Alone, Running, Start, Goto
    <3>4. Made'  BY <1>s, <2>1 DEF TypeOK, Made, Running, Start, Goto
    <3> QED  BY <3>1, <3>2, <3>3, <3>4 DEF IInv
  <2>2. CASE UnlinkOld(s)
    <3>1. TypeOK'  BY <1>s, <2>2 DEF TypeOK, UnlinkOld, Goto
    <3>2. Secrets'  BY <1>s, <2>2 DEF TypeOK, Secrets, UnlinkOld, Goto
    <3>3. Alone'  BY ZenonT(60), <1>s, <2>2 DEF TypeOK, Alone, Running, UnlinkOld, Goto
    <3>4. Made'  BY <1>s, <2>2 DEF TypeOK, Made, Running, UnlinkOld, Goto
    <3> QED  BY <3>1, <3>2, <3>3, <3>4 DEF IInv
  <2>3. CASE MakePipe(s)
    <3>0. MkFifo(s) => path' \in Pipes /\ maker' = s /\ path = None  BY <1>s, MkFifoMakes
    <3>1. TypeOK'  BY ZenonT(60), <1>s, <2>3, <3>0, Ends DEF TypeOK, Places, Hows, MakePipe, Goto
    <3>2. Secrets'  BY <1>s, <2>3, <3>0, Ends DEF TypeOK, Secrets, Hows, MakePipe, Goto
    <3>3. Alone'
      <4>1. Running(s) /\ alone' = alone  BY <2>3 DEF Running, MakePipe
      <4>2. \A t \in Servers \ {s} : pc'[t] = pc[t] /\ how'[t] = how[t]
        BY <1>s, <2>3, <3>0, Ends DEF TypeOK, Hows, MakePipe, Goto
      <4>3. alone[s] =>
              /\ pc'[s] \in {"mkfifo", "remkfifo"} => path' = None
              /\ pc'[s] \in {"word", "serve"} => path' # None /\ fd'[s] = path'
              /\ how'[s] # "EEXIST"
        BY <1>s, <2>3, <3>0, Ends DEF TypeOK, Alone, Hows, MakePipe, Goto
      <4> QED  BY <1>s, <4>1, <4>2, <4>3, StaysAlone
    <3>4. Made'  BY ZenonT(60), <1>s, <2>3, <3>0, Ends DEF TypeOK, Made, Running, Hows, MakePipe, Goto
    <3> QED  BY <3>1, <3>2, <3>3, <3>4 DEF IInv
  <2>4. CASE OpenPipe(s)
    <3>1. TypeOK'  BY <1>s, <2>4, Opens DEF TypeOK, Places, OpenPipe, Goto
    <3>2. Secrets'  BY <1>s, <2>4, Opens DEF TypeOK, Secrets, OpenPipe, Goto
    <3>3. Alone'
      <4>1. Running(s) /\ alone' = alone  BY <2>4 DEF Running, OpenPipe
      <4>2. \A t \in Servers \ {s} : pc'[t] = pc[t] /\ how'[t] = how[t]
        BY <1>s, <2>4, Opens DEF TypeOK, OpenPipe, Goto
      <4>3. alone[s] =>
              /\ pc'[s] \in {"mkfifo", "remkfifo"} => path' = None
              /\ pc'[s] \in {"word", "serve"} => path' # None /\ fd'[s] = path'
              /\ how'[s] # "EEXIST"
        BY <1>s, <2>4, Opens DEF TypeOK, Alone, OpenPipe, Goto
      <4> QED  BY <1>s, <4>1, <4>2, <4>3, StaysAlone
    <3>4. Made'  BY <1>s, <2>4, Opens DEF TypeOK, Made, Running, OpenPipe, Goto
    <3> QED  BY <3>1, <3>2, <3>3, <3>4 DEF IInv
  <2>5. CASE Undo(s)
    <3>1. TypeOK'  BY ZenonT(60), <1>s, <2>5, Ends DEF TypeOK, Places, Hows, Undo
    <3>2. Secrets'  BY <1>s, <2>5, Ends DEF TypeOK, Secrets, Hows, Undo
    <3>3. Alone'
      <4>1. Running(s) /\ alone' = alone  BY <2>5 DEF Running, Undo
      <4>2. \A t \in Servers \ {s} : pc'[t] = pc[t] /\ how'[t] = how[t]
        BY <1>s, <2>5, Ends DEF TypeOK, Hows, Undo
      <4>3. alone[s] =>
              /\ pc'[s] \in {"mkfifo", "remkfifo"} => path' = None
              /\ pc'[s] \in {"word", "serve"} => path' # None /\ fd'[s] = path'
              /\ how'[s] # "EEXIST"
        BY <1>s, <2>5, Ends DEF TypeOK, Alone, Hows, Undo
      <4> QED  BY <1>s, <4>1, <4>2, <4>3, StaysAlone
    <3>4. Made'  BY <1>s, <2>5, Ends DEF TypeOK, Made, Running, Hows, Undo
    <3> QED  BY <3>1, <3>2, <3>3, <3>4 DEF IInv
  <2>6. CASE SecretWord(s)
    <3>0. UNCHANGED <<words, path, maker, alone>> /\ pc[s] = "word" /\ Running(s)
      BY <2>6 DEF SecretWord, Running
    <3>1. CASE \E lengths \in {Dictionary, BuiltIn} : Draw(s, lengths)
      <4>1. UNCHANGED <<how, fd, stop>>  BY <3>1 DEF Draw
      <4>2. /\ secret' \in [Servers -> 0 .. MAX_WORD_LEN - 1] /\ pc' \in [Servers -> Places]
            /\ secret'[s] \in 1 .. MAX_WORD_LEN - 1 /\ pc'[s] \in {"cleanup", "serve"}
            /\ \A t \in Servers \ {s} : pc'[t] = pc[t] /\ secret'[t] = secret[t]
        BY <1>s, <3>1, Draws DEF TypeOK
      <4>3. TypeOK'  BY <1>s, <3>0, <4>1, <4>2 DEF TypeOK, Places
      <4>4. Secrets'  BY <1>s, <4>2 DEF Secrets
      <4>5. Alone'  BY <1>s, <3>0, <4>1, <4>2, StaysAlone DEF Alone
      <4>6. Made'  BY <1>s, <3>0, <4>1, <4>2 DEF Made, Running
      <4> QED  BY <4>3, <4>4, <4>5, <4>6 DEF IInv
    <3>2. CASE \E h \in {"no word", "SIGSEGV"} : End(s, h)
      <4>1. PICK h \in {"no word", "SIGSEGV"} : End(s, h)  BY <3>2
      <4>2. h \in Hows  BY DEF Hows
      <4>3. TypeOK'
        <5>1. /\ pc' \in [Servers -> Places] /\ how' \in [Servers -> Hows \cup {"runs"}]
              /\ fd' \in [Servers -> Pipes \cup {None}] /\ stop' \in [Servers -> BOOLEAN]
              /\ secret' \in [Servers -> 0 .. MAX_WORD_LEN - 1]
          BY <1>s, <4>1, <4>2, Ends
        <5> QED  BY <1>s, <3>0, <5>1 DEF TypeOK, Places, Hows
      <4>4. Secrets'  BY <1>s, <4>1, <4>2, Ends DEF Secrets
      <4>5. Alone'  BY <1>s, <3>0, <4>1, <4>2, Ends, StaysAlone
      <4>6. Made'  BY <1>s, <3>0, <4>1, <4>2, Ends DEF Made, Running
      <4> QED  BY <4>3, <4>4, <4>5, <4>6 DEF IInv
    <3> QED  BY <2>6, <3>1, <3>2 DEF SecretWord
  <2>7. CASE Reopen(s)
    <3>1. TypeOK'  BY <1>s, <2>7, Opens DEF TypeOK, Places, Reopen, Loop, Goto
    <3>2. Secrets'  BY <1>s, <2>7, Opens DEF TypeOK, Secrets, Reopen, Loop, Goto
    <3>3. Alone'
      <4>1. Running(s) /\ alone' = alone  BY <2>7 DEF Running, Reopen
      <4>2. \A t \in Servers \ {s} : pc'[t] = pc[t] /\ how'[t] = how[t]
        BY <1>s, <2>7, Opens DEF TypeOK, Reopen, Loop, Goto
      <4>3. alone[s] =>
              /\ pc'[s] \in {"mkfifo", "remkfifo"} => path' = None
              /\ pc'[s] \in {"word", "serve"} => path' # None /\ fd'[s] = path'
              /\ how'[s] # "EEXIST"
        BY <1>s, <2>7, Opens DEF TypeOK, Alone, Reopen, Loop, Goto
      <4> QED  BY <1>s, <4>1, <4>2, <4>3, StaysAlone
    <3>4. Made'  BY <1>s, <2>7, Opens DEF TypeOK, Made, Running, Reopen, Loop, Goto
    <3> QED  BY <3>1, <3>2, <3>3, <3>4 DEF IInv
  <2>8. CASE UnlinkAgain(s)
    <3>1. TypeOK'  BY <1>s, <2>8 DEF TypeOK, UnlinkAgain, Goto
    <3>2. Secrets'  BY <1>s, <2>8 DEF TypeOK, Secrets, UnlinkAgain, Goto
    <3>3. Alone'  BY ZenonT(60), <1>s, <2>8 DEF TypeOK, Alone, Running, UnlinkAgain, Goto
    <3>4. Made'  BY <1>s, <2>8 DEF TypeOK, Made, Running, UnlinkAgain, Goto
    <3> QED  BY <3>1, <3>2, <3>3, <3>4 DEF IInv
  <2>9. CASE MakeAgain(s)
    <3>0. MkFifo(s) => path' \in Pipes /\ maker' = s /\ path = None  BY <1>s, MkFifoMakes
    <3>1. TypeOK'  BY <1>s, <2>9, <3>0 DEF TypeOK, MakeAgain, Goto
    <3>2. Secrets'  BY <1>s, <2>9, <3>0 DEF TypeOK, Secrets, MakeAgain, Goto
    <3>3. Alone'  BY ZenonT(60), <1>s, <2>9, <3>0 DEF TypeOK, Alone, Running, MakeAgain, Goto
    <3>4. Made'  BY ZenonT(60), <1>s, <2>9, <3>0 DEF TypeOK, Made, Running, MakeAgain, Goto
    <3> QED  BY <3>1, <3>2, <3>3, <3>4 DEF IInv
  <2>10. CASE OpenAgain(s)
    <3>1. TypeOK'  BY <1>s, <2>10, Opens DEF TypeOK, Places, OpenAgain, Loop, Goto
    <3>2. Secrets'  BY <1>s, <2>10, Opens DEF TypeOK, Secrets, OpenAgain, Loop, Goto
    <3>3. Alone'
      <4>1. Running(s) /\ alone' = alone  BY <2>10 DEF Running, OpenAgain
      <4>2. \A t \in Servers \ {s} : pc'[t] = pc[t] /\ how'[t] = how[t]
        BY <1>s, <2>10, Opens DEF TypeOK, OpenAgain, Loop, Goto
      <4>3. alone[s] =>
              /\ pc'[s] \in {"mkfifo", "remkfifo"} => path' = None
              /\ pc'[s] \in {"word", "serve"} => path' # None /\ fd'[s] = path'
              /\ how'[s] # "EEXIST"
        BY <1>s, <2>10, Opens DEF TypeOK, Alone, OpenAgain, Loop, Goto
      <4> QED  BY <1>s, <4>1, <4>2, <4>3, StaysAlone
    <3>4. Made'  BY <1>s, <2>10, Opens DEF TypeOK, Made, Running, OpenAgain, Loop, Goto
    <3> QED  BY <3>1, <3>2, <3>3, <3>4 DEF IInv
  <2>11. CASE Leave(s)
    <3>1. TypeOK'  BY <1>s, <2>11 DEF TypeOK, Leave, Goto
    <3>2. Secrets'  BY <1>s, <2>11 DEF TypeOK, Secrets, Leave, Goto
    <3>3. Alone'  BY ZenonT(60), <1>s, <2>11 DEF TypeOK, Alone, Running, Leave, Goto
    <3>4. Made'  BY <1>s, <2>11 DEF TypeOK, Made, Running, Leave, Goto
    <3> QED  BY <3>1, <3>2, <3>3, <3>4 DEF IInv
  <2>12. CASE Cleanup(s)
    <3>1. TypeOK'  BY ZenonT(60), <1>s, <2>12, Ends DEF TypeOK, Places, Hows, Cleanup
    <3>2. Secrets'  BY <1>s, <2>12, Ends DEF TypeOK, Secrets, Hows, Cleanup
    <3>3. Alone'
      <4>1. Running(s) /\ alone' = alone  BY <2>12 DEF Running, Cleanup
      <4>2. \A t \in Servers \ {s} : pc'[t] = pc[t] /\ how'[t] = how[t]
        BY <1>s, <2>12, Ends DEF TypeOK, Hows, Cleanup
      <4>3. alone[s] =>
              /\ pc'[s] \in {"mkfifo", "remkfifo"} => path' = None
              /\ pc'[s] \in {"word", "serve"} => path' # None /\ fd'[s] = path'
              /\ how'[s] # "EEXIST"
        BY <1>s, <2>12, Ends DEF TypeOK, Alone, Hows, Cleanup
      <4> QED  BY <1>s, <4>1, <4>2, <4>3, StaysAlone
    <3>4. Made'  BY <1>s, <2>12, Ends DEF TypeOK, Made, Running, Hows, Cleanup
    <3> QED  BY <3>1, <3>2, <3>3, <3>4 DEF IInv
  <2>13. CASE EndOfFile(s)
    <3>1. TypeOK'  BY <1>s, <2>13 DEF TypeOK, EndOfFile, Goto
    <3>2. Secrets'  BY <1>s, <2>13 DEF TypeOK, Secrets, EndOfFile, Goto
    <3>3. Alone'  BY ZenonT(60), <1>s, <2>13 DEF TypeOK, Alone, Running, EndOfFile, Goto
    <3>4. Made'  BY <1>s, <2>13 DEF TypeOK, Made, Running, EndOfFile, Goto
    <3> QED  BY <3>1, <3>2, <3>3, <3>4 DEF IInv
  <2>14. CASE SelectFails(s)
    <3>1. TypeOK'  BY <1>s, <2>14 DEF TypeOK, SelectFails, Goto
    <3>2. Secrets'  BY <1>s, <2>14 DEF TypeOK, Secrets, SelectFails, Goto
    <3>3. Alone'  BY ZenonT(60), <1>s, <2>14 DEF TypeOK, Alone, Running, SelectFails, Goto
    <3>4. Made'  BY <1>s, <2>14 DEF TypeOK, Made, Running, SelectFails, Goto
    <3> QED  BY <3>1, <3>2, <3>3, <3>4 DEF IInv
  <2>15. CASE Interrupt(s)
    <3>1. TypeOK'  BY <1>s, <2>15 DEF TypeOK, Interrupt
    <3>2. Secrets'  BY <1>s, <2>15 DEF TypeOK, Secrets, Interrupt
    <3>3. Alone'  BY <1>s, <2>15 DEF TypeOK, Alone, Running, Interrupt
    <3>4. Made'  BY <1>s, <2>15 DEF TypeOK, Made, Running, Interrupt
    <3> QED  BY <3>1, <3>2, <3>3, <3>4 DEF IInv
  <2>16. CASE Kill(s)
    <3>1. TypeOK'  BY <1>s, <2>16, Ends DEF TypeOK, Places, Hows, Kill
    <3>2. Secrets'  BY <1>s, <2>16, Ends DEF TypeOK, Secrets, Hows, Kill
    <3>3. Alone'
      <4>1. Running(s) /\ alone' = alone  BY <2>16 DEF Running, Kill
      <4>2. \A t \in Servers \ {s} : pc'[t] = pc[t] /\ how'[t] = how[t]
        BY <1>s, <2>16, Ends DEF TypeOK, Hows, Kill
      <4>3. alone[s] =>
              /\ pc'[s] \in {"mkfifo", "remkfifo"} => path' = None
              /\ pc'[s] \in {"word", "serve"} => path' # None /\ fd'[s] = path'
              /\ how'[s] # "EEXIST"
        BY <1>s, <2>16, Ends DEF TypeOK, Alone, Hows, Kill
      <4> QED  BY <1>s, <4>1, <4>2, <4>3, StaysAlone
    <3>4. Made'  BY <1>s, <2>16, Ends DEF TypeOK, Made, Running, Hows, Kill
    <3> QED  BY <3>1, <3>2, <3>3, <3>4 DEF IInv
  <2> QED  BY <1>a, <2>1, <2>2, <2>3, <2>4, <2>5, <2>6, <2>7, <2>8, <2>9, <2>10, <2>11, <2>12, <2>13, <2>14, <2>15, <2>16 DEF Work
<1>b. CASE UNCHANGED vars  BY <1>s, <1>b DEF vars, IInv, TypeOK, Secrets, Alone, Made, Running
<1> QED  BY <1>a, <1>b DEF Next

LEMMA Begins == Init => IInv
<1> SUFFICES ASSUME Init PROVE IInv  OBVIOUS
<1>1. TypeOK  BY StartAssumption DEF Init, TypeOK
<1>2. Secrets /\ Alone /\ Made  BY DEF Init, Secrets, Alone, Made, Running
<1> QED  BY <1>1, <1>2 DEF IInv

\* The invariant of server.c: what is true of the servers between any two calls.
THEOREM Invariant == Spec => []IInv
BY Begins, Inductive, PTL DEF Spec

\* Types, for any number of servers: there is always a pipe to spare.
THEOREM Typed == Spec => []TypeOK
<1>1. IInv => TypeOK  BY DEF IInv
<1> QED  BY <1>1, Invariant, PTL

\* What is left of earlier servers is no obstacle (server.c 45-73): a server that
\* runs alone gets the name, keeps it, and has a secret that can be guessed.
THEOREM AloneIsReached == Spec => []ReachedWhenAlone
<1>1. IInv => ReachedWhenAlone  BY DEF IInv, Secrets, Alone, ReachedWhenAlone, Serving
<1> QED  BY <1>1, Invariant, PTL

\* Who can leave the name behind (server.c 27, 59, 68-70, 588).
THEOREM NameIsLeftByFailures == Spec => []LeavesNoName
<1>1. IInv => LeavesNoName  BY DEF IInv, Made, LeavesNoName
<1> QED  BY <1>1, Invariant, PTL
===============================================================================
