----------------------------- MODULE ServerStart -----------------------------
(***************************************************************************)
(* How servers come and go (server.c 18-77, 499-560, 570-595) and where    *)
(* the secret word comes from (game_logic.c 12-130). All servers use one   *)
(* name in the file system, which each of them unlinks, makes anew, opens, *)
(* and opens again after every end-of-file. A server that has ended may be *)
(* started again; one started while another runs is a mistake that nothing *)
(* prevents.                                                               *)
(*                                                                         *)
(* What is said over the pipe is in GameServer and BullsCows; of a word    *)
(* only its length is left, and whether all of it is letters.              *)
(***************************************************************************)
EXTENDS Integers, Sequences, FiniteSets

CONSTANTS
    Servers,         \* as many servers as run at one time
    None,
    MAX_WORDS,       \* length of the dictionary
    MAX_WORD_LEN,    \* room for a word, with its end
    Files,           \* what words.txt may hold: the lines that fgets() returns
    BuiltIn,         \* lengths of the words built in
    Faults           \* which of the disturbances below happen

ASSUME StartAssumption ==
    /\ MAX_WORDS \in Nat \ {0} /\ MAX_WORD_LEN \in Nat /\ MAX_WORD_LEN > 1
    /\ IsFiniteSet(Servers) /\ None \notin Servers
    /\ Files \subseteq Seq([length : Nat, letters : BOOLEAN])
    /\ BuiltIn \subseteq Nat \ {0}
    /\ Faults \subseteq {"kill", "interrupt", "calls", "memory"}

\* Pipes, told apart only while somebody has one; there is always one to spare.
Pipes == 0 .. Cardinality(Servers)

VARIABLES
    words,      \* words.txt, a sequence of lines; None if it cannot be opened
    path,       \* the pipe that has the name PIPE_SERVER_NAME, or None
    pc, fd,     \* where each server is, and the pipe it reads
    stop,       \* running is 0
    secret,     \* the length of its secret word, 0 while there is none
    how,        \* how it ended
    maker,      \* history: which server made the pipe that has the name
    alone       \* history: no other server ran since it was started

vars == <<words, path, pc, fd, stop, secret, how, maker, alone>>

Init ==
    /\ words \in Files \cup {None}
    /\ path = None
    /\ pc = [s \in Servers |-> "off"]
    /\ fd = [s \in Servers |-> None]
    /\ stop = [s \in Servers |-> FALSE]
    /\ secret = [s \in Servers |-> 0]
    /\ how = [s \in Servers |-> "runs"]
    /\ maker = None
    /\ alone = [s \in Servers |-> TRUE]

Running(s) == pc[s] \notin {"off", "ended"}

Goto(s, place) == pc' = [pc EXCEPT ![s] = place]

\* However a server ends, its descriptor is closed and its memory gone.
End(s, h) ==
    /\ Goto(s, "ended")
    /\ how' = [how EXCEPT ![s] = h]
    /\ fd' = [fd EXCEPT ![s] = None]
    /\ stop' = [stop EXCEPT ![s] = FALSE]
    /\ secret' = [secret EXCEPT ![s] = 0]

-------------------------------------------------------------------------------
\* main() with a number of players that it accepts.
Start(s) ==
    /\ ~ Running(s)
    /\ Goto(s, "unlink")
    /\ how' = [how EXCEPT ![s] = "runs"]
    /\ alone' = [t \in Servers |-> IF t = s THEN \A u \in Servers : ~ Running(u)
                                             ELSE alone[t] /\ ~ Running(t)]
    /\ UNCHANGED <<words, path, fd, stop, secret, maker>>

\* unlink() of what an earlier server left, or another one uses.
\* Mutant: the name is left as it is.
KeepOld(s) ==
    /\ pc[s] = "unlink"
    /\ Goto(s, "mkfifo")
    /\ UNCHANGED <<words, path, fd, stop, secret, how, maker, alone>>
UnlinkOld(s) ==
    /\ pc[s] = "unlink"
    /\ path' = None
    /\ Goto(s, "mkfifo")
    /\ UNCHANGED <<words, fd, stop, secret, how, maker, alone>>

\* A new pipe gets the name; the call fails if there is one.
MkFifo(s) ==
    /\ path = None
    /\ path' = CHOOSE p \in Pipes : \A t \in Servers : fd[t] # p
    /\ maker' = s

MakePipe(s) ==
    /\ pc[s] = "mkfifo"
    /\ \/ MkFifo(s) /\ Goto(s, "open") /\ UNCHANGED <<fd, how, stop, secret>>
       \/ path # None /\ End(s, "EEXIST") /\ UNCHANGED <<path, maker>>
       \/ "calls" \in Faults /\ End(s, "failed") /\ UNCHANGED <<path, maker>>
    /\ UNCHANGED <<words, alone>>

\* open() of whatever has the name by now.
OpenPath(s) ==
    /\ path # None
    /\ fd' = [fd EXCEPT ![s] = path]

OpenFails == path = None \/ "calls" \in Faults

OpenPipe(s) ==
    /\ pc[s] = "open"
    /\ \/ OpenPath(s) /\ Goto(s, "word")
       \/ OpenFails /\ Goto(s, "undo") /\ UNCHANGED fd
    /\ UNCHANGED <<words, path, stop, secret, how, maker, alone>>

Undo(s) ==
    /\ pc[s] = "undo"
    /\ path' = None
    /\ End(s, "failed")
    /\ UNCHANGED <<words, maker, alone>>

-------------------------------------------------------------------------------
(***************************************************************************)
(* generate_secret_word().                                                 *)
(***************************************************************************)
IsWord(l) == l.length > 0 /\ l.letters

\* The lengths of the words that load_word_dictionary() keeps: of the first
\* MAX_WORDS lines that are words.
Dictionary ==
    IF words = None THEN {}
    ELSE {words[k].length : k \in {k \in 1 .. Len(words) :
              /\ IsWord(words[k])
              /\ Cardinality({j \in 1 .. k - 1 : IsWord(words[j])}) < MAX_WORDS}}

\* strncpy() into the room there is, and the end of the string.
\* Mutant: the word is copied as it is.
CopyAll(n) == n
Cut(n) == IF n < MAX_WORD_LEN THEN n ELSE MAX_WORD_LEN - 1

\* The test of running in game_loop().
Loop(s) == Goto(s, IF stop[s] THEN "cleanup" ELSE "serve")

Draw(s, lengths) ==
    /\ \E n \in lengths : secret' = [secret EXCEPT ![s] = Cut(n)]
    /\ Loop(s)
    /\ UNCHANGED <<how, fd, stop>>

\* A word of the dictionary, if there is one and memory for it, or one of those
\* built in. Without memory for these, setup_server() gives up and leaves its
\* pipe, or a word that is not there is copied.
SecretWord(s) ==
    /\ pc[s] = "word"
    /\ \/ Draw(s, Dictionary)
       \/ (Dictionary = {} \/ "memory" \in Faults) /\ Draw(s, BuiltIn)
       \/ "memory" \in Faults /\ \E h \in {"no word", "SIGSEGV"} : End(s, h)
    /\ UNCHANGED <<words, path, maker, alone>>

-------------------------------------------------------------------------------
(***************************************************************************)
(* game_loop() and cleanup().                                              *)
(***************************************************************************)
\* The last writer has closed the pipe. After a signal too: it may come in
\* select(), which leaves the descriptor in the set.
EndOfFile(s) ==
    /\ pc[s] = "serve"
    /\ fd' = [fd EXCEPT ![s] = None]
    /\ Goto(s, "reopen")
    /\ UNCHANGED <<words, path, stop, secret, how, maker, alone>>

\* 10 ms later.
\* Mutant: the loop goes on to wait for the name.
ReopenWaits(s) ==
    /\ pc[s] = "reopen"
    /\ OpenPath(s) /\ Loop(s)
    /\ UNCHANGED <<words, path, stop, secret, how, maker, alone>>
Reopen(s) ==
    /\ pc[s] = "reopen"
    /\ \/ OpenPath(s) /\ Loop(s)
       \/ OpenFails /\ Goto(s, "reunlink") /\ UNCHANGED fd
    /\ UNCHANGED <<words, path, stop, secret, how, maker, alone>>

UnlinkAgain(s) ==
    /\ pc[s] = "reunlink"
    /\ path' = None
    /\ Goto(s, "remkfifo")
    /\ UNCHANGED <<words, fd, stop, secret, how, maker, alone>>

MakeAgain(s) ==
    /\ pc[s] = "remkfifo"
    /\ \/ MkFifo(s) /\ Goto(s, "reopen2")
       \/ /\ path # None \/ "calls" \in Faults
          /\ Goto(s, "cleanup") /\ UNCHANGED <<path, maker>>
    /\ UNCHANGED <<words, fd, stop, secret, how, alone>>

OpenAgain(s) ==
    /\ pc[s] = "reopen2"
    /\ \/ OpenPath(s) /\ Loop(s)
       \/ OpenFails /\ Goto(s, "cleanup") /\ UNCHANGED fd
    /\ UNCHANGED <<words, path, stop, secret, how, maker, alone>>

\* The loop ends after SIGINT or SIGTERM.
Leave(s) ==
    /\ pc[s] = "serve" /\ stop[s]
    /\ Goto(s, "cleanup")
    /\ UNCHANGED <<words, path, fd, stop, secret, how, maker, alone>>

SelectFails(s) ==
    /\ "calls" \in Faults /\ pc[s] = "serve"
    /\ Goto(s, "cleanup")
    /\ UNCHANGED <<words, path, fd, stop, secret, how, maker, alone>>

\* Mutant: only a server that reads a pipe unlinks the name.
CleanupIfOpen(s) ==
    /\ pc[s] = "cleanup"
    /\ path' = IF fd[s] # None THEN None ELSE path
    /\ End(s, "returned")
    /\ UNCHANGED <<words, maker, alone>>
\* Registered with atexit() when setup_server() has succeeded.
Cleanup(s) ==
    /\ pc[s] = "cleanup"
    /\ path' = None
    /\ End(s, "returned")
    /\ UNCHANGED <<words, maker, alone>>

\* The first SIGINT or SIGTERM, at any time.
Interrupt(s) ==
    /\ "interrupt" \in Faults /\ Running(s) /\ ~ stop[s]
    /\ stop' = [stop EXCEPT ![s] = TRUE]
    /\ UNCHANGED <<words, path, pc, fd, secret, how, maker, alone>>

\* SIGKILL, a second SIGINT, or a second SIGPIPE.
Kill(s) ==
    /\ "kill" \in Faults /\ Running(s)
    /\ End(s, "killed")
    /\ UNCHANGED <<words, path, maker, alone>>

\* What a server does by itself; an end-of-file comes from its clients.
Work(s) ==
    \/ UnlinkOld(s) \/ MakePipe(s) \/ OpenPipe(s) \/ Undo(s) \/ SecretWord(s)
    \/ Reopen(s) \/ UnlinkAgain(s) \/ MakeAgain(s) \/ OpenAgain(s)
    \/ Leave(s) \/ Cleanup(s)

Next ==
    \E s \in Servers :
        Start(s) \/ Work(s) \/ EndOfFile(s) \/ SelectFails(s) \/ Interrupt(s) \/ Kill(s)

Spec == Init /\ [][Next]_vars

FairSpec == Spec /\ \A s \in Servers : WF_vars(Work(s))

-------------------------------------------------------------------------------
TypeOK ==
    /\ words \in Files \cup {None}
    /\ path \in Pipes \cup {None}
    /\ pc \in [Servers -> {"off", "unlink", "mkfifo", "open", "undo", "word", "serve", "reopen",
                           "reunlink", "remkfifo", "reopen2", "cleanup", "ended"}]
    /\ fd \in [Servers -> Pipes \cup {None}]
    /\ stop \in [Servers -> BOOLEAN]
    /\ secret \in [Servers -> 0 .. MAX_WORD_LEN - 1]
    /\ how \in [Servers -> {"runs", "EEXIST", "failed", "no word", "SIGSEGV", "returned", "killed"}]
    /\ maker \in Servers \cup {None}
    /\ alone \in [Servers -> BOOLEAN]

Serving(s) == pc[s] = "serve"

\* A server that runs alone, whatever earlier ones have left behind, is not
\* stopped by it, and while it serves it is reached under the name; its secret
\* can be guessed: parse_message refuses guesses of no letter and of MAX_WORD_LEN
\* or more (server.c 45-73, 466).
ReachedWhenAlone ==
    \A s \in Servers :
        /\ Serving(s) => secret[s] \in 1 .. MAX_WORD_LEN - 1
        /\ alone[s] => how[s] # "EEXIST" /\ (Serving(s) => path # None /\ fd[s] = path)

\* The name outlives the server that made its pipe only if that one was killed,
\* or failed after it had made it and before cleanup() was registered (server.c
\* 68-70, 588).
LeavesNoName ==
    path # None /\ ~ Running(maker) => how[maker] \in {"killed", "no word", "SIGSEGV"}

\* A server that has lost the name to another makes it anew at an end-of-file
\* once that one is gone: it is reached again, or ends (server.c 542-554).
RecoversTheName ==
    \A s \in Servers :
        LET Others == \E t \in Servers \ {s} : Running(t)
        IN  pc[s] = "reopen" /\ ~ Others ~> (Serving(s) /\ fd[s] = path) \/ ~ Running(s) \/ Others
===============================================================================
