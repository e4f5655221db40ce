# Specifications of the operating-systems coursework

The repository holds the programs of one course on operating systems: the course
project, a "Bulls and Cows" game for several players over named pipes (`os_KP`),
and five laboratory works (`os_lab1` to `os_lab5`). The programs are small; what
makes them hard is that they are several processes or threads that meet in pipes,
signals and shared memory. These modules model that part, instruction by
instruction where another process can come between.

## 1. Inventory

| Part | Source | State | Operations | What makes it correct |
|---|---|---|---|---|
| Judging a guess | `os_KP/src/game_logic.c` | flags of used letters, bulls, cows | `validate_guess`, `check_guess`, `is_word_guessed` | the score is the rule of the game; won exactly by the secret |
| Game server | `os_KP/src/server.c` | table of players, `game_active`, `running`, handlers | `game_loop`, `parse_message`, `handle_client_*`, `send_text_to_player`, `broadcast_message`, signals | one seat per player; one game, started once and won once; sends go to seats of the table |
| Game client | `os_KP/src/client.c` | own pipe, `active` | `connect_to_server`, `client_loop`, `handle_user_input`, `send_to_server`, `cleanup`, signals | news it gets is true; it is never stuck |
| The pipes | used by both | names, contents, who has which end open | `open`, `read`, `write`, `close`, `unlink` | a running player keeps its pipe; the server is not held up |
| Start and stop of a server, word list | `server.c` 18-77, 537-596, `game_logic.c` 12-130 | the name of the pipe, descriptor, `running`, secret word | `setup_server`, the reopening of the pipe, `cleanup`, `load_word_dictionary`, `generate_secret_word` | a server that runs alone is reached and can be played with; who leaves the name behind; a lost name is recovered |
| Laboratory 1 | `os_lab1`, `os_lab1/new` | two pipes, a file | parent sends lines, child divides | every line is divided once and in order; neither process is left waiting |
| Laboratory 2 | `os_lab2/find_min_max.c`, `main.c` | chunks, partial results | threads scan chunks | partition, result, lifetime of the arguments |
| Laboratory 3 | `os_lab3/parent.c`, `child.c` | flags set by handlers, shared memory, file | signals and `pause()` | the child reads what was written; nobody waits for ever; memory removed |
| Laboratory 4 | `os_lab4/lab` | pointers into the loaded library, the state of a call | load, switch, `translation`, `SinIntegral` | pointers lead into the library announced; writes stay inside the memory; the numeral is that of the number; calls return |
| Laboratory 5 | `os_lab5` | - | traces only | - |

**Interaction in the game.** Every client writes lines (`CONNECT:`, `GUESS:`,
`DISCONNECT:`) to the server's one pipe, a line and its newline by two `write()`s.
The server reads, handles line by line, and answers by opening the player's own
pipe, which it finds by the id, for each message. A client has its pipe closed for
10 ms after each end-of-file; so has the server. Server and clients end by
clean-up at exit, by a signal, or by being killed. A server that starts unlinks
whatever has its name, so it takes the name from one that runs.

**What is hard.** Blocking `open()`; writes to a pipe whose reader is just
reopening it; lines of two clients that run together; unlinking by a path that may
name another pipe; `signal()` of a C11 build, whose handler serves one delivery and
does not restart calls (`os_KP/report/server_strace.txt:34-36` shows
`SA_RESETHAND`; `os_lab3/src/strace.tex:58-59` shows a parent killed by it);
signals delivered between a test and `pause()`; a line without its end that somebody
waits for; pointers and numbers left by a failure half-way; sums that rounding swallows;
failures that are not looked at.
`PROJECT.json` lists each one at its line with the properties that cover it.

## 2. Modules

| Module | Models | Uses |
|---|---|---|
| `CheckGuess` | `validate_guess`, the two loops of `check_guess`, the verdict | - |
| `CheckGuess_proofs` | its theorems | `CheckGuess` |
| `Messages` | lines to the server and messages to a player | - |
| `Session` | abstract: one game, as promised | - |
| `GameServer` | the server; outcomes of calls on pipes are parameters | `Messages`, `Session` (refinement) |
| `GameServer_proofs` | its theorems, the refinement included | `GameServer` |
| `BullsCows` | server, clients and pipes | extends `GameServer` |
| `BullsCows_proofs` | its theorems | `BullsCows`, `GameServer_proofs` |
| `BullsCowsClaims` | statements of the report that are refuted | `BullsCows` |
| `ServerStart` | servers that start, lose their name, end and start again; the secret word | - |
| `ServerStart_proofs` | its theorems | `ServerStart` |
| `Division` | abstract: lines are answered once, in order, up to a zero | - |
| `PipeDivide` | laboratory 1, both versions, both processes | `Division` (refinement) |
| `PipeDivide_proofs` | its theorems | `PipeDivide` |
| `ShmSignals` | laboratory 3, both processes | - |
| `ShmSignals_proofs` | its theorems | `ShmSignals` |
| `MinMax` | laboratory 2 | - |
| `MinMax_proofs` | its theorems | `MinMax` |
| `Translation` | one call of `translation()` | - |
| `SinIntegral` | the loop of `SinIntegral()` over rounded numbers | - |
| `Programs` | laboratory 4: loading, switching and calling | extends `Translation`, `SinIntegral` |
| `Programs_proofs` | the theorems of both, and of `Translation` | `Programs` |
| `MC*` | constants for TLC | the module named |

How they correspond to the code:

- **CheckGuess.** `secret_used` and `guess_used` are the sets of positions whose flag
  is set; `i`, `j` the loop variables; each action is one path through one iteration.
  A word is a sequence over a small alphabet with a character that
  `validate_guess` refuses.
- **GameServer.** `players` is the array up to `player_count`; `armed` the signals
  whose handler is still installed; `inbox` the lines of the last `read()`; `out` the
  message being sent, to which seat, whether by `broadcast_message`, and where the
  handler goes on; `pc` the place. There is a step for every system call that another
  process can make fail or interleave with: `stat`, `open`, the two `write`s, `read`,
  `close` and `open` of the server's pipe. An action that depends on a pipe has the
  outcome as a parameter. `SendFails`, `SelectFails` and `ReopenFails` are the failures that
  no pipe decides; the tests of the seat in `send_text_to_player` (`server.c:118-127`) never
  fail, which is what `SendsToASeat` says. `Next` offers every outcome; `Step` takes the sequences of lines
  that a `read()` may return as its parameter, which `MCGameServer` bounds.
- **BullsCows.** The same server actions, conjoined with what the pipes do. `path` says
  which process's pipe a name denotes; `cbuf`, `cread`, `cused` are each client's pipe;
  `srv_path`, `srv_buf`, `srv_used` the server's; `peer` the pipe the server is opening
  or has open. `cpc` is the place of each client. Contents are lost when the last end
  is closed; a blocked `open()` counts as an end; a reader that opened without blocking
  sees no end-of-file before a writer has come. These rules are Linux's, marked where
  used. SIGPIPE comes at a `write()`, never to a client still in `open()` (place `blocked`).
  A signal ends a blocked `open()`: a failed CONNECT unlinks the path (`ConnectFails`) and the
  client leaves. After a `select()` that a signal ended, the descriptors are read anyway: a
  client reads its pipe, may close and reopen it, and calls `fgets()`
  (`ClientReadsAnyway`, place `interrupted`), and the server may find the end of a pipe that
  nobody has written to (`ServerAtEof`). The fault `calls` lets `open()` and `write()` of a
  player's pipe and `select()` fail in the server. Nothing keeps two clients from having one id. Words are classes: right, wrong, invalid, too long. `LinesOf` cuts what was read
  into lines as `game_loop` does with `strchr`: `Starts` are the places where a line begins,
  and the n-th line begins at the n-th of them.
- **ServerStart.** `path` is the pipe that has the name, `fd` the pipe a server reads;
  `maker` and `alone` are history. There is one step for each call on the name: the
  `unlink`, `mkfifo` and `open` of `setup_server`, those of the reopening after an
  end-of-file, and the `unlink` of `cleanup`. The dictionary is reduced to the lengths of
  its lines and whether they are letters, the secret to its length.
- **Division, PipeDivide.** `holds` says which process has which end of the two pipes
  open, from `pipe()` through `fork()` and `dup2()` to the end of each process; end-of-file
  and SIGPIPE follow from it. `line` and `work` are the lines in the hands of parent and
  child. A line is one of four kinds, for which the child writes different verdicts, and
  may lack its newline. One module holds both versions; the actions that differ are
  named `Old...` and `New...`.
- **ShmSignals.** `ppc` and `cpc` are the places of parent and child; the flags keep
  their names; `handled` and `chandled` are the handlers still installed, `ppending` and
  `cpending` the pending signals. A test of flags and the `pause()` after it are two
  steps: `Test` and `TestStart` lead to the places `pause_...`, in which a handler that runs
  is noticed by nobody, `Pause` and `CPause` lead to the places `paused_...`, in which it
  ends the call. `memory` and `file` say whose numbers and what of the result they hold.
- **MinMax.** `mpc`, `t`, `start`, `created`, `result` are the main thread's; `args`,
  `worker`, `wpc` one entry per thread. The partial result of a thread is its two local
  variables as the loop leaves them. `JoinUnborn` is the join of a thread that
  `pthread_create` failed to make: any value, or a crash.
- **Translation, SinIntegral, Programs.** `lib` is `LibraryFunctions`, a pointer being the
  library it leads into; `Left` is what each failure of `load_library` leaves. `digits`,
  `temp`, `i`, `result` are the variables of `translation()`, `quotients` is history.
  `LongMax` is the greatest `long`; the negative of the least one is itself, as in builds
  that do not optimise (`lab/CMakeLists.txt` sets no build type). Floats are the multiples
  of the least spacing that `Round` leaves alone; what the integral sums is left out.

## 3. Runs

Times are for two workers.

| Run | Question | Instance | States |
|---|---|---|---|
| `check_guess` | Is the score the rule, repeated letters included, is winning equality, is every guess judged? | all secrets and guesses of up to 3 characters over 2 letters and a bad character | all |
| `game_server` | Does the server keep its table straight and implement `Session`? | 3 ids for 2 seats, reads of one or two lines, any outcome of any call, any signal | 1.4 million, 70 s |
| `bulls_cows_leave` | Clients that quit or get a signal and clean up while the server sends: does anyone else lose its pipe? | 2 clients, one guess | 5.7 million, 110 s |
| `bulls_cows_crash` | With clients killed, the server interrupted and its calls failing, is what the pipes carry still true? Do server and clients ever wait for each other in `open()`? | 2 clients, right, wrong and invalid guess | 2.2 million, 55 s |
| `bulls_cows_progress` | Liveness: does the server come back to `select()`, and whom may it wait for for ever? | 2 clients, one guess, kills | 137 thousand, 80 s |
| `server_start` | Does what earlier servers left stand in the way, who can leave the name, is a lost name recovered? | 2 servers, 3 dictionaries and none, kills, signals, failing calls and allocations | 25 thousand, 5 s |
| `pipe_divide` | Laboratory 1: are the lines divided in order and in step, what can block, and can both processes wait at once? | both versions, every input of up to 3 lines, kills | 18 thousand, 4 s |
| `shm_signals` | Laboratory 3: right memory, no deserted child, when both wait at once, causes of endless waits | complete (the model has no parameters) | 290 |
| `min_max` | Laboratory 2: partition, result, lifetime | arrays of up to 5 elements of 3 values, up to 3 threads | 246 thousand |
| `programs` | Laboratory 4: what is called after failed switches, what is written and answered, what returns | every `long` of 5 bits, every float up to 10 with a mantissa of 2 bits | 6.8 thousand, 25 s |
| `claim_winlost` | Report: WIN goes to all players | 2 clients | refuted |
| `claim_unnoticed` | Report: a player that leaves is marked inactive | 1 client that quits | refuted |

**Bounds and why they are enough.** Two clients are the least for which lines run
together, a broadcast passes over one while another changes its pipe, and the server
stays in a send to one while the other acts; a third adds no kind of encounter, since
clients never meet but in the server's pipe. One guess by the first client leads
through every handler; `Everybody` in the refutations lets both win. Three ids for two
seats make the table full. In `MinMax`, 4 elements for 3 threads is the least case in
which rounding makes fewer chunks than threads, and 5 for 3 one in which the last chunk
is short. Two servers are enough for one to take the name from another at every step, and
to be started again after it; with three the same properties hold (4 minutes, checked
once). Three lines and room for two in the pipe (`MaxLines`, `PipeSize`) let the parent be
one line ahead of a full pipe. With `LongMax = 15` there are numbers of one to four digits
in base 2 and one to three in base 3, and the least `long`; `Spacings` of 1 to 8 with
`Mantissa = 4` and `Greatest = 10` give floats at which steps are lost. The dictionaries of
`MCServerStart` have more words than `MAX_WORDS = 2`, a word longer than
`MAX_WORD_LEN = 3`, a blank line, and no word at all. Other named bounds: `MaxGuesses`,
`Required`, `Procs`, `Words`, `Faults` (`BullsCows`), `MCBatches` (`MCGameServer`),
`Words`/`Alpha` (`CheckGuess`), `MaxLen`, `MaxThreads`, `IntMin`, `IntMax` (`MinMax`),
`Servers`, `Files`, `BuiltIn`, `Faults` (`ServerStart`), `Failures` (`Programs`). Deadlock is not checked where processes
end or, as in laboratory 3, may wait for ever, which the temporal properties judge.

**Fairness.** `FairSpec` of `BullsCows` has weak fairness for the server and for each
client: a process that can go on is scheduled. Users, signals, kills and the starting
of clients are free. `ShmSignals` has weak fairness for parent and child, and none for
the signal that kills the child. Delivery of a pending signal is a step of the
process it is for. `PipeDivide` has weak fairness for what the parent does by itself and
for the child, none for the user's next line or for kills; `Programs` for the steps of a
call that was made, none for the user; `ServerStart` for what a server does by itself,
none for end-of-files, signals and starts.

**What the refutations show.** `results.tex:13` promises WIN to all; a client that is
between `close` and `open` of its own pipe is taken for gone (`server.c:151-156`).
`results.tex:17` says the server notices leavers; a DISCONNECT sent while the server
reopens its pipe is dropped (`client.c:17`).

Other places where the code does not do what is written about it. They are in the models,
as states that the properties have to allow for, and no run refutes them separately:

- `conclusion.tex:10` says that all pipes are opened without blocking; `server.c:129` is
  not, and a client that has closed but not unlinked its pipe leaves the server there for
  ever (`WaitsOnlyForTheEnded`).
- `conclusion.tex:14` trusts `atexit`; a second SIGPIPE finds no handler and kills the
  server (`KilledBySigpipe`), which leaves its name (`LeavesNoName`).
- `os_lab1/src/condition.tex:18-19` says that parent and child both end at a division by
  zero. In the new version they do (`ZeroEndsBoth`). The old parent does not read what its
  child says: it waits for the next line and is killed by SIGPIPE when it sends it.
- Laboratory 3's `results.tex:62` says that the shared memory is removed; the child's
  second SIGUSR1 kills the parent first (`KilledOnlyByTheResult`), as in `strace.tex:58-59`.
  The parent never reports success. `results.tex:46` says that the handler of SIGCHLD takes
  care of a child that fails; a parent that has tested its flags and not yet called `pause()`
  misses it and waits for ever (`LostSignal` lists the ways a signal can be missed).
- An input that ends without a newline blocks both processes of the new version
  (`new/parent.c:75`); `OnlyAnUnfinishedLineBlocks` and `OnlyAnUnfinishedLineHoldsBoth` say
  that nothing else does.
- Laboratory 4's `conclusion.tex:16` counts negative numbers as handled; of the least
  `long`, `translation()` returns the sign alone (`NumeralOfTheArgument`).
- A symbol of a library that is NULL leaves the other pointer leading into a library that
  is closed (`program2/main.c:56`), and the next command crashes the program;
  `SinIntegral()` does not return when its step is lost in rounding (`CallsReturn`).
- A client that gets SIGINT in `select()` goes on to `fgets()` with nothing to read and
  stays until a key is pressed (`ClientReadsAnyway`); a client that is killed and started again
  with its id can lose its new pipe to the sweep for its old seat (`server.c:180-187`),
  which is why `ActivePlayersKeepTheirPipe` is checked with ids that are used once.

## 4. Proofs

Every safety property that a run checks, the two refinements included, is also a theorem,
checked by TLAPS for every value of the constants. `LettersPairedOnce`, `NoCowMissed` and the
types of `ShmSignals` are steps on the way to others and are left to their theorems.

- **CheckGuess_proofs.** Invariant `IInv`: in the first loop the flags are exactly those
  of the matching positions passed (`BullsTallied`); in the second, every letter passed
  has no free partner (`CowsSwept`). `LettersPairedOnce` alone is not inductive: that a
  position gets at most one partner rests on the flags. From it `CheckGuessTyped`,
  `PairedOnce`, `EveryCowCounted` (`NoCowMissed`) and `WinningWord` (`WonIffEqual`).
  `ScoreByTheRule` (`ScoreIsTheRule`) needs a second invariant, `PairedWithItsLike`: of
  each letter as many positions are flagged in the one word as in the other. When no cow
  is missed, one of the two words has all its occurrences of the letter flagged, so the
  number flagged is the lesser of the two counts (`AllInCommonUsed`); a bijection between
  the flagged positions of the secret and `Common`, which numbers the occurrences of each
  letter, then shows that bulls and cows together are the letters in common
  (`AsManyAsUsed`). Assumes that words are finite sequences over the characters.
- **GameServer_proofs.** `ServerTyped`, `OneSeat`, `SendsSeated`, and `PlaysBySession`:
  the server implements `Session`. The invariant adds to the type that a pending welcome
  is the last seat's (`WelcomeInPlace`), that a message is in hand while one is sent
  (`MessageInHand`) and that the game is on only when the table is full (`OnWhenFull`);
  without the second a return into a handler could start a second game. Assumes
  `Required \in 1..MAX_PLAYERS` and nothing of the lines read.
- **BullsCows_proofs.** Every step of the whole game is a step of the server or leaves it
  alone (`StepOfServer`), so `BSpec => Spec` (`ServerAmongClients`), and what is proved of
  the server alone holds of the server among any number of clients, with ids used by one
  process or several, and under every fault: `OneSeatAmongClients`,
  `SendsSeatedAmongClients`, `PlaysAmongClients`. Beside it:
  - `NewsThatArrivesIsTrue` (`NewsIsTrue`). The invariant `NInv` says that every message in
    a pipe or in the server's hand is true of the phase of the abstract `Session`; since
    the server implements `Session`, whose phase never goes back (`GameGoesOn`), a message
    stays true until it is read.
  - `GameTyped` (`BTypeOK`). Beside the types, the server holds at most the pipe of the
    player it is sending to, and a path names a pipe made for its id.
  - `NoCrossedOpens` (`OpensNeverCross`). A client waits in `open()` only while the server
    has its pipe closed, and the server only for a pipe without a reader; whoever opens an
    end lets all who wait for it go on.
  - `NamesKept` (`ActivePlayersKeepTheirPipe`), with the hypothesis `OwnIds` that no two
    clients have the same id; without it the property is false (section 3). The invariant
    `KInv` follows what a client sends: its CONNECT is with it, or in the server's pipe, or
    among the lines read, or has given it its one seat, and only one of these
    (`AsksOnce`); a DISCONNECT is under way only when it is past its loop (`LeavesLast`);
    it sends its own lines (`OwnLine`); and while it runs and asks for a seat or has an
    active one, the path of its id names its pipe (`NameKept`). That reading doubles no line
    is a fact about `LinesOf` (`NoMoreWhenCut`): the n-th line is the one with n starts up to
    its own, so a CONNECT that is once in the pipe is at most once among the lines. That is
    why `LinesOf` counts starts and does not fold over the items: the prover has no
    induction for a fold.
- **ServerStart_proofs.** `Typed`, `AloneIsReached`, `NameIsLeftByFailures`, for any number
  of servers and starts. The invariant adds that one that runs alone has seen its own
  `unlink()` and `mkfifo()` work (`Alone`), that the maker of the named pipe runs or ended
  in one of three ways (`Made`), and that a secret once drawn fits (`Secrets`). Assumes that
  built-in words are not empty.
- **PipeDivide_proofs.** `Typed`, `TakesTurns`, `NothingUnanswered`, and `KeepsToDivision`:
  both versions implement `Division`, for any number of lines, any size of the pipe, with
  and without kills. The invariant: the lines without an answer are the last ones sent, that
  in the child's hands first (`Queue`); who ends has answered what there was, or has met a
  zero (`Ending`); in the new version at most one line, verdict or byte is under way
  (`Turns`); and which ends are open at each place (`Places`), which is what makes
  end-of-file mean that the parent has stopped. `NeverBothWait`
  (`OnlyAnUnfinishedLineHoldsBoth`) says that the two processes never come to a stop
  together. It adds that a parent that waits for an answer is owed one, as a line in the
  pipe, in the hands of the child, or as a byte (`Owed`), that only the last line sent can
  be without its newline (`Whole`), so that a full pipe never begins with one, and that a
  parent in `waitpid()` has closed its end (`Left`).
- **ShmSignals_proofs.** `Typed`, `SeesTheNumbers`, `Stays`, `KilledLate`, `LostBefore`. The
  model has no constants and the run is complete; the proof says why it holds. The
  invariant relates the place of the one process to that of the other (`Together`,
  `Known`), to the signals sent and not handled (`Usr1`, `Chld`), to the file (`Filed`) and to
  the start signal and the memory (`Started`). `LostBefore`
  (`BothWaitOnlyAfterALostSignal`) is the safety part of `WaitsOnlyAfterALostSignal`: both
  processes wait with nothing under way only if the parent's handlers ran between a test and
  its `pause()`, in the first loop (`MissedReady`) or the second (`MissedExit`), if the
  child's did (`MissedStart`), or if the child was reaped before its pid was known
  (`ReapedUnknown`). Each of the four is reachable.
- **Programs_proofs.** For every width of a `long`: the first loop of `translation()`
  records the quotients (`Counted`), the second has written the last `j` digits after `j`
  divisions (`Progress`), so every write is inside the memory and the string is the numeral
  (`WritesInside`, `Numeral`). The pointers (`PointersLead`), and that the
  programs' calls are a behaviour of `Translation` alone (`CallsAreThoseOfTranslation`),
  which carries both theorems over: `ProgramsWriteInside`, `ProgramsAnswerNumerals`.
- **MinMax_proofs.** `Typed`, `Partitioned`, `Found`, `NoneOutlives`, for every length,
  every number of threads and every range of `int`. The invariant: chunks follow one
  another and cover the array up to `start`, `start = t * chunk` (so that the loop ends
  with everything handed out, by the lemma `RoundedUp`), what a thread has found is
  extreme for what it has scanned, and the result bounds all chunks joined. `Found`
  is for executions in which every `pthread_create` succeeded.

Only model-checked is all liveness, which is out of reach of the prover: `Judged`, the three
properties of `bulls_cows_progress`, `RecoversTheName`, `ChildFollows`,
`OnlyAnUnfinishedLineBlocks`, `ZeroEndsBoth`, `CallsReturn`, `WaitsOnlyAfterALostSignal`. Of
four of them a safety part is proved: that nobody waits for somebody who waits for him
(`OpensNeverCross` for `ServesWhileAllLive` and `ClientsGetThrough`,
`OnlyAnUnfinishedLineHoldsBoth` for `OnlyAnUnfinishedLineBlocks`,
`BothWaitOnlyAfterALostSignal` for `WaitsOnlyAfterALostSignal`).

## 5. Not modelled

- Splitting of a line by the 255-byte `read()` (`server.c:514`): the instances never have so
  many lines pending. The theorems about the server hold for any lines it may read,
  halves included.
- Signals that end a client although it has handled one are its being killed at any
  moment (`kill` in `Faults`).
- A server that can neither open nor make its pipe again is `ReopenFails` in `GameServer`
  and in `ServerStart`, which has the name; `BullsCows` leaves it out.
- Two servers at once with clients: `ServerStart` has the servers, `BullsCows` the clients of
  one.
- Console input and output, logging, wording, timing.
- In laboratory 1 the reading of numbers and the writing of quotients, and a line longer
  than the buffer of `read_line`, which is cut into several.
- In laboratory 2 the measurement of time.
- In laboratory 3 the text of the numbers and the division, more than 100 numbers, and a
  second pair of processes that shares the one name `/shm`.
- In laboratory 4 what `SinIntegral()` sums, infinite arguments and those that are no
  numbers, and the text of results.
- Laboratory 5 has no program; LaTeX, styles and build files have no behaviour.

## 6. Plan

Done: the game (`CheckGuess`, `GameServer` with `Session`, `BullsCows`, `ServerStart`) and
the four laboratory works, each with its proofs.

Left, in this order:

1. A client that is killed and started again under its id, as a run of its own: what the
   sweep for its old seat takes from it, and what `NamesKept` becomes without `OwnIds`.
2. A bounded `read()` in `BullsCows`.
3. Liveness of a client that was signalled, and of a server whose players were all taken off
   by failed sends.
