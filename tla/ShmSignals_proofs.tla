-------------------------- MODULE ShmSignals_proofs --------------------------
(***************************************************************************)
(* The parent and the child of the third laboratory work: what each place  *)
(* of the one says of the place of the other, of the flags and of the      *)
(* signals between them.                                                   *)
(***************************************************************************)
EXTENDS ShmSignals, TLAPS

\* The places of the child up to its first signal, and from there to its second.
BeforeReady == {"none", "exec", "open", "install", "ready"}
BeforeResult == {"wait_start", "pause_start", "paused_start", "parse", "fopen", "fprintf", "done"}
Computing == {"parse", "fopen", "fprintf", "done", "return"}

\* The places of the parent from the first loop to kill(), and in the second loop.
ToldReady == {"wait_ready", "pause_ready", "paused_ready", "ready", "start"}
ToldDone == {"wait_done", "pause_done", "paused_done"}

\* Which places the two are in together: the child is forked once, and the parent
\* goes to its end only when there is no child or it has reaped it.
Together ==
    /\ ppc \in {"create", "fork"} => cpc = "none"
    /\ cpc = "none" => ppc \in {"create", "fork", "cleanup", "exited"}
    /\ ppc \in {"cleanup", "success", "exited"} => cpc \in {"none", "reaped"}
    /\ ppc \in {"done", "success"} => child_exited
    /\ child_exited => cpc = "reaped"

\* The parent knows the pid from "copy" on, and the name is there until its end.
Known ==
    /\ ppc \in {"create", "fork", "forked"} => ~child_pid
    /\ ppc = "copy" \/ ppc \in ToldReady \cup ToldDone => child_pid
    /\ ppc \notin {"create", "exited"} => shm

\* The first SIGUSR1 is handled, and its handler is gone when the second comes.
Usr1 ==
    /\ ppc = "create" => ppending = {} /\ ~child_ready
    /\ ~child_done
    /\ child_ready => "SIGUSR1" \notin handled
    /\ cpc \in BeforeReady => "SIGUSR1" \notin ppending /\ ~child_ready
    /\ ~child_ready /\ ppc \notin {"create", "exited"} => "SIGUSR1" \in handled
    /\ cpc \in BeforeResult /\ ppc # "killed" => child_ready \/ "SIGUSR1" \in ppending
    /\ "SIGUSR1" \in ppending /\ "SIGUSR1" \notin handled => file = "result"

\* The file holds the result when the second signal is sent, and not before.
Filed ==
    /\ cpc \in {"done", "return"} => file = "result"
    /\ cpc \in (BeforeReady \cup BeforeResult) \ {"done"} => file # "result"
    /\ ppc = "killed" => file = "result"

\* SIGCHLD says that the child is there to be reaped.
Chld ==
    /\ "SIGCHLD" \in ppending => cpc = "zombie" /\ "SIGCHLD" \in handled
    /\ cpc = "zombie" /\ ~PEnded => "SIGCHLD" \in ppending
    /\ ppc \notin {"create", "exited"} /\ cpc # "reaped" => "SIGCHLD" \in handled
    /\ ppc \in ToldDone /\ cpc = "reaped" => child_exited

\* SIGNAL_START is sent after the numbers are there and to a child that is alive,
\* and the child computes after it was told.
Started ==
    /\ ppc \in {"create", "fork", "forked", "copy"} \cup ToldReady => ~cpending /\ ~start_flag
    /\ ppc \in ToldReady \cup ToldDone => memory = "numbers"
    /\ cpending \/ start_flag => memory = "numbers"
    /\ cpc \in Computing => start_flag
    /\ ppc \in ToldDone => cpending \/ start_flag \/ CEnded

IInv == TypeOK /\ Together /\ Known /\ Usr1 /\ Filed /\ Chld /\ Started

-------------------------------------------------------------------------------
LEMMA InitIInv == Init => IInv
BY DEF Init, IInv, TypeOK, Together, Known, Usr1, Filed, Chld, Started, BeforeReady, BeforeResult,
   Computing, ToldReady, ToldDone, PEnded

\* The conjuncts of TypeOK, in four parts.
Places ==
    /\ ppc \in {"create", "fork", "forked", "copy", "wait_ready", "pause_ready", "paused_ready",
                "ready", "start", "wait_done", "pause_done", "paused_done", "done", "success",
                "cleanup", "exited", "killed"}
    /\ cpc \in {"none", "exec", "open", "install", "ready", "wait_start", "pause_start",
                "paused_start", "parse", "fopen", "fprintf", "done", "return", "zombie", "reaped"}

Flags ==
    /\ {child_ready, child_done, child_exited, child_pid} \subseteq BOOLEAN
    /\ {start_flag, chandled, cpending, shm} \subseteq BOOLEAN

Signals == handled \subseteq {"SIGUSR1", "SIGCHLD"} /\ ppending \subseteq {"SIGUSR1", "SIGCHLD"}

Shared ==
    /\ {child_exit_code, status} \subseteq {0, 1, 137}
    /\ memory \in {"none", "old_numbers", "zeros", "numbers"}
    /\ file \in {"none", "empty", "result"}

LEMMA TypesStay ==
    ASSUME TypeOK, [Next]_vars
    PROVE  TypeOK'
<1> USE DEF Places, Flags, Signals, Shared, PEnded, CEnded, parent, child
<1>p. Places /\ Flags /\ Signals /\ Shared  BY DEF TypeOK
<1>1. CASE Create  BY <1>1, <1>p DEF Create, TypeOK
<1>2. CASE CreateFails  BY <1>2, <1>p DEF CreateFails, TypeOK
<1>3. CASE Fork  BY <1>3, <1>p DEF Fork, PGoto, TypeOK
<1>4. CASE ForkFails  BY <1>4, <1>p DEF ForkFails, PGoto, TypeOK
<1>5. CASE Remember  BY <1>5, <1>p DEF Remember, PGoto, TypeOK
<1>6. CASE Copy  BY <1>6, <1>p DEF Copy, PGoto, TypeOK
<1>7. CASE Test
  <2>1. Places'  BY <1>7, <1>p DEF Test, PGoto
  <2>2. Flags'  BY <1>7, <1>p DEF Test, PGoto
  <2>3. Signals'  BY <1>7, <1>p DEF Test, PGoto
  <2>4. Shared'  BY <1>7, <1>p DEF Test, PGoto
  <2> QED  BY <2>1, <2>2, <2>3, <2>4 DEF TypeOK
<1>8. CASE SendStart
  <2>1. Places'  BY <1>8, <1>p DEF SendStart, PGoto
  <2>2. Flags'  BY <1>8, <1>p DEF SendStart, PGoto
  <2>3. Signals'  BY <1>8, <1>p DEF SendStart, PGoto
  <2>4. Shared'  BY <1>8, <1>p DEF SendStart, PGoto
  <2> QED  BY <2>1, <2>2, <2>3, <2>4 DEF TypeOK
<1>9. CASE Cleanup  BY <1>9, <1>p DEF Cleanup, PGoto, TypeOK
<1>10. CASE HandleChildDone
  <2>1. Places'  BY <1>10, <1>p DEF HandleChildDone, Awake
  <2>2. Flags'  BY <1>10, <1>p DEF HandleChildDone, Awake
  <2>3. Signals'  BY <1>10, <1>p DEF HandleChildDone, Awake
  <2>4. Shared'  BY <1>10, <1>p DEF HandleChildDone, Awake
  <2> QED  BY <2>1, <2>2, <2>3, <2>4 DEF TypeOK
<1>11. CASE KilledBySigusr1  BY <1>11, <1>p DEF KilledBySigusr1, TypeOK
<1>12. CASE HandleChildExit
  <2>1. Places'  BY <1>12, <1>p DEF HandleChildExit, Reap, Awake
  <2>2. Flags'  BY <1>12, <1>p DEF HandleChildExit, Reap, Awake
  <2>3. Signals'  BY <1>12, <1>p DEF HandleChildExit, Reap, Awake
  <2>4. Shared'  BY <1>12, <1>p DEF HandleChildExit, Reap, Awake
  <2> QED  BY <2>1, <2>2, <2>3, <2>4 DEF TypeOK
<1>13. CASE Exec
  <2>1. Places'  BY <1>13, <1>p DEF Exec, CGoto, CEnd
  <2>2. Flags'  BY <1>13, <1>p DEF Exec, CGoto, CEnd
  <2>3. Signals'  BY <1>13, <1>p DEF Exec, CGoto, CEnd
  <2>4. Shared'  BY <1>13, <1>p DEF Exec, CGoto, CEnd
  <2> QED  BY <2>1, <2>2, <2>3, <2>4 DEF TypeOK
<1>14. CASE OpenMemory
  <2>1. Places'  BY <1>14, <1>p DEF OpenMemory, CGoto, CEnd
  <2>2. Flags'  BY <1>14, <1>p DEF OpenMemory, CGoto, CEnd
  <2>3. Signals'  BY <1>14, <1>p DEF OpenMemory, CGoto, CEnd
  <2>4. Shared'  BY <1>14, <1>p DEF OpenMemory, CGoto, CEnd
  <2> QED  BY <2>1, <2>2, <2>3, <2>4 DEF TypeOK
<1>15. CASE Install  BY <1>15, <1>p DEF Install, TypeOK
<1>16. CASE Signal
  <2>1. Places'  BY <1>16, <1>p DEF Signal, CGoto, CEnd
  <2>2. Flags'  BY <1>16, <1>p DEF Signal, CGoto, CEnd
  <2>3. Signals'  BY <1>16, <1>p DEF Signal, CGoto, CEnd
  <2>4. Shared'  BY <1>16, <1>p DEF Signal, CGoto, CEnd
  <2> QED  BY <2>1, <2>2, <2>3, <2>4 DEF TypeOK
<1>17. CASE TestStart  BY <1>17, <1>p DEF TestStart, CGoto, TypeOK
<1>18. CASE HandleStart  BY <1>18, <1>p DEF HandleStart, TypeOK
<1>19. CASE Compute
  <2>1. Places'  BY <1>19, <1>p DEF Compute, CGoto, CEnd
  <2>2. Flags'  BY <1>19, <1>p DEF Compute, CGoto, CEnd
  <2>3. Signals'  BY <1>19, <1>p DEF Compute, CGoto, CEnd
  <2>4. Shared'  BY <1>19, <1>p DEF Compute, CGoto, CEnd
  <2> QED  BY <2>1, <2>2, <2>3, <2>4 DEF TypeOK
<1>20. CASE OpenFile
  <2>1. Places'  BY <1>20, <1>p DEF OpenFile, CGoto, CEnd
  <2>2. Flags'  BY <1>20, <1>p DEF OpenFile, CGoto, CEnd
  <2>3. Signals'  BY <1>20, <1>p DEF OpenFile, CGoto, CEnd
  <2>4. Shared'  BY <1>20, <1>p DEF OpenFile, CGoto, CEnd
  <2> QED  BY <2>1, <2>2, <2>3, <2>4 DEF TypeOK
<1>21. CASE WriteFile
  <2>1. Places'  BY <1>21, <1>p DEF WriteFile, CGoto, CEnd
  <2>2. Flags'  BY <1>21, <1>p DEF WriteFile, CGoto, CEnd
  <2>3. Signals'  BY <1>21, <1>p DEF WriteFile, CGoto, CEnd
  <2>4. Shared'  BY <1>21, <1>p DEF WriteFile, CGoto, CEnd
  <2> QED  BY <2>1, <2>2, <2>3, <2>4 DEF TypeOK
<1>22. CASE Return  BY <1>22, <1>p DEF Return, CEnd, TypeOK
<1>23. CASE ChildKilled  BY <1>23, <1>p DEF ChildKilled, CEnd, TypeOK
<1>24. CASE Pause
  <2>1. Places'  BY <1>24, <1>p DEF Pause, PGoto
  <2>2. Flags'  BY <1>24, <1>p DEF Pause, PGoto
  <2>3. Signals'  BY <1>24, <1>p DEF Pause, PGoto
  <2>4. Shared'  BY <1>24, <1>p DEF Pause, PGoto
  <2> QED  BY <2>1, <2>2, <2>3, <2>4 DEF TypeOK
<1>25. CASE CPause  BY <1>25, <1>p DEF CPause, CGoto, TypeOK
<1>26. CASE UNCHANGED vars  BY <1>26, <1>p DEF vars, TypeOK
<1> QED
  BY <1>1, <1>2, <1>3, <1>4, <1>5, <1>6, <1>7, <1>8, <1>9, <1>10, <1>11, <1>12, <1>13,
      <1>14, <1>15, <1>16, <1>17, <1>18, <1>19, <1>20, <1>21, <1>22, <1>23, <1>24, <1>25, <1>26
  DEF Next, ParentStep, ChildStep

LEMMA NextIInv == IInv /\ [Next]_vars => IInv'
<1> SUFFICES ASSUME IInv, [Next]_vars PROVE IInv'  OBVIOUS
<1> USE DEF IInv, Together, Known, Usr1, Filed, Chld, Started, BeforeReady, BeforeResult,
        Computing, ToldReady, ToldDone, PEnded, CEnded, parent, child, Flags, Signals
<1>t. TypeOK'  BY TypesStay
<1>b. Flags /\ Signals  BY DEF TypeOK, Flags, Signals
<1>1. CASE Create
  <2>1. Together'  BY <1>1, <1>b DEF Create
  <2>2. Known'  BY <1>1, <1>b DEF Create
  <2>3. Usr1'  BY <1>1, <1>b DEF Create
  <2>4. Filed'  BY <1>1, <1>b DEF Create
  <2>5. Chld'  BY <1>1, <1>b DEF Create
  <2>6. Started'  BY <1>1, <1>b DEF Create
  <2> QED  BY <1>t, <2>1, <2>2, <2>3, <2>4, <2>5, <2>6
<1>2. CASE CreateFails
  <2>1. Together'  BY <1>2, <1>b DEF CreateFails
  <2>2. Known'  BY <1>2, <1>b DEF CreateFails
  <2>3. Usr1'  BY <1>2, <1>b DEF CreateFails
  <2>4. Filed'  BY <1>2, <1>b DEF CreateFails
  <2>5. Chld'  BY <1>2, <1>b DEF CreateFails
  <2>6. Started'  BY <1>2, <1>b DEF CreateFails
  <2> QED  BY <1>t, <2>1, <2>2, <2>3, <2>4, <2>5, <2>6
<1>3. CASE Fork
  <2>1. Together'  BY <1>3, <1>b DEF Fork, PGoto
  <2>2. Known'  BY <1>3, <1>b DEF Fork, PGoto
  <2>3. Usr1'  BY <1>3, <1>b DEF Fork, PGoto
  <2>4. Filed'  BY <1>3, <1>b DEF Fork, PGoto
  <2>5. Chld'  BY <1>3, <1>b DEF Fork, PGoto
  <2>6. Started'  BY <1>3, <1>b DEF Fork, PGoto
  <2> QED  BY <1>t, <2>1, <2>2, <2>3, <2>4, <2>5, <2>6
<1>4. CASE ForkFails
  <2>1. Together'  BY <1>4, <1>b DEF ForkFails, PGoto
  <2>2. Known'  BY <1>4, <1>b DEF ForkFails, PGoto
  <2>3. Usr1'  BY <1>4, <1>b DEF ForkFails, PGoto
  <2>4. Filed'  BY <1>4, <1>b DEF ForkFails, PGoto
  <2>5. Chld'  BY <1>4, <1>b DEF ForkFails, PGoto
  <2>6. Started'  BY <1>4, <1>b DEF ForkFails, PGoto
  <2> QED  BY <1>t, <2>1, <2>2, <2>3, <2>4, <2>5, <2>6
<1>5. CASE Remember
  <2>1. Together'  BY <1>5, <1>b DEF Remember, PGoto
  <2>2. Known'  BY <1>5, <1>b DEF Remember, PGoto
  <2>3. Usr1'  BY <1>5, <1>b DEF Remember, PGoto
  <2>4. Filed'  BY <1>5, <1>b DEF Remember, PGoto
  <2>5. Chld'  BY <1>5, <1>b DEF Remember, PGoto
  <2>6. Started'  BY <1>5, <1>b DEF Remember, PGoto
  <2> QED  BY <1>t, <2>1, <2>2, <2>3, <2>4, <2>5, <2>6
<1>6. CASE Copy
  <2>1. Together'  BY <1>6, <1>b DEF Copy, PGoto
  <2>2. Known'  BY <1>6, <1>b DEF Copy, PGoto
  <2>3. Usr1'  BY <1>6, <1>b DEF Copy, PGoto
  <2>4. Filed'  BY <1>6, <1>b DEF Copy, PGoto
  <2>5. Chld'  BY <1>6, <1>b DEF Copy, PGoto
  <2>6. Started'  BY <1>6, <1>b DEF Copy, PGoto
  <2> QED  BY <1>t, <2>1, <2>2, <2>3, <2>4, <2>5, <2>6
<1>7. CASE Test
  <2>1. Together'  BY <1>7, <1>b DEF Test, PGoto
  <2>2. Known'  BY <1>7, <1>b DEF Test, PGoto
  <2>3. Usr1'  BY <1>7, <1>b DEF Test, PGoto
  <2>4. Filed'  BY <1>7, <1>b DEF Test, PGoto
  <2>5. Chld'  BY <1>7, <1>b DEF Test, PGoto
  <2>6. Started'  BY <1>7, <1>b DEF Test, PGoto
  <2> QED  BY <1>t, <2>1, <2>2, <2>3, <2>4, <2>5, <2>6
<1>8. CASE SendStart
  <2>1. Together'  BY <1>8, <1>b DEF SendStart, PGoto
  <2>2. Known'  BY <1>8, <1>b DEF SendStart, PGoto
  <2>3. Usr1'  BY <1>8, <1>b DEF SendStart, PGoto
  <2>4. Filed'  BY <1>8, <1>b DEF SendStart, PGoto
  <2>5. Chld'  BY <1>8, <1>b DEF SendStart, PGoto
  <2>6. Started'  BY <1>8, <1>b DEF SendStart, PGoto
  <2> QED  BY <1>t, <2>1, <2>2, <2>3, <2>4, <2>5, <2>6
<1>9. CASE Cleanup
  <2>1. Together'  BY <1>9, <1>b DEF Cleanup, PGoto
  <2>2. Known'  BY <1>9, <1>b DEF Cleanup, PGoto
  <2>3. Usr1'  BY <1>9, <1>b DEF Cleanup, PGoto
  <2>4. Filed'  BY <1>9, <1>b DEF Cleanup, PGoto
  <2>5. Chld'  BY <1>9, <1>b DEF Cleanup, PGoto
  <2>6. Started'  BY <1>9, <1>b DEF Cleanup, PGoto
  <2> QED  BY <1>t, <2>1, <2>2, <2>3, <2>4, <2>5, <2>6
<1>10. CASE HandleChildDone
  <2>1. Together'  BY <1>10, <1>b DEF HandleChildDone, Awake
  <2>2. Known'  BY <1>10, <1>b DEF HandleChildDone, Awake
  <2>3. Usr1'  BY <1>10, <1>b DEF HandleChildDone, Awake
  <2>4. Filed'  BY <1>10, <1>b DEF HandleChildDone, Awake
  <2>5. Chld'  BY <1>10, <1>b DEF HandleChildDone, Awake
  <2>6. Started'  BY <1>10, <1>b DEF HandleChildDone, Awake
  <2> QED  BY <1>t, <2>1, <2>2, <2>3, <2>4, <2>5, <2>6
<1>11. CASE KilledBySigusr1
  <2>1. Together'  BY <1>11, <1>b DEF KilledBySigusr1
  <2>2. Known'  BY <1>11, <1>b DEF KilledBySigusr1
  <2>3. Usr1'  BY <1>11, <1>b DEF KilledBySigusr1
  <2>4. Filed'  BY <1>11, <1>b DEF KilledBySigusr1
  <2>5. Chld'  BY <1>11, <1>b DEF KilledBySigusr1
  <2>6. Started'  BY <1>11, <1>b DEF KilledBySigusr1
  <2> QED  BY <1>t, <2>1, <2>2, <2>3, <2>4, <2>5, <2>6
<1>12. CASE HandleChildExit
  <2>1. Together'  BY <1>12, <1>b DEF HandleChildExit, Reap, Awake
  <2>2. Known'  BY <1>12, <1>b DEF HandleChildExit, Reap, Awake
  <2>3. Usr1'  BY <1>12, <1>b DEF HandleChildExit, Reap, Awake
  <2>4. Filed'  BY <1>12, <1>b DEF HandleChildExit, Reap, Awake
  <2>5. Chld'  BY <1>12, <1>b DEF HandleChildExit, Reap, Awake
  <2>6. Started'  BY <1>12, <1>b DEF HandleChildExit, Reap, Awake
  <2> QED  BY <1>t, <2>1, <2>2, <2>3, <2>4, <2>5, <2>6
<1>13. CASE Exec
  <2>1. Together'  BY <1>13, <1>b DEF Exec, CGoto, CEnd
  <2>2. Known'  BY <1>13, <1>b DEF Exec, CGoto, CEnd
  <2>3. Usr1'  BY <1>13, <1>b DEF Exec, CGoto, CEnd
  <2>4. Filed'  BY <1>13, <1>b DEF Exec, CGoto, CEnd
  <2>5. Chld'  BY <1>13, <1>b DEF Exec, CGoto, CEnd
  <2>6. Started'  BY <1>13, <1>b DEF Exec, CGoto, CEnd
  <2> QED  BY <1>t, <2>1, <2>2, <2>3, <2>4, <2>5, <2>6
<1>14. CASE OpenMemory
  <2>1. Together'  BY <1>14, <1>b DEF OpenMemory, CGoto, CEnd
  <2>2. Known'  BY <1>14, <1>b DEF OpenMemory, CGoto, CEnd
  <2>3. Usr1'  BY <1>14, <1>b DEF OpenMemory, CGoto, CEnd
  <2>4. Filed'  BY <1>14, <1>b DEF OpenMemory, CGoto, CEnd
  <2>5. Chld'  BY <1>14, <1>b DEF OpenMemory, CGoto, CEnd
  <2>6. Started'  BY <1>14, <1>b DEF OpenMemory, CGoto, CEnd
  <2> QED  BY <1>t, <2>1, <2>2, <2>3, <2>4, <2>5, <2>6
<1>15. CASE Install
  <2>1. Together'  BY <1>15, <1>b DEF Install
  <2>2. Known'  BY <1>15, <1>b DEF Install
  <2>3. Usr1'  BY <1>15, <1>b DEF Install
  <2>4. Filed'  BY <1>15, <1>b DEF Install
  <2>5. Chld'  BY <1>15, <1>b DEF Install
  <2>6. Started'  BY <1>15, <1>b DEF Install
  <2> QED  BY <1>t, <2>1, <2>2, <2>3, <2>4, <2>5, <2>6
<1>16. CASE Signal
  <2>1. Together'  BY <1>16, <1>b DEF Signal, CGoto, CEnd
  <2>2. Known'  BY <1>16, <1>b DEF Signal, CGoto, CEnd
  <2>3. Usr1'  BY <1>16, <1>b DEF Signal, CGoto, CEnd
  <2>4. Filed'  BY <1>16, <1>b DEF Signal, CGoto, CEnd
  <2>5. Chld'  BY <1>16, <1>b DEF Signal, CGoto, CEnd
  <2>6. Started'  BY <1>16, <1>b DEF Signal, CGoto, CEnd
  <2> QED  BY <1>t, <2>1, <2>2, <2>3, <2>4, <2>5, <2>6
<1>17. CASE TestStart
  <2>1. Together'  BY <1>17, <1>b DEF TestStart, CGoto
  <2>2. Known'  BY <1>17, <1>b DEF TestStart, CGoto
  <2>3. Usr1'  BY <1>17, <1>b DEF TestStart, CGoto
  <2>4. Filed'  BY <1>17, <1>b DEF TestStart, CGoto
  <2>5. Chld'  BY <1>17, <1>b DEF TestStart, CGoto
  <2>6. Started'  BY <1>17, <1>b DEF TestStart, CGoto
  <2> QED  BY <1>t, <2>1, <2>2, <2>3, <2>4, <2>5, <2>6
<1>18. CASE HandleStart
  <2>1. Together'  BY <1>18, <1>b DEF HandleStart
  <2>2. Known'  BY <1>18, <1>b DEF HandleStart
  <2>3. Usr1'  BY <1>18, <1>b DEF HandleStart
  <2>4. Filed'  BY <1>18, <1>b DEF HandleStart
  <2>5. Chld'  BY <1>18, <1>b DEF HandleStart
  <2>6. Started'  BY <1>18, <1>b DEF HandleStart
  <2> QED  BY <1>t, <2>1, <2>2, <2>3, <2>4, <2>5, <2>6
<1>19. CASE Compute
  <2>1. Together'  BY <1>19, <1>b DEF Compute, CGoto, CEnd
  <2>2. Known'  BY <1>19, <1>b DEF Compute, CGoto, CEnd
  <2>3. Usr1'  BY <1>19, <1>b DEF Compute, CGoto, CEnd
  <2>4. Filed'  BY <1>19, <1>b DEF Compute, CGoto, CEnd
  <2>5. Chld'  BY <1>19, <1>b DEF Compute, CGoto, CEnd
  <2>6. Started'  BY <1>19, <1>b DEF Compute, CGoto, CEnd
  <2> QED  BY <1>t, <2>1, <2>2, <2>3, <2>4, <2>5, <2>6
<1>20. CASE OpenFile
  <2>1. Together'  BY <1>20, <1>b DEF OpenFile, CGoto, CEnd
  <2>2. Known'  BY <1>20, <1>b DEF OpenFile, CGoto, CEnd
  <2>3. Usr1'  BY <1>20, <1>b DEF OpenFile, CGoto, CEnd
  <2>4. Filed'  BY <1>20, <1>b DEF OpenFile, CGoto, CEnd
  <2>5. Chld'  BY <1>20, <1>b DEF OpenFile, CGoto, CEnd
  <2>6. Started'  BY <1>20, <1>b DEF OpenFile, CGoto, CEnd
  <2> QED  BY <1>t, <2>1, <2>2, <2>3, <2>4, <2>5, <2>6
<1>21. CASE WriteFile
  <2>1. Together'  BY <1>21, <1>b DEF WriteFile, CGoto, CEnd
  <2>2. Known'  BY <1>21, <1>b DEF WriteFile, CGoto, CEnd
  <2>3. Usr1'  BY <1>21, <1>b DEF WriteFile, CGoto, CEnd
  <2>4. Filed'  BY <1>21, <1>b DEF WriteFile, CGoto, CEnd
  <2>5. Chld'  BY <1>21, <1>b DEF WriteFile, CGoto, CEnd
  <2>6. Started'  BY <1>21, <1>b DEF WriteFile, CGoto, CEnd
  <2> QED  BY <1>t, <2>1, <2>2, <2>3, <2>4, <2>5, <2>6
<1>22. CASE Return
  <2>1. Together'  BY <1>22, <1>b DEF Return, CEnd
  <2>2. Known'  BY <1>22, <1>b DEF Return, CEnd
  <2>3. Usr1'  BY <1>22, <1>b DEF Return, CEnd
  <2>4. Filed'  BY <1>22, <1>b DEF Return, CEnd
  <2>5. Chld'  BY <1>22, <1>b DEF Return, CEnd
  <2>6. Started'  BY <1>22, <1>b DEF Return, CEnd
  <2> QED  BY <1>t, <2>1, <2>2, <2>3, <2>4, <2>5, <2>6
<1>23. CASE ChildKilled
  <2>1. Together'  BY <1>23, <1>b DEF ChildKilled, CEnd
  <2>2. Known'  BY <1>23, <1>b DEF ChildKilled, CEnd
  <2>3. Usr1'  BY <1>23, <1>b DEF ChildKilled, CEnd
  <2>4. Filed'  BY <1>23, <1>b DEF ChildKilled, CEnd
  <2>5. Chld'  BY <1>23, <1>b DEF ChildKilled, CEnd
  <2>6. Started'  BY <1>23, <1>b DEF ChildKilled, CEnd
  <2> QED  BY <1>t, <2>1, <2>2, <2>3, <2>4, <2>5, <2>6
<1>24. CASE Pause
  <2>1. Together'  BY <1>24, <1>b DEF Pause, PGoto
  <2>2. Known'  BY <1>24, <1>b DEF Pause, PGoto
  <2>3. Usr1'  BY <1>24, <1>b DEF Pause, PGoto
  <2>4. Filed'  BY <1>24, <1>b DEF Pause, PGoto
  <2>5. Chld'  BY <1>24, <1>b DEF Pause, PGoto
  <2>6. Started'  BY <1>24, <1>b DEF Pause, PGoto
  <2> QED  BY <1>t, <2>1, <2>2, <2>3, <2>4, <2>5, <2>6
<1>25. CASE CPause
  <2>1. Together'  BY <1>25, <1>b DEF CPause, CGoto
  <2>2. Known'  BY <1>25, <1>b DEF CPause, CGoto
  <2>3. Usr1'  BY <1>25, <1>b DEF CPause, CGoto
  <2>4. Filed'  BY <1>25, <1>b DEF CPause, CGoto
  <2>5. Chld'  BY <1>25, <1>b DEF CPause, CGoto
  <2>6. Started'  BY <1>25, <1>b DEF CPause, CGoto
  <2> QED  BY <1>t, <2>1, <2>2, <2>3, <2>4, <2>5, <2>6
<1>26. CASE UNCHANGED vars
  <2>1. Together'  BY <1>26, <1>b DEF vars
  <2>2. Known'  BY <1>26, <1>b DEF vars
  <2>3. Usr1'  BY <1>26, <1>b DEF vars
  <2>4. Filed'  BY <1>26, <1>b DEF vars
  <2>5. Chld'  BY <1>26, <1>b DEF vars
  <2>6. Started'  BY <1>26, <1>b DEF vars
  <2> QED  BY <1>t, <2>1, <2>2, <2>3, <2>4, <2>5, <2>6
<1> QED
  BY <1>1, <1>2, <1>3, <1>4, <1>5, <1>6, <1>7, <1>8, <1>9, <1>10, <1>11, <1>12, <1>13,
      <1>14, <1>15, <1>16, <1>17, <1>18, <1>19, <1>20, <1>21, <1>22, <1>23, <1>24, <1>25, <1>26
  DEF Next, ParentStep, ChildStep

THEOREM Inductive == Spec => []IInv
<1> QED  BY InitIInv, NextIInv, PTL DEF Spec

-------------------------------------------------------------------------------
\* Both programs' variables keep their types: the exit code is one that the child
\* ended with.
THEOREM Typed == Spec => []TypeOK
<1>1. IInv => TypeOK  BY DEF IInv
<1> QED  BY <1>1, Inductive, PTL

\* The child computes with the numbers of this run, whatever an earlier run left in
\* the shared memory (parent.c 147-161; child.c 71-75).
THEOREM SeesTheNumbers == Spec => []ChildSeesTheNumbers
<1>1. IInv => ChildSeesTheNumbers
  BY DEF IInv, Started, Computing, ToldReady, ToldDone, ChildSeesTheNumbers
<1> QED  BY <1>1, Inductive, PTL

\* The parent does not end, and the name of the memory stays, while the child is
\* before its result (parent.c 154-186).
THEOREM Stays == Spec => []ParentStaysWithTheChild
<1>1. IInv => ParentStaysWithTheChild
  BY DEF IInv, Together, Known, ParentStaysWithTheChild, CEnded
<1> QED  BY <1>1, Inductive, PTL

\* A parent killed by SIGUSR1 is killed by the second one, which is sent when the
\* result is in the file (parent.c 123; child.c 141).
THEOREM KilledLate == Spec => []KilledOnlyByTheResult
<1>1. IInv => KilledOnlyByTheResult  BY DEF IInv, Filed, KilledOnlyByTheResult
<1> QED  BY <1>1, Inductive, PTL

\* The two wait for each other with nothing under way only after a signal was
\* delivered between a test and pause(), in the parent's first loop or in its second
\* or in the child's, or after the child was reaped before its pid was known (parent.c
\* 144, 150-151, 168-169; child.c 71-72).  The invariant leaves no other case: a child
\* in pause() has sent its first signal, so the parent has it pending or has handled
\* it; a parent in its second loop has told the child, which has that pending or has
\* handled it; and an ended child is reaped or its SIGCHLD is pending.
THEOREM LostBefore == Spec => []BothWaitOnlyAfterALostSignal
<1>1. IInv => BothWaitOnlyAfterALostSignal
  <2> SUFFICES ASSUME IInv, BothWait PROVE LostSignal
    BY DEF BothWaitOnlyAfterALostSignal
  <2> USE DEF IInv, BothWait, LostSignal
  <2>1. CASE cpc = "zombie"  BY <2>1 DEF Chld, PEnded
  <2>2. CASE cpc = "reaped" /\ ppc = "paused_ready"
    BY <2>2 DEF MissedReady, ReapedUnknown
  <2>3. CASE cpc = "reaped" /\ ppc = "paused_done"
    BY <2>3 DEF Chld, ToldDone, MissedExit
  <2>4. CASE cpc = "paused_start" /\ ppc = "paused_ready"
    BY <2>4 DEF Usr1, BeforeResult, MissedReady
  <2>5. CASE cpc = "paused_start" /\ ~cpending /\ ppc = "paused_done"
    BY <2>5 DEF Started, ToldDone, CEnded, MissedStart
  <2> QED  BY <2>1, <2>2, <2>3, <2>4, <2>5 DEF CEnded
<1> QED  BY <1>1, Inductive, PTL
===============================================================================
