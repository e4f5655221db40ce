----------------------------- MODULE ShmSignals ------------------------------
(***************************************************************************)
(* The two programs of the third laboratory work (os_lab3/parent.c and     *)
(* child.c): the parent passes numbers to its child in shared memory, and  *)
(* they wait for each other by signals, tests of flags and pause().        *)
(*                                                                         *)
(* A sent signal is pending until it is delivered, once however often it   *)
(* was sent, and the lower number first.  signal() in this C11 build       *)
(* installs a handler for one delivery.                                    *)
(***************************************************************************)
EXTENDS Naturals

VARIABLES
    \* the parent
    ppc,               \* where it is
    child_ready, child_done, child_exited, child_exit_code,
    child_pid,         \* child_pid is set
    handled,           \* its signals whose handler is installed
    ppending,          \* its pending signals
    \* the child
    cpc,               \* where it is
    start_flag,
    chandled,          \* the handler of SIGNAL_START is installed
    cpending,          \* SIGNAL_START is pending
    status,            \* how it ended: an exit code, or 128 and a signal
    \* what they share
    shm,               \* the name of the shared memory exists
    memory,            \* what it holds
    file               \* the file of the result

parent == <<ppc, child_ready, child_done, child_exited, child_exit_code, child_pid, handled>>
child == <<cpc, start_flag, chandled, status>>
vars == <<parent, ppending, child, cpending, shm, memory, file>>

PEnded == ppc \in {"exited", "killed"}
CEnded == cpc \in {"zombie", "reaped"}

\* A killed parent of an earlier run may have left its shared memory behind.
Init ==
    /\ ppc = "create"
    /\ child_ready = FALSE /\ child_done = FALSE /\ child_exited = FALSE
    /\ child_exit_code = 0 /\ child_pid = FALSE
    /\ handled = {} /\ ppending = {}
    /\ cpc = "none" /\ start_flag = FALSE /\ chandled = FALSE
    /\ cpending = FALSE /\ status = 0
    /\ shm \in BOOLEAN
    /\ memory = IF shm THEN "old_numbers" ELSE "none"
    /\ file = "none"

-------------------------------------------------------------------------------
(***************************************************************************)
(* The parent.                                                             *)
(***************************************************************************)

\* create_shared_memory and the two calls of signal(). O_CREAT takes over memory
\* that is there, with what it holds.
Create ==
    /\ ppc = "create"
    /\ shm' = TRUE
    /\ memory' = IF shm THEN memory ELSE "zeros"
    /\ handled' = {"SIGUSR1", "SIGCHLD"}
    /\ ppc' = "fork"
    /\ UNCHANGED <<child_ready, child_done, child_exited, child_exit_code, child_pid,
                   ppending, child, cpending, file>>

\* Its failure, which takes the name back unless shm_open() itself failed.
CreateFails ==
    /\ ppc = "create"
    /\ shm' \in {shm, FALSE}
    /\ ppc' = "exited"
    /\ UNCHANGED <<child_ready, child_done, child_exited, child_exit_code, child_pid, handled,
                   ppending, child, cpending, memory, file>>

PGoto(where) ==
    /\ ppc' = where
    /\ UNCHANGED <<child_ready, child_done, child_exited, child_exit_code, handled>>

Fork ==
    /\ ppc = "fork"
    /\ PGoto("forked")
    /\ cpc' = "exec"
    /\ UNCHANGED <<child_pid, ppending, start_flag, chandled, status, cpending, shm, memory, file>>

ForkFails ==
    /\ ppc = "fork"
    /\ PGoto("cleanup")
    /\ UNCHANGED <<child_pid, ppending, child, cpending, shm, memory, file>>

\* Mutant: the numbers are not copied.
RememberOnly ==
    /\ ppc = "forked"
    /\ PGoto("wait_ready")
    /\ child_pid' = TRUE
    /\ UNCHANGED <<ppending, child, cpending, shm, memory, file>>

\* The parent learns the pid that its handler of SIGCHLD compares with.
Remember ==
    /\ ppc = "forked"
    /\ PGoto("copy")
    /\ child_pid' = TRUE
    /\ UNCHANGED <<ppending, child, cpending, shm, memory, file>>

Copy ==
    /\ ppc = "copy"
    /\ PGoto("wait_ready")
    /\ memory' = "numbers"
    /\ UNCHANGED <<child_pid, ppending, child, cpending, shm, file>>

\* The tests of the two loops, and those after them.  A parent that goes on to
\* pause() has not called it yet.
Test ==
    /\ \/ ppc = "wait_ready" /\ PGoto(IF child_ready \/ child_exited THEN "ready" ELSE "pause_ready")
       \/ ppc = "ready" /\ PGoto(IF child_exited THEN "cleanup" ELSE "start")
       \/ ppc = "wait_done" /\ PGoto(IF child_done \/ child_exited THEN "done" ELSE "pause_done")
       \/ ppc = "done" /\ PGoto(IF child_exited /\ child_exit_code # 0 THEN "cleanup" ELSE "success")
    /\ UNCHANGED <<child_pid, ppending, child, cpending, shm, memory, file>>

\* The call of pause(), which knows nothing of what was delivered before it.
Pause ==
    /\ \/ ppc = "pause_ready" /\ PGoto("paused_ready")
       \/ ppc = "pause_done" /\ PGoto("paused_done")
    /\ UNCHANGED <<child_pid, ppending, child, cpending, shm, memory, file>>

\* kill() of the child fails once it is reaped.
SendStart ==
    /\ ppc = "start"
    /\ PGoto(IF cpc = "reaped" THEN "cleanup" ELSE "wait_done")
    /\ cpending' = (cpending \/ ~CEnded)
    /\ UNCHANGED <<child_pid, ppending, child, shm, memory, file>>

Cleanup ==
    /\ ppc \in {"cleanup", "success"}
    /\ PGoto("exited")
    /\ shm' = FALSE
    /\ UNCHANGED <<child_pid, ppending, child, cpending, memory, file>>

\* A handler that has run ends pause(), if the parent is in it.
Awake == CASE ppc = "paused_ready" -> "wait_ready"
           [] ppc = "paused_done" -> "wait_done"
           [] OTHER -> ppc

\* Mutant: the first signal counts as both.
TakeAnyForDone ==
    /\ "SIGUSR1" \in ppending /\ "SIGUSR1" \in handled /\ ~PEnded
    /\ child_ready' = TRUE /\ child_done' = TRUE
    /\ ppc' = Awake
    /\ handled' = handled \ {"SIGUSR1"}
    /\ ppending' = ppending \ {"SIGUSR1"}
    /\ UNCHANGED <<child_exited, child_exit_code, child_pid, child, cpending, shm, memory, file>>

\* handle_child_done: the first signal means ready.
HandleChildDone ==
    /\ "SIGUSR1" \in ppending /\ "SIGUSR1" \in handled /\ ~PEnded
    /\ child_ready' = TRUE
    /\ child_done' = (child_done \/ child_ready)
    /\ ppc' = Awake
    /\ handled' = handled \ {"SIGUSR1"}
    /\ ppending' = ppending \ {"SIGUSR1"}
    /\ UNCHANGED <<child_exited, child_exit_code, child_pid, child, cpending, shm, memory, file>>

KilledBySigusr1 ==
    /\ "SIGUSR1" \in ppending /\ "SIGUSR1" \notin handled /\ ~PEnded
    /\ ppc' = "killed"
    /\ ppending' = {}
    /\ UNCHANGED <<child_ready, child_done, child_exited, child_exit_code, child_pid, handled,
                   child, cpending, shm, memory, file>>

\* The parts of handle_child_exit that do not depend on the status.
Reap ==
    /\ "SIGCHLD" \in ppending /\ "SIGUSR1" \notin ppending /\ "SIGCHLD" \in handled /\ ~PEnded
    /\ cpc' = "reaped"
    /\ ppc' = Awake
    /\ handled' = handled \ {"SIGCHLD"}
    /\ ppending' = ppending \ {"SIGCHLD"}
    /\ UNCHANGED <<child_ready, child_done, child_pid, start_flag, chandled, status, cpending,
                   shm, memory, file>>

\* Mutant: a killed child is not noted.
NoteExitsOnly ==
    /\ Reap
    /\ IF child_pid /\ status < 128
         THEN child_exited' = TRUE /\ child_exit_code' = status
         ELSE UNCHANGED <<child_exited, child_exit_code>>

\* handle_child_exit: the child is reaped, and noted if its pid is known.
HandleChildExit ==
    /\ Reap
    /\ IF child_pid
         THEN child_exited' = TRUE /\ child_exit_code' = status
         ELSE UNCHANGED <<child_exited, child_exit_code>>

ParentStep ==
    \/ Create \/ CreateFails \/ Fork \/ ForkFails \/ Remember \/ Copy \/ Test \/ Pause \/ SendStart
    \/ Cleanup \/ HandleChildDone \/ KilledBySigusr1 \/ HandleChildExit

-------------------------------------------------------------------------------
(***************************************************************************)
(* The child.                                                              *)
(***************************************************************************)
CGoto(where) ==
    /\ cpc' = where
    /\ UNCHANGED <<start_flag, chandled, status>>

\* The end of the child, by exit or a signal, which its parent is told of.
CEnd(code) ==
    /\ cpc' = "zombie" /\ status' = code
    /\ ppending' = IF PEnded THEN ppending ELSE ppending \cup {"SIGCHLD"}
    /\ UNCHANGED <<start_flag, chandled>>

Exec ==
    /\ cpc = "exec"
    /\ \/ CGoto("open") /\ UNCHANGED ppending
       \/ CEnd(1)
    /\ UNCHANGED <<parent, cpending, shm, memory, file>>

OpenMemory ==
    /\ cpc = "open"
    /\ \/ shm /\ CGoto("install") /\ UNCHANGED ppending
       \/ CEnd(1)
    /\ UNCHANGED <<parent, cpending, shm, memory, file>>

Install ==
    /\ cpc = "install"
    /\ cpc' = "ready" /\ chandled' = TRUE
    /\ UNCHANGED <<parent, ppending, start_flag, status, cpending, shm, memory, file>>

\* kill() of the parent, with SIGNAL_READY for both of its meanings.
Signal ==
    /\ cpc \in {"ready", "done"}
    /\ IF PEnded
         THEN CEnd(1)
         ELSE /\ ppending' = ppending \cup {"SIGUSR1"}
              /\ CGoto(IF cpc = "ready" THEN "wait_start" ELSE "return")
    /\ UNCHANGED <<parent, cpending, shm, memory, file>>

TestStart ==
    /\ cpc = "wait_start"
    /\ CGoto(IF start_flag THEN "parse" ELSE "pause_start")
    /\ UNCHANGED <<parent, ppending, cpending, shm, memory, file>>

CPause ==
    /\ cpc = "pause_start"
    /\ CGoto("paused_start")
    /\ UNCHANGED <<parent, ppending, cpending, shm, memory, file>>

HandleStart ==
    /\ cpending /\ chandled /\ ~CEnded
    /\ start_flag' = TRUE /\ chandled' = FALSE /\ cpending' = FALSE
    /\ cpc' = IF cpc = "paused_start" THEN "wait_start" ELSE cpc
    /\ UNCHANGED <<parent, ppending, status, shm, memory, file>>

\* The numbers are read and divided, or they are malformed, fewer than two, or
\* one divides by zero.
Compute ==
    /\ cpc = "parse"
    /\ \/ CGoto("fopen") /\ UNCHANGED ppending
       \/ CEnd(1)
    /\ UNCHANGED <<parent, cpending, shm, memory, file>>

OpenFile ==
    /\ cpc = "fopen"
    /\ \/ CGoto("fprintf") /\ file' = "empty" /\ UNCHANGED ppending
       \/ CEnd(1) /\ UNCHANGED file
    /\ UNCHANGED <<parent, cpending, shm, memory>>

\* Mutant: the file is not closed before the signal.
WriteUnflushed ==
    /\ cpc = "fprintf"
    /\ CGoto("done")
    /\ UNCHANGED <<parent, ppending, cpending, shm, memory, file>>

WriteFile ==
    /\ cpc = "fprintf"
    /\ \/ CGoto("done") /\ file' = "result" /\ UNCHANGED ppending
       \/ CEnd(1) /\ UNCHANGED file
    /\ UNCHANGED <<parent, cpending, shm, memory>>

Return ==
    /\ cpc = "return"
    /\ CEnd(0)
    /\ UNCHANGED <<parent, cpending, shm, memory, file>>

\* SIGKILL: an end that the parent provides for (WIFSIGNALED).
ChildKilled ==
    /\ cpc # "none" /\ ~CEnded
    /\ CEnd(128 + 9)
    /\ UNCHANGED <<parent, cpending, shm, memory, file>>

ChildStep ==
    \/ Exec \/ OpenMemory \/ Install \/ Signal \/ TestStart \/ CPause \/ HandleStart
    \/ Compute \/ OpenFile \/ WriteFile \/ Return

Next == ParentStep \/ ChildStep \/ ChildKilled

\* Both processes are scheduled.
Spec == Init /\ [][Next]_vars /\ WF_vars(ParentStep) /\ WF_vars(ChildStep)

-------------------------------------------------------------------------------
TypeOK ==
    /\ ppc \in {"create", "fork", "forked", "copy", "wait_ready", "pause_ready", "paused_ready",
                "ready", "start", "wait_done", "pause_done", "paused_done", "done", "success",
                "cleanup", "exited", "killed"}
    /\ cpc \in {"none", "exec", "open", "install", "ready", "wait_start", "pause_start",
                "paused_start", "parse", "fopen", "fprintf", "done", "return", "zombie", "reaped"}
    /\ {child_ready, child_done, child_exited, child_pid} \subseteq BOOLEAN
    /\ {start_flag, chandled, cpending, shm} \subseteq BOOLEAN
    /\ {child_exit_code, status} \subseteq {0, 1, 137}
    /\ handled \subseteq {"SIGUSR1", "SIGCHLD"} /\ ppending \subseteq {"SIGUSR1", "SIGCHLD"}
    /\ memory \in {"none", "old_numbers", "zeros", "numbers"}
    /\ file \in {"none", "empty", "result"}

\* The child computes with the numbers of this run: not with what an earlier run
\* left in the memory, nor with memory that its parent has not filled yet
\* (parent.c 147-161; child.c 71-75).
ChildSeesTheNumbers ==
    cpc \in {"parse", "fopen", "fprintf", "done", "return"} => memory = "numbers"

\* While the child is before its result the parent stays, and the child finds the
\* shared memory by its name: the flags that the handlers set are never ahead of
\* the child, and every early return of the parent finds it ended (parent.c 154-186).
ParentStaysWithTheChild ==
    cpc # "none" /\ ~CEnded /\ cpc # "return" => ppc # "exited" /\ shm

\* The signal that kills the parent is the one that reports the result, so the
\* result is lost to nobody (parent.c 123; child.c 141).
KilledOnlyByTheResult == ppc = "killed" => file = "result"

\* The parent, in pause(), has missed what it waits for: its handlers ran between the
\* test of the flags and the call, or the child was reaped before its pid was known,
\* or the child has missed the start in the same way.
MissedReady == ppc = "paused_ready" /\ (child_ready \/ child_exited)
MissedExit == ppc = "paused_done" /\ child_exited
ReapedUnknown == ppc = "paused_ready" /\ cpc = "reaped" /\ ~child_exited
MissedStart == ppc = "paused_done" /\ cpc = "paused_start" /\ start_flag

LostSignal == MissedReady \/ MissedExit \/ ReapedUnknown \/ MissedStart

\* In the end the parent has ended, or it waits for ever because a signal was lost in
\* one of these four ways: no other wait is endless (parent.c 25, 144, 150-151,
\* 168-169; child.c 71-72).
WaitsOnlyAfterALostSignal == <>[](PEnded \/ LostSignal)

\* At no moment do both wait, the parent in pause() and the child in pause() or ended,
\* with no signal under way, unless a signal was lost in one of these ways (parent.c
\* 150-151, 168-169; child.c 71-72).
BothWait ==
    /\ ppc \in {"paused_ready", "paused_done"} /\ ppending = {}
    /\ CEnded \/ (cpc = "paused_start" /\ ~cpending)

BothWaitOnlyAfterALostSignal == BothWait => LostSignal
===============================================================================
