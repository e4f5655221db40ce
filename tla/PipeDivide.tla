----------------------------- MODULE PipeDivide ------------------------------
(***************************************************************************)
(* The first laboratory work in its two versions, the old one              *)
(* (os_lab1/parent.c, child.c) and the new one (os_lab1/new): a parent     *)
(* sends lines of numbers to its child over a pipe, the child divides and  *)
(* writes to a file. The new child answers each line by a byte through a   *)
(* second pipe and the new parent waits for it; the old parent never       *)
(* reads that pipe, so that its O_NONBLOCK is of no consequence.           *)
(*                                                                         *)
(* A line is what one fgets() or read_line() of the parent returns. What   *)
(* the stdio buffer of the old child has read ahead counts as being in the *)
(* pipe. A line that is not whole is the last one of an input without a    *)
(* newline at its end.                                                     *)
(***************************************************************************)
EXTENDS Naturals, Sequences

CONSTANTS
    MaxLines,    \* how many lines are sent at most (a bound)
    PipeSize,    \* how many lines the pipe to the child holds
    Faults       \* "kill": a process may be killed from outside

ASSUME PipeAssumption ==
    MaxLines \in Nat /\ PipeSize \in Nat \ {0} /\ Faults \subseteq {"kill"}

Procs == {"parent", "child"}

\* How a process can end.
Outcomes == {"returned", "failed", "SIGPIPE", "killed"}

\* The four ends of the two pipes: to_child and from_child, read and write.
Ends == {"to_r", "to_w", "from_r", "from_w"}

VARIABLES
    version,     \* "old" or "new"
    ppc, cpc,    \* where parent and child are
    how,         \* how each of them ended
    holds,       \* holds[e]: which processes have the end e open
    line,        \* the line in the hands of the parent
    work,        \* in those of the child: at most one, with no verdict yet
    eof,         \* the parent's standard input is exhausted
    to_child,    \* lines in the pipe to the child
    from_child,  \* status bytes in the other pipe
    sent,        \* history: the lines written into the pipe
    file         \* what the child has written to its file

vars == <<version, ppc, cpc, how, holds, line, work, eof, to_child, from_child, sent, file>>

Kinds == {"numbers", "one", "none", "zero"}
Lines == [kind : Kinds, whole : BOOLEAN]
NoLine == [kind |-> "none", whole |-> TRUE]

Abs == INSTANCE Division WITH
    given <- sent,
    answered <- Len(sent) - Len(to_child) - Len(work)

Init ==
    /\ version \in {"old", "new"}
    /\ ppc = "name" /\ cpc = "none"
    /\ how = [p \in Procs |-> "runs"]
    /\ holds = [e \in Ends |-> {}]
    /\ line = NoLine /\ work = <<>>
    /\ eof = FALSE
    /\ to_child = <<>> /\ from_child = <<>>
    /\ sent = <<>> /\ file = <<>>

-------------------------------------------------------------------------------
(***************************************************************************)
(* The parent.                                                             *)
(***************************************************************************)
PGoto(place) == ppc' = place

\* However a process ends, its descriptors are closed.
Released(p) == [e \in Ends |-> holds[e] \ {p}]

PEnd(h) ==
    /\ ppc' = "ended"
    /\ how' = [how EXCEPT !["parent"] = h]
    /\ holds' = Released("parent")

ReadName ==
    /\ ppc = "name"
    /\ \/ PGoto("pipes") /\ UNCHANGED <<how, holds>>
       \/ PEnd("failed")
    /\ UNCHANGED <<version, cpc, line, work, eof, to_child, from_child, sent, file>>

MakePipes ==
    /\ ppc = "pipes"
    /\ \/ /\ holds' = [e \in Ends |-> {"parent"}]
          /\ PGoto("fork")
          /\ UNCHANGED how
       \/ PEnd("failed")
    /\ UNCHANGED <<version, cpc, line, work, eof, to_child, from_child, sent, file>>

Fork ==
    /\ ppc = "fork"
    /\ \/ /\ holds' = [e \in Ends |-> Procs]
          /\ cpc' = "setup"
          /\ PGoto("close")
          /\ UNCHANGED how
       \/ PEnd("failed") /\ UNCHANGED cpc
    /\ UNCHANGED <<version, line, work, eof, to_child, from_child, sent, file>>

CloseEnds ==
    /\ ppc = "close"
    /\ holds' = [holds EXCEPT !["to_r"] = @ \ {"parent"}, !["from_w"] = @ \ {"parent"}]
    /\ PGoto("input")
    /\ UNCHANGED <<version, cpc, how, line, work, eof, to_child, from_child, sent, file>>

\* The user has typed a line.
Take ==
    /\ ~ eof /\ Len(sent) < MaxLines
    /\ line' \in Lines
    /\ eof' = ~ line'.whole
    /\ PGoto("send")

\* fgets(): a line, a blank line, which ends the input as its end does.
OldInput ==
    /\ ppc = "input" /\ version = "old"
    /\ \/ Take
       \/ PGoto("shut") /\ UNCHANGED <<line, eof>>
    /\ UNCHANGED <<version, cpc, how, holds, work, to_child, from_child, sent, file>>

\* read_line(): blank lines are skipped, an error ends the parent at once.
NewInput ==
    /\ ppc = "input" /\ version = "new"
    /\ \/ Take /\ UNCHANGED <<how, holds>>
       \/ PGoto("shut") /\ UNCHANGED <<line, eof, how, holds>>
       \/ PEnd("failed") /\ UNCHANGED <<line, eof>>
    /\ UNCHANGED <<version, cpc, work, to_child, from_child, sent, file>>

\* write() into a full pipe blocks; into one without a reader it is SIGPIPE.
Write ==
    /\ holds["to_r"] # {}
    /\ Len(to_child) < PipeSize
    /\ to_child' = Append(to_child, line)
    /\ sent' = Append(sent, line)
    /\ UNCHANGED <<how, holds>>

BrokenPipe ==
    /\ holds["to_r"] = {}
    /\ PEnd("SIGPIPE")
    /\ UNCHANGED <<to_child, sent>>

OldSend ==
    /\ ppc = "send" /\ version = "old"
    /\ \/ Write /\ PGoto("input")
       \/ BrokenPipe
    /\ UNCHANGED <<version, cpc, line, work, eof, from_child, file>>

\* Mutant: goes on without waiting for the answer.
SendOn ==
    /\ ppc = "send" /\ version = "new"
    /\ \/ Write /\ PGoto("input")
       \/ BrokenPipe
    /\ UNCHANGED <<version, cpc, line, work, eof, from_child, file>>
NewSend ==
    /\ ppc = "send" /\ version = "new"
    /\ \/ Write /\ PGoto("status")
       \/ BrokenPipe
    /\ UNCHANGED <<version, cpc, line, work, eof, from_child, file>>

\* The answer; end-of-file when the child is gone without one.
\* Mutant: any answer will do.
AnyAnswer ==
    /\ ppc = "status"
    /\ \/ /\ from_child # <<>>
          /\ from_child' = Tail(from_child)
          /\ PGoto("input")
       \/ /\ from_child = <<>> /\ holds["from_w"] = {}
          /\ PGoto("shut")
          /\ UNCHANGED from_child
    /\ UNCHANGED <<version, cpc, how, holds, line, work, eof, to_child, sent, file>>
ReadStatus ==
    /\ ppc = "status"
    /\ \/ /\ from_child # <<>>
          /\ from_child' = Tail(from_child)
          /\ PGoto(IF Head(from_child) = "Z" THEN "shut" ELSE "input")
       \/ /\ from_child = <<>> /\ holds["from_w"] = {}
          /\ PGoto("shut")
          /\ UNCHANGED from_child
    /\ UNCHANGED <<version, cpc, how, holds, line, work, eof, to_child, sent, file>>

\* Mutant: the pipe to the child stays open.
ShutNothing ==
    /\ ppc = "shut"
    /\ PGoto("wait")
    /\ UNCHANGED <<version, cpc, how, holds, line, work, eof, to_child, from_child, sent, file>>
Shut ==
    /\ ppc = "shut"
    /\ holds' = [holds EXCEPT !["to_w"] = @ \ {"parent"}, !["from_r"] = @ \ {"parent"}]
    /\ PGoto("wait")
    /\ UNCHANGED <<version, cpc, how, line, work, eof, to_child, from_child, sent, file>>

\* waitpid(), return.
\* Mutant: does not wait.
Return ==
    /\ ppc = "wait"
    /\ PEnd("returned")
    /\ UNCHANGED <<version, cpc, line, work, eof, to_child, from_child, sent, file>>
Wait ==
    /\ ppc = "wait" /\ cpc = "ended"
    /\ PEnd("returned")
    /\ UNCHANGED <<version, cpc, line, work, eof, to_child, from_child, sent, file>>

-------------------------------------------------------------------------------
(***************************************************************************)
(* The child.                                                              *)
(***************************************************************************)
CGoto(place) == cpc' = place

CEnd(h) ==
    /\ cpc' = "ended"
    /\ how' = [how EXCEPT !["child"] = h]
    /\ holds' = Released("child")

\* dup2(), and the copies are closed, those of the parent's ends as well.
\* Mutant: the child keeps its copy of the end that the parent writes to.
KeepWriteEnd ==
    /\ cpc = "setup"
    /\ \/ /\ holds' = [holds EXCEPT !["from_r"] = @ \ {"child"}]
          /\ CGoto("exec")
          /\ UNCHANGED how
       \/ CEnd("failed")
    /\ UNCHANGED <<version, ppc, line, work, eof, to_child, from_child, sent, file>>
Redirect ==
    /\ cpc = "setup"
    /\ \/ /\ holds' = [holds EXCEPT !["to_w"] = @ \ {"child"}, !["from_r"] = @ \ {"child"}]
          /\ CGoto("exec")
          /\ UNCHANGED how
       \/ CEnd("failed")
    /\ UNCHANGED <<version, ppc, line, work, eof, to_child, from_child, sent, file>>

Exec ==
    /\ cpc = "exec"
    /\ \/ CGoto("open") /\ UNCHANGED <<how, holds>>
       \/ CEnd("failed")
    /\ UNCHANGED <<version, ppc, line, work, eof, to_child, from_child, sent, file>>

OpenFile ==
    /\ cpc = "open"
    /\ \/ CGoto("read") /\ UNCHANGED <<how, holds>>
       \/ CEnd("failed")
    /\ UNCHANGED <<version, ppc, line, work, eof, to_child, from_child, sent, file>>

\* fgets() or read_line(): a line that is not whole is waited for until no
\* writer is left.
ReadLine ==
    /\ cpc = "read" /\ to_child # <<>>
    /\ Head(to_child).whole \/ holds["to_w"] = {}
    /\ work' = <<Head(to_child)>>
    /\ to_child' = Tail(to_child)
    /\ CGoto("record")
    /\ UNCHANGED <<version, ppc, how, holds, line, eof, from_child, sent, file>>

ReadEnd ==
    /\ cpc = "read" /\ to_child = <<>> /\ holds["to_w"] = {}
    /\ CGoto("finish")
    /\ UNCHANGED <<version, ppc, how, holds, line, work, eof, to_child, from_child, sent, file>>

\* The verdict is in the file before anyone is told of it.
Record ==
    /\ cpc = "record"
    /\ file' = file \o Abs!Verdict(version, work[1])
    /\ work' = <<>>
    /\ UNCHANGED <<version, ppc, how, holds, line, eof, to_child, from_child, sent>>

\* The old child tells of nothing but a division by zero.
\* Mutant: it goes on after one.
OldGoesOn ==
    /\ version = "old" /\ Record
    /\ CGoto("read")
OldRecord ==
    /\ version = "old" /\ Record
    /\ CGoto(IF work[1].kind = "zero" THEN "tellZ" ELSE "read")

\* Mutant: a line without numbers gets no answer.
NewRecordUnanswered ==
    /\ version = "new" /\ Record
    /\ CGoto(CASE work[1].kind = "zero" -> "tellZ" [] work[1].kind = "none" -> "read" [] OTHER -> "tellO")
NewRecord ==
    /\ version = "new" /\ Record
    /\ CGoto(IF work[1].kind = "zero" THEN "tellZ" ELSE "tellO")

\* Into a pipe that the parent has closed it is SIGPIPE.
Tell(byte, place) ==
    \/ /\ holds["from_r"] # {}
       /\ from_child' = Append(from_child, byte)
       /\ CGoto(place)
       /\ UNCHANGED <<how, holds>>
    \/ /\ holds["from_r"] = {}
       /\ CEnd("SIGPIPE")
       /\ UNCHANGED from_child

TellO ==
    /\ cpc = "tellO"
    /\ Tell("O", "read")
    /\ UNCHANGED <<version, ppc, line, work, eof, to_child, sent, file>>

\* The message of the old child, the byte of the new one; then both end.
TellZ ==
    /\ cpc = "tellZ"
    /\ Tell("Z", "finish")
    /\ UNCHANGED <<version, ppc, line, work, eof, to_child, sent, file>>

Finish ==
    /\ cpc = "finish"
    /\ CEnd("returned")
    /\ UNCHANGED <<version, ppc, line, work, eof, to_child, from_child, sent, file>>

-------------------------------------------------------------------------------
KillParent ==
    /\ "kill" \in Faults /\ ppc # "ended"
    /\ PEnd("killed")
    /\ UNCHANGED <<version, cpc, line, work, eof, to_child, from_child, sent, file>>

KillChild ==
    /\ "kill" \in Faults /\ cpc \notin {"none", "ended"}
    /\ CEnd("killed")
    /\ UNCHANGED <<version, ppc, line, work, eof, to_child, from_child, sent, file>>

\* What the parent does by itself; the rest waits for the user.
ParentRuns ==
    MakePipes \/ Fork \/ CloseEnds \/ OldSend \/ NewSend \/ ReadStatus \/ Shut \/ Wait

ParentAsks == ReadName \/ OldInput \/ NewInput

ChildStep ==
    \/ Redirect \/ Exec \/ OpenFile \/ ReadLine \/ ReadEnd
    \/ OldRecord \/ NewRecord \/ TellO \/ TellZ \/ Finish

Next == ParentRuns \/ ParentAsks \/ ChildStep \/ KillParent \/ KillChild

Spec == Init /\ [][Next]_vars

\* A process that can go on does; the user and those who kill need not.
FairSpec == Spec /\ WF_vars(ParentRuns) /\ WF_vars(ChildStep)

-------------------------------------------------------------------------------
OwnEnds ==
    /\ ppc \in {"input", "send", "status", "shut"} =>
         \A e \in Ends : "parent" \in holds[e] <=> e \in {"to_w", "from_r"}
    /\ cpc \notin {"none", "setup", "ended"} =>
         \A e \in Ends : "child" \in holds[e] <=> e \in {"to_r", "from_w"}

\* Types, and which ends the processes have open once they have closed the
\* others.
TypeOK ==
    /\ version \in {"old", "new"}
    /\ ppc \in {"name", "pipes", "fork", "close", "input", "send", "status",
                "shut", "wait", "ended"}
    /\ cpc \in {"none", "setup", "exec", "open", "read", "record", "tellO",
                "tellZ", "finish", "ended"}
    /\ how \in [Procs -> {"runs"} \cup Outcomes]
    /\ holds \in [Ends -> SUBSET Procs]
    /\ line \in Lines /\ work \in Seq(Lines)
    /\ eof \in BOOLEAN
    /\ to_child \in Seq(Lines)
    /\ from_child \in Seq({"O", "Z"})
    /\ sent \in Seq(Lines)
    /\ file \in Seq({"result", "division by zero", "bad line", "need at least 2 numbers"})
    /\ OwnEnds

\* How many of the lines sent have their verdict in the file.
Answered == Len(sent) - Len(to_child) - Len(work)

\* The two processes keep to the abstract specification: each line sent is
\* answered once, in order, and nothing after a division by zero.
DividesInOrder == Abs!DSpec

\* In the new version the two are in step (new/parent.c 73-76): while the
\* parent reads its input every line has been answered, and a status byte is
\* the only one and about the line sent last.
InStep ==
    version = "new" =>
        /\ ppc \in {"input", "send"} => Answered = Len(sent)
        /\ from_child # <<>> =>
             /\ Answered = Len(sent) /\ Len(from_child) = 1
             /\ (Head(from_child) = "Z") = (sent[Len(sent)].kind = "zero")

\* A parent that returns has had everything answered, unless its child failed
\* before it read anything or was killed: all lines, or those up to and with
\* a division by zero.
ReturnsAnswered ==
    how["parent"] = "returned" /\ how["child"] \notin {"failed", "killed"} =>
        /\ how["child"] # "runs"
        /\ Answered = Len(sent) \/ (Answered > 0 /\ sent[Answered].kind = "zero")

\* The child is not left behind: once the parent takes no more input, or is
\* no more, the child ends (it must see the end of the pipe, child.c 15).
ChildFollows ==
    ppc \in {"shut", "wait", "ended"} /\ cpc # "none" ~> cpc = "ended"

\* The new parent waits for the answer to a line of which the child waits for
\* the rest (new/parent.c 66, new/child.c 13-26).
Stuck == ppc = "status" /\ cpc = "read" /\ to_child # <<>> /\ ~ Head(to_child).whole

\* A process that cannot go on by itself: the answer, room in the pipe or the
\* end of the child is waited for; a line, its rest or the end of the pipe.
ParentWaits ==
    \/ ppc = "status" /\ from_child = <<>> /\ holds["from_w"] # {}
    \/ ppc = "send" /\ holds["to_r"] # {} /\ Len(to_child) >= PipeSize
    \/ ppc = "wait" /\ cpc # "ended"

ChildWaits ==
    /\ cpc = "read" /\ holds["to_w"] # {}
    /\ to_child = <<>> \/ ~ Head(to_child).whole

\* Two processes, two pipes and a waitpid() among them never come to a stop
\* together: neither waits for the other when that one waits for it or is no
\* more, save for that one case.
OnlyAnUnfinishedLineHoldsBoth ==
    /\ ParentWaits \/ ppc = "ended"
    /\ ChildWaits \/ cpc \in {"none", "ended"}
    /\ ParentWaits \/ ChildWaits
    => Stuck

\* The parent comes back to its user or ends, save for that one case.
OnlyAnUnfinishedLineBlocks ==
    ppc \notin {"name", "input", "ended"} ~> ppc \in {"name", "input", "ended"} \/ Stuck

\* condition.tex:18-19 for the new version: at a division by zero both end.
ZeroEndsBoth ==
    version = "new" /\ cpc = "tellZ" ~> ppc = "ended" /\ cpc = "ended"
===============================================================================
