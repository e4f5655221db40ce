-------------------------- MODULE PipeDivide_proofs ---------------------------
(***************************************************************************)
(* PipeDivide for any number of lines, any size of the pipe and with or    *)
(* without kills: the types, the two processes in step, nothing left       *)
(* unanswered, and that they keep to Division.                             *)
(***************************************************************************)
EXTENDS PipeDivide, SequenceTheorems, TLAPS

\* Who is where, and has what open, before the lines begin and at the end.
Places ==
    /\ ppc \in {"name", "pipes", "fork"} => cpc = "none"
    /\ ppc \in {"fork", "close"} => \A e \in Ends : "parent" \in holds[e]
    /\ cpc = "setup" => \A e \in Ends : "child" \in holds[e]
    /\ cpc \in {"none", "ended"} => \A e \in Ends : "child" \notin holds[e]
    /\ how["child"] = "runs" <=> cpc # "ended"
    /\ how["parent"] = "returned" => cpc = "ended"
    /\ version = "old" => cpc # "tellO"

\* The lines not yet answered are the last ones sent: that in the child's
\* hands, then those in the pipe.
Queue ==
    /\ Len(work) <= 1 /\ Len(to_child) + Len(work) <= Len(sent)
    /\ cpc = "record" => Len(work) = 1
    /\ work # <<>> => cpc \in {"record", "ended"} /\ sent[Answered + 1] = work[1]
    /\ \A i \in 1 .. Len(to_child) : to_child[i] = sent[Len(sent) - Len(to_child) + i]

Stopped == Answered > 0 /\ sent[Answered].kind = "zero"

\* Who stops, and who ends, has answered what there was to answer.
Ending ==
    /\ Stopped => cpc \in {"tellZ", "finish", "ended"}
    /\ cpc = "tellZ" => Stopped
    /\ cpc = "finish" => Stopped \/ (Answered = Len(sent) /\ holds["to_w"] = {})
    /\ how["child"] \in {"returned", "SIGPIPE"} => Stopped \/ Answered = Len(sent)

\* The new version: what is between the two, as a line or as its answer.
UnderWay == Len(to_child) + Len(work) + Len(from_child) + (IF cpc \in {"tellO", "tellZ"} THEN 1 ELSE 0)

Turns ==
    version = "new" =>
        /\ UnderWay <= 1
        /\ ppc \notin {"status", "shut", "wait", "ended"} => UnderWay = 0
        /\ cpc = "tellO" => sent[Len(sent)].kind # "zero"
        /\ from_child # <<>> => (from_child[1] = "Z") = (sent[Len(sent)].kind = "zero")

IInv == TypeOK /\ Places /\ Queue /\ Ending /\ Turns

-------------------------------------------------------------------------------
\* What the end of a process does.
ParentGone(h) ==
    /\ ppc' = "ended"
    /\ how' \in [Procs -> {"runs"} \cup Outcomes]
    /\ how'["parent"] = h /\ how'["child"] = how["child"]
    /\ holds' \in [Ends -> SUBSET Procs]
    /\ \A e \in Ends : "parent" \notin holds'[e]
    /\ \A e \in Ends : "child" \in holds'[e] <=> "child" \in holds[e]

ChildGone(h) ==
    /\ cpc' = "ended"
    /\ how' \in [Procs -> {"runs"} \cup Outcomes]
    /\ how'["child"] = h /\ how'["parent"] = how["parent"]
    /\ holds' \in [Ends -> SUBSET Procs]
    /\ \A e \in Ends : "child" \notin holds'[e]
    /\ \A e \in Ends : "parent" \in holds'[e] <=> "parent" \in holds[e]

LEMMA ParentEnds ==
    ASSUME TypeOK, NEW h \in Outcomes, PEnd(h)
    PROVE  ParentGone(h)
BY DEF TypeOK, PEnd, Released, Procs, ParentGone

LEMMA ChildEnds ==
    ASSUME TypeOK, NEW h \in Outcomes, CEnd(h)
    PROVE  ChildGone(h)
BY DEF TypeOK, CEnd, Released, Procs, ChildGone


\* What the transfers do to the sequences.
LEMMA LineSent ==
    ASSUME TypeOK, Write
    PROVE  /\ to_child' \in Seq(Lines) /\ sent' \in Seq(Lines)
           /\ Len(to_child') = Len(to_child) + 1 /\ Len(sent') = Len(sent) + 1
           /\ \A i \in 1 .. Len(to_child) : to_child'[i] = to_child[i]
           /\ \A i \in 1 .. Len(sent) : sent'[i] = sent[i]
           /\ to_child'[Len(to_child) + 1] = line /\ sent'[Len(sent) + 1] = line
<1>1. to_child \in Seq(Lines) /\ sent \in Seq(Lines) /\ line \in Lines  BY DEF TypeOK
<1> QED  BY <1>1, AppendProperties DEF Write

LEMMA LineTaken ==
    ASSUME TypeOK, ReadLine
    PROVE  /\ to_child' \in Seq(Lines) /\ work' \in Seq(Lines)
           /\ Len(to_child) > 0 /\ Len(to_child') = Len(to_child) - 1 /\ Len(work') = 1
           /\ work'[1] = to_child[1]
           /\ \A i \in 1 .. Len(to_child') : to_child'[i] = to_child[i + 1]
<1>1. to_child \in Seq(Lines) /\ to_child # <<>>  BY DEF TypeOK, ReadLine
<1>2. Head(to_child) \in Lines /\ Head(to_child) = to_child[1]  BY <1>1
<1>3. work' = <<Head(to_child)>> /\ to_child' = Tail(to_child)  BY DEF ReadLine
<1>4. work' \in Seq(Lines) /\ Len(work') = 1 /\ work'[1] = to_child[1]  BY <1>2, <1>3
<1>5. Len(to_child) > 0  BY <1>1, EmptySeq
<1> QED  BY <1>1, <1>3, <1>4, <1>5, HeadTailProperties

LEMMA LineRecorded ==
    ASSUME TypeOK, Record, Len(work) = 1
    PROVE  /\ work[1] \in Lines
           /\ work' \in Seq(Lines) /\ Len(work') = 0
           /\ file' \in Seq({"result", "division by zero", "bad line", "need at least 2 numbers"})
<1> DEFINE V == {"result", "division by zero", "bad line", "need at least 2 numbers"}
<1>1. work[1] \in Lines
  <2>1. work \in Seq(Lines)  BY DEF TypeOK
  <2>2. 1 \in 1 .. Len(work)  OBVIOUS
  <2> QED  BY <2>1, <2>2, ElementOfSeq
<1>2. work' \in Seq(Lines) /\ Len(work') = 0  BY DEF Record
<1>3. Abs!Verdict(version, work[1]) \in Seq(V)
  <2>1. <<>> \in Seq(V)  OBVIOUS
  <2>2. \A v \in V : <<v>> \in Seq(V)
    <3> HIDE DEF V
    <3> QED  OBVIOUS
  <2> QED  BY <2>1, <2>2 DEF Abs!Verdict
<1>4. file \in Seq(V)  BY DEF TypeOK
<1>5. file' \in Seq(V)  BY <1>3, <1>4, ConcatProperties DEF Record
<1> QED  BY <1>1, <1>2, <1>5

LEMMA ByteTold ==
    ASSUME TypeOK, NEW b \in {"O", "Z"}, from_child' = Append(from_child, b)
    PROVE  /\ from_child' \in Seq({"O", "Z"})
           /\ Len(from_child') = Len(from_child) + 1
           /\ from_child'[Len(from_child) + 1] = b
<1>1. from_child \in Seq({"O", "Z"})  BY DEF TypeOK
<1> QED  BY <1>1, AppendProperties

LEMMA ByteHeard ==
    ASSUME TypeOK, from_child # <<>>, from_child' = Tail(from_child)
    PROVE  /\ from_child' \in Seq({"O", "Z"})
           /\ Len(from_child) > 0 /\ Len(from_child') = Len(from_child) - 1
           /\ Head(from_child) = from_child[1]
           /\ from_child' # <<>> => Len(from_child') > 0
<1>1. from_child \in Seq({"O", "Z"})  BY DEF TypeOK
<1>2. Len(from_child) > 0  BY <1>1, EmptySeq
<1>3. Head(from_child) = from_child[1]  BY <1>1
<1>4. from_child' \in Seq({"O", "Z"})  BY <1>1, HeadTailProperties
<1>5. from_child' # <<>> => Len(from_child') > 0  BY <1>4, EmptySeq
<1> QED  BY <1>1, <1>2, <1>3, <1>4, <1>5, HeadTailProperties

\* What closing two ends does.
LEMMA TwoClosed ==
    ASSUME TypeOK, NEW a \in Ends, NEW b \in Ends, a # b, NEW p \in Procs,
           holds' = [holds EXCEPT ![a] = @ \ {p}, ![b] = @ \ {p}]
    PROVE  /\ holds' \in [Ends -> SUBSET Procs]
           /\ \A e \in Ends : \A q \in Procs :
                q \in holds'[e] <=> (q \in holds[e] /\ ~ (q = p /\ e \in {a, b}))
<1>1. holds \in [Ends -> SUBSET Procs]  BY DEF TypeOK
<1>2. holds' \in [Ends -> SUBSET Procs]  BY <1>1
<1>3. \A e \in Ends : holds'[e] = IF e \in {a, b} THEN holds[e] \ {p} ELSE holds[e]  BY <1>1
<1> QED  BY <1>2, <1>3

LEMMA Redirected ==
    ASSUME TypeOK,
           holds' = [holds EXCEPT !["to_w"] = @ \ {"child"}, !["from_r"] = @ \ {"child"}]
    PROVE  /\ holds' \in [Ends -> SUBSET Procs]
           /\ \A e \in Ends : "parent" \in holds'[e] <=> "parent" \in holds[e]
           /\ \A e \in Ends : "child" \in holds'[e] <=> "child" \in holds[e] /\ e \notin {"to_w", "from_r"}
<1>1. "child" \in Procs /\ "parent" \in Procs /\ "to_w" \in Ends /\ "from_r" \in Ends  BY DEF Procs, Ends
<1> QED  BY ZenonT(60), <1>1, TwoClosed

-------------------------------------------------------------------------------
\* The lengths, and what of them is answered.
LEMMA Counts ==
    ASSUME TypeOK, Queue
    PROVE  /\ Len(sent) \in Nat /\ Len(to_child) \in Nat /\ Len(from_child) \in Nat
           /\ Len(work) \in Nat /\ Answered \in Nat
           /\ Answered = Len(sent) - Len(to_child) - Len(work)
           /\ work # <<>> <=> Len(work) > 0
           /\ to_child # <<>> <=> Len(to_child) > 0
           /\ from_child # <<>> <=> Len(from_child) > 0
<1>1. sent \in Seq(Lines) /\ to_child \in Seq(Lines) /\ work \in Seq(Lines)
      /\ from_child \in Seq({"O", "Z"})
  BY DEF TypeOK
<1>2. /\ Len(sent) \in Nat /\ Len(to_child) \in Nat /\ Len(from_child) \in Nat /\ Len(work) \in Nat
  BY <1>1, LenProperties
<1>3. Answered \in Nat /\ Answered = Len(sent) - Len(to_child) - Len(work)  BY <1>2 DEF Queue, Answered
<1> QED  BY <1>1, <1>2, <1>3, EmptySeq

\* A line sent joins the queue and changes nothing of what is answered.
LEMMA SendKeeps ==
    ASSUME TypeOK, Queue, Write, UNCHANGED <<work, cpc>>
    PROVE  Queue' /\ Answered' = Answered /\ Stopped' = Stopped
<1> DEFINE n == Len(sent)
           m == Len(to_child)
<1>1. n \in Nat /\ m \in Nat /\ Len(work) \in Nat /\ m + Len(work) <= n
  BY Counts DEF Queue
<1>2. Len(to_child') = m + 1 /\ Len(sent') = n + 1  BY LineSent
<1>3. Answered' = Answered /\ Answered \in 0 .. n  BY <1>1, <1>2 DEF Answered
<1>4. Answered > 0 => sent'[Answered] = sent[Answered]  BY <1>1, <1>3, LineSent
<1>5. Stopped' = Stopped  BY <1>3, <1>4 DEF Stopped
<1>6. work # <<>> => sent'[Answered + 1] = sent[Answered + 1]
  <2> SUFFICES ASSUME work # <<>> PROVE sent'[Answered + 1] = sent[Answered + 1]  OBVIOUS
  <2>1. Answered + 1 \in 1 .. n  BY <1>1, Counts
  <2> QED  BY <2>1, LineSent
<1>7. ASSUME NEW i \in 1 .. m + 1 PROVE to_child'[i] = sent'[n - m + i]
  <2>1. CASE i = m + 1
    <3>1. n - m + i = n + 1  BY <2>1, <1>1
    <3> QED  BY <2>1, <3>1, LineSent
  <2>2. CASE i # m + 1
    <3>1. i \in 1 .. m /\ n - m + i \in 1 .. n  BY <2>2, <1>1
    <3> QED  BY <3>1, LineSent DEF Queue
  <2> QED  BY <2>1, <2>2
<1>8. n' - m' = n - m  BY <1>1, <1>2
<1> QED  BY <1>1, <1>2, <1>3, <1>5, <1>6, <1>7, <1>8 DEF Queue

\* A line read moves from the pipe to the child's hands.
LEMMA TakeKeeps ==
    ASSUME TypeOK, Queue, ReadLine
    PROVE  Queue' /\ Answered' = Answered /\ Stopped' = Stopped
<1> DEFINE n == Len(sent)
           m == Len(to_child)
<1>1. n \in Nat /\ m \in Nat /\ m <= n /\ m > 0 /\ Len(work) = 0
  BY Counts, LineTaken DEF Queue, ReadLine
<1>2. Len(to_child') = m - 1 /\ Len(work') = 1 /\ sent' = sent /\ cpc' = "record"
  BY LineTaken DEF ReadLine, CGoto
<1>3. Answered' = Answered /\ Answered = n - m  BY <1>1, <1>2 DEF Answered
<1>4. Stopped' = Stopped  BY <1>2, <1>3 DEF Stopped
<1>5. sent[Answered + 1] = work'[1]  BY <1>1, <1>3, LineTaken DEF Queue
<1>6. ASSUME NEW i \in 1 .. m - 1 PROVE to_child'[i] = sent[n - (m - 1) + i]
  <2>1. i + 1 \in 1 .. m /\ n - m + (i + 1) = n - (m - 1) + i  BY <1>1
  <2> QED  BY <1>2, <2>1, LineTaken DEF Queue
<1> QED  BY <1>1, <1>2, <1>3, <1>4, <1>5, <1>6 DEF Queue

\* A line recorded is one more answered.
LEMMA RecordKeeps ==
    ASSUME TypeOK, Queue, Record, cpc' # "record"
    PROVE  /\ Queue'
           /\ Answered' = Answered + 1
           /\ sent[Answered + 1] = work[1]
           /\ Stopped' <=> work[1].kind = "zero"
<1>1. Len(work) = 1 /\ work # <<>>
  <2>1. cpc = "record"  BY DEF Record
  <2> QED  BY <2>1, Counts DEF Queue
<1>2. work' = <<>> /\ Len(work') = 0 /\ sent' = sent /\ to_child' = to_child  BY <1>1, LineRecorded DEF Record
<1>3. Answered' = Answered + 1 /\ Answered \in Nat  BY <1>1, <1>2, Counts DEF Answered
<1>4. sent[Answered + 1] = work[1]  BY <1>1 DEF Queue
<1>5. Stopped' <=> work[1].kind = "zero"  BY <1>2, <1>3, <1>4 DEF Stopped
<1>6. Queue'  BY <1>1, <1>2, Counts DEF Queue
<1> QED  BY <1>3, <1>4, <1>5, <1>6

-------------------------------------------------------------------------------
\* The types are preserved, and which ends are open.
LEMMA TypePreserved ==
    ASSUME TypeOK, Places, Queue, [Next]_vars
    PROVE  TypeOK'
<1>p. \A h \in Outcomes : PEnd(h) => ParentGone(h)  BY ParentEnds
<1>c. \A h \in Outcomes : CEnd(h) => ChildGone(h)  BY ChildEnds
<1> USE DEF ParentGone, ChildGone, Outcomes, Procs, Ends, TypeOK, OwnEnds, Places, Queue
<1>1. CASE ReadName  BY <1>1, <1>p DEF ReadName, PGoto
<1>2. CASE MakePipes
  <2>1. CASE PEnd("failed")  BY <1>2, <2>1, <1>p DEF MakePipes
  <2>2. CASE holds' = [e \in Ends |-> {"parent"}] /\ PGoto("fork") /\ UNCHANGED how
    <3>1. holds' \in [Ends -> SUBSET Procs] /\ \A e \in Ends : holds'[e] = {"parent"}  BY <2>2
    <3> QED  BY <1>2, <2>2, <3>1 DEF MakePipes, PGoto
  <2> QED  BY <1>2, <2>1, <2>2 DEF MakePipes
<1>3. CASE Fork
  <2>1. CASE PEnd("failed") /\ UNCHANGED cpc  BY <1>3, <2>1, <1>p DEF Fork
  <2>2. CASE holds' = [e \in Ends |-> Procs] /\ cpc' = "setup" /\ PGoto("close") /\ UNCHANGED how
    <3>1. holds' \in [Ends -> SUBSET Procs] /\ \A e \in Ends : holds'[e] = Procs  BY <2>2
    <3> QED  BY <1>3, <2>2, <3>1 DEF Fork, PGoto
  <2> QED  BY <1>3, <2>1, <2>2 DEF Fork
<1>4. CASE CloseEnds
  <2>1. /\ holds' \in [Ends -> SUBSET Procs]
        /\ \A e \in Ends : \A q \in Procs :
             q \in holds'[e] <=> (q \in holds[e] /\ ~ (q = "parent" /\ e \in {"to_r", "from_w"}))
    BY <1>4, TwoClosed DEF CloseEnds
  <2> QED  BY <1>4, <2>1 DEF CloseEnds, PGoto
<1>5. CASE OldInput  BY <1>5 DEF OldInput, Take, PGoto
<1>6. CASE NewInput  BY <1>6, <1>p DEF NewInput, Take, PGoto
<1>7. CASE OldSend
  <2>1. CASE Write /\ PGoto("input")  BY <1>7, <2>1, LineSent DEF OldSend, Write, PGoto
  <2>2. CASE BrokenPipe  BY <1>7, <2>2, <1>p DEF OldSend, BrokenPipe
  <2> QED  BY <1>7, <2>1, <2>2 DEF OldSend
<1>8. CASE NewSend
  <2>1. CASE Write /\ PGoto("status")  BY <1>8, <2>1, LineSent DEF NewSend, Write, PGoto
  <2>2. CASE BrokenPipe  BY <1>8, <2>2, <1>p DEF NewSend, BrokenPipe
  <2> QED  BY <1>8, <2>1, <2>2 DEF NewSend
<1>9. CASE ReadStatus
  <2>1. CASE from_child # <<>> /\ from_child' = Tail(from_child)
    BY <1>9, <2>1, ByteHeard DEF ReadStatus, PGoto
  <2>2. CASE UNCHANGED from_child  BY <1>9, <2>2 DEF ReadStatus, PGoto
  <2> QED  BY <1>9, <2>1, <2>2 DEF ReadStatus
<1>10. CASE Shut
  <2>1. /\ holds' \in [Ends -> SUBSET Procs]
        /\ \A e \in Ends : \A q \in Procs :
             q \in holds'[e] <=> (q \in holds[e] /\ ~ (q = "parent" /\ e \in {"to_w", "from_r"}))
    BY <1>10, TwoClosed DEF Shut
  <2> QED  BY <1>10, <2>1 DEF Shut, PGoto
<1>11. CASE Wait  BY <1>11, <1>p DEF Wait
<1>12. CASE Redirect
  <2>1. CASE holds' = [holds EXCEPT !["to_w"] = holds["to_w"] \ {"child"},
                                      !["from_r"] = holds["from_r"] \ {"child"}]
             /\ CGoto("exec") /\ UNCHANGED how
    BY <1>12, <2>1, Redirected DEF Redirect, CGoto
  <2>2. CASE CEnd("failed")  BY <1>12, <2>2, <1>c DEF Redirect
  <2> QED  BY <1>12, <2>1, <2>2 DEF Redirect
<1>13. CASE Exec  BY <1>13, <1>c DEF Exec, CGoto
<1>14. CASE OpenFile  BY <1>14, <1>c DEF OpenFile, CGoto
<1>15. CASE ReadLine
  BY <1>15, LineTaken DEF ReadLine, CGoto
<1>16. CASE ReadEnd  BY <1>16 DEF ReadEnd, CGoto
<1>17. CASE OldRecord
  BY <1>17, LineRecorded DEF OldRecord, Record, CGoto
<1>18. CASE NewRecord
  BY <1>18, LineRecorded DEF NewRecord, Record, CGoto
<1>19. CASE TellO
  <2>1. CASE CEnd("SIGPIPE") /\ UNCHANGED from_child  BY <1>19, <2>1, <1>c DEF TellO
  <2>2. CASE from_child' = Append(from_child, "O") /\ CGoto("read") /\ UNCHANGED <<how, holds>>
    BY <1>19, <2>2, ByteTold DEF TellO, CGoto
  <2> QED  BY <1>19, <2>1, <2>2 DEF TellO, Tell
<1>20. CASE TellZ
  <2>1. CASE CEnd("SIGPIPE") /\ UNCHANGED from_child  BY <1>20, <2>1, <1>c DEF TellZ
  <2>2. CASE from_child' = Append(from_child, "Z") /\ CGoto("finish") /\ UNCHANGED <<how, holds>>
    BY <1>20, <2>2, ByteTold DEF TellZ, CGoto
  <2> QED  BY <1>20, <2>1, <2>2 DEF TellZ, Tell
<1>21. CASE Finish  BY <1>21, <1>c DEF Finish
<1>22. CASE KillParent  BY <1>22, <1>p DEF KillParent
<1>23. CASE KillChild  BY <1>23, <1>c DEF KillChild
<1>24. CASE UNCHANGED vars  BY <1>24 DEF vars
<1> QED  BY <1>1, <1>2, <1>3, <1>4, <1>5, <1>6, <1>7, <1>8, <1>9, <1>10, <1>11, <1>12, <1>13, <1>14, <1>15, <1>16, <1>17, <1>18, <1>19, <1>20, <1>21, <1>22, <1>23, <1>24 DEF Next, ParentRuns, ParentAsks, ChildStep

\* Places is preserved.
LEMMA PlacesPreserved ==
    ASSUME TypeOK, Places, [Next]_vars
    PROVE  Places'
<1>p. \A h \in Outcomes : PEnd(h) => ParentGone(h)  BY ParentEnds
<1>c. \A h \in Outcomes : CEnd(h) => ChildGone(h)  BY ChildEnds
<1> USE DEF ParentGone, ChildGone, Outcomes, Procs, Ends, TypeOK, OwnEnds, Places
<1>1. CASE ReadName  BY <1>1, <1>p DEF ReadName, PGoto
<1>2. CASE MakePipes
  <2>1. CASE PEnd("failed")  BY <1>2, <2>1, <1>p DEF MakePipes
  <2>2. CASE holds' = [e \in Ends |-> {"parent"}] /\ PGoto("fork") /\ UNCHANGED how
    <3>1. holds' \in [Ends -> SUBSET Procs] /\ \A e \in Ends : holds'[e] = {"parent"}  BY <2>2
    <3> QED  BY <1>2, <2>2, <3>1 DEF MakePipes, PGoto
  <2> QED  BY <1>2, <2>1, <2>2 DEF MakePipes
<1>3. CASE Fork
  <2>1. CASE PEnd("failed") /\ UNCHANGED cpc  BY <1>3, <2>1, <1>p DEF Fork
  <2>2. CASE holds' = [e \in Ends |-> Procs] /\ cpc' = "setup" /\ PGoto("close") /\ UNCHANGED how
    <3>1. holds' \in [Ends -> SUBSET Procs] /\ \A e \in Ends : holds'[e] = Procs  BY <2>2
    <3> QED  BY <1>3, <2>2, <3>1 DEF Fork, PGoto
  <2> QED  BY <1>3, <2>1, <2>2 DEF Fork
<1>4. CASE CloseEnds
  <2>1. /\ holds' \in [Ends -> SUBSET Procs]
        /\ \A e \in Ends : \A q \in Procs :
             q \in holds'[e] <=> (q \in holds[e] /\ ~ (q = "parent" /\ e \in {"to_r", "from_w"}))
    BY <1>4, TwoClosed DEF CloseEnds
  <2> QED  BY <1>4, <2>1 DEF CloseEnds, PGoto
<1>5. CASE OldInput  BY <1>5 DEF OldInput, Take, PGoto
<1>6. CASE NewInput  BY <1>6, <1>p DEF NewInput, Take, PGoto
<1>7. CASE OldSend  BY <1>7, <1>p DEF OldSend, Write, BrokenPipe, PGoto
<1>8. CASE NewSend  BY <1>8, <1>p DEF NewSend, Write, BrokenPipe, PGoto
<1>9. CASE ReadStatus  BY <1>9 DEF ReadStatus, PGoto
<1>10. CASE Shut
  <2>1. /\ holds' \in [Ends -> SUBSET Procs]
        /\ \A e \in Ends : \A q \in Procs :
             q \in holds'[e] <=> (q \in holds[e] /\ ~ (q = "parent" /\ e \in {"to_w", "from_r"}))
    BY <1>10, TwoClosed DEF Shut
  <2> QED  BY <1>10, <2>1 DEF Shut, PGoto
<1>11. CASE Wait  BY <1>11, <1>p DEF Wait
<1>12. CASE Redirect
  <2>1. CASE holds' = [holds EXCEPT !["to_w"] = holds["to_w"] \ {"child"},
                                      !["from_r"] = holds["from_r"] \ {"child"}]
             /\ CGoto("exec") /\ UNCHANGED how
    BY <1>12, <2>1, Redirected DEF Redirect, CGoto
  <2>2. CASE CEnd("failed")  BY <1>12, <2>2, <1>c DEF Redirect
  <2> QED  BY <1>12, <2>1, <2>2 DEF Redirect
<1>13. CASE Exec  BY <1>13, <1>c DEF Exec, CGoto
<1>14. CASE OpenFile  BY <1>14, <1>c DEF OpenFile, CGoto
<1>15. CASE ReadLine  BY <1>15 DEF ReadLine, CGoto
<1>16. CASE ReadEnd  BY <1>16 DEF ReadEnd, CGoto
<1>17. CASE OldRecord  BY <1>17 DEF OldRecord, Record, CGoto
<1>18. CASE NewRecord  BY <1>18 DEF NewRecord, Record, CGoto
<1>19. CASE TellO  BY <1>19, <1>c DEF TellO, Tell, CGoto
<1>20. CASE TellZ  BY <1>20, <1>c DEF TellZ, Tell, CGoto
<1>21. CASE Finish  BY <1>21, <1>c DEF Finish
<1>22. CASE KillParent  BY <1>22, <1>p DEF KillParent
<1>23. CASE KillChild  BY <1>23, <1>c DEF KillChild
<1>24. CASE UNCHANGED vars  BY <1>24 DEF vars
<1> QED  BY <1>1, <1>2, <1>3, <1>4, <1>5, <1>6, <1>7, <1>8, <1>9, <1>10, <1>11, <1>12, <1>13, <1>14, <1>15, <1>16, <1>17, <1>18, <1>19, <1>20, <1>21, <1>22, <1>23, <1>24 DEF Next, ParentRuns, ParentAsks, ChildStep

\* The queue is preserved.
LEMMA QueuePreserved ==
    ASSUME TypeOK, Places, Queue, [Next]_vars
    PROVE  Queue'
<1>1. CASE Write /\ UNCHANGED <<work, cpc>>  BY <1>1, SendKeeps
<1>2. CASE ReadLine  BY <1>2, TakeKeeps
<1>3. CASE Record /\ cpc' # "record"  BY <1>3, RecordKeeps
<1>4. CASE UNCHANGED <<work, to_child, sent>> /\ cpc' # "record" /\ (cpc' = cpc \/ cpc' = "ended" \/ cpc \notin {"record", "ended"})
  BY <1>4 DEF Queue, Answered
<1>5. CASE UNCHANGED <<work, to_child, sent, cpc>>  BY <1>5 DEF Queue, Answered
<1> QED
  BY <1>1, <1>2, <1>3, <1>4, <1>5
  DEF Next, ParentRuns, ParentAsks, ChildStep, Places, vars, PEnd, CEnd, PGoto, CGoto,
      ReadName, MakePipes, Fork, CloseEnds, OldInput, NewInput, Take, OldSend, NewSend, BrokenPipe,
      ReadStatus, Shut, Wait, Redirect, Exec, OpenFile, ReadEnd, OldRecord, NewRecord,
      TellO, TellZ, Tell, Finish, KillParent, KillChild

\* Ending is preserved: who stops has answered.
LEMMA EndingPreserved ==
    ASSUME IInv, [Next]_vars
    PROVE  Ending'
<1> USE DEF IInv
<1>f. UNCHANGED <<work, to_child, sent>> => Answered' = Answered /\ Stopped' = Stopped /\ Len(sent') = Len(sent)
  BY DEF Answered, Stopped
<1>p. \A h \in Outcomes : PEnd(h) => ParentGone(h)  BY ParentEnds
<1>c. \A h \in Outcomes : CEnd(h) => ChildGone(h)  BY ChildEnds
<1>t. holds \in [Ends -> SUBSET Procs] /\ "to_w" \in Ends /\ "to_r" \in Ends  BY DEF TypeOK, Ends
<1>1. ASSUME UNCHANGED <<work, to_child, sent, cpc>>, how'["child"] = how["child"],
             holds["to_w"] = {} \/ cpc # "finish" => holds'["to_w"] = {} \/ cpc # "finish"
      PROVE  Ending'
  BY <1>1, <1>f DEF Ending
<1>2. ASSUME UNCHANGED <<work, to_child, sent, cpc>>, NEW h \in Outcomes, PEnd(h)
      PROVE  Ending'
  <2>1. how'["child"] = how["child"]  BY <1>2, <1>p DEF ParentGone
  <2>2. holds["to_w"] = {} => holds'["to_w"] = {}  BY <1>2, <1>t DEF PEnd, Released
  <2> QED  BY <1>2, <2>1, <2>2, <1>1
<1>3. ASSUME UNCHANGED <<work, to_child, sent>>, cpc' = "ended", ChildGone("failed") \/ ChildGone("killed")
      PROVE  Ending'
  BY <1>3, <1>f DEF Ending, ChildGone
<1>4. ASSUME UNCHANGED <<work, to_child, sent>>, UNCHANGED how, ~ Stopped, cpc' \notin {"tellZ", "finish"},
             how["child"] = "runs"
      PROVE  Ending'
  BY <1>4, <1>f DEF Ending
<1>5. CASE ReadName \/ MakePipes
  <2>1. cpc = "none"  BY <1>5 DEF ReadName, MakePipes, Places
  <2>2. CASE PEnd("failed")  BY <1>5, <2>2, <1>2 DEF ReadName, MakePipes, Outcomes
  <2>3. CASE UNCHANGED how  BY <1>5, <2>1, <2>3, <1>1 DEF ReadName, MakePipes
  <2> QED  BY <1>5, <2>2, <2>3 DEF ReadName, MakePipes
<1>6. CASE Fork
  <2>1. cpc = "none" /\ ~ Stopped /\ how["child"] = "runs"  BY <1>6 DEF Fork, Places, Ending
  <2>2. CASE PEnd("failed") /\ UNCHANGED cpc  BY <1>6, <2>2, <1>2 DEF Fork, Outcomes
  <2>3. CASE cpc' = "setup" /\ UNCHANGED how  BY <1>6, <2>1, <2>3, <1>4 DEF Fork
  <2> QED  BY <1>6, <2>2, <2>3 DEF Fork
<1>7. CASE CloseEnds \/ Shut
  <2>1. holds["to_w"] = {} => holds'["to_w"] = {}  BY <1>7, <1>t DEF CloseEnds, Shut
  <2> QED  BY <1>7, <2>1, <1>1 DEF CloseEnds, Shut
<1>8. CASE OldInput \/ NewInput
  <2>1. CASE PEnd("failed")  BY <1>8, <2>1, <1>2 DEF OldInput, NewInput, Outcomes
  <2>2. CASE UNCHANGED <<how, holds>>  BY <1>8, <2>2, <1>1 DEF OldInput, NewInput
  <2> QED  BY <1>8, <2>1, <2>2 DEF OldInput, NewInput
<1>9. CASE OldSend \/ NewSend
  <2>1. CASE Write
    <3>1. "parent" \in holds["to_w"] /\ "parent" \notin holds["to_r"]
      BY <1>9, <1>t DEF OldSend, NewSend, TypeOK, OwnEnds, Ends
    <3>2. "child" \in holds["to_r"]  BY <2>1, <3>1, <1>t DEF Write, Procs
    <3>3. cpc # "ended" /\ how["child"] = "runs"  BY <3>2, <1>t DEF Places
    <3>4. Stopped' = Stopped /\ cpc' = cpc /\ how' = how  BY <1>9, <2>1, SendKeeps DEF OldSend, NewSend, Write
    <3> QED  BY <3>1, <3>3, <3>4 DEF Ending
  <2>2. CASE BrokenPipe  BY <1>9, <2>2, <1>2 DEF OldSend, NewSend, BrokenPipe, Outcomes
  <2> QED  BY <1>9, <2>1, <2>2 DEF OldSend, NewSend
<1>10. CASE ReadStatus  BY <1>10, <1>1 DEF ReadStatus
<1>11. CASE Wait \/ KillParent  BY <1>11, <1>2 DEF Wait, KillParent, Outcomes
<1>12. CASE Redirect \/ Exec \/ OpenFile
  <2>1. ~ Stopped /\ how["child"] = "runs"  BY <1>12 DEF Redirect, Exec, OpenFile, Ending, Places
  <2>2. CASE CEnd("failed")  BY <1>12, <2>2, <1>c, <1>3 DEF Redirect, Exec, OpenFile, Outcomes, ChildGone
  <2>3. CASE UNCHANGED how /\ cpc' \in {"exec", "open", "read"}
    BY <1>12, <2>1, <2>3, <1>4 DEF Redirect, Exec, OpenFile
  <2> QED  BY <1>12, <2>2, <2>3 DEF Redirect, Exec, OpenFile, CGoto
<1>13. CASE ReadLine
  <2>1. ~ Stopped /\ how["child"] = "runs"  BY <1>13 DEF ReadLine, Ending, Places
  <2>2. ~ Stopped' /\ cpc' = "record" /\ how' = how  BY <1>13, <2>1, TakeKeeps DEF ReadLine, CGoto
  <2> QED  BY <2>1, <2>2 DEF Ending
<1>14. CASE ReadEnd
  <2>1. ~ Stopped /\ how["child"] = "runs"  BY <1>14 DEF ReadEnd, Ending, Places
  <2>2. work = <<>> /\ to_child = <<>>  BY <1>14 DEF ReadEnd, Queue
  <2>3. Answered = Len(sent)  BY <2>2, Counts
  <2>4. Answered' = Len(sent') /\ holds'["to_w"] = {} /\ cpc' = "finish" /\ how' = how /\ ~ Stopped'
    BY <1>14, <2>1, <2>3, <1>f DEF ReadEnd, CGoto
  <2> QED  BY <2>1, <2>4 DEF Ending
<1>15. CASE OldRecord \/ NewRecord
  <2>1. how["child"] = "runs" /\ how' = how  BY <1>15 DEF OldRecord, NewRecord, Record, Places
  <2>2. /\ cpc' \in {"tellZ", "tellO", "read"}
        /\ cpc' = "tellZ" <=> work[1].kind = "zero"
    BY <1>15 DEF OldRecord, NewRecord, CGoto
  <2>3. Stopped' <=> work[1].kind = "zero"  BY <1>15, <2>2, RecordKeeps DEF OldRecord, NewRecord
  <2> QED  BY <2>1, <2>2, <2>3 DEF Ending
<1>16. CASE TellO
  <2>1. ~ Stopped /\ how["child"] = "runs"  BY <1>16 DEF TellO, Ending, Places
  <2>2. Answered = Len(sent)
    <3>1. version = "new" /\ cpc = "tellO"  BY <1>16 DEF TellO, Places, TypeOK
    <3>2. Len(to_child) = 0 /\ Len(work) = 0  BY <3>1, Counts DEF Turns, UnderWay
    <3> QED  BY <3>2, Counts
  <2>3. CASE CEnd("SIGPIPE")
    <3>1. cpc' = "ended" /\ how'["child"] = "SIGPIPE"  BY <2>3, <1>c DEF Outcomes, ChildGone
    <3>2. Answered' = Len(sent') /\ ~ Stopped'  BY <1>16, <1>f, <2>1, <2>2 DEF TellO
    <3> QED  BY <3>1, <3>2 DEF Ending
  <2>4. CASE cpc' = "read" /\ UNCHANGED how  BY <1>16, <2>1, <2>4, <1>4 DEF TellO
  <2> QED  BY <1>16, <2>3, <2>4 DEF TellO, Tell, CGoto
<1>17. CASE TellZ
  <2>1. Stopped /\ Stopped'  BY <1>17, <1>f DEF TellZ, Ending
  <2>2. cpc' \in {"finish", "ended"}  BY <1>17 DEF TellZ, Tell, CGoto, CEnd
  <2> QED  BY <2>1, <2>2 DEF Ending
<1>18. CASE Finish
  <2>1. Stopped' \/ Answered' = Len(sent')  BY <1>18, <1>f DEF Finish, Ending
  <2>2. cpc' = "ended"  BY <1>18 DEF Finish, CEnd
  <2> QED  BY <2>1, <2>2 DEF Ending
<1>19. CASE KillChild  BY <1>19, <1>c, <1>3 DEF KillChild, Outcomes, ChildGone
<1>20. CASE UNCHANGED vars  BY <1>20, <1>1 DEF vars
<1> QED
  BY <1>5, <1>6, <1>7, <1>8, <1>9, <1>10, <1>11, <1>12, <1>13, <1>14, <1>15, <1>16, <1>17, <1>18, <1>19, <1>20
  DEF Next, ParentRuns, ParentAsks, ChildStep

\* An answer on its way is the only thing between the two.
LEMMA OneAtATime ==
    ASSUME TypeOK, Queue, UnderWay <= 1, from_child # <<>>
    PROVE  /\ Len(from_child) = 1 /\ Len(to_child) = 0 /\ Len(work) = 0
           /\ cpc \notin {"tellO", "tellZ"}
<1>1. Len(to_child) \in Nat /\ Len(from_child) \in Nat /\ Len(work) \in Nat /\ Len(from_child) > 0
  BY Counts
<1>2. CASE cpc \in {"tellO", "tellZ"}
  <2>1. UnderWay = Len(to_child) + Len(work) + Len(from_child) + 1  BY <1>2 DEF UnderWay
  <2> QED  BY <1>1, <2>1
<1>3. CASE cpc \notin {"tellO", "tellZ"}
  <2>1. UnderWay = Len(to_child) + Len(work) + Len(from_child) + 0  BY <1>3 DEF UnderWay
  <2>2. \A a, b, c \in Nat : a + b + c + 0 <= 1 /\ c > 0 => c = 1 /\ a = 0 /\ b = 0  OBVIOUS
  <2>3. Len(to_child) + Len(work) + Len(from_child) + 0 <= 1  BY <2>1
  <2>4. Len(from_child) = 1 /\ Len(to_child) = 0 /\ Len(work) = 0  BY <1>1, <2>2, <2>3
  <2> QED  BY <1>3, <2>4
<1> QED  BY <1>2, <1>3

\* Turns is preserved: between two lines the answer passes.
LEMMA TurnsPreserved ==
    ASSUME IInv, [Next]_vars
    PROVE  Turns'
<1> USE DEF IInv
<1>0. version' = version
  BY DEF Next, ParentRuns, ParentAsks, ChildStep, vars, ReadName, MakePipes, Fork, CloseEnds, OldInput,
         NewInput, OldSend, NewSend, ReadStatus, Shut, Wait, Redirect, Exec, OpenFile, ReadLine, ReadEnd,
         OldRecord, NewRecord, Record, TellO, TellZ, Finish, KillParent, KillChild
<1> SUFFICES ASSUME version = "new" PROVE Turns'  BY <1>0 DEF Turns
<1>n. /\ Len(sent) \in Nat /\ Len(to_child) \in Nat /\ Len(from_child) \in Nat /\ Len(work) \in Nat
      /\ Answered = Len(sent) - Len(to_child) - Len(work)
  BY Counts
\* A step that moves no line and no byte.
<1>1. ASSUME UNCHANGED <<work, to_child, from_child, sent>>,
             cpc' = cpc \/ cpc' \notin {"tellO", "tellZ"},
             ppc' \in {"shut", "wait", "ended"} \/ UnderWay = 0 \/ ppc' = ppc
      PROVE  Turns'
  <2>1. UnderWay \in Nat /\ UnderWay' \in Nat /\ UnderWay' <= UnderWay  BY <1>1, <1>n DEF UnderWay
  <2> QED  BY <1>1, <2>1 DEF Turns
<1>2. CASE ReadName \/ MakePipes \/ Fork \/ CloseEnds \/ OldInput \/ NewInput
  <2>1. UnderWay = 0  BY <1>2 DEF ReadName, MakePipes, Fork, CloseEnds, OldInput, NewInput, Turns
  <2>2. UNCHANGED <<work, to_child, from_child, sent>> /\ (cpc' = cpc \/ cpc' = "setup")
    BY <1>2 DEF ReadName, MakePipes, Fork, CloseEnds, OldInput, NewInput
  <2> QED  BY <2>1, <2>2, <1>1
<1>3. CASE Shut \/ Wait \/ KillParent  BY <1>3, <1>1 DEF Shut, Wait, KillParent, PGoto, PEnd
<1>4. CASE OldSend \/ NewSend
  <2>1. UnderWay = 0 /\ NewSend  BY <1>4 DEF OldSend, NewSend, Turns
  <2>2. CASE Write
    <3>1. Len(from_child) = 0 /\ cpc \notin {"tellO", "tellZ"} /\ from_child = <<>>
      BY <2>1, <1>n, Counts DEF UnderWay
    <3>2. /\ Len(to_child') = Len(to_child) + 1 /\ ppc' = "status"
          /\ UNCHANGED <<work, from_child, cpc>>
      BY <2>1, <2>2, LineSent DEF NewSend, BrokenPipe, Write, PGoto
    <3>3. UnderWay' = 1  BY <3>1, <3>2, <2>1, <1>n DEF UnderWay
    <3> QED  BY <3>1, <3>2, <3>3 DEF Turns
  <2>3. CASE BrokenPipe  BY <2>1, <2>3, <1>1 DEF NewSend, BrokenPipe, PEnd
  <2> QED  BY <2>1, <2>2, <2>3 DEF NewSend
<1>5. CASE ReadStatus
  <2>1. CASE from_child # <<>> /\ from_child' = Tail(from_child)
    <3>1. Len(from_child) = 1 /\ Len(to_child) = 0 /\ Len(work) = 0 /\ cpc \notin {"tellO", "tellZ"}
      <4>1. UnderWay <= 1  BY DEF Turns
      <4> QED  BY <2>1, <4>1, OneAtATime
    <3>2. Len(from_child') = 0 /\ from_child' = <<>>  BY <2>1, <3>1, ByteHeard
    <3>3. UnderWay' = 0  BY <1>5, <3>1, <3>2 DEF ReadStatus, UnderWay
    <3> QED  BY <1>5, <3>1, <3>2, <3>3 DEF ReadStatus, Turns
  <2>2. CASE UNCHANGED from_child /\ PGoto("shut")  BY <1>5, <2>2, <1>1 DEF ReadStatus, PGoto
  <2> QED  BY <1>5, <2>1, <2>2 DEF ReadStatus
<1>6. CASE Redirect \/ Exec \/ OpenFile \/ ReadEnd \/ Finish \/ KillChild
  BY <1>6, <1>1 DEF Redirect, Exec, OpenFile, ReadEnd, Finish, KillChild, CGoto, CEnd
<1>7. CASE ReadLine
  <2>1. work = <<>> /\ cpc = "read" /\ cpc' = "record"  BY <1>7 DEF ReadLine, Queue, CGoto
  <2>2. Len(to_child') = Len(to_child) - 1 /\ Len(work) = 0 /\ Len(work') = 1
    BY <1>7, <2>1, LineTaken, Counts
  <2>3. UnderWay' = UnderWay  BY <1>7, <1>n, <2>1, <2>2 DEF ReadLine, UnderWay
  <2> QED  BY <1>7, <2>1, <2>3 DEF ReadLine, Turns
<1>8. CASE OldRecord \/ NewRecord
  <2>1. NewRecord /\ Record /\ cpc = "record" /\ Len(work) = 1
    BY <1>8 DEF OldRecord, NewRecord, Record, Queue
  <2>2. Len(to_child) = 0 /\ Len(from_child) = 0  BY <2>1, <1>n DEF Turns, UnderWay
  <2>3. /\ cpc' \in {"tellO", "tellZ"} /\ Len(work') = 0
        /\ UNCHANGED <<ppc, to_child, from_child, sent>>
    BY <2>1, LineRecorded DEF NewRecord, Record, CGoto
  <2>4. UnderWay' = UnderWay  BY <2>1, <2>2, <2>3 DEF UnderWay
  <2>5. sent[Len(sent)] = work[1]
    <3>1. Answered + 1 = Len(sent)  BY <1>n, <2>1, <2>2
    <3> QED  BY <2>1, <3>1, Counts DEF Queue
  <2>6. cpc' = "tellO" => work[1].kind # "zero"  BY <2>1 DEF NewRecord, CGoto
  <2>7. from_child' = <<>>  BY <2>2, <2>3, Counts
  <2> QED  BY <2>3, <2>4, <2>5, <2>6, <2>7 DEF Turns
<1>9. CASE TellO \/ TellZ
  <2>1. /\ cpc \in {"tellO", "tellZ"}
        /\ UNCHANGED <<version, ppc, work, to_child, sent>>
    BY <1>9 DEF TellO, TellZ
  <2>2. Len(to_child) = 0 /\ Len(from_child) = 0 /\ Len(work) = 0 /\ UnderWay = 1
    BY <2>1, <1>n DEF Turns, UnderWay
  <2>3. CASE CEnd("SIGPIPE") /\ UNCHANGED from_child  BY <2>1, <2>3, <1>1 DEF CEnd
  <2>4. ASSUME NEW b \in {"O", "Z"}, from_child' = Append(from_child, b), b = "Z" <=> cpc = "tellZ",
               cpc' \in {"read", "finish"}
        PROVE  Turns'
    <3>1. Len(from_child') = 1 /\ from_child'[1] = b  BY <2>2, <2>4, ByteTold
    <3>2. UnderWay' = 1  BY <2>1, <2>2, <2>4, <3>1 DEF UnderWay
    <3>3. Answered = Len(sent)  BY <1>n, <2>2
    <3>4. b = "Z" <=> sent[Len(sent)].kind = "zero"
      BY <2>1, <2>4, <3>3 DEF Turns, Ending, Stopped
    <3>5. ppc \in {"status", "shut", "wait", "ended"}  BY <2>2 DEF Turns
    <3> QED  BY <2>1, <2>4, <3>1, <3>2, <3>4, <3>5 DEF Turns
  <2> QED  BY <1>9, <2>3, <2>4 DEF TellO, TellZ, Tell, CGoto
<1>10. CASE UNCHANGED vars  BY <1>10, <1>1 DEF vars
<1> QED
  BY <1>2, <1>3, <1>4, <1>5, <1>6, <1>7, <1>8, <1>9, <1>10
  DEF Next, ParentRuns, ParentAsks, ChildStep

-------------------------------------------------------------------------------
LEMMA Starts == Init => IInv
<1> SUFFICES ASSUME Init PROVE IInv  OBVIOUS
<1> USE DEF Init
<1>1. /\ to_child = <<>> /\ from_child = <<>> /\ work = <<>> /\ sent = <<>> /\ file = <<>>
      /\ Len(to_child) = 0 /\ Len(from_child) = 0 /\ Len(work) = 0 /\ Len(sent) = 0
  OBVIOUS
<1>2. TypeOK
  <2>1. /\ to_child \in Seq(Lines) /\ work \in Seq(Lines) /\ sent \in Seq(Lines)
        /\ from_child \in Seq({"O", "Z"})
        /\ file \in Seq({"result", "division by zero", "bad line", "need at least 2 numbers"})
    BY <1>1
  <2>2. line \in Lines  BY DEF NoLine, Lines, Kinds
  <2> QED  BY <2>1, <2>2 DEF TypeOK, OwnEnds
<1>3. Places  BY DEF Places, Procs
<1>4. Queue  BY <1>1 DEF Queue
<1>5. Ending /\ Turns  BY <1>1 DEF Ending, Turns, Stopped, Answered, UnderWay, Procs
<1> QED  BY <1>2, <1>3, <1>4, <1>5 DEF IInv

LEMMA Kept == IInv /\ [Next]_vars => IInv'
BY TypePreserved, PlacesPreserved, QueuePreserved, EndingPreserved, TurnsPreserved DEF IInv

THEOREM Invariant == Spec => []IInv
BY Starts, Kept, PTL DEF Spec

\* The types, and which ends of the pipes are open, for any bounds.
THEOREM Typed == Spec => []TypeOK
<1>1. IInv => TypeOK  BY DEF IInv
<1> QED  BY <1>1, Invariant, PTL

\* The new version is in step for any number of lines and any kills: nothing
\* unanswered while the parent reads its input, one answer at a time
\* (new/parent.c 73-76).
THEOREM TakesTurns == Spec => []InStep
<1>1. IInv => InStep
  <2> SUFFICES ASSUME IInv, version = "new" PROVE InStep  BY DEF InStep
  <2> USE DEF IInv
  <2>1. /\ UnderWay <= 1
        /\ ppc \in {"input", "send"} => UnderWay = 0
        /\ from_child # <<>> => (from_child[1] = "Z") = (sent[Len(sent)].kind = "zero")
    BY DEF Turns
  <2>2. ppc \in {"input", "send"} => Answered = Len(sent)
    BY <2>1, Counts DEF UnderWay
  <2>3. from_child # <<>> => Answered = Len(sent) /\ Len(from_child) = 1
    BY <2>1, OneAtATime, Counts
  <2>4. from_child # <<>> => Head(from_child) = from_child[1]
    <3>1. from_child \in Seq({"O", "Z"})  BY DEF TypeOK
    <3> QED  BY <3>1
  <2> QED  BY <2>1, <2>2, <2>3, <2>4 DEF InStep
<1> QED  BY <1>1, Invariant, PTL

\* A parent that returns leaves no line of its child's unanswered, unless a
\* division by zero ended it, whatever the number of lines.
THEOREM NothingUnanswered == Spec => []ReturnsAnswered
<1>1. IInv => ReturnsAnswered
  <2> SUFFICES ASSUME IInv, how["parent"] = "returned", how["child"] \notin {"failed", "killed"}
               PROVE  how["child"] # "runs" /\ (Stopped \/ Answered = Len(sent))
    BY DEF ReturnsAnswered, Stopped
  <2>1. how["child"] # "runs"  BY DEF IInv, Places
  <2>2. how["child"] \in {"returned", "SIGPIPE"}  BY <2>1 DEF IInv, TypeOK, Procs, Outcomes
  <2> QED  BY <2>1, <2>2 DEF IInv, Ending
<1> QED  BY <1>1, Invariant, PTL

-------------------------------------------------------------------------------
\* What is left to know of two processes that wait: a parent that is done has
\* closed its end, one that is owed an answer has a line or a byte under way
\* or a child that is busy or no more, and only a last line is not whole.
Left ==
    /\ ppc \in {"wait", "ended"} => "parent" \notin holds["to_w"]
    /\ cpc = "none" => ppc \in {"name", "pipes", "fork", "ended"}

Owed ==
    ppc = "status" =>
        /\ version = "new"
        /\ to_child # <<>> \/ from_child # <<>> \/ cpc \in {"record", "tellO", "tellZ", "ended"}

Whole ==
    /\ ppc = "send" => eof = ~ line.whole
    /\ \A i \in 1 .. Len(sent) : sent[i].whole \/ (eof /\ ppc # "send")

WInv == IInv /\ Left /\ Owed /\ Whole

\* A line is whole or not.
LEMMA WholeOrNot == \A l \in Lines : l.whole \in BOOLEAN
BY DEF Lines

LEMMA LeftPreserved ==
    ASSUME IInv, Left, [Next]_vars
    PROVE  Left'
<1> USE DEF IInv
<1>p. \A h \in Outcomes : PEnd(h) => ParentGone(h)  BY ParentEnds
<1>c. \A h \in Outcomes : CEnd(h) => ChildGone(h)  BY ChildEnds
<1>e. "to_w" \in Ends /\ "parent" \in Procs /\ "child" \in Procs  BY DEF Ends, Procs
<1>1. ASSUME NEW h \in Outcomes, PEnd(h), cpc' = cpc PROVE Left'
  BY <1>1, <1>p, <1>e DEF ParentGone, Left
<1>2. ASSUME NEW h \in Outcomes, CEnd(h), ppc' = ppc PROVE Left'
  BY <1>2, <1>c, <1>e DEF ChildGone, Left
<1>3. ASSUME UNCHANGED ppc, cpc' = cpc \/ cpc' # "none",
             "parent" \in holds'["to_w"] <=> "parent" \in holds["to_w"]
      PROVE  Left'
  BY <1>3 DEF Left
<1>4. ASSUME ppc' \notin {"wait", "ended"}, cpc' # "none" \/ ppc' \in {"pipes", "fork"} PROVE Left'
  BY <1>4 DEF Left
<1>5. CASE ReadName \/ MakePipes \/ Fork
  BY <1>5, <1>1, <1>4 DEF ReadName, MakePipes, Fork, PGoto, Outcomes
<1>6. CASE CloseEnds \/ OldInput \/ NewInput \/ OldSend \/ NewSend \/ ReadStatus
  <2>1. cpc # "none" /\ cpc' = cpc
    BY <1>6 DEF CloseEnds, OldInput, NewInput, OldSend, NewSend, ReadStatus, Left
  <2> QED
    BY <1>6, <2>1, <1>1, <1>4
    DEF CloseEnds, OldInput, NewInput, OldSend, NewSend, ReadStatus, Take, Write, BrokenPipe, PGoto,
        Outcomes
<1>7. CASE Shut
  <2>1. "parent" \notin holds'["to_w"]
    <3>1. "to_w" \in Ends /\ "from_r" \in Ends  BY DEF Ends
    <3> QED  BY <1>7, <1>e, <3>1, TwoClosed DEF Shut
  <2> QED  BY <1>7, <2>1 DEF Shut, Left
<1>8. CASE Wait \/ KillParent  BY <1>8, <1>1 DEF Wait, KillParent, Outcomes
<1>9. CASE Redirect
  <2>1. CASE CEnd("failed")  BY <1>9, <2>1, <1>2 DEF Redirect, Outcomes
  <2>2. CASE ~ CEnd("failed")
    <3>1. "parent" \in holds'["to_w"] <=> "parent" \in holds["to_w"]
      BY <1>9, <2>2, <1>e, Redirected DEF Redirect
    <3> QED  BY <1>9, <2>2, <3>1, <1>3 DEF Redirect, CGoto
  <2> QED  BY <2>1, <2>2
<1>10. CASE ReadLine \/ ReadEnd \/ OldRecord \/ NewRecord
  BY <1>10, <1>3 DEF ReadLine, ReadEnd, OldRecord, NewRecord, Record, CGoto
<1>11. CASE Exec \/ OpenFile \/ TellO \/ TellZ \/ Finish \/ KillChild
  BY <1>11, <1>2, <1>3 DEF Exec, OpenFile, TellO, TellZ, Finish, KillChild, Tell, CGoto, Outcomes
<1>12. CASE UNCHANGED vars  BY <1>12, <1>3 DEF vars
<1> QED
  BY <1>5, <1>6, <1>7, <1>8, <1>9, <1>10, <1>11, <1>12 DEF Next, ParentRuns, ParentAsks, ChildStep

\* The answer that is owed: a line sent is in the pipe, then in the hands of
\* the child, then a byte in the other pipe.
LEMMA OwedPreserved ==
    ASSUME IInv, Owed, [Next]_vars
    PROVE  Owed'
<1> USE DEF IInv
<1>1. CASE ReadName \/ MakePipes \/ Fork \/ CloseEnds \/ OldInput \/ NewInput \/ ReadStatus \/ Shut
           \/ Wait \/ KillParent \/ OldSend
  <2>1. ppc' # "status"
    BY <1>1 DEF ReadName, MakePipes, Fork, CloseEnds, OldInput, NewInput, ReadStatus, Shut, Wait,
       KillParent, OldSend, Take, BrokenPipe, PGoto, PEnd
  <2> QED  BY <2>1 DEF Owed
<1>2. CASE NewSend
  <2>1. CASE Write
    <3>1. Len(to_child') = Len(to_child) + 1 /\ Len(to_child) \in Nat  BY <2>1, LineSent, Counts
    <3>2. to_child' # <<>>  BY <3>1
    <3> QED  BY <1>2, <3>2 DEF NewSend, Owed
  <2>2. CASE BrokenPipe  BY <1>2, <2>2 DEF NewSend, BrokenPipe, PEnd, Owed
  <2> QED  BY <1>2, <2>1, <2>2 DEF NewSend
<1>3. CASE Redirect \/ Exec \/ OpenFile
  BY <1>3 DEF Redirect, Exec, OpenFile, CGoto, CEnd, Owed
<1>4. CASE ReadLine  BY <1>4 DEF ReadLine, CGoto, Owed
<1>5. CASE ReadEnd  BY <1>5 DEF ReadEnd, CGoto, Owed
<1>6. CASE OldRecord  BY <1>6 DEF OldRecord, Record, Owed
<1>7. CASE NewRecord  BY <1>7 DEF NewRecord, Record, CGoto, Owed
<1>8. CASE TellO \/ TellZ
  <2>1. ASSUME NEW b \in {"O", "Z"}, from_child' = Append(from_child, b) PROVE from_child' # <<>>
    <3>1. Len(from_child') = Len(from_child) + 1 /\ Len(from_child) \in Nat  BY <2>1, ByteTold, Counts
    <3> QED  BY <3>1
  <2> QED  BY <1>8, <2>1 DEF TellO, TellZ, Tell, CGoto, CEnd, Owed
<1>9. CASE Finish \/ KillChild  BY <1>9 DEF Finish, KillChild, CEnd, Owed
<1>10. CASE UNCHANGED vars  BY <1>10 DEF vars, Owed
<1> QED
  BY <1>1, <1>2, <1>3, <1>4, <1>5, <1>6, <1>7, <1>8, <1>9, <1>10
  DEF Next, ParentRuns, ParentAsks, ChildStep

\* Nothing is taken from the input, and nothing sent, after a line that is
\* not whole.
LEMMA WholePreserved ==
    ASSUME IInv, Whole, [Next]_vars
    PROVE  Whole'
<1> USE DEF IInv
<1>1. ASSUME UNCHANGED <<line, eof, sent>>, ppc' = ppc \/ ppc' # "send" PROVE Whole'
  BY <1>1 DEF Whole
<1>2. CASE OldInput \/ NewInput
  <2>1. CASE Take
    <3>1. eof = FALSE /\ eof' = ~ line'.whole /\ sent' = sent
      BY <1>2, <2>1 DEF OldInput, NewInput, Take, TypeOK
    <3> QED  BY <3>1 DEF Whole
  <2>2. CASE ~ Take
    BY <1>2, <2>2, <1>1 DEF OldInput, NewInput, PGoto, PEnd
  <2> QED  BY <2>1, <2>2
<1>3. CASE OldSend \/ NewSend
  <2>1. CASE Write
    <3>1. ppc = "send" /\ ppc' # "send" /\ UNCHANGED <<line, eof>>
      BY <1>3, <2>1 DEF OldSend, NewSend, Write, BrokenPipe, PGoto, PEnd
    <3>2. line.whole \/ eof
      <4>1. line.whole \in BOOLEAN  BY WholeOrNot DEF TypeOK
      <4> QED  BY <3>1, <4>1 DEF Whole
    <3>3. ASSUME NEW i \in 1 .. Len(sent') PROVE sent'[i].whole \/ eof
      <4>1. Len(sent') = Len(sent) + 1 /\ Len(sent) \in Nat  BY <2>1, LineSent, Counts
      <4>2. CASE i \in 1 .. Len(sent)  BY <2>1, <3>1, <4>2, LineSent DEF Whole
      <4>3. CASE i = Len(sent) + 1  BY <2>1, <3>2, <4>3, LineSent
      <4> QED  BY <4>1, <4>2, <4>3
    <3> QED  BY <3>1, <3>3 DEF Whole
  <2>2. CASE BrokenPipe  BY <1>3, <2>2, <1>1 DEF OldSend, NewSend, BrokenPipe, PEnd
  <2> QED  BY <1>3, <2>1, <2>2 DEF OldSend, NewSend
<1>4. CASE ReadName \/ MakePipes \/ Fork \/ CloseEnds \/ ReadStatus \/ Shut \/ Wait \/ KillParent
  BY <1>4, <1>1 DEF ReadName, MakePipes, Fork, CloseEnds, ReadStatus, Shut, Wait, KillParent, PGoto, PEnd
<1>5. CASE ChildStep \/ KillChild
  BY <1>5, <1>1 DEF ChildStep, Redirect, Exec, OpenFile, ReadLine, ReadEnd, OldRecord, NewRecord, Record,
     TellO, TellZ, Finish, KillChild
<1>6. CASE UNCHANGED vars  BY <1>6, <1>1 DEF vars
<1> QED  BY <1>2, <1>3, <1>4, <1>5, <1>6 DEF Next, ParentRuns, ParentAsks

LEMMA WaitsInvariant == Spec => []WInv
<1>1. Init => WInv
  <2> SUFFICES ASSUME Init PROVE WInv  OBVIOUS
  <2>1. IInv  BY Starts
  <2>2. Len(sent) = 0 /\ ppc = "name"  BY DEF Init
  <2> QED  BY <2>1, <2>2 DEF WInv, Left, Owed, Whole
<1>2. WInv /\ [Next]_vars => WInv'  BY Kept, LeftPreserved, OwedPreserved, WholePreserved DEF WInv
<1> QED  BY <1>1, <1>2, PTL DEF Spec

\* The two processes never come to a stop together, for any number of lines,
\* any size of the pipe and any kills, save when the new parent waits for the
\* answer to a last line without its newline (new/parent.c 66-77).
THEOREM NeverBothWait == Spec => []OnlyAnUnfinishedLineHoldsBoth
<1>1. WInv => OnlyAnUnfinishedLineHoldsBoth
  <2> SUFFICES ASSUME WInv,
                      ParentWaits \/ ppc = "ended",
                      ChildWaits \/ cpc \in {"none", "ended"},
                      ParentWaits \/ ChildWaits
               PROVE  Stuck
    BY DEF OnlyAnUnfinishedLineHoldsBoth
  <2> USE DEF WInv, IInv
  <2>e. /\ holds \in [Ends -> SUBSET Procs] /\ Procs = {"parent", "child"}
        /\ Ends = {"to_r", "to_w", "from_r", "from_w"}
    BY DEF TypeOK, Procs, Ends
  \* A child that waits has the parent at the other end of its pipe.
  <2>1. ASSUME ChildWaits PROVE cpc = "read" /\ ppc \notin {"wait", "ended"}
    <3>1. cpc = "read" /\ holds["to_w"] # {}  BY <2>1 DEF ChildWaits
    <3>2. "child" \notin holds["to_w"]  BY <3>1, <2>e DEF TypeOK, OwnEnds
    <3>3. "parent" \in holds["to_w"]  BY <3>1, <3>2, <2>e
    <3> QED  BY <3>1, <3>3 DEF Left
  <2>2. ParentWaits /\ ppc # "ended"  BY <2>1 DEF ParentWaits
  \* A parent that waits has the child at the other end of its pipe.
  <2>3. ChildWaits
    <3> SUFFICES ASSUME cpc \in {"none", "ended"} PROVE FALSE  OBVIOUS
    <3>1. ppc \in {"status", "send", "wait"}  BY <2>2 DEF ParentWaits
    <3>2. cpc = "ended"  BY <3>1 DEF Left
    <3>3. "child" \notin holds["to_r"] /\ "child" \notin holds["from_w"]  BY <3>2, <2>e DEF Places
    <3>4. ppc \in {"status", "send"} => holds["to_r"] = {} /\ holds["from_w"] = {}
      <4>1. ppc \in {"status", "send"} => "parent" \notin holds["to_r"] /\ "parent" \notin holds["from_w"]
        BY <2>e DEF TypeOK, OwnEnds
      <4> QED  BY <3>3, <4>1, <2>e
    <3> QED  BY <2>2, <3>2, <3>4 DEF ParentWaits
  <2>4. cpc = "read" /\ ppc # "wait"  BY <2>1, <2>3
  \* The full pipe begins with a line that is whole.
  <2>5. ppc # "send"
    <3> SUFFICES ASSUME ppc = "send" PROVE FALSE  OBVIOUS
    <3>1. Len(to_child) >= PipeSize  BY <2>2 DEF ParentWaits
    <3>2. Len(to_child) > 0 /\ Len(to_child) <= Len(sent) /\ Len(sent) \in Nat /\ Len(to_child) \in Nat
      BY <3>1, PipeAssumption, Counts DEF Queue
    <3>3. to_child # <<>> /\ Head(to_child) = to_child[1]
      <4>1. to_child \in Seq(Lines)  BY DEF TypeOK
      <4> QED  BY <3>2, <4>1, EmptySeq
    <3>4. to_child[1] = sent[Len(sent) - Len(to_child) + 1]
      <4>1. 1 \in 1 .. Len(to_child)  BY <3>2
      <4> QED  BY <4>1 DEF Queue
    <3>5. Len(sent) - Len(to_child) + 1 \in 1 .. Len(sent)  BY <3>2
    <3>6. to_child[1].whole  BY <3>4, <3>5 DEF Whole
    <3> QED  BY <2>3, <3>3, <3>6 DEF ChildWaits
  <2>6. ppc = "status" /\ from_child = <<>>  BY <2>2, <2>4, <2>5 DEF ParentWaits
  <2>7. to_child # <<>>  BY <2>4, <2>6 DEF Owed
  <2>8. ~ Head(to_child).whole  BY <2>3, <2>7 DEF ChildWaits
  <2> QED  BY <2>4, <2>6, <2>7, <2>8 DEF Stuck
<1> QED  BY <1>1, WaitsInvariant, PTL

-------------------------------------------------------------------------------
\* What the abstract specification calls answered is Answered here.
LEMMA StartsAsPromised == Init => Abs!DInit
<1> SUFFICES ASSUME Init PROVE Abs!DInit  OBVIOUS
<1>1. sent = <<>> /\ Len(sent) = 0 /\ Len(to_child) = 0 /\ Len(work) = 0  BY DEF Init
<1>2. Len(sent) - Len(to_child) - Len(work) = 0  BY <1>1
<1>3. version \in {"old", "new"} /\ file = <<>>  BY DEF Init
<1> QED  BY <1>1, <1>2, <1>3 DEF Abs!DInit

\* A step answers a line, or gives one, or is of no account.
LEMMA StepsAsPromised ==
    ASSUME IInv, [Next]_vars
    PROVE  [Abs!DNext]_(Abs!dvars)
<1> USE DEF IInv
<1>1. CASE OldSend \/ NewSend
  <2>1. CASE Write
    <3>1. sent' = Append(sent, line) /\ line \in Lines  BY <2>1 DEF Write, TypeOK
    <3>2. Answered' = Answered /\ UNCHANGED <<version, file>>
      BY <1>1, <2>1, SendKeeps DEF OldSend, NewSend
    <3> QED  BY <3>1, <3>2 DEF Answered, Lines, Kinds, Abs!DNext, Abs!Give, Abs!Lines, Abs!Kinds
  <2>2. CASE BrokenPipe
    BY <1>1, <2>2 DEF OldSend, NewSend, BrokenPipe, Abs!dvars
  <2> QED  BY <1>1, <2>1, <2>2 DEF OldSend, NewSend
<1>2. CASE OldRecord \/ NewRecord
  <2>1. Record /\ cpc = "record" /\ cpc' # "record"
    BY <1>2 DEF OldRecord, NewRecord, Record, CGoto
  <2>2. Answered' = Answered + 1 /\ sent[Answered + 1] = work[1]  BY <2>1, RecordKeeps
  <2>3. Answered < Len(sent)  BY <2>1, Counts DEF Queue
  <2>4. ~ Stopped  BY <2>1 DEF Ending
  <2>5. file' = file \o Abs!Verdict(version, sent[Answered + 1]) /\ UNCHANGED <<version, sent>>
    BY <2>1, <2>2 DEF Record
  <2> QED  BY <2>2, <2>3, <2>4, <2>5 DEF Answered, Stopped, Abs!DNext, Abs!Answer, Abs!Stopped
<1>3. CASE ReadLine
  <2>1. Answered' = Answered /\ UNCHANGED <<version, sent, file>>  BY <1>3, TakeKeeps DEF ReadLine
  <2> QED  BY <2>1 DEF Answered, Abs!dvars
<1>4. CASE UNCHANGED <<version, sent, to_child, work, file>>  BY <1>4 DEF Abs!dvars
<1> QED
  BY <1>1, <1>2, <1>3, <1>4
  DEF Next, ParentRuns, ParentAsks, ChildStep, vars, ReadName, MakePipes, Fork, CloseEnds, OldInput,
      NewInput, ReadStatus, Shut, Wait, Redirect, Exec, OpenFile, ReadEnd, TellO, TellZ, Finish,
      KillParent, KillChild

\* Both versions implement Division: each line is answered once, in the order
\* sent, and none after a division by zero (child.c 14-63, new/child.c 63-114).
THEOREM KeepsToDivision == Spec => DividesInOrder
<1>1. IInv /\ [Next]_vars => [Abs!DNext]_(Abs!dvars)  BY StepsAsPromised
<1> QED  BY <1>1, StartsAsPromised, Invariant, PTL DEF Spec, DividesInOrder, Abs!DSpec

===============================================================================
