------------------------------ MODULE Division -------------------------------
(***************************************************************************)
(* What the first laboratory work promises: the lines that were given to   *)
(* the dividing process are answered in the file, each once, in the order  *)
(* given, up to the first division by zero, which is the last answer.      *)
(***************************************************************************)
EXTENDS Naturals, Sequences

\* A line as its numbers: some to divide, one, none at all, a zero among the
\* divisors. A whole line is one that its reader can tell to be complete.
Kinds == {"numbers", "one", "none", "zero"}
Lines == [kind : Kinds, whole : BOOLEAN]

\* What the program of each version puts in the file for a line.
Verdict(v, l) ==
    IF l.kind = "zero" THEN <<"division by zero">>
    ELSE IF l.kind = "none" THEN (IF v = "old" THEN <<>> ELSE <<"bad line">>)
    ELSE IF l.kind = "one" /\ v = "new" THEN <<"need at least 2 numbers">>
    ELSE <<"result">>

VARIABLES
    version,     \* which of the two programs it is
    given,       \* the lines given to the dividing process
    answered,    \* how many of them are answered
    file         \* the answers

dvars == <<version, given, answered, file>>

DInit ==
    /\ version \in {"old", "new"}
    /\ given = <<>>
    /\ answered = 0
    /\ file = <<>>

Give(l) ==
    /\ given' = Append(given, l)
    /\ UNCHANGED <<version, answered, file>>

\* A division by zero has been answered.
Stopped == answered > 0 /\ given[answered].kind = "zero"

Answer ==
    /\ answered < Len(given)
    /\ ~ Stopped
    /\ answered' = answered + 1
    /\ file' = file \o Verdict(version, given[answered + 1])
    /\ UNCHANGED <<version, given>>

DNext == (\E l \in Lines : Give(l)) \/ Answer

DSpec == DInit /\ [][DNext]_dvars
===============================================================================
