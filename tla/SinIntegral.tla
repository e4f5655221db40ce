----------------------------- MODULE SinIntegral -----------------------------
(***************************************************************************)
(* SinIntegral(A, B, e) of the fourth laboratory work (impl1 and impl2,    *)
(* sin_integral.c): a loop from A to B in steps of e, the last one cut.    *)
(* What is summed is left out, the two implementations differ in nothing   *)
(* else. Floats are multiples of the least one and every sum is rounded to *)
(* the nearest, even on a tie, so that a step can get lost in a large x.   *)
(***************************************************************************)
EXTENDS Integers, FiniteSetsExt

CONSTANTS
    Mantissa,    \* how many floats there are of one spacing, a power of two
    Spacings,    \* the distances of neighbouring floats, powers of two
    Greatest     \* the greatest argument (a bound)

ASSUME SinIntegralAssumption ==
    /\ Mantissa \in Nat \ {0} /\ Greatest \in Nat
    /\ 1 \in Spacings /\ Spacings \subseteq Nat \ {0}
    /\ \E s \in Spacings : 2 * Greatest <= Mantissa * s

\* The spacing of the floats about v, and the one nearest to v.
Spacing(v) == Min({s \in Spacings : v <= Mantissa * s /\ - v <= Mantissa * s})

Round(v) ==
    LET s == Spacing(v)
        below == (v \div s) * s
    IN  IF 2 * (v - below) < s \/ (2 * (v - below) = s /\ (v \div s) % 2 = 0)
        THEN below
        ELSE below + s

Floats == {v \in - Greatest .. Greatest : Round(v) = v}

VARIABLES
    spc,         \* where the call is; "idle" when there is none
    A, B, e,     \* its arguments
    x            \* how far the loop is

svars == <<spc, A, B, e, x>>

SIdle == spc = "idle" /\ A = 0 /\ B = 0 /\ e = 0 /\ x = 0

\* The call; it returns at once when there is nothing to sum.
Enter(from, to, by) ==
    /\ spc = "idle"
    /\ A' = from /\ B' = to /\ e' = by /\ x' = from
    /\ spc' = IF from >= to \/ by <= 0 THEN "done" ELSE "loop"

\* One turn of the loop.
\* Mutant: the last step is not cut.
IterateUncut ==
    /\ spc = "loop"
    /\ IF x < B
       THEN x' = Round(x + e) /\ UNCHANGED spc
       ELSE spc' = "done" /\ UNCHANGED x
    /\ UNCHANGED <<A, B, e>>
Iterate ==
    /\ spc = "loop"
    /\ IF x < B
       THEN x' = Round(x + (IF Round(x + e) < B THEN e ELSE Round(B - x))) /\ UNCHANGED spc
       ELSE spc' = "done" /\ UNCHANGED x
    /\ UNCHANGED <<A, B, e>>

Leave ==
    /\ spc = "done"
    /\ spc' = "idle" /\ A' = 0 /\ B' = 0 /\ e' = 0 /\ x' = 0

-------------------------------------------------------------------------------
STypeOK ==
    /\ spc \in {"idle", "loop", "done"}
    /\ {A, B, e} \subseteq Floats
    /\ Round(x) = x

\* The step is lost in the rounding: x + e is x, and the loop has no end.
StepIsLost == spc = "loop" /\ x < B /\ Round(x + e) = x

\* The sum has covered the whole interval and stops at its end: not a step further,
\* but for a rounding, which may carry x beyond B (-8 + 7 is 0 when 7 is rounded
\* to 8).
EndsAtB == spc = "done" /\ B <= x /\ x - B <= Spacing(B - A)
===============================================================================
