----------------------------- MODULE Translation -----------------------------
(***************************************************************************)
(* translation(x) of the fourth laboratory work: the digits of a long, in  *)
(* base 2 (impl1/translation.c) or 3 (impl2/translation.c), which differ   *)
(* in nothing else: a loop counts the digits, memory is taken for them, a  *)
(* second loop fills it from the right. Longs wrap, as in the builds of    *)
(* CMakeLists.txt, which do not optimise.                                  *)
(***************************************************************************)
EXTENDS Integers, Sequences

CONSTANT LongMax     \* the greatest long
ASSUME TranslationAssumption == LongMax \in Nat

LongMin == - LongMax - 1
Longs == LongMin .. LongMax

VARIABLES
    tpc,          \* where the call is; "idle" when there is none
    base, arg,    \* of the implementation, and the argument
    digits,       \* the number of digits counted
    temp,         \* what is left of the number
    i,            \* index of the next digit
    result,       \* what has been written, by index; <<>> is NULL
    quotients     \* history: the values of temp in the first loop

tvars == <<tpc, base, arg, digits, temp, i, result, quotients>>

\* The characters of the result: the sign, the end, the digits.
Minus == -1
End == -2
Chars == {Minus, End} \cup (0 .. 2)
Null == [k \in {} |-> End]

Idle ==
    /\ tpc = "idle" /\ base = 2 /\ arg = 0 /\ digits = 0 /\ temp = 0 /\ i = 0
    /\ result = Null /\ quotients = <<>>

negative == arg < 0

\* x after line 18: the negative of LongMin is itself.
Magnitude(x) == IF x = LongMin THEN LongMin ELSE IF x < 0 THEN - x ELSE x

\* The bytes asked of malloc().
\* Mutant: without the place of the sign.
SizeUnsigned == digits + 1
Size == digits + (IF negative THEN 2 ELSE 1)

\* Index of the first digit.
First == IF negative THEN 1 ELSE 0

Call(b, x) ==
    /\ tpc = "idle"
    /\ base' = b /\ arg' = x
    /\ digits' = 0 /\ i' = 0 /\ result' = Null
    /\ temp' = Magnitude(x)
    /\ quotients' = <<>>
    /\ tpc' = IF x = 0 THEN "zero" ELSE "count"

\* x is 0: one digit, or NULL when there is no memory.
Zero ==
    /\ tpc = "zero"
    /\ tpc' = "done"
    /\ result' \in {Null, [k \in 0 .. 1 |-> IF k = 0 THEN 0 ELSE End]}
    /\ UNCHANGED <<base, arg, digits, temp, i, quotients>>

\* One step of the loop that counts, which in base 2 shifts.
Count ==
    /\ tpc = "count"
    /\ IF temp > 0
       THEN /\ digits' = digits + 1
            /\ quotients' = Append(quotients, temp)
            /\ temp' = temp \div base
            /\ UNCHANGED tpc
       ELSE /\ tpc' = "allocate"
            /\ UNCHANGED <<digits, temp, quotients>>
    /\ UNCHANGED <<base, arg, i, result>>

\* malloc(), the end of the string, the sign, and temp is x again.
Allocate ==
    /\ tpc = "allocate"
    /\ \/ /\ result' = [k \in {Size - 1} \cup (0 .. First - 1) |-> IF k = Size - 1 THEN End ELSE Minus]
          /\ temp' = Magnitude(arg)
          /\ i' = digits + First - 1
          /\ tpc' = "fill"
       \/ /\ result' = Null
          /\ tpc' = "done"
          /\ UNCHANGED <<temp, i>>
    /\ UNCHANGED <<base, arg, digits, quotients>>

\* One step of the loop that fills.
\* Mutant: the digits are those of base 2.
FillBinary ==
    /\ tpc = "fill"
    /\ IF temp > 0
       THEN /\ result' = [k \in DOMAIN result \cup {i} |-> IF k = i THEN temp % 2 ELSE result[k]]
            /\ i' = i - 1
            /\ temp' = temp \div base
            /\ UNCHANGED tpc
       ELSE /\ tpc' = "done"
            /\ UNCHANGED <<result, i, temp>>
    /\ UNCHANGED <<base, arg, digits, quotients>>
Fill ==
    /\ tpc = "fill"
    /\ IF temp > 0
       THEN /\ result' = [k \in DOMAIN result \cup {i} |-> IF k = i THEN temp % base ELSE result[k]]
            /\ i' = i - 1
            /\ temp' = temp \div base
            /\ UNCHANGED tpc
       ELSE /\ tpc' = "done"
            /\ UNCHANGED <<result, i, temp>>
    /\ UNCHANGED <<base, arg, digits, quotients>>

\* The caller prints the result and frees it.
Free ==
    /\ tpc = "done"
    /\ tpc' = "idle" /\ base' = 2 /\ arg' = 0 /\ digits' = 0 /\ temp' = 0 /\ i' = 0
    /\ result' = Null /\ quotients' = <<>>

Compute == Zero \/ Count \/ Allocate \/ Fill

TNext == (\E b \in {2, 3}, x \in Longs : Call(b, x)) \/ Compute \/ Free

TSpec == Idle /\ [][TNext]_tvars

-------------------------------------------------------------------------------
TTypeOK ==
    /\ tpc \in {"idle", "zero", "count", "allocate", "fill", "done"}
    /\ base \in {2, 3} /\ arg \in Longs
    /\ digits \in Nat /\ temp \in Longs /\ i \in Int
    /\ quotients \in Seq(Longs)
    /\ DOMAIN result \subseteq Int
    /\ \A k \in DOMAIN result : result[k] \in Chars

\* Nothing is written outside of the memory that was asked for, by either
\* loop's count, and the string is complete when it is returned
\* (translation.c 28-45).
WritesInsideTheMemory ==
    /\ tpc \in {"fill", "done"} /\ arg # 0 => DOMAIN result \subseteq 0 .. Size - 1
    /\ tpc = "fill" /\ temp > 0 => i \in First .. Size - 2
    /\ tpc = "done" /\ result # Null /\ arg # 0 => DOMAIN result = 0 .. Size - 1

\* The string is the numeral of the argument: a sign if it is negative, and
\* digits each of which is what the quotients leave, from the number itself
\* down to nothing. The least long is the exception: it is "-" (translation.c
\* 5-47).
NumeralOfTheArgument ==
    tpc = "done" /\ result # Null /\ arg # 0 =>
        /\ negative => result[0] = Minus
        /\ Len(quotients) = digits
        /\ IF arg = LongMin THEN digits = 0
           ELSE /\ digits > 0 /\ result[First] # 0
                /\ quotients[1] = (IF negative THEN - arg ELSE arg)
        /\ \A k \in 1 .. digits :
             /\ result[First + digits - k] \in 0 .. base - 1
             /\ quotients[k] = base * (IF k = digits THEN 0 ELSE quotients[k + 1]) + result[First + digits - k]
===============================================================================
