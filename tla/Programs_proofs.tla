--------------------------- MODULE Programs_proofs ---------------------------
(***************************************************************************)
(* The fourth laboratory work.  First translation() for every length of a  *)
(* long: it writes inside the memory that it has asked for, and what it    *)
(* returns is the numeral.  Then the two programs: the pointers, whatever  *)
(* fails to load, and that their calls are a behaviour of translation()    *)
(* alone, so that what holds there holds in them.                          *)
(***************************************************************************)
EXTENDS Programs, SequenceTheorems, TLAPS

\* What is left of the number after j divisions.
Remains(j) == IF j = 0 THEN Magnitude(arg) ELSE quotients[j] \div base

\* The first loop divides as long as something is left.
Counted ==
    /\ Len(quotients) = digits
    /\ \A k \in 1 .. digits : quotients[k] > 0 /\ quotients[k] = Remains(k - 1)

\* The string when the last j digits are in it.
Written(j) ==
    /\ DOMAIN result = {digits + First} \cup (0 .. First - 1) \cup (First + digits - j .. First + digits - 1)
    /\ negative => result[0] = Minus
    /\ \A k \in 1 .. j : result[First + digits - k] = quotients[k] % base

Filled == digits + First - 1 - i

Progress ==
    /\ tpc = "zero" => arg = 0
    /\ tpc \in {"count", "allocate", "fill"} => arg # 0
    /\ tpc = "count" => temp = Remains(digits)
    /\ tpc \in {"allocate", "fill", "done"} /\ arg # 0 => Remains(digits) <= 0
    /\ tpc = "fill" => Filled \in 0 .. digits /\ temp = Remains(Filled) /\ Written(Filled)
    /\ tpc = "done" /\ arg # 0 /\ result # Null => Written(digits)

TInv == TTypeOK /\ Counted /\ Progress

-------------------------------------------------------------------------------
LEMMA Divide ==
  ASSUME NEW b \in {2, 3}, NEW t \in Nat
  PROVE  /\ t \div b \in Nat /\ t \div b <= t
         /\ t % b \in 0 .. b - 1 /\ t = b * (t \div b) + (t % b)
<1>1. t \div 2 \in Nat /\ t \div 2 <= t /\ t % 2 \in 0 .. 1 /\ t = 2 * (t \div 2) + (t % 2)  OBVIOUS
<1>2. t \div 3 \in Nat /\ t \div 3 <= t /\ t % 3 \in 0 .. 2 /\ t = 3 * (t \div 3) + (t % 3)  OBVIOUS
<1> QED  BY <1>1, <1>2

LEMMA MagnitudeIsLong ==
  ASSUME NEW n \in Longs
  PROVE  /\ Magnitude(n) \in Longs
         /\ Magnitude(n) = IF n = LongMin THEN LongMin ELSE IF n < 0 THEN - n ELSE n
         /\ Magnitude(n) <= 0 => n = 0 \/ n = LongMin
BY TranslationAssumption DEF Magnitude, Longs, LongMin

LEMMA FirstDigit == ASSUME TTypeOK PROVE First \in {0, 1} /\ (First = 1 <=> negative)
BY DEF First, negative

\* The quotients are positive longs, and so is what each leaves, or nothing.
LEMMA QuotientIsLong ==
  ASSUME TTypeOK, Counted, NEW k \in 1 .. digits
  PROVE  quotients[k] \in Longs /\ quotients[k] \in Nat /\ quotients[k] > 0
<1>1. quotients \in Seq(Longs) /\ k \in 1 .. Len(quotients)  BY DEF TTypeOK, Counted
<1>2. quotients[k] \in Longs  BY <1>1, ElementOfSeq
<1>3. quotients[k] > 0  BY DEF Counted
<1> QED  BY <1>2, <1>3, TranslationAssumption DEF Longs, LongMin

LEMMA RemainsIsLong ==
  ASSUME TTypeOK, Counted, NEW j \in 0 .. digits
  PROVE  Remains(j) \in Longs /\ (j > 0 => Remains(j) \in Nat)
<1>1. CASE j = 0  BY <1>1, MagnitudeIsLong DEF TTypeOK, Remains
<1>2. CASE j > 0
  <2>1. quotients[j] \in Longs /\ quotients[j] \in Nat  BY <1>2, QuotientIsLong
  <2>2. quotients[j] \div base \in Nat /\ quotients[j] \div base <= quotients[j]
    BY <2>1, Divide DEF TTypeOK
  <2> QED  BY <1>2, <2>1, <2>2, TranslationAssumption DEF Remains, Longs, LongMin
<1> QED  BY <1>1, <1>2

-------------------------------------------------------------------------------
LEMMA BeginsIdle == Idle => TInv
<1> SUFFICES ASSUME Idle PROVE TInv  OBVIOUS
<1>1. DOMAIN result = {}  BY DEF Idle, Null
<1>2. TTypeOK  BY <1>1, TranslationAssumption DEF Idle, TTypeOK, Longs, LongMin
<1>3. Counted  BY DEF Idle, Counted
<1>4. Progress  BY DEF Idle, Progress
<1> QED  BY <1>2, <1>3, <1>4 DEF TInv

LEMMA CallKeeps ==
  ASSUME TInv, NEW b \in {2, 3}, NEW n \in Longs, Call(b, n)
  PROVE  TInv'
<1>1. Magnitude(n) \in Longs  BY MagnitudeIsLong
<1>2. DOMAIN result' = {}  BY DEF Call, Null
<1>3. TTypeOK'  BY <1>1, <1>2 DEF Call, TTypeOK
<1>4. Counted'  BY DEF Call, Counted
<1>5. Progress'  BY DEF Call, Progress, Remains
<1> QED  BY <1>3, <1>4, <1>5 DEF TInv

LEMMA ZeroKeeps ==
  ASSUME TInv, Zero
  PROVE  TInv'
<1>1. \A k \in DOMAIN result' : k \in Int /\ result'[k] \in Chars
  BY DEF Zero, Null, Chars
<1>2. TTypeOK'  BY <1>1 DEF TInv, TTypeOK, Zero
<1>3. Counted'  BY DEF TInv, Counted, Zero, Remains
<1>4. Progress'  BY DEF TInv, Progress, Zero
<1> QED  BY <1>2, <1>3, <1>4 DEF TInv

LEMMA CountKeeps ==
  ASSUME TInv, Count
  PROVE  TInv'
<1>s. TTypeOK /\ Counted /\ Progress /\ tpc = "count" /\ arg # 0 /\ temp = Remains(digits)
  BY DEF TInv, Progress, Count
<1>f. UNCHANGED <<base, arg, i, result>>  BY DEF Count
<1>1. CASE temp > 0
  <2>1. /\ digits' = digits + 1 /\ quotients' = Append(quotients, temp)
        /\ temp' = temp \div base /\ tpc' = "count"
    BY <1>s, <1>1 DEF Count
  <2>2. temp \in Nat /\ temp \in Longs  BY <1>s, <1>1 DEF TTypeOK, Longs, LongMin
  <2>3. temp' \in Nat /\ temp' <= temp  BY <1>s, <2>1, <2>2, Divide DEF TTypeOK
  <2>4. temp' \in Longs  BY <2>2, <2>3, TranslationAssumption DEF Longs, LongMin
  <2>5. quotients' \in Seq(Longs)  BY <1>s, <2>1, <2>2, AppendProperties DEF TTypeOK
  <2>6. TTypeOK'  BY <1>s, <1>f, <2>1, <2>4, <2>5 DEF TTypeOK
  <2>7. /\ Len(quotients') = digits + 1 /\ quotients'[digits + 1] = temp
        /\ \A k \in 1 .. digits : quotients'[k] = quotients[k]
    BY <1>s, <2>1, <2>2, AppendProperties DEF TTypeOK, Counted
  <2>8. \A j \in 0 .. digits : Remains(j)' = Remains(j)
    BY <1>f, <2>7 DEF Remains, Magnitude
  <2>9. Counted'
    <3>1. Len(quotients)' = digits'  BY <2>1, <2>7
    <3>2. ASSUME NEW k \in 1 .. digits + 1
          PROVE  quotients'[k] > 0 /\ quotients'[k] = Remains(k - 1)'
      <4>1. CASE k = digits + 1  BY <1>s, <1>1, <2>7, <2>8, <4>1 DEF TTypeOK
      <4>2. CASE k \in 1 .. digits  BY <1>s, <2>7, <2>8, <4>2 DEF Counted, TTypeOK
      <4> QED  BY <1>s, <4>1, <4>2 DEF TTypeOK
    <3> QED  BY <2>1, <3>1, <3>2 DEF Counted
  <2>10. temp' = Remains(digits)'  BY <1>s, <1>f, <2>1, <2>7 DEF Remains, TTypeOK
  <2>11. Progress'  BY <1>s, <1>f, <2>1, <2>10 DEF Progress
  <2> QED  BY <2>6, <2>9, <2>11 DEF TInv
<1>2. CASE ~ temp > 0
  <2>1. tpc' = "allocate" /\ UNCHANGED <<digits, temp, quotients>>  BY <1>2 DEF Count
  <2>2. TTypeOK'  BY <1>s, <1>f, <2>1 DEF TTypeOK
  <2>3. Counted'  BY <1>s, <1>f, <2>1 DEF Counted, Remains, Magnitude
  <2>4. Remains(digits)' <= 0  BY <1>s, <1>f, <1>2, <2>1 DEF Remains, Magnitude, TTypeOK, Longs, LongMin
  <2>5. Progress'  BY <1>s, <1>f, <2>1, <2>4 DEF Progress
  <2> QED  BY <2>2, <2>3, <2>5 DEF TInv
<1> QED  BY <1>1, <1>2

LEMMA AllocateKeeps ==
  ASSUME TInv, Allocate
  PROVE  TInv'
<1>s. TTypeOK /\ Counted /\ Progress /\ tpc = "allocate" /\ arg # 0 /\ Remains(digits) <= 0
  BY DEF TInv, Progress, Allocate
<1>f. UNCHANGED <<base, arg, digits, quotients>>  BY DEF Allocate
<1>1. Counted'  BY <1>s, <1>f DEF Counted, Remains, Magnitude
<1>2. Remains(digits)' <= 0 /\ First' = First /\ (negative' <=> negative)
  BY <1>s, <1>f DEF Remains, Magnitude, First, negative
<1>3. First \in {0, 1} /\ (First = 1 <=> negative)  BY <1>s, FirstDigit
<1>4. CASE tpc' = "fill"
  <2>1. /\ result' = [k \in {Size - 1} \cup (0 .. First - 1) |-> IF k = Size - 1 THEN End ELSE Minus]
        /\ temp' = Magnitude(arg) /\ i' = digits + First - 1
    BY <1>4 DEF Allocate
  <2>2. Size - 1 = digits + First  BY <1>s, <1>3 DEF Size, TTypeOK
  <2>3. DOMAIN result' = {digits + First} \cup (0 .. First - 1)  BY <2>1, <2>2
  <2>4. TTypeOK'
    <3>1. temp' \in Longs  BY <1>s, <2>1, MagnitudeIsLong DEF TTypeOK
    <3>2. \A k \in DOMAIN result' : result'[k] \in Chars  BY <2>1 DEF Chars
    <3>3. DOMAIN result' \subseteq Int  BY <1>s, <1>3, <2>3 DEF TTypeOK
    <3>4. i' \in Int  BY <1>s, <1>3, <2>1 DEF TTypeOK
    <3> QED  BY <1>s, <1>f, <1>4, <3>1, <3>2, <3>3, <3>4 DEF TTypeOK
  <2>5. Filled' = 0  BY <1>s, <1>f, <1>2, <1>3, <2>1 DEF Filled, TTypeOK
  <2>6. temp' = Remains(0)'  BY <1>f, <2>1 DEF Remains, Magnitude
  <2>7. negative => result'[0] = Minus
    BY <1>s, <1>3, <2>1, <2>2 DEF TTypeOK
  <2>8. (First + digits - 0 .. First + digits - 1) = {}  BY <1>s, <1>3 DEF TTypeOK
  <2>9. Written(0)'
    BY <1>f, <1>2, <2>3, <2>7, <2>8 DEF Written
  <2>10. Progress'
    BY <1>s, <1>f, <1>2, <1>4, <2>5, <2>6, <2>9 DEF Progress, TTypeOK
  <2> QED  BY <1>1, <2>4, <2>10 DEF TInv
<1>5. CASE tpc' = "done"
  <2>1. result' = Null /\ UNCHANGED <<temp, i>>  BY <1>5 DEF Allocate
  <2>2. DOMAIN result' = {}  BY <2>1 DEF Null
  <2>3. TTypeOK'  BY <1>s, <1>f, <1>5, <2>1, <2>2 DEF TTypeOK
  <2>4. Progress'  BY <1>f, <1>2, <1>5, <2>1 DEF Progress, Null
  <2> QED  BY <1>1, <2>3, <2>4 DEF TInv
<1> QED  BY <1>4, <1>5 DEF Allocate

LEMMA FillKeeps ==
  ASSUME TInv, Fill
  PROVE  TInv'
<1>s. /\ TTypeOK /\ Counted /\ Progress /\ tpc = "fill" /\ arg # 0 /\ Remains(digits) <= 0
      /\ Filled \in 0 .. digits /\ temp = Remains(Filled) /\ Written(Filled)
  BY DEF TInv, Progress, Fill
<1>f. UNCHANGED <<base, arg, digits, quotients>>  BY DEF Fill
<1>1. Counted'  BY <1>s, <1>f DEF Counted, Remains, Magnitude
<1>2. /\ \A j \in 0 .. digits : Remains(j)' = Remains(j)
      /\ First' = First /\ (negative' <=> negative)
  BY <1>f DEF Remains, Magnitude, First, negative
<1>3. First \in {0, 1} /\ (First = 1 <=> negative)  BY <1>s, FirstDigit
<1>4. digits \in Nat /\ i \in Int  BY <1>s DEF TTypeOK
<1>5. CASE temp > 0
  <2>0. PICK j \in 0 .. digits : j = Filled  BY <1>s
  <2>1. /\ result' = [k \in DOMAIN result \cup {i} |-> IF k = i THEN temp % base ELSE result[k]]
        /\ i' = i - 1 /\ temp' = temp \div base /\ tpc' = "fill"
    BY <1>s, <1>5 DEF Fill
  <2>2. j < digits  BY <2>0, <1>s, <1>4, <1>5, RemainsIsLong DEF TTypeOK, Longs, LongMin
  <2>3. j + 1 \in 1 .. digits /\ quotients[j + 1] = temp  BY <2>0, <1>s, <1>4, <2>2 DEF Counted
  <2>4. temp \in Nat /\ temp \in Longs  BY <2>3, <1>s, QuotientIsLong
  <2>5. temp' \in Nat /\ temp' <= temp /\ temp % base \in 0 .. base - 1
    BY <1>s, <2>1, <2>4, Divide DEF TTypeOK
  <2>6. temp' \in Longs  BY <2>4, <2>5, TranslationAssumption DEF Longs, LongMin
  <2>7. i = First + digits - (j + 1)  BY <2>0, <1>3, <1>4 DEF Filled
  <2>8. TTypeOK'
    <3>1. temp % base \in Chars  BY <1>s, <2>5 DEF TTypeOK, Chars
    <3>2. DOMAIN result' \subseteq Int  BY <1>s, <2>1 DEF TTypeOK
    <3>3. \A k \in DOMAIN result' : result'[k] \in Chars  BY <1>s, <2>1, <3>1 DEF TTypeOK
    <3>4. i' \in Int  BY <1>4, <2>1
    <3> QED  BY <1>s, <1>f, <2>1, <2>6, <3>2, <3>3, <3>4 DEF TTypeOK
  <2>9. Filled' = j + 1  BY <2>0, <1>f, <1>2, <1>3, <1>4, <2>1 DEF Filled
  <2>10. temp' = Remains(j + 1)'
    <3>1. j + 1 # 0  BY <2>3, <1>4
    <3>2. Remains(j + 1)' = quotients'[j + 1] \div base'  BY <1>f, <2>3, <3>1, <1>2 DEF Remains
    <3> QED  BY <1>f, <2>1, <2>3, <3>2
  <2>11. Written(j + 1)'
    <3>1. DOMAIN result' = {digits + First} \cup (0 .. First - 1)
                             \cup (First + digits - (j + 1) .. First + digits - 1)
      <4>1. DOMAIN result = {digits + First} \cup (0 .. First - 1)
                             \cup (First + digits - j .. First + digits - 1)
        BY <2>0, <1>s DEF Written
      <4>2. DOMAIN result' = DOMAIN result \cup {i}  BY <2>1
      <4>3. (First + digits - (j + 1) .. First + digits - 1)
              = (First + digits - j .. First + digits - 1) \cup {i}
        BY <1>3, <1>4, <2>2, <2>7
      <4> QED  BY <4>1, <4>2, <4>3
    <3>2. negative => result'[0] = Minus
      <4>1. SUFFICES ASSUME negative PROVE result'[0] = Minus  OBVIOUS
      <4>2. First = 1 /\ result[0] = Minus  BY <1>s, <1>3, <4>1 DEF Written
      <4>3. i # 0 /\ 0 \in DOMAIN result  BY <2>0, <1>s, <1>4, <2>2, <2>7, <4>2 DEF Written
      <4> QED  BY <2>1, <4>2, <4>3
    <3>3. ASSUME NEW k \in 1 .. j + 1
          PROVE  result'[First + digits - k] = quotients[k] % base
      <4>1. CASE k = j + 1  BY <1>s, <2>1, <2>3, <2>7, <4>1
      <4>2. CASE k \in 1 .. j
        <5>1. First + digits - k \in DOMAIN result /\ First + digits - k # i
          BY <2>0, <1>s, <1>3, <1>4, <2>7, <4>2 DEF Written
        <5>2. result[First + digits - k] = quotients[k] % base  BY <2>0, <1>s, <4>2 DEF Written
        <5> QED  BY <2>1, <5>1, <5>2
      <4> QED  BY <1>4, <4>1, <4>2
    <3> QED  BY <1>f, <1>2, <3>1, <3>2, <3>3 DEF Written
  <2>12. Remains(digits)' <= 0  BY <1>s, <1>2, <1>4, <1>f
  <2>13. Progress'
    <3>1. Filled' \in 0 .. digits'  BY <1>f, <1>4, <2>2, <2>3, <2>9
    <3> QED  BY <1>s, <1>f, <2>1, <2>9, <2>10, <2>11, <2>12, <3>1 DEF Progress
  <2> QED  BY <1>1, <2>8, <2>13 DEF TInv
<1>6. CASE ~ temp > 0
  <2>1. tpc' = "done" /\ UNCHANGED <<result, i, temp>>  BY <1>6 DEF Fill
  <2>2. TTypeOK'  BY <1>s, <1>f, <2>1 DEF TTypeOK
  <2>3. Filled = digits
    <3>1. SUFFICES ASSUME Filled < digits PROVE FALSE  BY <1>s, <1>4
    <3>2. Filled + 1 \in 1 .. digits /\ quotients[Filled + 1] = temp
      BY <1>s, <1>4, <3>1 DEF Counted
    <3> QED  BY <1>6, <1>s, <3>2, QuotientIsLong
  <2>4. Written(digits)'  BY <1>s, <1>f, <1>2, <2>1, <2>3 DEF Written
  <2>5. Remains(digits)' <= 0  BY <1>s, <1>2, <1>4, <1>f
  <2>6. Progress'  BY <1>f, <2>1, <2>4, <2>5 DEF Progress
  <2> QED  BY <1>1, <2>2, <2>6 DEF TInv
<1> QED  BY <1>5, <1>6

LEMMA FreeKeeps ==
  ASSUME TInv, Free
  PROVE  TInv'
<1>1. Idle'  BY DEF Free, Idle
<1>2. DOMAIN result' = {}  BY <1>1 DEF Idle, Null
<1>3. TTypeOK'  BY <1>1, <1>2, TranslationAssumption DEF Idle, TTypeOK, Longs, LongMin
<1>4. Counted'  BY <1>1 DEF Idle, Counted
<1>5. Progress'  BY <1>1 DEF Idle, Progress
<1> QED  BY <1>3, <1>4, <1>5 DEF TInv

\* The invariant of translation(), called with any long in base 2 or 3.
THEOREM TInvariant == TSpec => []TInv
<1>1. TInv /\ [TNext]_tvars => TInv'
  <2> SUFFICES ASSUME TInv, [TNext]_tvars PROVE TInv'  OBVIOUS
  <2>1. CASE UNCHANGED tvars
    BY <2>1 DEF tvars, TInv, TTypeOK, Counted, Progress, Remains, Written, Filled, First, negative, Magnitude
  <2> QED  BY <2>1, CallKeeps, ZeroKeeps, CountKeeps, AllocateKeeps, FillKeeps, FreeKeeps DEF TNext, Compute
<1> QED  BY <1>1, BeginsIdle, PTL DEF TSpec

\* Nothing is written outside of what malloc() gave, for a long of any width
\* (translation.c 28-45).
THEOREM WritesInside == TSpec => []WritesInsideTheMemory
<1>1. TInv => WritesInsideTheMemory
  <2> SUFFICES ASSUME TInv PROVE WritesInsideTheMemory  OBVIOUS
  <2>1. TTypeOK /\ Counted /\ Progress /\ digits \in Nat /\ i \in Int  BY DEF TInv, TTypeOK
  <2>2. First \in {0, 1} /\ Size = digits + First + 1  BY <2>1, FirstDigit DEF Size
  <2>3. CASE tpc = "fill"
    <3>1. Filled \in 0 .. digits /\ temp = Remains(Filled) /\ Written(Filled) /\ Remains(digits) <= 0
      BY <2>1, <2>3 DEF Progress
    <3>2. DOMAIN result \subseteq 0 .. Size - 1  BY <2>1, <2>2, <3>1 DEF Written
    <3>3. ASSUME temp > 0 PROVE i \in First .. Size - 2
      <4>1. Filled < digits  BY <2>1, <3>1, <3>3, RemainsIsLong DEF TTypeOK, Longs, LongMin
      <4> QED  BY <2>1, <2>2, <3>1, <4>1 DEF Filled
    <3> QED  BY <2>3, <3>2, <3>3 DEF WritesInsideTheMemory
  <2>4. CASE tpc = "done" /\ arg # 0
    <3>1. result = Null => DOMAIN result = {}  BY DEF Null
    <3>2. result # Null => DOMAIN result = 0 .. Size - 1
      BY <2>1, <2>2, <2>4 DEF Progress, Written
    <3> QED  BY <2>4, <3>1, <3>2 DEF WritesInsideTheMemory
  <2> QED  BY <2>3, <2>4 DEF WritesInsideTheMemory
<1> QED  BY <1>1, TInvariant, PTL

\* Every long but the least one gets its numeral (translation.c 5-47).
THEOREM Numeral == TSpec => []NumeralOfTheArgument
<1>1. TInv => NumeralOfTheArgument
  <2> SUFFICES ASSUME TInv, tpc = "done", result # Null, arg # 0 PROVE NumeralOfTheArgument
    BY DEF NumeralOfTheArgument
  <2>1. TTypeOK /\ Counted /\ Written(digits) /\ Remains(digits) <= 0 /\ digits \in Nat
    BY DEF TInv, TTypeOK, Progress
  <2>2. First \in {0, 1} /\ (First = 1 <=> negative)  BY <2>1, FirstDigit
  <2>3. negative => result[0] = Minus  BY <2>1 DEF Written
  <2>4. digits > 0 => quotients[1] = Magnitude(arg)  BY <2>1 DEF Counted, Remains
  <2>5. IF arg = LongMin THEN digits = 0
        ELSE digits > 0 /\ quotients[1] = (IF negative THEN - arg ELSE arg)
    <3>1. digits = 0 => arg = LongMin  BY <2>1, MagnitudeIsLong DEF Remains, TTypeOK
    <3>2. digits > 0 => Magnitude(arg) > 0
      BY <2>1, <2>4 DEF Counted
    <3>3. LongMin < 0  BY TranslationAssumption DEF LongMin
    <3> QED  BY <2>1, <2>4, <3>1, <3>2, <3>3, TranslationAssumption
             DEF Magnitude, negative, TTypeOK, Longs, LongMin
  <2>6. ASSUME NEW k \in 1 .. digits
        PROVE  /\ result[First + digits - k] \in 0 .. base - 1
               /\ quotients[k] = base * (IF k = digits THEN 0 ELSE quotients[k + 1]) + result[First + digits - k]
    <3>1. quotients[k] \in Nat  BY <2>1, QuotientIsLong
    <3>2. result[First + digits - k] = quotients[k] % base  BY <2>1 DEF Written
    <3>3. (IF k = digits THEN 0 ELSE quotients[k + 1]) = quotients[k] \div base
      <4>1. CASE k = digits
        <5>1. Remains(k) = quotients[k] \div base /\ Remains(k) \in Nat
          BY <2>1, RemainsIsLong DEF Remains
        <5> QED  BY <2>1, <4>1, <5>1
      <4>2. CASE k # digits
        <5>1. k + 1 \in 1 .. digits /\ k # 0 /\ (k + 1) - 1 = k  BY <2>1, <4>2
        <5> QED  BY <2>1, <4>2, <5>1 DEF Counted, Remains
      <4> QED  BY <4>1, <4>2
    <3> QED  BY <2>1, <3>1, <3>2, <3>3, Divide DEF TTypeOK
  <2>7. arg # LongMin => result[First] # 0
    <3>1. SUFFICES ASSUME arg # LongMin PROVE result[First] # 0  OBVIOUS
    <3>2. digits \in 1 .. digits /\ First + digits - digits = First  BY <2>1, <2>2, <2>5, <3>1
    <3>3. quotients[digits] = base * 0 + result[First]  BY <2>6, <3>2
    <3>4. quotients[digits] > 0  BY <2>1, <3>2 DEF Counted
    <3>5. base * 0 = 0  BY <2>1 DEF TTypeOK
    <3> QED  BY <3>3, <3>4, <3>5
  <2> QED  BY <2>1, <2>3, <2>5, <2>6, <2>7 DEF NumeralOfTheArgument, Counted
<1> QED  BY <1>1, TInvariant, PTL

-------------------------------------------------------------------------------
(***************************************************************************)
(* The two programs.                                                       *)
(***************************************************************************)

\* What every call of load_library() keeps of the pointers.
Sound(l) ==
    /\ l \in [handle : Pointers, SinIntegral : Pointers, translation : Pointers, impl_number : Libraries]
    /\ l.handle # NULL =>
         l.SinIntegral = l.handle /\ l.translation = l.handle /\ l.handle = l.impl_number
    /\ l.handle = NULL => l.SinIntegral = NULL \/ l.translation = NULL
    /\ l.handle = NULL /\ "NULL_symbol" \notin Failures =>
         l.SinIntegral = NULL /\ l.translation = NULL

\* A call of translation() is one into the library that is loaded.
PInv ==
    /\ Sound(lib)
    /\ tpc # "idle" => base = lib.impl_number + 1
    /\ pc = "start" => tpc = "idle"

-------------------------------------------------------------------------------
LEMMA LoadedIsSound ==
  ASSUME Sound(lib), NEW k \in Libraries
  PROVE  Sound([Loaded(k) EXCEPT !.impl_number = k])
BY DEF Sound, Loaded, Pointers, Libraries, NULL

LEMMA ClosedIsSound ==
  ASSUME Sound(lib)
  PROVE  Sound(Closed) /\ Closed.handle = NULL /\ Closed.impl_number = lib.impl_number
BY DEF Sound, Closed, Pointers, Libraries, NULL

LEMMA LeftIsSound ==
  ASSUME NEW p, Sound(p), p.handle = NULL, NEW f \in Failures, NEW k \in Libraries, NEW l \in Left(f, p, k)
  PROVE  Sound(l) /\ l.handle = NULL /\ l.impl_number = p.impl_number
<1>1. f \in Kinds  BY FailuresAssumption
<1>2. CASE f = "no_file"  BY <1>2 DEF Left
<1>3. CASE f = "no_SinIntegral"
  BY <1>3 DEF Left, Sound, Pointers, Libraries, NULL
<1>4. CASE f = "no_translation"
  BY <1>4 DEF Left, Sound, Pointers, Libraries, NULL
<1>5. CASE f = "NULL_symbol"
  <2>1. PICK q \in ({NULL, k} \X {NULL, k}) \ {<<k, k>>} :
           l = [p EXCEPT !.SinIntegral = q[1], !.translation = q[2]]
    BY <1>5 DEF Left
  <2>2. q[1] \in Pointers /\ q[2] \in Pointers /\ (q[1] = NULL \/ q[2] = NULL)
    BY <2>1 DEF Pointers
  <2> QED  BY <1>5, <2>1, <2>2 DEF Sound
<1> QED  BY <1>1, <1>2, <1>3, <1>4, <1>5 DEF Kinds

LEMMA UnloadedIsSound ==
  ASSUME Sound(lib), NEW k \in Libraries, NEW l \in Unloaded(k)
  PROVE  Sound(l) /\ l.handle = NULL /\ l.impl_number = lib.impl_number
<1> DEFINE p == IF lib.handle # NULL THEN Closed ELSE lib
<1>1. Sound(p) /\ p.handle = NULL /\ p.impl_number = lib.impl_number  BY ClosedIsSound
<1>2. PICK f \in Failures : l \in Left(f, p, k)  BY DEF Unloaded
<1> HIDE DEF p
<1> QED  BY <1>1, <1>2, LeftIsSound

-------------------------------------------------------------------------------
LEMMA BeginsSound == Init => PInv
BY DEF Init, PInv, Sound, Pointers, Libraries, NULL, Idle

LEMMA KeepsSound ==
  ASSUME PInv, [Next]_vars
  PROVE  PInv'
<1>s. Sound(lib) /\ lib.impl_number \in Libraries /\ 3 - lib.impl_number \in Libraries
  BY DEF PInv, Sound, Libraries
<1>1. CASE Start
  <2>1. Sound(lib')  BY <1>s, <1>1, LoadedIsSound, UnloadedIsSound DEF Start, Libraries
  <2>2. tpc = "idle" /\ tpc' = "idle"  BY <1>1 DEF Start, PInv, tvars
  <2> QED  BY <2>1, <2>2 DEF PInv, Sound
<1>2. CASE Switch
  <2>1. Sound(lib')  BY <1>s, <1>2, LoadedIsSound, UnloadedIsSound DEF Switch
  <2>2. tpc = "idle" /\ tpc' = "idle"  BY <1>2 DEF Switch, AtPrompt, InCall, tvars
  <2> QED  BY <2>1, <2>2 DEF PInv, Sound
<1>3. CASE Quit
  <2>1. Sound(lib')  BY <1>s, <1>3, ClosedIsSound DEF Quit
  <2>2. tpc = "idle" /\ tpc' = "idle"  BY <1>3 DEF Quit, AtPrompt, InCall, tvars
  <2> QED  BY <2>1, <2>2 DEF PInv, Sound
<1>4. ASSUME NEW a \in Floats, NEW b \in Floats, NEW s \in Floats, Integral(a, b, s)
      PROVE  PInv'
  BY <1>s, <1>4 DEF Integral, AtPrompt, PInv, Sound, tvars
<1>5. ASSUME NEW n \in Longs, Number(n)
      PROVE  PInv'
  BY <1>s, <1>5 DEF Number, AtPrompt, Call, PInv, Sound, tvars
<1>6. CASE InIntegral  BY <1>s, <1>6 DEF InIntegral, PInv, Sound, tvars
<1>7. CASE InNumber
  BY <1>s, <1>7 DEF InNumber, Compute, Zero, Count, Allocate, Fill, Free, PInv, Sound
<1>8. CASE UNCHANGED vars  BY <1>s, <1>8 DEF vars, tvars, PInv, Sound
<1> QED  BY <1>1, <1>2, <1>3, <1>4, <1>5, <1>6, <1>7, <1>8 DEF Next, Refuse

\* The invariant of the loaded library, for any failures to load one.
THEOREM LibraryInvariant == Spec => []PInv
BY BeginsSound, KeepsSound, PTL DEF Spec

\* Both pointers lead into the library that the user was told of, or nowhere
\* (main.c 16-78).
THEOREM PointersLead == Spec => []PointersLeadIntoTheLibrary
<1>1. PInv => PointersLeadIntoTheLibrary  BY DEF PInv, Sound, PointersLeadIntoTheLibrary
<1> QED  BY <1>1, LibraryInvariant, PTL

\* The programs make the calls of translation() that TSpec allows, one at a time
\* and with a base that it knows.
THEOREM CallsAreThoseOfTranslation == Spec => TSpec
<1>1. Init => Idle  BY DEF Init
<1>2. PInv /\ [Next]_vars => [TNext]_tvars
  <2> SUFFICES ASSUME PInv, [Next]_vars PROVE [TNext]_tvars  OBVIOUS
  <2>1. ASSUME NEW n \in Longs, Number(n) PROVE [TNext]_tvars
    <3>1. lib.handle # NULL => lib.translation + 1 \in {2, 3}
      BY DEF PInv, Sound, Libraries
    <3> QED  BY <2>1, <3>1 DEF Number, TNext
  <2>2. CASE InNumber  BY <2>2 DEF InNumber, TNext
  <2>3. CASE Start \/ Switch \/ Refuse \/ Quit \/ InIntegral \/ UNCHANGED vars
    BY <2>3 DEF Start, Switch, Refuse, Quit, InIntegral, vars
  <2>4. ASSUME NEW a \in Floats, NEW b \in Floats, NEW s \in Floats, Integral(a, b, s)
        PROVE  [TNext]_tvars
    BY <2>4 DEF Integral
  <2> QED  BY <2>1, <2>2, <2>3, <2>4 DEF Next
<1> QED  BY <1>1, <1>2, LibraryInvariant, PTL DEF Spec, TSpec

\* Neither program is written outside of its memory by translation().
THEOREM ProgramsWriteInside == Spec => []WritesInsideTheMemory
BY CallsAreThoseOfTranslation, WritesInside

\* What the programs are answered is the numeral of the number they ask for.
THEOREM ProgramsAnswerNumerals == Spec => []NumeralOfTheArgument
BY CallsAreThoseOfTranslation, Numeral
===============================================================================
