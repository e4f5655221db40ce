-------------------------- MODULE CheckGuess_proofs --------------------------
(***************************************************************************)
(* CheckGuess for words of every length over every alphabet: the type      *)
(* invariant, that a letter is paired once, that no cow is missed, that    *)
(* the game is won exactly by guessing the secret, and that the score is   *)
(* the rule of the game.                                                   *)
(***************************************************************************)
EXTENDS CheckGuess, FiniteSetTheorems, FunctionTheorems, TLAPS

Matching(n) == {k \in 1..n : secret[k] = guess[k]}

\* Past the validation the two words are equally long.
SameLength == pc \in {"bulls", "cows", "judged"} => Len(guess) = Len(secret)

\* While the first loop runs, the flags are those of the matching positions.
BullsTallied ==
    /\ pc = "bulls" => secret_used = Matching(i - 1) /\ guess_used = Matching(i - 1)
    /\ pc \in {"cows", "judged"} =>
          /\ bulls = Cardinality(Matching(Len(secret)))
          /\ Matching(Len(secret)) \subseteq guess_used

\* In the second loop the letters already passed have no free partner left, nor
\* has letter i one among the positions the inner loop has passed.
CowsSwept ==
    pc = "cows" =>
        /\ \A k \in Positions : k < i => \A m \in Positions : ~Pairs(k, m)
        /\ \A m \in Positions : m < j => ~Pairs(i, m)

Untouched == pc \in {"validate", "rejected"} =>
                bulls = 0 /\ cows = 0 /\ secret_used = {} /\ guess_used = {} /\ i = 1 /\ j = 1

NoCowsYet == pc = "bulls" => cows = 0

\* A letter of the guess is paired with its like: of each letter, as many positions
\* are used in the guess as in the secret.
UsedOf(word, used, c) == {k \in used : word[k] = c}
PairedWithItsLike ==
    \A c \in Chars : Cardinality(UsedOf(guess, guess_used, c)) = Cardinality(UsedOf(secret, secret_used, c))

IInv == /\ TypeOK /\ SameLength /\ BullsTallied /\ CowsSwept /\ Untouched /\ NoCowsYet
        /\ LettersPairedOnce /\ NoCowMissed

-------------------------------------------------------------------------------
\* A finite set grows by one when an element it lacks is added.
LEMMA AddOne ==
    ASSUME NEW S, IsFiniteSet(S), NEW x, x \notin S
    PROVE  Cardinality(S \cup {x}) = Cardinality(S) + 1 /\ IsFiniteSet(S \cup {x})
BY FS_AddElement

\* Using one more position raises the count of its letter by one, and no other.
LEMMA OneMoreUsed ==
    ASSUME NEW word, NEW used, IsFiniteSet(used), NEW x, x \notin used, NEW c
    PROVE  Cardinality(UsedOf(word, used \cup {x}, c)) =
             IF word[x] = c THEN Cardinality(UsedOf(word, used, c)) + 1
                            ELSE Cardinality(UsedOf(word, used, c))
<1>1. IsFiniteSet(UsedOf(word, used, c))  BY FS_Subset DEF UsedOf
<1>2. CASE word[x] = c
  <2>1. UsedOf(word, used \cup {x}, c) = UsedOf(word, used, c) \cup {x}  BY <1>2 DEF UsedOf
  <2>2. x \notin UsedOf(word, used, c)  BY DEF UsedOf
  <2> QED  BY <1>1, <1>2, <2>1, <2>2, AddOne
<1>3. CASE word[x] # c
  <2>1. UsedOf(word, used \cup {x}, c) = UsedOf(word, used, c)  BY <1>3 DEF UsedOf
  <2> QED  BY <1>3, <2>1
<1> QED  BY <1>2, <1>3

\* Sets of positions are finite.
LEMMA UsedFinite ==
    ASSUME TypeOK
    PROVE  /\ Len(secret) \in Nat
           /\ IsFiniteSet(secret_used) /\ IsFiniteSet(guess_used)
           /\ Cardinality(secret_used) \in Nat
<1>1. secret \in Seq(Chars)  BY WordsAssumption DEF TypeOK
<1>2. Len(secret) \in Nat  BY <1>1
<1>3. IsFiniteSet(Positions)  BY <1>2, FS_Interval DEF Positions
<1> QED  BY <1>2, <1>3, FS_Subset, FS_CardinalityType DEF TypeOK

\* check_guess starts with everything clear.
LEMMA InitIInv == Init => IInv
<1> SUFFICES ASSUME Init PROVE IInv  OBVIOUS
<1>1. secret \in Seq(Chars) /\ Len(secret) \in Nat  BY WordsAssumption DEF Init
<1>2. TypeOK  BY <1>1 DEF Init, TypeOK
<1>3. Cardinality({}) = 0  BY FS_EmptySet
<1> QED  BY <1>1, <1>2, <1>3 DEF Init, IInv, SameLength, BullsTallied, CowsSwept, Untouched,
            NoCowsYet, LettersPairedOnce, NoCowMissed

\* Every step of the two loops keeps the bookkeeping right.
LEMMA NextIInv == IInv /\ [Next]_vars => IInv'
<1> SUFFICES ASSUME IInv, [Next]_vars PROVE IInv'  OBVIOUS
<1> USE DEF IInv
<1>0. /\ secret \in Seq(Chars) /\ guess \in Seq(Chars)
      /\ Len(secret) \in Nat /\ Len(guess) \in Nat
      /\ IsFiniteSet(secret_used) /\ IsFiniteSet(guess_used)
  BY UsedFinite, WordsAssumption DEF TypeOK
<1>1. CASE Validate
  <2>1. TypeOK' /\ SameLength'  BY <1>0, <1>1 DEF Validate, TypeOK, Positions, SameLength, validate_guess
  <2>2. BullsTallied'  BY <1>0, <1>1 DEF Validate, BullsTallied, Matching, Untouched
  <2>3. LettersPairedOnce'  BY <1>1 DEF Validate, LettersPairedOnce
  <2> QED  BY <1>1, <2>1, <2>2, <2>3 DEF Validate, CowsSwept, Untouched, NoCowsYet, NoCowMissed
<1>2. CASE CountBull
  <2>1. i \in Positions /\ i \notin Matching(i - 1)
    BY <1>0, <1>2 DEF CountBull, TypeOK, Positions, Matching
  <2>2. TypeOK'  BY <1>0, <1>2, <2>1 DEF CountBull, TypeOK, Positions
  <2>3. Matching(i) = Matching(i - 1) \cup {i}
    BY <1>0, <1>2, <2>1 DEF CountBull, TypeOK, Positions, Matching
  <2>5. BullsTallied'
    BY <1>0, <1>2, <2>3 DEF CountBull, TypeOK, BullsTallied, Matching
  <2>6. LettersPairedOnce'
    <3>1. i \notin secret_used /\ i \notin guess_used
      BY <1>2, <2>1 DEF CountBull, BullsTallied
    <3>2. /\ Cardinality(secret_used \cup {i}) = bulls + cows + 1
          /\ Cardinality(guess_used \cup {i}) = bulls + cows + 1
      BY <1>0, <3>1, AddOne, Zenon DEF LettersPairedOnce
    <3> QED  BY <1>2, <3>2 DEF CountBull, TypeOK, LettersPairedOnce
  <2> QED  BY <1>2, <2>2, <2>5, <2>6 DEF CountBull, SameLength, CowsSwept, Untouched, NoCowsYet, NoCowMissed
<1>3. CASE SkipBull
  <2>1. TypeOK'  BY <1>0, <1>3 DEF SkipBull, TypeOK, Positions
  <2>2. Matching(i) = Matching(i - 1)
    BY <1>0, <1>3 DEF SkipBull, TypeOK, Matching
  <2>3. BullsTallied'
    BY <1>0, <1>3, <2>2 DEF SkipBull, TypeOK, BullsTallied, Matching
  <2> QED  BY <1>3, <2>1, <2>3 DEF SkipBull, SameLength, CowsSwept, Untouched, NoCowsYet, NoCowMissed, LettersPairedOnce
<1>4. CASE BullsDone
  <2>1. TypeOK'  BY <1>0, <1>4 DEF BullsDone, TypeOK, Positions
  <2>2. i - 1 = Len(secret)  BY <1>0, <1>4 DEF BullsDone, TypeOK
  <2>3. BullsTallied'
    <3>1. secret_used = Matching(Len(secret)) /\ guess_used = Matching(Len(secret))
      BY <1>4, <2>2 DEF BullsDone, BullsTallied
    <3>2. bulls = Cardinality(secret_used)
      BY <1>4 DEF BullsDone, LettersPairedOnce, NoCowsYet, TypeOK
    <3>3. /\ bulls = Cardinality(Matching(Len(secret)))
          /\ Matching(Len(secret)) \subseteq guess_used
      BY <3>1, <3>2
    <3>4. Matching(Len(secret))' = Matching(Len(secret))
      BY <1>4 DEF BullsDone, Matching
    <3> QED  BY <1>4, <3>3, <3>4 DEF BullsDone, BullsTallied
  <2>4. CowsSwept'  BY <1>0, <1>4 DEF BullsDone, CowsSwept, Positions
  <2> QED  BY <1>4, <2>1, <2>3, <2>4 DEF BullsDone, SameLength, Untouched, NoCowsYet, NoCowMissed, LettersPairedOnce
<1>5. CASE NextLetter
  <2>1. TypeOK'  BY <1>0, <1>5 DEF NextLetter, TypeOK, Positions, SameLength
  <2>2. CowsSwept'
    <3>1. \A m \in Positions : ~Pairs(i, m)
      BY <1>0, <1>5 DEF NextLetter, CowsSwept, Pairs, TypeOK, Positions
    <3> QED  BY <1>0, <1>5, <3>1 DEF NextLetter, CowsSwept, Pairs, TypeOK, Positions
  <2>3. BullsTallied'  BY <1>5 DEF NextLetter, BullsTallied, Matching
  <2> QED  BY <1>5, <2>1, <2>2, <2>3 DEF NextLetter, SameLength, Untouched, NoCowsYet, NoCowMissed, LettersPairedOnce
<1>6. CASE CountCow
  <2>1. i \in Positions /\ j \in Positions /\ i \notin guess_used /\ j \notin secret_used
    BY <1>0, <1>6 DEF CountCow, TypeOK, Positions, SameLength, Pairs
  <2>2. TypeOK'  BY <1>0, <1>6, <2>1 DEF CountCow, TypeOK, Positions
  <2>3. BullsTallied'  BY <1>6 DEF CountCow, BullsTallied, Matching
  <2>4. CowsSwept'  BY <1>0, <1>6, <2>1 DEF CountCow, CowsSwept, Pairs, TypeOK, Positions
  <2>5. LettersPairedOnce'
    BY SMTT(20), <1>0, <1>6, <2>1, AddOne DEF CountCow, TypeOK, LettersPairedOnce
  <2> QED  BY <1>6, <2>2, <2>3, <2>4, <2>5 DEF CountCow, SameLength, Untouched, NoCowsYet, NoCowMissed
<1>7. CASE SkipCow
  <2>1. TypeOK'  BY <1>0, <1>7 DEF SkipCow, TypeOK, Positions
  <2>2. CowsSwept'  BY <1>0, <1>7 DEF SkipCow, CowsSwept, Pairs, TypeOK, Positions
  <2>3. BullsTallied'  BY <1>7 DEF SkipCow, BullsTallied, Matching
  <2> QED  BY <1>7, <2>1, <2>2, <2>3 DEF SkipCow, SameLength, Untouched, NoCowsYet, NoCowMissed, LettersPairedOnce
<1>8. CASE CowsDone
  <2>1. TypeOK'  BY <1>0, <1>8 DEF CowsDone, TypeOK, Positions
  <2>2. NoCowMissed'  BY <1>0, <1>8 DEF CowsDone, NoCowMissed, CowsSwept, SameLength, Pairs, TypeOK, Positions
  <2>3. BullsTallied'  BY <1>8 DEF CowsDone, BullsTallied, Matching
  <2> QED  BY <1>8, <2>1, <2>2, <2>3 DEF CowsDone, SameLength, CowsSwept, Untouched, NoCowsYet, LettersPairedOnce
<1>9. CASE UNCHANGED vars
  BY <1>9 DEF vars, TypeOK, Positions, SameLength, BullsTallied, Matching, CowsSwept, Pairs, Untouched, NoCowsYet,
     LettersPairedOnce, NoCowMissed
<1> QED  BY <1>1, <1>2, <1>3, <1>4, <1>5, <1>6, <1>7, <1>8, <1>9 DEF Next

\* The bookkeeping holds of every run.
THEOREM Bookkeeping == Spec => []IInv
BY InitIInv, NextIInv, PTL DEF Spec

\* The counters, the tallies and the flags keep their types, for words of any
\* length (game_logic.c 132-177).
THEOREM CheckGuessTyped == Spec => []TypeOK
<1>1. IInv => TypeOK  BY DEF IInv
<1> QED  BY Bookkeeping, <1>1, PTL

\* A letter is paired at most once, in the guess and in the secret
\* (game_logic.c 143-176).
THEOREM PairedOnce == Spec => []LettersPairedOnce
<1>1. IInv => LettersPairedOnce  BY DEF IInv
<1> QED  BY Bookkeeping, <1>1, PTL

\* check_guess returns with no letter left to pair (game_logic.c 159-176).
THEOREM EveryCowCounted == Spec => []NoCowMissed
<1>1. IInv => NoCowMissed  BY DEF IInv
<1> QED  BY Bookkeeping, <1>1, PTL

\* Counting bulls decides equality: as many matching positions as letters
\* means that the words are equal (game_logic.c 198, server.c 281).
THEOREM WinningWord == Spec => []WonIffEqual
<1>1. IInv => WonIffEqual
  <2> SUFFICES ASSUME IInv, pc = "judged" PROVE (bulls = Len(secret)) <=> guess = secret
    BY DEF WonIffEqual, Won, is_word_guessed
  <2>1. /\ secret \in Seq(Chars) /\ guess \in Seq(Chars) /\ Len(secret) \in Nat
        /\ Len(guess) = Len(secret)
    BY WordsAssumption DEF IInv, TypeOK, SameLength
  <2>2. bulls = Cardinality(Matching(Len(secret)))  BY DEF IInv, BullsTallied
  <2>3. IsFiniteSet(1..Len(secret)) /\ Cardinality(1..Len(secret)) = Len(secret)
    <3>1. IsFiniteSet(1..Len(secret))  BY <2>1, FS_Interval
    <3>2. ASSUME NEW n \in Nat
          PROVE  Cardinality(1..n) = n
      <4>1. Cardinality(1..n) = IF 1 > n THEN 0 ELSE n - 1 + 1
        BY FS_Interval
      <4> QED  BY <4>1
    <3> QED  BY <2>1, <3>1, <3>2
  <2>4. Matching(Len(secret)) \subseteq 1..Len(secret)  BY DEF Matching
  <2>5. bulls = Len(secret) <=> Matching(Len(secret)) = 1..Len(secret)
    BY <2>2, <2>3, <2>4, FS_Subset
  <2>6. Matching(Len(secret)) = 1..Len(secret) <=> \A k \in 1..Len(secret) : secret[k] = guess[k]
    BY DEF Matching
  <2>7. (\A k \in 1..Len(secret) : secret[k] = guess[k]) <=> guess = secret
    BY <2>1
  <2> QED  BY <2>5, <2>6, <2>7
<1> QED  BY Bookkeeping, <1>1, PTL

-------------------------------------------------------------------------------
\* Both loops use a position of the guess together with one of the secret that has
\* the same letter.
LEMMA NextPaired == IInv /\ PairedWithItsLike /\ [Next]_vars => PairedWithItsLike'
<1> SUFFICES ASSUME IInv, PairedWithItsLike, [Next]_vars PROVE PairedWithItsLike'  OBVIOUS
<1>0. /\ IsFiniteSet(secret_used) /\ IsFiniteSet(guess_used)
      /\ secret \in Seq(Chars) /\ guess \in Seq(Chars)
      /\ Len(secret) \in Nat
  BY UsedFinite, WordsAssumption DEF IInv, TypeOK
<1>1. ASSUME NEW k, NEW m, k \notin guess_used, m \notin secret_used, guess[k] = secret[m],
             guess_used' = guess_used \cup {k}, secret_used' = secret_used \cup {m},
             UNCHANGED <<secret, guess>>
      PROVE  PairedWithItsLike'
  <2> SUFFICES ASSUME NEW c \in Chars
               PROVE  Cardinality(UsedOf(guess, guess_used \cup {k}, c))
                        = Cardinality(UsedOf(secret, secret_used \cup {m}, c))
    BY <1>1 DEF PairedWithItsLike
  <2>1. Cardinality(UsedOf(guess, guess_used, c)) = Cardinality(UsedOf(secret, secret_used, c))
    BY DEF PairedWithItsLike
  <2>2. Cardinality(UsedOf(guess, guess_used \cup {k}, c)) =
          IF guess[k] = c THEN Cardinality(UsedOf(guess, guess_used, c)) + 1
                          ELSE Cardinality(UsedOf(guess, guess_used, c))
    BY <1>0, <1>1, OneMoreUsed
  <2>3. Cardinality(UsedOf(secret, secret_used \cup {m}, c)) =
          IF secret[m] = c THEN Cardinality(UsedOf(secret, secret_used, c)) + 1
                           ELSE Cardinality(UsedOf(secret, secret_used, c))
    BY <1>0, <1>1, OneMoreUsed
  <2> QED  BY <1>1, <2>1, <2>2, <2>3
<1>2. CASE CountBull
  <2>1. i \notin secret_used /\ i \notin guess_used
    BY <1>0, <1>2 DEF CountBull, IInv, TypeOK, BullsTallied, Matching
  <2> QED  BY <1>1, <1>2, <2>1 DEF CountBull
<1>3. CASE CountCow
  BY <1>1, <1>3 DEF CountCow, Pairs
<1>4. ASSUME UNCHANGED <<secret, guess, secret_used, guess_used>> PROVE PairedWithItsLike'
  BY <1>4 DEF PairedWithItsLike, UsedOf
<1> QED
  BY <1>2, <1>3, <1>4
     DEF Next, vars, Validate, SkipBull, BullsDone, NextLetter, SkipCow, CowsDone

THEOREM LikePaired == Spec => []PairedWithItsLike
<1>1. Init => PairedWithItsLike
  BY DEF Init, PairedWithItsLike, UsedOf
<1> QED  BY <1>1, NextPaired, Bookkeeping, PTL DEF Spec

\* When the guess is judged, the positions used of a letter are as many as the two
\* words have of it in common: one of the words has no free position of it left.
LEMMA AllInCommonUsed ==
    ASSUME IInv, PairedWithItsLike, pc = "judged", NEW c \in Chars, NEW n \in Nat
    PROVE  n <= Occurrences(secret, c) /\ n <= Occurrences(guess, c)
             <=> n <= Cardinality(UsedOf(secret, secret_used, c))
<1> DEFINE Of(word) == {k \in DOMAIN word : word[k] = c}
           S == UsedOf(secret, secret_used, c)
           G == UsedOf(guess, guess_used, c)
<1>0. /\ secret \in Seq(Chars) /\ guess \in Seq(Chars) /\ Len(secret) \in Nat
      /\ DOMAIN secret = Positions /\ DOMAIN guess = Positions
      /\ secret_used \subseteq Positions /\ guess_used \subseteq Positions
  BY WordsAssumption DEF IInv, TypeOK, SameLength, Positions
<1>1. IsFiniteSet(Of(secret)) /\ IsFiniteSet(Of(guess))
  <2>1. IsFiniteSet(Positions)  BY <1>0, FS_Interval DEF Positions
  <2>2. Of(secret) \subseteq Positions /\ Of(guess) \subseteq Positions  BY <1>0
  <2> QED  BY <2>1, <2>2, FS_Subset
<1>2. S \subseteq Of(secret) /\ G \subseteq Of(guess)  BY <1>0 DEF UsedOf
<1>3. /\ Cardinality(S) <= Cardinality(Of(secret)) /\ Cardinality(G) <= Cardinality(Of(guess))
      /\ IsFiniteSet(S)
  BY <1>1, <1>2, FS_Subset
<1>4. Cardinality(S) = Cardinality(G)  BY DEF PairedWithItsLike
<1>5. S = Of(secret) \/ G = Of(guess)
  <2> SUFFICES ASSUME NEW m \in Of(secret) \ S, NEW k \in Of(guess) \ G PROVE FALSE
    BY <1>2
  <2>1. m \in Positions /\ m \notin secret_used /\ secret[m] = c  BY <1>0 DEF UsedOf
  <2>2. k \in Positions /\ k \notin guess_used /\ guess[k] = c  BY <1>0 DEF UsedOf
  <2> QED  BY <2>1, <2>2 DEF IInv, NoCowMissed, Pairs
<1>6. /\ Cardinality(S) \in Nat
      /\ Cardinality(Of(secret)) \in Nat /\ Cardinality(Of(guess)) \in Nat
  BY <1>1, <1>3, FS_CardinalityType
<1>7. Occurrences(secret, c) = Cardinality(Of(secret)) /\ Occurrences(guess, c) = Cardinality(Of(guess))
  BY DEF Occurrences
<1> HIDE DEF Of, S, G
<1>8. n <= Occurrences(secret, c) /\ n <= Occurrences(guess, c) <=> n <= Cardinality(S)
  BY <1>3, <1>4, <1>5, <1>6, <1>7
<1> QED  BY <1>8 DEF S

\* Numbering the used positions of each letter gives as many letters in common as
\* positions are used.
LEMMA AsManyAsUsed ==
    ASSUME IInv, PairedWithItsLike, pc = "judged"
    PROVE  Cardinality(Common) = Cardinality(secret_used)
<1> DEFINE S(c) == UsedOf(secret, secret_used, c)
           Count(c) == Cardinality(S(c))
           number == [c \in Chars |-> CHOOSE f : f \in Bijection(S(c), 1..Count(c))]
           token == [m \in secret_used |-> <<secret[m], number[secret[m]][m]>>]
<1>0. /\ secret \in Seq(Chars) /\ Len(secret) \in Nat /\ DOMAIN secret = Positions
      /\ secret_used \subseteq Positions /\ IsFiniteSet(secret_used)
  BY UsedFinite, WordsAssumption DEF IInv, TypeOK, Positions
<1>1. \A m \in secret_used : secret[m] \in Chars /\ m \in S(secret[m])
  BY <1>0 DEF UsedOf
<1>2. ASSUME NEW c \in Chars
      PROVE  Count(c) \in 0..Len(secret) /\ number[c] \in Bijection(S(c), 1..Count(c))
  <2>1. S(c) \subseteq Positions  BY <1>0 DEF UsedOf
  <2>2. IsFiniteSet(Positions) /\ Cardinality(Positions) <= Len(secret)
    <3>1. Cardinality(1..Len(secret)) = IF 1 > Len(secret) THEN 0 ELSE Len(secret) - 1 + 1
      BY <1>0, FS_Interval
    <3>2. IsFiniteSet(1..Len(secret))  BY <1>0, FS_Interval
    <3> QED  BY <1>0, <3>1, <3>2 DEF Positions
  <2>3. IsFiniteSet(S(c)) /\ Count(c) <= Cardinality(Positions)  BY <2>1, <2>2, FS_Subset
  <2>4. Count(c) \in Nat /\ ExistsBijection(1..Count(c), S(c))  BY <2>3, FS_CardinalityType
  <2>5. Cardinality(Positions) \in Nat  BY <2>2, FS_CardinalityType
  <2>6. ExistsBijection(S(c), 1..Count(c))  BY <2>4, Fun_ExistsBijSymmetric
  <2>7. \E f : f \in Bijection(S(c), 1..Count(c))  BY <2>6 DEF ExistsBijection
  <2> HIDE DEF S, Count
  <2>8. number[c] \in Bijection(S(c), 1..Count(c))  BY <2>7
  <2> QED  BY <1>0, <2>2, <2>3, <2>4, <2>5, <2>8
<1>3. ASSUME NEW c, NEW n
      PROVE  <<c, n>> \in Common <=> c \in Chars /\ n \in 1..Count(c)
  <2>1. CASE c \in Chars /\ n \in Nat
    <3>1. n <= Occurrences(secret, c) /\ n <= Occurrences(guess, c) <=> n <= Count(c)
      BY <2>1, AllInCommonUsed
    <3>2. <<c, n>> \in Common <=> n \in Positions /\ n <= Count(c)
      BY <2>1, <3>1 DEF Common
    <3> HIDE DEF Count
    <3> QED  BY <1>0, <1>2, <2>1, <3>2 DEF Positions
  <2>2. CASE ~(c \in Chars /\ n \in Nat)
    <3>1. <<c, n>> \notin Common  BY <1>0, <2>2 DEF Common, Positions
    <3> HIDE DEF Count
    <3> QED  BY <1>2, <2>2, <3>1
  <2> QED  BY <2>1, <2>2
<1>4. Common \subseteq Chars \X Nat  BY <1>0 DEF Common, Positions
<1> HIDE DEF number, Count
<1>5. \A m \in secret_used : token[m] = <<secret[m], number[secret[m]][m]>>  OBVIOUS
<1>6. \A m \in secret_used : number[secret[m]][m] \in 1..Count(secret[m])
  <2> SUFFICES ASSUME NEW m \in secret_used PROVE number[secret[m]][m] \in 1..Count(secret[m])
    OBVIOUS
  <2> DEFINE c == secret[m]
  <2>1. c \in Chars /\ m \in S(c)  BY <1>1
  <2> HIDE DEF c, S
  <2>2. number[c] \in Bijection(S(c), 1..Count(c))  BY <1>2, <2>1
  <2>3. number[c][m] \in 1..Count(c)  BY <2>1, <2>2 DEF Bijection, Injection, Surjection
  <2> QED  BY <2>3 DEF c
<1>7. token \in [secret_used -> Common]
  <2>1. \A m \in secret_used : token[m] \in Common  BY <1>1, <1>3, <1>5, <1>6
  <2> QED  BY <2>1
<1>8. ASSUME NEW k \in secret_used, NEW m \in secret_used, token[k] = token[m] PROVE k = m
  <2> DEFINE c == secret[m]
  <2>1. c = secret[k] /\ number[c][k] = number[c][m]  BY <1>5, <1>8
  <2>2. c \in Chars /\ k \in S(c) /\ m \in S(c)  BY <1>1, <2>1
  <2> HIDE DEF c, S
  <2>3. number[c] \in Bijection(S(c), 1..Count(c))  BY <1>2, <2>2
  <2> QED  BY <2>1, <2>2, <2>3 DEF Bijection, Injection, IsInjective
<1>9. ASSUME NEW t \in Common PROVE \E m \in secret_used : token[m] = t
  <2>1. PICK c \in Chars, n \in Nat : t = <<c, n>>  BY <1>4
  <2>2. n \in 1..Count(c)  BY <1>3, <2>1
  <2>3. number[c] \in Bijection(S(c), 1..Count(c))  BY <1>2
  <2>4. PICK m \in S(c) : number[c][m] = n
    <3> HIDE DEF S
    <3> QED  BY <2>2, <2>3 DEF Bijection, Surjection
  <2>5. m \in secret_used /\ secret[m] = c  BY <2>4 DEF UsedOf
  <2> QED  BY <1>5, <2>1, <2>4, <2>5
<1> HIDE DEF token
<1>10. token \in Bijection(secret_used, Common)
  BY <1>7, <1>8, <1>9 DEF Bijection, Injection, Surjection, IsInjective
<1>11. ExistsBijection(secret_used, Common)  BY <1>10 DEF ExistsBijection
<1> QED  BY <1>0, <1>11, FS_Bijection

\* The score of a judged guess is the rule of the game, for words of every length
\* over every alphabet (game_logic.c 132-177).
THEOREM ScoreByTheRule == Spec => []ScoreIsTheRule
<1>1. IInv /\ PairedWithItsLike => ScoreIsTheRule
  <2> SUFFICES ASSUME IInv, PairedWithItsLike, pc = "judged"
               PROVE  bulls = Matches /\ bulls + cows = Cardinality(Common)
    BY DEF ScoreIsTheRule
  <2>1. bulls = Matches  BY DEF IInv, BullsTallied, Matching, Matches, Positions
  <2>2. bulls + cows = Cardinality(secret_used)  BY DEF IInv, LettersPairedOnce
  <2> QED  BY <2>1, <2>2, AsManyAsUsed
<1> QED  BY Bookkeeping, LikePaired, <1>1, PTL
===============================================================================
