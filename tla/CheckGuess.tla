------------------------------ MODULE CheckGuess ------------------------------
(***************************************************************************)
(* How one guess is judged: the sequence validate_guess, check_guess,      *)
(* is_word_guessed that handle_client_guess runs (game_logic.c 132-200,    *)
(* called at server.c 268-281).                                            *)
(*                                                                         *)
(* check_guess keeps two arrays of flags and two loops.  Here an array of  *)
(* flags is the set of the positions whose flag is 1, positions count from *)
(* 1, and every iteration of a loop is one step.                           *)
(***************************************************************************)
EXTENDS Integers, Sequences, FiniteSets

CONSTANTS
    Chars,     \* the characters a word may hold
    Alpha,     \* those for which isalpha() is true
    Words      \* the words compared: secrets and guesses

ASSUME CharsAssumption == Alpha \subseteq Chars
ASSUME WordsAssumption == Words \subseteq Seq(Chars)

VARIABLES
    secret, guess,
    bulls, cows,      \* the two results of check_guess
    secret_used,      \* positions of the secret already paired
    guess_used,       \* positions of the guess already paired
    i, j,             \* the loop counters
    pc                \* where the call is

vars == <<secret, guess, bulls, cows, secret_used, guess_used, i, j, pc>>

validate_guess(g, s) ==
    /\ Len(g) = Len(s)
    /\ \A k \in 1..Len(g) : g[k] \in Alpha

\* (mutant: one bull short counts as a win)
is_word_guessed_early(b, length) == b >= length - 1
is_word_guessed(b, length) == b = length

Positions == 1..Len(secret)

Init ==
    /\ secret \in Words
    /\ guess \in Words
    /\ bulls = 0 /\ cows = 0
    /\ secret_used = {} /\ guess_used = {}
    /\ i = 1 /\ j = 1
    /\ pc = "validate"

\* handle_client_guess asks validate_guess first: a guess of another length or
\* with a character that is no letter never reaches check_guess.
Validate ==
    /\ pc = "validate"
    /\ pc' = IF validate_guess(guess, secret) THEN "bulls" ELSE "rejected"
    /\ UNCHANGED <<secret, guess, bulls, cows, secret_used, guess_used, i, j>>

\* One iteration of the first loop: the same letter in the same place.
CountBull ==
    /\ pc = "bulls" /\ i <= Len(secret)
    /\ secret[i] = guess[i]
    /\ bulls' = bulls + 1
    /\ secret_used' = secret_used \cup {i}
    /\ guess_used' = guess_used \cup {i}
    /\ i' = i + 1
    /\ UNCHANGED <<secret, guess, cows, j, pc>>

\* (mutant: the counter moves twice)
SkipBullTwice ==
    /\ pc = "bulls" /\ i <= Len(secret)
    /\ secret[i] # guess[i]
    /\ i' = i + 2
    /\ UNCHANGED <<secret, guess, bulls, cows, secret_used, guess_used, j, pc>>

SkipBull ==
    /\ pc = "bulls" /\ i <= Len(secret)
    /\ secret[i] # guess[i]
    /\ i' = i + 1
    /\ UNCHANGED <<secret, guess, bulls, cows, secret_used, guess_used, j, pc>>

BullsDone ==
    /\ pc = "bulls" /\ i > Len(secret)
    /\ i' = 1 /\ j' = 1
    /\ pc' = "cows"
    /\ UNCHANGED <<secret, guess, bulls, cows, secret_used, guess_used>>

\* The positions still free: the inner loop may pair letter i with letter j.
\* (mutant: the letters of the secret are not checked for use)
PairsUsed(k, m) == k \notin guess_used /\ secret[m] = guess[k]
Pairs(k, m) == k \notin guess_used /\ m \notin secret_used /\ secret[m] = guess[k]

\* The second loop reaches a letter of the guess that is paired already, or
\* has run its inner loop to the end without a partner.
NextLetter ==
    /\ pc = "cows" /\ i <= Len(guess)
    /\ i \in guess_used \/ j > Len(secret)
    /\ i' = i + 1 /\ j' = 1
    /\ UNCHANGED <<secret, guess, bulls, cows, secret_used, guess_used, pc>>

\* The inner loop finds a partner and breaks.
CountCow ==
    /\ pc = "cows" /\ i <= Len(guess) /\ j <= Len(secret)
    /\ Pairs(i, j)
    /\ cows' = cows + 1
    /\ secret_used' = secret_used \cup {j}
    /\ guess_used' = guess_used \cup {i}
    /\ i' = i + 1 /\ j' = 1
    /\ UNCHANGED <<secret, guess, bulls, pc>>

\* The inner loop passes a letter of the secret that is used or differs.
\* (mutant: the inner loop stays where it is)
SkipCowStuck ==
    /\ pc = "cows" /\ i <= Len(guess) /\ j <= Len(secret)
    /\ i \notin guess_used /\ ~Pairs(i, j)
    /\ UNCHANGED vars

SkipCow ==
    /\ pc = "cows" /\ i <= Len(guess) /\ j <= Len(secret)
    /\ i \notin guess_used /\ ~Pairs(i, j)
    /\ j' = j + 1
    /\ UNCHANGED <<secret, guess, bulls, cows, secret_used, guess_used, i, pc>>

CowsDone ==
    /\ pc = "cows" /\ i > Len(guess)
    /\ pc' = "judged"
    /\ UNCHANGED <<secret, guess, bulls, cows, secret_used, guess_used, i, j>>

Next == \/ Validate
        \/ CountBull \/ SkipBull \/ BullsDone
        \/ NextLetter \/ CountCow \/ SkipCow \/ CowsDone

Spec == Init /\ [][Next]_vars /\ WF_vars(Next)

-------------------------------------------------------------------------------
TypeOK ==
    /\ secret \in Words /\ guess \in Words
    /\ bulls \in Nat /\ cows \in Nat
    /\ secret_used \subseteq Positions /\ guess_used \subseteq Positions
    /\ i \in 1..(Len(secret) + 1) /\ j \in 1..(Len(secret) + 1)
    /\ pc \in {"validate", "rejected", "bulls", "cows", "judged"}

\* Whether the judged guess is announced as a win.
Won == pc = "judged" /\ is_word_guessed(bulls, Len(secret))

\* The game is won exactly by guessing the secret: is_word_guessed looks only
\* at a count and a length, after two loops over flags (game_logic.c 151-157,
\* 198; server.c 281).
WonIffEqual == pc = "judged" => (Won <=> guess = secret)

\* A letter is used only once: as many positions are paired in the guess as in
\* the secret, and the tally never exceeds them (the report's promise that a
\* letter counts once; game_logic.c 143-176).
LettersPairedOnce ==
    /\ Cardinality(secret_used) = bulls + cows
    /\ Cardinality(guess_used) = bulls + cows

\* No cow is missed: when check_guess returns, no free letter of the guess
\* equals a free letter of the secret (the break at game_logic.c 173 must not
\* leave a letter behind).
NoCowMissed ==
    pc = "judged" => \A k, m \in Positions : ~Pairs(k, m)

Occurrences(word, c) == Cardinality({k \in DOMAIN word : word[k] = c})

Matches == Cardinality({k \in Positions : secret[k] = guess[k]})

\* The letters that both words have, each as often as it occurs in both.
Common == {cn \in Chars \X Positions :
              cn[2] <= Occurrences(secret, cn[1]) /\ cn[2] <= Occurrences(guess, cn[1])}

\* The score of a judged guess is the rule of the game: bulls are the matching
\* positions, bulls and cows together the letters the two words have in common,
\* each counted as often as it occurs in both (game_logic.c 132-177).
ScoreIsTheRule ==
    pc = "judged" => bulls = Matches /\ bulls + cows = Cardinality(Common)

\* The loops end (game_logic.c 151-176).
Judged == <>(pc \in {"judged", "rejected"})
===============================================================================
