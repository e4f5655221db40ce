----------------------------- MODULE MCCheckGuess -----------------------------
(***************************************************************************)
(* CheckGuess over all words of up to MaxLen characters.                   *)
(***************************************************************************)
EXTENDS CheckGuess

MaxLen == 3
MCAlpha == {"a", "b"}
MCChars == MCAlpha \cup {"1"}
MCWords == UNION {[1..n -> MCChars] : n \in 0..MaxLen}
===============================================================================
