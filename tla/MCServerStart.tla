---------------------------- MODULE MCServerStart ----------------------------
(***************************************************************************)
(* ServerStart with an empty dictionary, one without a word, and one that  *)
(* has a blank line, a word that is too long and more words than there is  *)
(* room for.                                                               *)
(***************************************************************************)
EXTENDS ServerStart

Line(n, letters) == [length |-> n, letters |-> letters]
MCFiles == {<<>>,
            <<Line(0, TRUE), Line(2, FALSE)>>,
            <<Line(0, TRUE), Line(9, TRUE), Line(1, TRUE), Line(2, TRUE)>>}
===============================================================================
