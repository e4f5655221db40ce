------------------------------ MODULE Programs ------------------------------
(***************************************************************************)
(* The two programs of the fourth laboratory work: program 1 is linked     *)
(* with the first library, program 2 loads one of the two while it runs    *)
(* and changes it at the command 0 (program1/main.c, program2/main.c).     *)
(* They call SinIntegral() and translation() of the modules below, one at  *)
(* a time. What the user types is any command with any arguments.          *)
(***************************************************************************)
EXTENDS Translation, SinIntegral

CONSTANT Failures    \* how a library may fail to load
Kinds == {"no_file", "no_SinIntegral", "no_translation", "NULL_symbol"}
ASSUME FailuresAssumption == Failures \subseteq Kinds

VARIABLES
    program,    \* 1 or 2
    pc,         \* "start", "prompt" (or in a call), "ended", "crashed"
    lib         \* LibraryFunctions; a pointer is the library it leads into

vars == <<program, pc, lib, tvars, svars>>

NULL == 0
Libraries == {1, 2}
Pointers == Libraries \cup {NULL}

Closed == [lib EXCEPT !.handle = NULL, !.SinIntegral = NULL, !.translation = NULL]

InCall == spc # "idle" \/ tpc # "idle"
AtPrompt == pc = "prompt" /\ ~ InCall

Init ==
    /\ Idle /\ SIdle
    /\ \/ /\ program = 1 /\ pc = "prompt"
          /\ lib = [handle |-> 1, SinIntegral |-> 1, translation |-> 1, impl_number |-> 1]
       \/ /\ program = 2 /\ pc = "start"
          /\ lib = [handle |-> NULL, SinIntegral |-> NULL, translation |-> NULL, impl_number |-> 1]

\* What each failure of load_library() leaves of the pointers; a symbol that
\* is NULL leaves the pointer of the other one.
Left(failure, pointers, k) ==
    CASE failure = "no_file" -> {pointers}
      [] failure = "no_SinIntegral" -> {[pointers EXCEPT !.SinIntegral = NULL]}
      [] failure = "no_translation" -> {[pointers EXCEPT !.SinIntegral = NULL, !.translation = NULL]}
      [] failure = "NULL_symbol" -> {[pointers EXCEPT !.SinIntegral = p[1], !.translation = p[2]] :
                                        p \in ({NULL, k} \X {NULL, k}) \ {<<k, k>>}}

\* The library that was loaded is closed, and its pointers are forgotten,
\* before anything is tried.
\* Mutant: they are not forgotten.
UnloadedKept(k) == UNION {Left(f, [lib EXCEPT !.handle = NULL], k) : f \in Failures}
Unloaded(k) == UNION {Left(f, IF lib.handle # NULL THEN Closed ELSE lib, k) : f \in Failures}

Loaded(k) == [lib EXCEPT !.handle = k, !.SinIntegral = k, !.translation = k]

\* Program 2 begins with the first library, or gives up.
Start ==
    /\ pc = "start"
    /\ \/ lib' = [Loaded(1) EXCEPT !.impl_number = 1] /\ pc' = "prompt"
       \/ lib' \in Unloaded(1) /\ pc' = "ended"
    /\ UNCHANGED <<program, tvars, svars>>

\* The command 0. The number changes only when the other library is there;
\* program 1 answers that it cannot.
Switch ==
    /\ AtPrompt
    /\ LET other == 3 - lib.impl_number
       IN  \/ program = 2 /\ lib' = [Loaded(other) EXCEPT !.impl_number = other]
           \/ program = 2 /\ lib' \in Unloaded(other)
           \/ program = 1 /\ UNCHANGED lib
    /\ UNCHANGED <<program, pc, tvars, svars>>

\* An empty line, an unknown command, arguments that are refused or cannot be
\* read, a library that is not loaded: a message at most.
Refuse == AtPrompt /\ UNCHANGED vars

\* The command 1 A B e. A pointer into a closed library crashes the program.
Integral(a, b, s) ==
    /\ AtPrompt
    /\ lib.SinIntegral # NULL
    /\ a < b /\ s > 0
    /\ IF lib.handle = NULL THEN pc' = "crashed" /\ UNCHANGED svars
                            ELSE Enter(a, b, s) /\ UNCHANGED pc
    /\ UNCHANGED <<program, lib, tvars>>

\* The command 2 x; library k has base k + 1.
Number(n) ==
    /\ AtPrompt
    /\ lib.translation # NULL
    /\ IF lib.handle = NULL THEN pc' = "crashed" /\ UNCHANGED tvars
                            ELSE Call(lib.translation + 1, n) /\ UNCHANGED pc
    /\ UNCHANGED <<program, lib, svars>>

\* A step of the function that was called, or its result is printed.
InIntegral == (Iterate \/ Leave) /\ UNCHANGED <<program, pc, lib, tvars>>
InNumber == (Compute \/ Free) /\ UNCHANGED <<program, pc, lib, svars>>

\* exit, quit or the end of the input, with unload_library() in program 2.
Quit ==
    /\ AtPrompt
    /\ pc' = "ended"
    /\ lib' = IF program = 2 /\ lib.handle # NULL THEN Closed ELSE lib
    /\ UNCHANGED <<program, tvars, svars>>

Next ==
    \/ Start \/ Switch \/ Refuse \/ Quit
    \/ \E a, b, s \in Floats : Integral(a, b, s)
    \/ \E n \in Longs : Number(n)
    \/ InIntegral \/ InNumber

Spec == Init /\ [][Next]_vars

\* A call that was made is computed; the user need not type anything.
FairSpec == Spec /\ WF_vars(InIntegral) /\ WF_vars(InNumber)

-------------------------------------------------------------------------------
TypeOK ==
    /\ TTypeOK /\ STypeOK
    /\ program \in {1, 2} /\ pc \in {"start", "prompt", "ended", "crashed"}
    /\ lib \in [handle : Pointers, SinIntegral : Pointers, translation : Pointers, impl_number : Libraries]

\* While a library is loaded both pointers lead into it, and it is the one the
\* user was told of, whatever failed before; so every answer is in the announced
\* base. When none is loaded, at most one pointer is left behind, which takes a
\* NULL symbol (main.c 16-78).
PointersLeadIntoTheLibrary ==
    /\ lib.handle # NULL =>
         lib.SinIntegral = lib.handle /\ lib.translation = lib.handle /\ lib.handle = lib.impl_number
    /\ tpc # "idle" => base = lib.impl_number + 1
    /\ lib.handle = NULL => lib.SinIntegral = NULL \/ lib.translation = NULL
    /\ lib.handle = NULL /\ "NULL_symbol" \notin Failures =>
         lib.SinIntegral = NULL /\ lib.translation = NULL

\* Every call comes back to the prompt, and an integral has then reached the end
\* of its interval: unless its step is lost in the rounding of its variable, when
\* it never returns (translation.c 21-47, sin_integral.c 13-20).
CallsReturn ==
    /\ tpc # "idle" ~> AtPrompt
    /\ spc = "loop" ~> EndsAtB \/ StepIsLost
===============================================================================
