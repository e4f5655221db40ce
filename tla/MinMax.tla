------------------------------- MODULE MinMax --------------------------------
(***************************************************************************)
(* The second laboratory work (os_lab2/main.c, find_min_max.c): the least  *)
(* and the greatest element of an array, found by threads that each scan   *)
(* one chunk of it. The array stays as it was filled, so its content is    *)
(* chosen at the start.                                                    *)
(***************************************************************************)
EXTENDS Integers

CONSTANTS IntMin, IntMax,      \* the range of int
          MaxLen, MaxThreads   \* bounds on the two arguments of the program

ASSUME MinMaxAssumption ==
    /\ IntMin \in Int /\ IntMax \in Int /\ IntMin <= IntMax
    /\ MaxLen \in Nat /\ MaxThreads \in Nat

Ints == IntMin .. IntMax
Threads == 0 .. MaxThreads - 1

VARIABLES
    data, len, max_threads,
    mpc,               \* where the main thread is
    t, start,          \* its loop variables; t also of the second loop
    created, result,
    args,              \* the chunk of each thread
    wpc,               \* where each thread is
    worker             \* its i, and its minimum and maximum so far

arguments == <<data, len, max_threads>>
vars == <<arguments, mpc, t, start, created, result, args, wpc, worker>>

threads_count == IF max_threads > len THEN len ELSE max_threads

\* Mutant: rounded down.
ChunkRoundedDown == len \div threads_count
chunk == (len + threads_count - 1) \div threads_count

\* Mutant: the last chunk is not cut.
EndUncut == start + chunk
End == IF start + chunk > len THEN len ELSE start + chunk

Init ==
    /\ len \in 0 .. MaxLen
    /\ data \in [0 .. len - 1 -> Ints]
    /\ max_threads \in -1 .. MaxThreads
    /\ mpc = "arguments"
    /\ t = 0 /\ start = 0 /\ created = 0
    /\ result = [min |-> IntMax, max |-> IntMin]
    /\ args = [k \in Threads |-> [start |-> 0, end |-> 0]]
    /\ wpc = [k \in Threads |-> "none"]
    /\ worker = [k \in Threads |-> [i |-> 0, min |-> 0, max |-> 0]]

-------------------------------------------------------------------------------
(***************************************************************************)
(* The main thread.                                                        *)
(***************************************************************************)
Check ==
    /\ mpc = "arguments"
    /\ mpc' = IF len = 0 \/ max_threads <= 0 THEN "refused" ELSE "create"
    /\ UNCHANGED <<arguments, t, start, created, result, args, wpc, worker>>

\* One iteration of the first loop. The outcome of pthread_create is not looked at.
Create ==
    /\ mpc = "create" /\ t < threads_count /\ start < len
    /\ args' = [args EXCEPT ![t] = [start |-> start, end |-> End]]
    /\ \E outcome \in {"started", "failed"} : wpc' = [wpc EXCEPT ![t] = outcome]
    /\ created' = created + 1
    /\ t' = t + 1 /\ start' = start + chunk
    /\ UNCHANGED <<arguments, mpc, result, worker>>

AllCreated ==
    /\ mpc = "create" /\ ~(t < threads_count /\ start < len)
    /\ mpc' = "join" /\ t' = 0
    /\ UNCHANGED <<arguments, start, created, result, args, wpc, worker>>

\* One iteration of the second loop, from what a thread has left in partial[t].
Merge(partial) ==
    /\ result' = [min |-> IF partial.min < result.min THEN partial.min ELSE result.min,
                  max |-> IF partial.max > result.max THEN partial.max ELSE result.max]
    /\ t' = t + 1
    /\ UNCHANGED <<arguments, start, created, args, wpc, worker>>

\* Mutant: the main thread does not wait.
MergeAtOnce ==
    /\ mpc = "join" /\ t < created /\ wpc[t] # "failed"
    /\ Merge(worker[t]) /\ mpc' = mpc
Join ==
    /\ mpc = "join" /\ t < created /\ wpc[t] = "done"
    /\ Merge(worker[t]) /\ mpc' = mpc

\* The join of a thread that was never created: its handle and its partial result
\* are uninitialized.
JoinUnborn ==
    /\ mpc = "join" /\ t < created /\ wpc[t] = "failed"
    /\ \/ \E min, max \in Ints : Merge([min |-> min, max |-> max]) /\ mpc' = mpc
       \/ /\ mpc' = "crashed"
          /\ UNCHANGED <<arguments, t, start, created, result, args, wpc, worker>>

Return ==
    /\ mpc = "join" /\ t >= created
    /\ mpc' = "returned"
    /\ UNCHANGED <<arguments, t, start, created, result, args, wpc, worker>>

-------------------------------------------------------------------------------
(***************************************************************************)
(* Thread k, which runs until the program ends.                            *)
(***************************************************************************)
main == <<arguments, mpc, t, start, created, result, args>>

WorkerBegins(k) ==
    /\ wpc[k] = "started" /\ mpc # "crashed"
    /\ LET first == data[args[k].start]
       IN worker' = [worker EXCEPT ![k] = [i |-> args[k].start + 1, min |-> first, max |-> first]]
    /\ wpc' = [wpc EXCEPT ![k] = "loop"]
    /\ UNCHANGED main

WorkerScans(k) ==
    /\ wpc[k] = "loop" /\ worker[k].i < args[k].end /\ mpc # "crashed"
    /\ LET v == data[worker[k].i]
       IN worker' = [worker EXCEPT ![k] =
            [i |-> @.i + 1,
             min |-> IF v < @.min THEN v ELSE @.min,
             max |-> IF v > @.max THEN v ELSE @.max]]
    /\ UNCHANGED <<main, wpc>>

\* Mutant: the last element of the chunk is left out.
WorkerEndsEarly(k) ==
    /\ wpc[k] = "loop" /\ worker[k].i >= args[k].end - 1 /\ mpc # "crashed"
    /\ wpc' = [wpc EXCEPT ![k] = "done"]
    /\ UNCHANGED <<main, worker>>

\* The partial result is the two variables as the loop leaves them.
WorkerEnds(k) ==
    /\ wpc[k] = "loop" /\ worker[k].i >= args[k].end /\ mpc # "crashed"
    /\ wpc' = [wpc EXCEPT ![k] = "done"]
    /\ UNCHANGED <<main, worker>>

Next ==
    \/ Check \/ Create \/ AllCreated \/ Join \/ JoinUnborn \/ Return
    \/ \E k \in Threads : WorkerBegins(k) \/ WorkerScans(k) \/ WorkerEnds(k)

Spec == Init /\ [][Next]_vars

-------------------------------------------------------------------------------
\* The ranges of the variables; a chunk lies within the array, and the loops stay
\* within the arrays of threads.
TypeOK ==
    /\ len \in 0 .. MaxLen /\ data \in [0 .. len - 1 -> Ints]
    /\ max_threads \in -1 .. MaxThreads
    /\ mpc \in {"arguments", "refused", "create", "join", "returned", "crashed"}
    /\ t \in 0 .. MaxThreads /\ created \in 0 .. MaxThreads /\ start \in Nat
    /\ result \in [min : Ints, max : Ints]
    /\ args \in [Threads -> [start : 0 .. len, end : 0 .. len]]
    /\ wpc \in [Threads -> {"none", "started", "failed", "loop", "done"}]
    /\ worker \in [Threads -> [i : Nat, min : Int, max : Int]]

\* The chunks handed out cover the array and do not overlap, whatever its length and
\* the number of threads (find_min_max.c 41-55).
InChunk(j, k) == args[k].start <= j /\ j < args[k].end

ChunksPartitionTheArray ==
    mpc \in {"join", "returned"} =>
      \A j \in 0 .. len - 1 :
        \E k \in 0 .. created - 1 :
          InChunk(j, k) /\ \A l \in 0 .. created - 1 : InChunk(j, l) => l = k

\* min and max are the least and the greatest of the elements from lo to hi - 1.
Extremes(lo, hi, min, max) ==
    /\ \E j \in lo .. hi - 1 : data[j] = min
    /\ \E j \in lo .. hi - 1 : data[j] = max
    /\ \A j \in lo .. hi - 1 : min <= data[j] /\ data[j] <= max

\* What the program prints is the minimum and the maximum of the array, if every
\* thread could be created (find_min_max.c 30-64).
MinMaxFound ==
    mpc = "returned" /\ (\A k \in Threads : wpc[k] # "failed") =>
        Extremes(0, len, result.min, result.max)

\* No thread runs on when the function has returned and taken away the arrays that
\* the threads read and write (find_min_max.c 37-39, 57-63).
NoThreadOutlivesItsArguments ==
    mpc = "returned" => \A k \in Threads : wpc[k] \in {"none", "failed", "done"}
===============================================================================
