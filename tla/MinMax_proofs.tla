---------------------------- MODULE MinMax_proofs -----------------------------
(***************************************************************************)
(* MinMax for arrays of every length, every range of int and every number  *)
(* of threads: the types, the partition of the array, the result, and that *)
(* no thread outlives what it points to.                                   *)
(***************************************************************************)
EXTENDS MinMax, TLAPS

Running == mpc \in {"create", "join", "returned", "crashed"}
Created == 0 .. created - 1
AllBorn == \A k \in Threads : wpc[k] # "failed"

\* The loop of creations: how far it is, and when it ends.
Counting ==
    /\ mpc \in {"arguments", "refused"} => created = 0 /\ t = 0 /\ start = 0
    /\ Running => len > 0 /\ max_threads > 0
    /\ mpc = "create" => created = t /\ t <= threads_count /\ start = t * chunk
    /\ mpc \in {"join", "returned", "crashed"} => t <= created /\ start >= len
    /\ mpc = "returned" => t = created
    /\ \A k \in Threads : wpc[k] = "none" <=> k >= created

\* The chunks handed out so far: each one is not empty, they follow one another, and
\* together they are the array up to start.
Chunks ==
    /\ \A k \in Created : args[k].start < args[k].end /\ args[k].end <= start
    /\ \A k, l \in Created : k < l => args[k].end <= args[l].start
    /\ \A j \in 0 .. len - 1 : j < start => \E k \in Created : InChunk(j, k)

\* What a thread knows of the part of its chunk that it has scanned.
Scanned ==
    \A k \in Threads : wpc[k] \in {"loop", "done"} =>
        /\ args[k].start < worker[k].i /\ worker[k].i <= args[k].end
        /\ wpc[k] = "done" => worker[k].i = args[k].end
        /\ Extremes(args[k].start, worker[k].i, worker[k].min, worker[k].max)

\* What the main thread knows of the chunks that it has joined.
Joined ==
    /\ mpc # "crashed" /\ (mpc \in {"join", "returned"} => t = 0) =>
          result = [min |-> IntMax, max |-> IntMin]
    /\ mpc \in {"join", "returned"} => \A k \in 0 .. t - 1 : wpc[k] \in {"failed", "done"}
    /\ mpc \in {"join", "returned"} /\ AllBorn =>
          /\ \A k \in 0 .. t - 1 : \A j \in args[k].start .. args[k].end - 1 :
                result.min <= data[j] /\ data[j] <= result.max
          /\ t > 0 => /\ \E j \in 0 .. len - 1 : data[j] = result.min
                      /\ \E j \in 0 .. len - 1 : data[j] = result.max

IInv == TypeOK /\ Counting /\ Chunks /\ Scanned /\ Joined

-------------------------------------------------------------------------------
\* Rounding up: c chunks of this size are enough for n elements.
LEMMA RoundedUp ==
    ASSUME NEW n \in Nat, NEW c \in Nat, n > 0, c > 0
    PROVE  /\ (n + c - 1) \div c \in Nat
           /\ (n + c - 1) \div c > 0
           /\ c * ((n + c - 1) \div c) >= n
<1> DEFINE q == (n + c - 1) \div c
           r == (n + c - 1) % c
<1>1. q \in Int /\ r \in Int /\ 0 <= r /\ r < c /\ n + c - 1 = c * q + r  OBVIOUS
<1>2. c * q >= n  BY <1>1
<1>3. q > 0
  <2> SUFFICES ASSUME q <= 0 PROVE FALSE  BY <1>1
  <2>1. c * q <= 0  BY <1>1
  <2> QED  BY <1>2, <2>1
<1> QED  BY <1>1, <1>2, <1>3

\* One step more of the first loop.
LEMMA NextMultiple ==
    ASSUME NEW k \in Nat, NEW c \in Nat
    PROVE  (k + 1) * c = k * c + c
OBVIOUS

\* The number of threads and their share, once the arguments are accepted.
LEMMA Shares ==
    ASSUME TypeOK, Counting, mpc = "create"
    PROVE  /\ threads_count \in Nat /\ threads_count > 0 /\ threads_count <= MaxThreads
           /\ chunk \in Nat /\ chunk > 0
           /\ threads_count * chunk >= len
<1>1. len \in Nat /\ len > 0 /\ max_threads \in Nat /\ max_threads > 0 /\ max_threads <= MaxThreads
  BY MinMaxAssumption DEF TypeOK, Counting, Running
<1>2. threads_count \in Nat /\ threads_count > 0 /\ threads_count <= MaxThreads
  BY <1>1, MinMaxAssumption DEF threads_count
<1> QED  BY <1>1, <1>2, RoundedUp DEF chunk

LEMMA InitIInv == Init => IInv
<1> SUFFICES ASSUME Init PROVE IInv  OBVIOUS
<1> USE MinMaxAssumption
<1>1. TypeOK  BY DEF Init, TypeOK, Ints, Threads
<1>2. Counting  BY DEF Init, Counting, Running, Threads
<1>3. Chunks  BY DEF Init, Chunks, Created
<1>4. Scanned  BY DEF Init, Scanned
<1>5. Joined  BY DEF Init, Joined
<1> QED  BY <1>1, <1>2, <1>3, <1>4, <1>5 DEF IInv

-------------------------------------------------------------------------------
(***************************************************************************)
(* The steps of the main thread.                                           *)
(***************************************************************************)
LEMMA CheckIInv == IInv /\ Check => IInv'
<1> SUFFICES ASSUME IInv, Check PROVE IInv'  OBVIOUS
<1> USE MinMaxAssumption DEF IInv, Check, arguments
<1>1. TypeOK'  BY DEF TypeOK
<1>2. Counting'
  <2>1. len \in Nat /\ max_threads \in Int  BY DEF TypeOK
  <2>2. threads_count' = threads_count /\ chunk' = chunk  BY DEF threads_count, chunk
  <2>3. mpc' = "create" => threads_count \in Nat /\ threads_count > 0  BY <2>1 DEF threads_count
  <2>4. mpc' = "create" => chunk \in Int  BY <2>1, <2>3 DEF chunk
  <2> QED  BY <2>1, <2>2, <2>3, <2>4 DEF Counting, Running, TypeOK
<1>3. Chunks'  BY DEF Chunks, Created, InChunk
<1>4. Scanned'  BY DEF Scanned, Extremes
<1>5. Joined'  BY DEF Joined, AllBorn
<1> QED  BY <1>1, <1>2, <1>3, <1>4, <1>5

LEMMA CreateIInv == IInv /\ Create => IInv'
<1> SUFFICES ASSUME IInv, Create PROVE IInv'  OBVIOUS
<1> USE MinMaxAssumption
<1>1. /\ threads_count \in Nat /\ threads_count > 0 /\ threads_count <= MaxThreads
      /\ chunk \in Nat /\ chunk > 0
  BY Shares DEF IInv, Create
<1>2. /\ t \in Nat /\ t < threads_count /\ t \in Threads /\ created = t
      /\ start \in Nat /\ start < len /\ start = t * chunk /\ len \in Nat
  BY <1>1 DEF IInv, Create, TypeOK, Counting, Threads
<1>3. End \in Nat /\ start < End /\ End <= len /\ End <= start + chunk
  BY <1>1, <1>2 DEF End
<1>4. /\ args' = [args EXCEPT ![t] = [start |-> start, end |-> End]]
      /\ created' = t + 1 /\ t' = t + 1 /\ start' = start + chunk
      /\ UNCHANGED <<len, data, max_threads, mpc, result, worker>>
      /\ mpc = "create"
  BY <1>2 DEF Create, arguments
<1>5. /\ wpc' \in [Threads -> {"none", "started", "failed", "loop", "done"}]
      /\ wpc'[t] \in {"started", "failed"}
      /\ \A k \in Threads : k # t => wpc'[k] = wpc[k]
  BY <1>2 DEF Create, IInv, TypeOK
<1>6. /\ args' \in [Threads -> [start : 0 .. len, end : 0 .. len]]
      /\ args'[t].start = start /\ args'[t].end = End
      /\ \A k \in Threads : k # t => args'[k] = args[k]
  BY <1>2, <1>3, <1>4 DEF IInv, TypeOK
<1>7. TypeOK'
  <2>1. t + 1 \in 0 .. MaxThreads /\ start + chunk \in Nat  BY <1>1, <1>2
  <2> QED  BY <1>4, <1>5, <1>6, <2>1 DEF IInv, TypeOK
<1>8. Counting'
  <2>1. threads_count' = threads_count /\ chunk' = chunk  BY <1>4 DEF threads_count, chunk
  <2>2. start' = (t + 1) * chunk  BY <1>1, <1>2, <1>4, NextMultiple
  <2>3. \A k \in Threads : wpc'[k] = "none" <=> k >= created'
    BY <1>2, <1>4, <1>5 DEF IInv, Counting, Threads
  <2> QED  BY <1>1, <1>2, <1>4, <2>1, <2>2, <2>3 DEF IInv, Counting, Running
<1>9. Chunks'
  <2>1. /\ Created' = 0 .. t /\ t \in Created' /\ Created \subseteq Threads
        /\ \A k \in Created' : k \in Created \/ k = t
        /\ \A k \in Created : k # t /\ k < t /\ k \in Created'
    BY <1>2, <1>4 DEF Created, Threads
  <2>2. \A k \in Created : args'[k] = args[k] /\ args[k].start \in Nat /\ args[k].end \in Nat
    BY <1>6, <2>1 DEF IInv, TypeOK
  <2>3. \A k \in Created' : args'[k].start < args'[k].end /\ args'[k].end <= start'
    BY <1>1, <1>2, <1>3, <1>4, <1>6, <2>1, <2>2 DEF IInv, Chunks
  <2>4. ASSUME NEW k \in Created', NEW l \in Created', k < l
        PROVE  args'[k].end <= args'[l].start
    <3>1. k \in Created  BY <1>2, <2>1, <2>4 DEF Created
    <3>2. CASE l \in Created
      <4>1. args[k].end <= args[l].start  BY <2>4, <3>1, <3>2 DEF IInv, Chunks
      <4> QED  BY <2>2, <3>1, <3>2, <4>1
    <3>3. CASE l = t
      <4>1. args[k].end <= start  BY <3>1 DEF IInv, Chunks
      <4> QED  BY <1>6, <2>2, <3>1, <3>3, <4>1
    <3> QED  BY <2>1, <3>2, <3>3
  <2>5. ASSUME NEW j \in 0 .. len - 1, j < start'
        PROVE  \E k \in Created' : args'[k].start <= j /\ j < args'[k].end
    <3>1. CASE j < start
      <4>1. PICK k \in Created : InChunk(j, k)  BY <3>1 DEF IInv, Chunks
      <4>2. args'[k].start <= j /\ j < args'[k].end  BY <4>1, <2>2 DEF InChunk
      <4> QED  BY <4>2, <2>1
    <3>2. CASE ~(j < start)
      <4>1. start <= j /\ j < End  BY <1>1, <1>2, <1>4, <2>5, <3>2 DEF End
      <4> QED  BY <1>6, <2>1, <4>1
    <3> QED  BY <3>1, <3>2
  <2>6. \A j \in 0 .. len - 1 : j < start' => \E k \in Created' : InChunk(j, k)'
    BY <2>5 DEF InChunk
  <2> QED  BY <1>4, <2>3, <2>4, <2>6 DEF Chunks
<1>10. Scanned'
  <2> SUFFICES ASSUME NEW k \in Threads, wpc'[k] \in {"loop", "done"}
               PROVE  /\ args'[k].start < worker'[k].i /\ worker'[k].i <= args'[k].end
                      /\ wpc'[k] = "done" => worker'[k].i = args'[k].end
                      /\ Extremes(args[k].start, worker[k].i, worker[k].min, worker[k].max)'
    BY DEF Scanned
  <2>1. k # t /\ wpc'[k] = wpc[k] /\ args'[k] = args[k]  BY <1>5, <1>6
  <2> QED  BY <1>4, <2>1 DEF IInv, Scanned, Extremes
<1>11. Joined'  BY <1>4 DEF IInv, Joined
<1> QED  BY <1>7, <1>8, <1>9, <1>10, <1>11 DEF IInv

LEMMA AllCreatedIInv == IInv /\ AllCreated => IInv'
<1> SUFFICES ASSUME IInv, AllCreated PROVE IInv'  OBVIOUS
<1> USE MinMaxAssumption
<1>1. /\ threads_count \in Nat /\ chunk \in Nat /\ threads_count * chunk >= len
  BY Shares DEF IInv, AllCreated
<1>2. start >= len
  <2>1. t \in Nat /\ start \in Nat /\ len \in Nat  BY DEF IInv, TypeOK
  <2>2. t <= threads_count /\ start = t * chunk  BY DEF IInv, AllCreated, Counting
  <2>3. CASE t < threads_count  BY <2>1, <2>3 DEF AllCreated
  <2>4. CASE ~(t < threads_count)
    <3>1. t = threads_count  BY <1>1, <2>1, <2>2, <2>4
    <3> QED  BY <1>1, <2>2, <3>1
  <2> QED  BY <2>3, <2>4
<1>3. TypeOK'  BY DEF IInv, AllCreated, TypeOK, arguments
<1>4. Counting'  BY <1>2 DEF IInv, AllCreated, Counting, TypeOK, arguments, Running
<1>5. Chunks'  BY DEF IInv, AllCreated, Chunks, Created, InChunk, arguments
<1>6. Scanned'  BY DEF IInv, AllCreated, Scanned, Extremes, arguments
<1>7. Joined'  BY DEF IInv, AllCreated, Joined, AllBorn, arguments
<1> QED  BY <1>3, <1>4, <1>5, <1>6, <1>7 DEF IInv

\* What a thread has found is in the range of int.
LEMMA PartialInRange ==
    ASSUME IInv, NEW k \in Threads, wpc[k] \in {"loop", "done"}
    PROVE  worker[k].min \in Ints /\ worker[k].max \in Ints
<1>1. args[k].start \in 0 .. len /\ args[k].end \in 0 .. len /\ worker[k].i \in Nat
  BY DEF IInv, TypeOK
<1>2. worker[k].i <= args[k].end /\ Extremes(args[k].start, worker[k].i, worker[k].min, worker[k].max)
  BY DEF IInv, Scanned
<1>3. \A j \in args[k].start .. worker[k].i - 1 : j \in 0 .. len - 1 /\ data[j] \in Ints
  BY <1>1, <1>2, MinMaxAssumption DEF IInv, TypeOK
<1> QED  BY <1>2, <1>3 DEF Extremes

LEMMA ReturnIInv == IInv /\ Return => IInv'
<1> SUFFICES ASSUME IInv, Return PROVE IInv'  OBVIOUS
<1>1. TypeOK'  BY DEF IInv, Return, TypeOK, arguments
<1>2. Counting'  BY DEF IInv, Return, Counting, TypeOK, arguments, Running
<1>3. Chunks'  BY DEF IInv, Return, Chunks, Created, InChunk, arguments
<1>4. Scanned'  BY DEF IInv, Return, Scanned, Extremes, arguments
<1>5. Joined'  BY DEF IInv, Return, Joined, AllBorn, arguments
<1> QED  BY <1>1, <1>2, <1>3, <1>4, <1>5 DEF IInv

\* A merge changes nothing that the other parts of the invariant speak of.
LEMMA MergeIInv ==
    ASSUME IInv, mpc = "join", t < created, mpc' = mpc,
           NEW partial, partial.min \in Ints, partial.max \in Ints, Merge(partial)
    PROVE  TypeOK' /\ Counting' /\ Chunks' /\ Scanned'
<1> USE MinMaxAssumption
<1>1. TypeOK'  BY DEF IInv, Merge, TypeOK, arguments, Ints
<1>2. Counting'  BY DEF IInv, Merge, Counting, TypeOK, arguments, Running
<1>3. Chunks'  BY DEF IInv, Merge, Chunks, Created, InChunk, arguments
<1>4. Scanned'  BY DEF IInv, Merge, Scanned, Extremes, arguments
<1> QED  BY <1>1, <1>2, <1>3, <1>4

LEMMA JoinIInv == IInv /\ Join => IInv'
<1> SUFFICES ASSUME IInv, Join PROVE IInv'  OBVIOUS
<1> USE MinMaxAssumption
<1>1. /\ t \in Threads /\ t \in Nat /\ wpc[t] = "done" /\ mpc = "join" /\ mpc' = "join"
      /\ t' = t + 1 /\ Merge(worker[t]) /\ t < created
  BY DEF IInv, TypeOK, Join, Merge, Threads
<1>2. worker[t].min \in Ints /\ worker[t].max \in Ints  BY <1>1, PartialInRange
<1>3. TypeOK' /\ Counting' /\ Chunks' /\ Scanned'  BY <1>1, <1>2, MergeIInv
<1>4. /\ args' = args /\ wpc' = wpc /\ data' = data /\ len' = len
      /\ result'.min = IF worker[t].min < result.min THEN worker[t].min ELSE result.min
      /\ result'.max = IF worker[t].max > result.max THEN worker[t].max ELSE result.max
  BY <1>1 DEF Merge, arguments
<1>5. result.min \in Int /\ result.max \in Int /\ worker[t].min \in Int /\ worker[t].max \in Int
  BY <1>2 DEF IInv, TypeOK, Ints
<1>6. /\ result'.min \in Int /\ result'.max \in Int
      /\ result'.min <= result.min /\ result'.min <= worker[t].min
      /\ result'.max >= result.max /\ result'.max >= worker[t].max
      /\ result'.min \in {result.min, worker[t].min}
      /\ result'.max \in {result.max, worker[t].max}
  BY <1>4, <1>5
<1>7. /\ args[t].start \in 0 .. len /\ args[t].end \in 0 .. len /\ len \in Nat
      /\ data \in [0 .. len - 1 -> Ints]
      /\ Extremes(args[t].start, args[t].end, worker[t].min, worker[t].max)
  BY <1>1 DEF IInv, TypeOK, Scanned
<1>8. \A k \in 0 .. t : k \in 0 .. t - 1 \/ k = t  BY <1>1
<1>9. ASSUME AllBorn PROVE \A k \in 0 .. t : \A j \in args[k].start .. args[k].end - 1 :
                               result'.min <= data[j] /\ data[j] <= result'.max
  <2> SUFFICES ASSUME NEW k \in 0 .. t, NEW j \in args[k].start .. args[k].end - 1
               PROVE  result'.min <= data[j] /\ data[j] <= result'.max
    OBVIOUS
  <2>1. k \in Threads  BY <1>1 DEF Threads
  <2>2. data[j] \in Int  BY SMTT(30), <2>1, <1>7 DEF IInv, TypeOK, Ints
  <2>3. CASE k = t  BY SMTT(30), <1>5, <1>6, <1>7, <2>2, <2>3 DEF Extremes
  <2>4. CASE k \in 0 .. t - 1
    <3>1. result.min <= data[j] /\ data[j] <= result.max  BY <1>1, <1>9, <2>4 DEF IInv, Joined
    <3> QED  BY <1>5, <1>6, <2>2, <3>1
  <2> QED  BY <1>8, <2>3, <2>4
<1>10. ASSUME AllBorn PROVE /\ \E j \in 0 .. len - 1 : data[j] = result'.min
                            /\ \E j \in 0 .. len - 1 : data[j] = result'.max
  <2>1. PICK lo \in args[t].start .. args[t].end - 1 : data[lo] = worker[t].min
    BY <1>7 DEF Extremes
  <2>2. PICK hi \in args[t].start .. args[t].end - 1 : data[hi] = worker[t].max
    BY <1>7 DEF Extremes
  <2>3. lo \in 0 .. len - 1 /\ hi \in 0 .. len - 1  BY <1>7
  <2>4. CASE t > 0
    <3>1. /\ \E j \in 0 .. len - 1 : data[j] = result.min
          /\ \E j \in 0 .. len - 1 : data[j] = result.max
      BY <1>1, <1>10, <2>4 DEF IInv, Joined
    <3> QED  BY <1>6, <2>1, <2>2, <2>3, <3>1
  <2>5. CASE t = 0
    <3>1. result.min = IntMax /\ result.max = IntMin  BY <1>1, <2>5 DEF IInv, Joined
    <3>2. result'.min = worker[t].min /\ result'.max = worker[t].max
      BY <1>2, <1>6, <3>1 DEF Ints
    <3> QED  BY <2>1, <2>2, <2>3, <3>2
  <2> QED  BY <1>1, <2>4, <2>5
<1>11. Joined'
  <2>1. AllBorn' = AllBorn  BY <1>4 DEF AllBorn
  <2>2. 0 .. t' - 1 = 0 .. t  BY <1>1
  <2>3. \A k \in 0 .. t : wpc[k] \in {"failed", "done"}  BY <1>1, <1>8 DEF IInv, Joined
  <2> QED  BY <1>1, <1>4, <1>9, <1>10, <2>1, <2>2, <2>3 DEF Joined
<1> QED  BY <1>3, <1>11 DEF IInv

LEMMA JoinUnbornIInv == IInv /\ JoinUnborn => IInv'
<1> SUFFICES ASSUME IInv, JoinUnborn PROVE IInv'  OBVIOUS
<1> USE MinMaxAssumption
<1>1. t \in Threads /\ t \in Nat /\ wpc[t] = "failed" /\ mpc = "join" /\ t < created
  BY DEF IInv, TypeOK, JoinUnborn, Threads
<1>2. CASE mpc' = mpc
  <2>1. PICK min \in Ints, max \in Ints : Merge([min |-> min, max |-> max])
    BY <1>1, <1>2 DEF JoinUnborn
  <2>2. TypeOK' /\ Counting' /\ Chunks' /\ Scanned'
    <3> DEFINE partial == [min |-> min, max |-> max]
    <3>1. partial.min \in Ints /\ partial.max \in Ints  OBVIOUS
    <3> HIDE DEF partial
    <3>2. Merge(partial)  BY <2>1 DEF partial
    <3> QED  BY <1>1, <1>2, <3>1, <3>2, MergeIInv
  <2>3. wpc' = wpc /\ t' = t + 1  BY <2>1 DEF Merge
  <2>4. ~AllBorn'  BY <1>1, <2>3 DEF AllBorn
  <2>5. \A k \in 0 .. t : wpc[k] \in {"failed", "done"}
    <3>1. \A k \in 0 .. t - 1 : wpc[k] \in {"failed", "done"}  BY <1>1 DEF IInv, Joined
    <3>2. \A k \in 0 .. t : k \in 0 .. t - 1 \/ k = t  BY <1>1
    <3> QED  BY <1>1, <3>1, <3>2
  <2>6. 0 .. t' - 1 = 0 .. t /\ t' # 0  BY <1>1, <2>3
  <2>7. Joined'  BY <1>1, <1>2, <2>3, <2>4, <2>5, <2>6 DEF Joined
  <2> QED  BY <2>2, <2>7 DEF IInv
<1>3. CASE mpc' = "crashed" /\ UNCHANGED <<arguments, t, start, created, result, args, wpc, worker>>
  <2> USE <1>1, <1>3 DEF arguments
  <2>1. TypeOK'  BY DEF IInv, TypeOK
  <2>2. Counting'  BY DEF IInv, Counting, Running
  <2>3. Chunks'  BY DEF IInv, Chunks, Created, InChunk
  <2>4. Scanned'  BY DEF IInv, Scanned, Extremes
  <2>5. Joined'  BY DEF Joined
  <2> QED  BY <2>1, <2>2, <2>3, <2>4, <2>5 DEF IInv
<1> QED  BY <1>2, <1>3 DEF JoinUnborn

-------------------------------------------------------------------------------
(***************************************************************************)
(* The steps of a thread.                                                  *)
(***************************************************************************)
\* A thread that works has been given a chunk of the array.
LEMMA HasAChunk ==
    ASSUME IInv, NEW k \in Threads, wpc[k] # "none"
    PROVE  /\ k \in Created /\ len \in Nat
           /\ args[k].start \in Nat /\ args[k].end \in Nat
           /\ args[k].start < args[k].end /\ args[k].end <= len
           /\ worker[k].i \in Nat
           /\ \A j \in args[k].start .. args[k].end - 1 : data[j] \in Ints
           /\ Ints \subseteq Int
<1> USE MinMaxAssumption
<1>1. k \in Created  BY DEF IInv, Counting, Created, Threads, TypeOK
<1>2. args[k].start \in 0 .. len /\ args[k].end \in 0 .. len /\ len \in Nat /\ worker[k].i \in Nat
  BY DEF IInv, TypeOK
<1>3. \A j \in args[k].start .. args[k].end - 1 : j \in 0 .. len - 1  BY <1>2
<1> QED  BY <1>1, <1>2, <1>3 DEF IInv, Chunks, TypeOK, Ints

\* A step of a thread that works leaves alone what the main thread has done, and what
\* the main thread has joined.
LEMMA WorkerKeeps ==
    ASSUME IInv, UNCHANGED main, NEW k \in Threads, wpc[k] \in {"started", "loop"},
           wpc' \in [Threads -> {"none", "started", "failed", "loop", "done"}],
           wpc'[k] \in {"loop", "done"}, \A l \in Threads : l # k => wpc'[l] = wpc[l],
           worker' \in [Threads -> [i : Nat, min : Int, max : Int]]
    PROVE  TypeOK' /\ Counting' /\ Chunks' /\ Joined'
<1> USE MinMaxAssumption DEF main, arguments
<1>1. TypeOK'  BY DEF IInv, TypeOK
<1>2. Counting'
  <2>1. threads_count' = threads_count /\ chunk' = chunk  BY DEF threads_count, chunk
  <2>2. \A l \in Threads : wpc'[l] = "none" <=> l >= created
    BY DEF IInv, Counting
  <2> QED  BY <2>1, <2>2 DEF IInv, Counting, Running
<1>3. Chunks'  BY DEF IInv, Chunks, Created, InChunk
<1>4. Joined'
  <2>1. AllBorn' <=> AllBorn  BY DEF AllBorn
  <2>2. mpc \in {"join", "returned"} => k \notin 0 .. t - 1
    BY DEF IInv, Joined
  <2>3. mpc \in {"join", "returned"} => 0 .. t - 1 \subseteq Threads
    BY DEF IInv, TypeOK, Threads
  <2>4. mpc \in {"join", "returned"} => \A l \in 0 .. t - 1 : wpc'[l] = wpc[l]
    BY <2>2, <2>3
  <2> QED  BY <2>1, <2>4 DEF IInv, Joined
<1> QED  BY <1>1, <1>2, <1>3, <1>4

\* What the other threads know stays true.
LEMMA OthersScanned ==
    ASSUME IInv, UNCHANGED main, NEW k \in Threads,
           \A l \in Threads : l # k => wpc'[l] = wpc[l] /\ worker'[l] = worker[l],
           wpc'[k] \in {"loop", "done"},
           args[k].start < worker'[k].i, worker'[k].i <= args[k].end,
           wpc'[k] = "done" => worker'[k].i = args[k].end,
           Extremes(args[k].start, worker'[k].i, worker'[k].min, worker'[k].max)
    PROVE  Scanned'
<1> USE DEF main, arguments
<1> SUFFICES ASSUME NEW l \in Threads, wpc'[l] \in {"loop", "done"}
             PROVE  /\ args'[l].start < worker'[l].i /\ worker'[l].i <= args'[l].end
                    /\ wpc'[l] = "done" => worker'[l].i = args'[l].end
                    /\ Extremes(args[l].start, worker[l].i, worker[l].min, worker[l].max)'
  BY DEF Scanned
<1>1. CASE l = k  BY <1>1 DEF Extremes
<1>2. CASE l # k  BY <1>2 DEF IInv, Scanned, Extremes
<1> QED  BY <1>1, <1>2

LEMMA WorkerBeginsIInv == ASSUME IInv, NEW k \in Threads, WorkerBegins(k) PROVE IInv'
<1> DEFINE first == data[args[k].start]
<1>1. wpc[k] = "started" /\ UNCHANGED main  BY DEF WorkerBegins
<1>2. /\ args[k].start \in Nat /\ args[k].end \in Nat /\ args[k].start < args[k].end
      /\ first \in Int
  BY <1>1, HasAChunk
<1>3. /\ wpc' = [wpc EXCEPT ![k] = "loop"]
      /\ worker' = [worker EXCEPT ![k] = [i |-> args[k].start + 1, min |-> first, max |-> first]]
  BY DEF WorkerBegins
<1>4. /\ wpc' \in [Threads -> {"none", "started", "failed", "loop", "done"}]
      /\ wpc'[k] = "loop"
      /\ worker' \in [Threads -> [i : Nat, min : Int, max : Int]]
      /\ worker'[k].i = args[k].start + 1 /\ worker'[k].min = first /\ worker'[k].max = first
      /\ \A l \in Threads : l # k => wpc'[l] = wpc[l] /\ worker'[l] = worker[l]
  BY <1>2, <1>3 DEF IInv, TypeOK
<1>5. TypeOK' /\ Counting' /\ Chunks' /\ Joined'  BY <1>1, <1>4, WorkerKeeps
<1>6. Extremes(args[k].start, worker'[k].i, worker'[k].min, worker'[k].max)
  BY <1>2, <1>4 DEF Extremes
<1>7. args[k].start < worker'[k].i /\ worker'[k].i <= args[k].end  BY <1>2, <1>4
<1>8. Scanned'  BY <1>1, <1>4, <1>6, <1>7, OthersScanned
<1> QED  BY <1>5, <1>8 DEF IInv

LEMMA WorkerScansIInv == ASSUME IInv, NEW k \in Threads, WorkerScans(k) PROVE IInv'
<1> DEFINE n == worker[k].i
           v == data[n]
<1>1. wpc[k] = "loop" /\ UNCHANGED main /\ wpc' = wpc /\ n < args[k].end
  BY DEF WorkerScans
<1>2. /\ args[k].start \in Nat /\ args[k].end \in Nat /\ n \in Nat /\ args[k].start < n
      /\ Extremes(args[k].start, n, worker[k].min, worker[k].max)
      /\ \A j \in args[k].start .. args[k].end - 1 : data[j] \in Int
  BY <1>1, HasAChunk DEF IInv, Scanned
<1>3. worker[k].min \in Int /\ worker[k].max \in Int /\ v \in Int
  <2>1. worker[k].min \in Int /\ worker[k].max \in Int  BY DEF IInv, TypeOK
  <2>2. n \in args[k].start .. args[k].end - 1  BY <1>1, <1>2
  <2> QED  BY <1>2, <2>1, <2>2
<1>4. worker' = [worker EXCEPT ![k] = [i |-> n + 1,
                                       min |-> IF v < worker[k].min THEN v ELSE worker[k].min,
                                       max |-> IF v > worker[k].max THEN v ELSE worker[k].max]]
  BY DEF WorkerScans, IInv, TypeOK
<1>5. /\ worker' \in [Threads -> [i : Nat, min : Int, max : Int]]
      /\ worker'[k].i = n + 1
      /\ worker'[k].min = IF v < worker[k].min THEN v ELSE worker[k].min
      /\ worker'[k].max = IF v > worker[k].max THEN v ELSE worker[k].max
      /\ \A l \in Threads : l # k => wpc'[l] = wpc[l] /\ worker'[l] = worker[l]
      /\ wpc' \in [Threads -> {"none", "started", "failed", "loop", "done"}]
  BY <1>1, <1>2, <1>3, <1>4 DEF IInv, TypeOK
<1>6. TypeOK' /\ Counting' /\ Chunks' /\ Joined'  BY <1>1, <1>5, WorkerKeeps
<1>7. Extremes(args[k].start, worker'[k].i, worker'[k].min, worker'[k].max)
  <2> DEFINE lo == args[k].start
  <2>1. /\ \A j \in lo .. n : j \in lo .. n - 1 \/ j = n
        /\ \A j \in lo .. n - 1 : j \in lo .. n
        /\ n \in lo .. n /\ (n + 1) - 1 = n
        /\ \A j \in lo .. n : data[j] \in Int
    BY <1>1, <1>2
  <2>2. /\ worker'[k].min \in Int /\ worker'[k].min <= worker[k].min /\ worker'[k].min <= v
        /\ worker'[k].max \in Int /\ worker'[k].max >= worker[k].max /\ worker'[k].max >= v
        /\ worker'[k].min \in {v, worker[k].min} /\ worker'[k].max \in {v, worker[k].max}
    BY <1>3, <1>5
  <2>3. ASSUME NEW j \in lo .. n
        PROVE  worker'[k].min <= data[j] /\ data[j] <= worker'[k].max
    <3>1. CASE j = n  BY <2>2, <3>1
    <3>2. CASE j \in lo .. n - 1
      <4>1. worker[k].min <= data[j] /\ data[j] <= worker[k].max  BY <1>2, <3>2 DEF Extremes
      <4> QED  BY <1>3, <2>1, <2>2, <4>1
    <3> QED  BY <2>1, <3>1, <3>2
  <2>4. /\ \E j \in lo .. n : data[j] = worker'[k].min
        /\ \E j \in lo .. n : data[j] = worker'[k].max
    BY <1>2, <2>1, <2>2 DEF Extremes
  <2> QED  BY <1>5, <2>1, <2>3, <2>4 DEF Extremes
<1>8. args[k].start < worker'[k].i /\ worker'[k].i <= args[k].end  BY <1>1, <1>2, <1>5
<1>9. Scanned'  BY <1>1, <1>5, <1>7, <1>8, OthersScanned
<1> QED  BY <1>6, <1>9 DEF IInv

LEMMA WorkerEndsIInv == ASSUME IInv, NEW k \in Threads, WorkerEnds(k) PROVE IInv'
<1>1. wpc[k] = "loop" /\ UNCHANGED main /\ worker' = worker /\ worker[k].i >= args[k].end
  BY DEF WorkerEnds
<1>2. /\ args[k].start < worker[k].i /\ worker[k].i <= args[k].end
      /\ Extremes(args[k].start, worker[k].i, worker[k].min, worker[k].max)
      /\ worker[k].i \in Nat /\ args[k].end \in Nat
  BY <1>1, HasAChunk DEF IInv, Scanned
<1>3. /\ wpc' \in [Threads -> {"none", "started", "failed", "loop", "done"}]
      /\ wpc'[k] = "done" /\ \A l \in Threads : l # k => wpc'[l] = wpc[l]
      /\ worker' \in [Threads -> [i : Nat, min : Int, max : Int]]
  BY <1>1 DEF WorkerEnds, IInv, TypeOK
<1>4. TypeOK' /\ Counting' /\ Chunks' /\ Joined'  BY <1>1, <1>3, WorkerKeeps
<1>5. worker[k].i = args[k].end  BY <1>1, <1>2
<1>6. Scanned'  BY <1>1, <1>2, <1>3, <1>5, OthersScanned
<1> QED  BY <1>4, <1>6 DEF IInv

-------------------------------------------------------------------------------
\* Every step keeps the invariant.
LEMMA NextIInv == IInv /\ [Next]_vars => IInv'
<1> SUFFICES ASSUME IInv, [Next]_vars PROVE IInv'  OBVIOUS
<1>1. CASE Check  BY <1>1, CheckIInv
<1>2. CASE Create  BY <1>2, CreateIInv
<1>3. CASE AllCreated  BY <1>3, AllCreatedIInv
<1>4. CASE Join  BY <1>4, JoinIInv
<1>5. CASE JoinUnborn  BY <1>5, JoinUnbornIInv
<1>6. CASE Return  BY <1>6, ReturnIInv
<1>7. ASSUME NEW k \in Threads, WorkerBegins(k) PROVE IInv'  BY <1>7, WorkerBeginsIInv
<1>8. ASSUME NEW k \in Threads, WorkerScans(k) PROVE IInv'  BY <1>8, WorkerScansIInv
<1>9. ASSUME NEW k \in Threads, WorkerEnds(k) PROVE IInv'  BY <1>9, WorkerEndsIInv
<1>10. CASE UNCHANGED vars
  <2> USE <1>10 DEF vars, arguments
  <2>1. TypeOK'  BY DEF IInv, TypeOK
  <2>2. Counting'  BY DEF IInv, Counting, Running, threads_count, chunk
  <2>3. Chunks'  BY DEF IInv, Chunks, Created, InChunk
  <2>4. Scanned'  BY DEF IInv, Scanned, Extremes
  <2>5. Joined'  BY DEF IInv, Joined, AllBorn
  <2> QED  BY <2>1, <2>2, <2>3, <2>4, <2>5 DEF IInv
<1> QED  BY <1>1, <1>2, <1>3, <1>4, <1>5, <1>6, <1>7, <1>8, <1>9, <1>10 DEF Next

\* The bookkeeping of the function: what IInv says holds in every state.
THEOREM Bookkeeping == Spec => []IInv
<1>1. Init => IInv  BY InitIInv
<1>2. IInv /\ [Next]_vars => IInv'  BY NextIInv
<1> QED  BY <1>1, <1>2, PTL DEF Spec

\* The variables stay in their ranges: no chunk reaches beyond the array, and the
\* loops never leave the arrays threads, args and partial (find_min_max.c 37-60).
THEOREM Typed == Spec => []TypeOK
<1>1. IInv => TypeOK  BY DEF IInv
<1> QED  BY <1>1, Bookkeeping, PTL

\* The chunks cover the array without overlap, for every length and every number of
\* threads (find_min_max.c 41-55).
THEOREM Partitioned == Spec => []ChunksPartitionTheArray
<1>1. IInv => ChunksPartitionTheArray
  <2> SUFFICES ASSUME IInv, mpc \in {"join", "returned"}, NEW j \in 0 .. len - 1
               PROVE  \E k \in 0 .. created - 1 :
                        InChunk(j, k) /\ \A l \in 0 .. created - 1 : InChunk(j, l) => l = k
    BY DEF ChunksPartitionTheArray
  <2>1. created \in Nat /\ start \in Nat /\ len \in Nat /\ start >= len /\ Created \subseteq Threads
    BY MinMaxAssumption DEF IInv, TypeOK, Counting, Created, Threads
  <2>2. \A k \in Created : args[k].start \in Nat /\ args[k].end \in Nat
    BY <2>1 DEF IInv, TypeOK
  <2>3. PICK k \in Created : InChunk(j, k)  BY <2>1 DEF IInv, Chunks
  <2>4. ASSUME NEW l \in Created, InChunk(j, l) PROVE l = k
    <3>1. CASE l < k
      <4>1. args[l].end <= args[k].start  BY <3>1 DEF IInv, Chunks
      <4> QED  BY <2>2, <2>3, <2>4, <4>1 DEF InChunk
    <3>2. CASE k < l
      <4>1. args[k].end <= args[l].start  BY <3>2 DEF IInv, Chunks
      <4> QED  BY <2>2, <2>3, <2>4, <4>1 DEF InChunk
    <3> QED  BY <2>1, <3>1, <3>2 DEF Created
  <2> QED  BY <2>3, <2>4 DEF Created
<1> QED  BY <1>1, Bookkeeping, PTL

\* What the function returns is the minimum and the maximum, for every array and
\* every number of threads, if pthread_create did not fail (find_min_max.c 30-64).
THEOREM Found == Spec => []MinMaxFound
<1>1. IInv => MinMaxFound
  <2> SUFFICES ASSUME IInv, mpc = "returned", AllBorn
               PROVE  Extremes(0, len, result.min, result.max)
    BY DEF MinMaxFound, AllBorn
  <2>1. /\ len \in Nat /\ len > 0 /\ start \in Nat /\ start >= len /\ created = t /\ t \in Nat
    BY MinMaxAssumption DEF IInv, TypeOK, Counting, Running
  <2>2. \A k \in Created : args[k].start \in Nat /\ args[k].end \in Nat
    BY <2>1, MinMaxAssumption DEF IInv, TypeOK, Created, Threads
  <2>3. \A j \in 0 .. len - 1 : \E k \in Created : InChunk(j, k)  BY <2>1 DEF IInv, Chunks
  <2>4. ASSUME NEW j \in 0 .. len - 1 PROVE result.min <= data[j] /\ data[j] <= result.max
    <3>1. PICK k \in Created : InChunk(j, k)  BY <2>3
    <3>2. j \in args[k].start .. args[k].end - 1  BY <2>2, <3>1 DEF InChunk
    <3> QED  BY <2>1, <3>2 DEF IInv, Joined, Created
  <2>5. t > 0
    <3>1. PICK k \in Created : InChunk(0, k)  BY <2>1, <2>3
    <3> QED  BY <2>1, <3>1 DEF Created
  <2> QED  BY <2>1, <2>4, <2>5 DEF IInv, Joined, Extremes
<1> QED  BY <1>1, Bookkeeping, PTL

\* When the function returns, every thread that was created has ended, even if another
\* could not be created and the join of it returned (find_min_max.c 57-63).
THEOREM NoneOutlives == Spec => []NoThreadOutlivesItsArguments
<1>1. IInv => NoThreadOutlivesItsArguments
  <2> SUFFICES ASSUME IInv, mpc = "returned", NEW k \in Threads
               PROVE  wpc[k] \in {"none", "failed", "done"}
    BY DEF NoThreadOutlivesItsArguments
  <2>1. t = created /\ (wpc[k] = "none" <=> k >= created)  BY DEF IInv, Counting
  <2>2. CASE k >= created  BY <2>1, <2>2
  <2>3. CASE ~(k >= created)
    <3>1. k \in 0 .. t - 1  BY <2>1, <2>3 DEF IInv, TypeOK, Threads
    <3> QED  BY <3>1 DEF IInv, Joined
  <2> QED  BY <2>2, <2>3
<1> QED  BY <1>1, Bookkeeping, PTL
===============================================================================
