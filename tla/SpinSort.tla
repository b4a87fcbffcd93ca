------------------------------ MODULE SpinSort ------------------------------
(***************************************************************************)
(* Actively_Waiting/Quicksort(recursive_threads): quicksort.c.  A thread   *)
(* splits its array around a pivot, gives the two parts to two new threads *)
(* and spins until both have reported by decrementing the first cell of    *)
(* their array.  Threads are numbered as the nodes of a binary tree: the   *)
(* sorter is 1, the threads of t are 2t (left) and 2t + 1 (right).  An     *)
(* access to what another thread writes is a step, in program order: the   *)
(* program is built without optimisation.  A thread's identifier, which    *)
(* the code cuts to an int, is the thread.                                 *)
(***************************************************************************)
EXTENDS Integers, Sequences, FiniteSets

CONSTANT Inputs         \* the command lines

\* main refuses less than two numbers.
ASSUME InputAssumption == \A s \in Inputs : s \in Seq(Int) /\ Len(s) >= 2

VARIABLES
    input,              \* the numbers of the command line
    arr, size,          \* the cells from 1 on of each array, and its cell 0
    given,              \* history: the array as its thread found it
    pc, i,              \* where each thread is, and its loop index
    masterThreadID, endOfAnalysis,
    main                \* create, assign, spin, printed, exited

vars == <<input, arr, size, given, pc, i, masterThreadID, endOfAnalysis, main>>

Threads == DOMAIN arr
Left(t) == 2 * t
Right(t) == 2 * t + 1
sizeOfArray(t) == Len(given[t])
pivotPos(t) == sizeOfArray(t) \div 2 + 1
pivot(t) == given[t][pivotPos(t)]

\* pc: none (the array has no thread yet), start, split, createR, createL,
\* waitL, waitR, merge, report, compare, done.  masterThreadID is 0 at first.
Init ==
    /\ input \in Inputs
    /\ arr = [t \in {1} |-> input]
    /\ size = [t \in {1} |-> Len(input)]
    /\ given = arr
    /\ pc = [t \in {1} |-> "none"]
    /\ i = [t \in {1} |-> 1]
    /\ masterThreadID = 0
    /\ endOfAnalysis = 0
    /\ main = "create"

\* f with the values of g at the places of g, new or not.
With(f, g) == [t \in DOMAIN f \cup DOMAIN g |-> IF t \in DOMAIN g THEN g[t] ELSE f[t]]

At(t, p) == t \in Threads /\ pc[t] = p /\ main \notin {"printed", "exited"}
Goes(t, p) == pc' = [pc EXCEPT ![t] = p]
globals == <<input, masterThreadID, endOfAnalysis, main>>

-----------------------------------------------------------------------------
(* worker *)

\* Two numbers or more are split; the two arrays are allocated empty.
Start(t) ==
    /\ At(t, "start") /\ sizeOfArray(t) >= 2
    /\ LET new == {Left(t), Right(t)} IN
       /\ arr' = With(arr, [c \in new |-> <<>>])
       /\ size' = With(size, [c \in new |-> 0])
       /\ given' = With(given, [c \in new |-> <<>>])
       /\ pc' = [With(pc, [c \in new |-> "none"]) EXCEPT ![t] = "split"]
       /\ i' = With(i, [c \in new |-> 1])
    /\ UNCHANGED globals

\* The array c gets one more number.
Push(c, x) ==
    /\ arr' = [arr EXCEPT ![c] = Append(@, x)]
    /\ given' = [given EXCEPT ![c] = Append(@, x)]
    /\ size' = [size EXCEPT ![c] = @ + 1]

\* Faulty variant: the numbers equal to the pivot go to neither side.
SplitStrictly(t) ==
    /\ At(t, "split") /\ i[t] <= sizeOfArray(t)
    /\ i' = [i EXCEPT ![t] = @ + 1]
    /\ IF arr[t][i[t]] = pivot(t) THEN UNCHANGED <<arr, size, given>>
       ELSE Push(IF arr[t][i[t]] > pivot(t) THEN Right(t) ELSE Left(t), arr[t][i[t]])
    /\ UNCHANGED <<pc, globals>>

\* One round of the loop.
Split(t) ==
    /\ At(t, "split") /\ i[t] <= sizeOfArray(t)
    /\ i' = [i EXCEPT ![t] = @ + 1]
    /\ IF i[t] = pivotPos(t) THEN UNCHANGED <<arr, size, given>>
       ELSE Push(IF arr[t][i[t]] > pivot(t) THEN Right(t) ELSE Left(t), arr[t][i[t]])
    /\ UNCHANGED <<pc, globals>>

SplitEnds(t) ==
    /\ At(t, "split") /\ i[t] > sizeOfArray(t)
    /\ Goes(t, "createR")
    /\ UNCHANGED <<arr, size, given, i, globals>>

CreateRight(t) ==
    /\ At(t, "createR")
    /\ pc' = [pc EXCEPT ![t] = "createL", ![Right(t)] = "start"]
    /\ UNCHANGED <<arr, size, given, i, globals>>

CreateLeft(t) ==
    /\ At(t, "createL")
    /\ pc' = [pc EXCEPT ![t] = "waitL", ![Left(t)] = "start"]
    /\ UNCHANGED <<arr, size, given, i, globals>>

\* One of the threads cannot be created: the program exits.
CreateFails(t) ==
    /\ At(t, "createL")
    /\ main' = "exited"
    /\ UNCHANGED <<input, arr, size, given, pc, i, masterThreadID, endOfAnalysis>>

\* leftSize and rightSize are the sizes at the creation.
Reported(c) == size[c] # Len(given[c])

\* The two sides of the || in the loop that waits.
WaitLeft(t) ==
    /\ At(t, "waitL") /\ Reported(Left(t))
    /\ Goes(t, "waitR")
    /\ UNCHANGED <<arr, size, given, i, globals>>

WaitRight(t) ==
    /\ At(t, "waitR") /\ Reported(Right(t))
    /\ Goes(t, "merge")
    /\ UNCHANGED <<arr, size, given, i, globals>>

\* The cells of a reported array: its cell 0 is one too low.
Part(c) == SubSeq(arr[c], 1, size[c] + 1)

Merge(t) ==
    /\ At(t, "merge")
    /\ arr' = [arr EXCEPT ![t] = Part(Left(t)) \o <<pivot(t)>> \o Part(Right(t))]
    /\ Goes(t, "report")
    /\ UNCHANGED <<size, given, i, globals>>

\* Faulty variant: a thread forgets to report.
ReportNothing(t) ==
    /\ At(t, "report")
    /\ Goes(t, "compare")
    /\ UNCHANGED <<arr, size, given, i, globals>>

Report(t) ==
    /\ At(t, "report")
    /\ size' = [size EXCEPT ![t] = @ - 1]
    /\ Goes(t, "compare")
    /\ UNCHANGED <<arr, given, i, globals>>

\* Faulty variant: every thread that has sorted two numbers ends the analysis.
CompareNothing(t) ==
    /\ At(t, "compare")
    /\ endOfAnalysis' = 1
    /\ Goes(t, "done")
    /\ UNCHANGED <<input, arr, size, given, i, masterThreadID, main>>

Compare(t) ==
    /\ At(t, "compare")
    /\ endOfAnalysis' = IF masterThreadID = t THEN 1 ELSE endOfAnalysis
    /\ Goes(t, "done")
    /\ UNCHANGED <<input, arr, size, given, i, masterThreadID, main>>

\* No number, or one: sorted.
Small(t) ==
    /\ At(t, "start") /\ sizeOfArray(t) < 2
    /\ size' = [size EXCEPT ![t] = @ - 1]
    /\ Goes(t, "done")
    /\ UNCHANGED <<arr, given, i, globals>>

-----------------------------------------------------------------------------
(* main *)

\* The result of pthread_create is not looked at.
CreateSorter ==
    /\ main = "create"
    /\ main' = "assign"
    /\ pc' \in {pc, [pc EXCEPT ![1] = "start"]}
    /\ UNCHANGED <<input, arr, size, given, i, masterThreadID, endOfAnalysis>>

Assign ==
    /\ main = "assign"
    /\ masterThreadID' = 1
    /\ main' = "spin"
    /\ UNCHANGED <<input, arr, size, given, pc, i, endOfAnalysis>>

\* The result is printed and the process ends.
Finish ==
    /\ main = "spin" /\ endOfAnalysis = 1
    /\ main' = "printed"
    /\ UNCHANGED <<input, arr, size, given, pc, i, masterThreadID, endOfAnalysis>>

Works(t) == \/ Start(t) \/ Split(t) \/ SplitEnds(t) \/ CreateRight(t) \/ CreateLeft(t) \/ Small(t)
            \/ WaitLeft(t) \/ WaitRight(t) \/ Merge(t) \/ Report(t) \/ Compare(t)
MainStep == CreateSorter \/ Assign \/ Finish

Next == MainStep \/ \E t \in Threads : Works(t) \/ CreateFails(t)

Spec == Init /\ [][Next]_vars

\* Every thread runs again and again, while the others spin.
FairSpec == Spec /\ WF_vars(MainStep) /\ WF_vars(\E t \in Threads : Works(t))

-----------------------------------------------------------------------------
(* Properties. *)

Splitting == {"split", "createR", "createL", "waitL", "waitR", "merge"}
Sorting == Splitting \cup {"report", "compare"}

TypeOK ==
    /\ input \in Seq(Int)
    /\ Threads \subseteq Nat \ {0} /\ 1 \in Threads
    /\ arr \in [Threads -> Seq(Int)] /\ given \in [Threads -> Seq(Int)]
    /\ size \in [Threads -> Int] /\ i \in [Threads -> Nat \ {0}]
    /\ pc \in [Threads -> Sorting \cup {"none", "start", "done"}]
    /\ masterThreadID \in {0, 1} /\ endOfAnalysis \in {0, 1}
    /\ main \in {"create", "assign", "spin", "printed", "exited"}

Sorted(s) == \A j, k \in DOMAIN s : j <= k => s[j] <= s[k]
Occurrences(s, v) == Cardinality({k \in DOMAIN s : s[k] = v})
Permuted(s, u) ==
    Len(s) = Len(u) /\ \A k \in DOMAIN s : Occurrences(s, s[k]) = Occurrences(u, s[k])

\* Whenever a parent can take an array to be finished (quicksort.c:79), the
\* array is sorted and holds the numbers its thread was given.  The array main
\* prints (quicksort.c:153-158) is one of them, by QuietAtEnd.
ReportedSorted == \A t \in Threads : Reported(t) => Sorted(arr[t]) /\ Permuted(arr[t], given[t])

\* When main may read the array no thread has an array still to be finished:
\* the only thing main waits for is one flag (quicksort.c:107, 149).
QuietAtEnd == endOfAnalysis = 1 => \A t \in Threads : Reported(t)

\* The sorter has compared itself with masterThreadID before main has set it.
Missed == pc[1] = "done" /\ endOfAnalysis = 0
NoSorter == main = "spin" /\ pc[1] = "none"

\* Unless the sorter is too fast for main, or was never created, main ends:
\* every thread is reported to, and none waits for an array that has shrunk
\* before it looked.
EndsUnlessMissed == []~(Missed \/ NoSorter) => <>(main \in {"printed", "exited"})
=============================================================================
