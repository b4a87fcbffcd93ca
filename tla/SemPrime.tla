------------------------------ MODULE SemPrime ------------------------------
(***************************************************************************)
(* Semaphores/Master_&_worker_threads_finding prime_numbers: prime_reg.c   *)
(* and mysem.c.  main gives the numbers to the workers in turn; the binary *)
(* semaphore thread_sem, which starts at 1, tells it when the number it    *)
(* gave last has been tested, and, after work_done, when the last worker   *)
(* has finished.                                                           *)
(*                                                                         *)
(* mysem_up is two steps, the reading of the value and the semop, and      *)
(* finish++ is a load and a store; the reads of num in a test are one, as  *)
(* main waits for its end.  A number is identified with its position.  The *)
(* field avail, main_semid and avail_sem, which nobody tests or waits for, *)
(* are left out, and so is a thread that cannot be created.                *)
(***************************************************************************)
EXTENDS Integers, Sequences, FiniteSets

CONSTANTS threads_num,   \* argv[1]
          Numbers        \* argv[2], argv[3], ...

\* The values -1 and -2 are the program's marks for "given" and "no work", and
\* 0 or a negative number is said to be prime.
ASSUME SemPrimeAssumption == threads_num \in Nat \ {0} /\ Numbers \in Seq(Nat \ {0})

VARIABLES
    num,                  \* work[i].num
    thread_sem,           \* the value of the semaphore
    destroyed,            \* it has been removed
    work_done, finish,
    load,                 \* the value of finish that a worker has loaded
    worker,               \* where each worker is
    main, i,              \* where main is, and its index into work
    numbers_left,
    freed,                \* work has been freed
    verdict               \* history: the line printed for each number

vars == <<num, thread_sem, destroyed, work_done, finish, load, worker, main, i,
          numbers_left, freed, verdict>>

Workers == 0..(threads_num - 1)
sum == Len(Numbers)
Positions == 1..sum
NoWork == 0               \* work[i].num is -2

mainVars == <<main, i, numbers_left, work_done, destroyed, freed>>

\* The position of the number main gives next: the first that is not marked -1.
pos == sum - numbers_left + 1

\* worker: loop (about to read work_done), look (about to read num), test, clear
\* (the verdict is printed), getval and semop (in mysem_up after a number),
\* load and store (finish++), count (about to compare finish), getval2 and
\* semop2 (in mysem_up at the end), done.
\* main: give (in mysem_down of its loop, or leaving it), hand (has the
\* semaphore), last (in mysem_down after the loop), stop, join (in the last
\* mysem_down), destroy, free, returned, failed (exit(EXIT_FAILURE)).
Init ==
    /\ num = [w \in Workers |-> NoWork]
    /\ thread_sem = 1
    /\ destroyed = FALSE
    /\ work_done = 0
    /\ finish = 0
    /\ load = [w \in Workers |-> 0]
    /\ worker = [w \in Workers |-> "loop"]
    /\ main = IF sum > 0 THEN "give" ELSE "last"
    /\ i = 0
    /\ numbers_left = sum
    /\ freed = FALSE
    /\ verdict = [j \in Positions |-> "none"]

Running == main \notin {"returned", "failed"}

-----------------------------------------------------------------------------
\* primetest: 1 unless a number from 2 to number / 2 divides it.
primetest(number) == number # 1 /\ \A d \in 2..(number \div 2) : number % d # 0

At(w, p) == Running /\ worker[w] = p
Goes(w, p) == worker' = [worker EXCEPT ![w] = p]

(* mysem_up, from and to the given places. *)

\* GETVAL: a semaphore that is already up is left alone.  The call fails, with
\* the value -1, once the semaphore has been removed.
GetVal(w, here, op, next) ==
    /\ At(w, here)
    /\ Goes(w, IF ~destroyed /\ thread_sem = 1 THEN next ELSE op)
    /\ UNCHANGED <<num, thread_sem, finish, load, mainVars, verdict>>

\* semop: one more, whatever the value is by now; exit on a removed semaphore.
SemOp(w, here, next) ==
    /\ At(w, here)
    /\ Goes(w, next)
    /\ IF destroyed THEN thread_sem' = thread_sem /\ main' = "failed"
                    ELSE thread_sem' = thread_sem + 1 /\ main' = main
    /\ UNCHANGED <<num, finish, load, i, numbers_left, work_done, destroyed, freed, verdict>>

-----------------------------------------------------------------------------
(* worker. *)

ReadDone(w) ==
    /\ At(w, "loop")
    /\ Goes(w, IF work_done = 1 THEN "load" ELSE "look")
    /\ UNCHANGED <<num, thread_sem, finish, load, mainVars, verdict>>

ReadNum(w) ==
    /\ At(w, "look")
    /\ Goes(w, IF num[w] = NoWork THEN "loop" ELSE "test")
    /\ UNCHANGED <<num, thread_sem, finish, load, mainVars, verdict>>

\* primetest, and the line that is printed.
Test(w) ==
    /\ At(w, "test")
    /\ verdict' = [verdict EXCEPT ![num[w]] =
                      IF primetest(Numbers[num[w]]) THEN "prime" ELSE "composite"]
    /\ Goes(w, "clear")
    /\ UNCHANGED <<num, thread_sem, finish, load, mainVars>>

\* Faulty variant: num keeps the number that has been tested.
ClearNothing(w) ==
    /\ At(w, "clear")
    /\ Goes(w, "getval")
    /\ UNCHANGED <<num, thread_sem, finish, load, mainVars, verdict>>

Clear(w) ==
    /\ At(w, "clear")
    /\ num' = [num EXCEPT ![w] = NoWork]
    /\ Goes(w, "getval")
    /\ UNCHANGED <<thread_sem, finish, load, mainVars, verdict>>

UpAfterTest(w) == GetVal(w, "getval", "semop", "loop") \/ SemOp(w, "semop", "loop")

\* work[i].finish = 1, and the load of finish++.
LoadFinish(w) ==
    /\ At(w, "load")
    /\ load' = [load EXCEPT ![w] = finish]
    /\ Goes(w, "store")
    /\ UNCHANGED <<num, thread_sem, finish, mainVars, verdict>>

StoreFinish(w) ==
    /\ At(w, "store")
    /\ finish' = load[w] + 1
    /\ Goes(w, "count")
    /\ UNCHANGED <<num, thread_sem, load, mainVars, verdict>>

\* Faulty variant: the first worker to finish wakes main.
ReadFinishFirst(w) ==
    /\ At(w, "count")
    /\ Goes(w, "getval2")
    /\ UNCHANGED <<num, thread_sem, finish, load, mainVars, verdict>>

\* The worker that has counted itself last wakes main.
ReadFinish(w) ==
    /\ At(w, "count")
    /\ Goes(w, IF finish = threads_num THEN "getval2" ELSE "done")
    /\ UNCHANGED <<num, thread_sem, finish, load, mainVars, verdict>>

UpAtEnd(w) == GetVal(w, "getval2", "semop2", "done") \/ SemOp(w, "semop2", "done")

-----------------------------------------------------------------------------
(* main. *)

\* mysem_down: wait for the semaphore, and go on to next.
Down(here, next) ==
    /\ main = here /\ thread_sem > 0
    /\ thread_sem' = thread_sem - 1
    /\ main' = next
    /\ UNCHANGED <<num, finish, load, worker, i, numbers_left, work_done, destroyed, freed, verdict>>

\* Give the number to the next worker in turn.
Hand ==
    /\ main = "hand"
    /\ num' = [num EXCEPT ![i] = pos]
    /\ numbers_left' = numbers_left - 1
    /\ main' = IF numbers_left' > 0 THEN "give" ELSE "last"
    /\ i' = (i + 1) % threads_num
    /\ UNCHANGED <<thread_sem, finish, load, worker, work_done, destroyed, freed, verdict>>

\* Faulty variant: work_done is not set.
StopSilently ==
    /\ main = "stop"
    /\ main' = "join"
    /\ UNCHANGED <<num, thread_sem, finish, load, worker, i, numbers_left, work_done,
                   destroyed, freed, verdict>>

Stop ==
    /\ main = "stop"
    /\ work_done' = 1
    /\ main' = "join"
    /\ UNCHANGED <<num, thread_sem, finish, load, worker, i, numbers_left, destroyed, freed, verdict>>

\* Faulty variant: main does not wait for the number it gave last.
WaitForLastSkipped ==
    /\ main = "last"
    /\ main' = "stop"
    /\ UNCHANGED <<num, thread_sem, finish, load, worker, i, numbers_left, work_done,
                   destroyed, freed, verdict>>

WaitForLast == Down("last", "stop")
WaitForFinish == Down("join", "destroy")

\* Faulty variant: main gives a number without waiting for the one before.
WaitToGiveSkipped ==
    /\ main = "give"
    /\ main' = "hand"
    /\ UNCHANGED <<num, thread_sem, finish, load, worker, i, numbers_left, work_done,
                   destroyed, freed, verdict>>

WaitToGive == Down("give", "hand")

Destroy ==
    /\ main = "destroy"
    /\ destroyed' = TRUE
    /\ main' = "free"
    /\ UNCHANGED <<num, thread_sem, finish, load, worker, i, numbers_left, work_done, freed, verdict>>

Return ==
    /\ main = "free"
    /\ freed' = TRUE
    /\ main' = "returned"
    /\ UNCHANGED <<num, thread_sem, finish, load, worker, i, numbers_left, work_done, destroyed, verdict>>

WorkerStep(w) == \/ ReadDone(w) \/ ReadNum(w) \/ Test(w) \/ Clear(w) \/ UpAfterTest(w)
                 \/ LoadFinish(w) \/ StoreFinish(w) \/ ReadFinish(w) \/ UpAtEnd(w)

MainStep == WaitToGive \/ Hand \/ WaitForLast \/ Stop \/ WaitForFinish \/ Destroy \/ Return

Next == MainStep \/ \E w \in Workers : WorkerStep(w)

Spec == Init /\ [][Next]_vars

\* Every thread is scheduled again and again, while the others spin.
FairSpec == Spec /\ WF_vars(MainStep) /\ \A w \in Workers : WF_vars(WorkerStep(w))

-----------------------------------------------------------------------------
(* Properties. *)

\* thread_sem may be raised twice at the end: by two workers that both find
\* that they are the last.
TypeOK ==
    /\ num \in [Workers -> Positions \cup {NoWork}]
    /\ thread_sem \in 0..threads_num
    /\ destroyed \in BOOLEAN
    /\ work_done \in {0, 1}
    /\ finish \in 0..threads_num
    /\ load \in [Workers -> 0..threads_num]
    /\ worker \in [Workers -> {"loop", "look", "test", "clear", "getval", "semop", "load",
                               "store", "count", "getval2", "semop2", "done"}]
    /\ main \in {"give", "hand", "last", "stop", "join", "destroy", "free", "returned", "failed"}
    /\ i \in Workers
    /\ numbers_left \in 0..sum
    /\ freed \in BOOLEAN
    /\ verdict \in [Positions -> {"none", "prime", "composite"}]

\* Who has a number, or has tested one and not yet raised the semaphore.
Busy(w) == num[w] # NoWork \/ worker[w] \in {"test", "clear", "getval", "semop"}

\* Until work_done there is one baton: the semaphore is up, or main is about to
\* give a number, or exactly one worker is busy.  So the two steps of mysem_up
\* (mysem.c:59-67) do not disturb each other, no up is lost, and the workers
\* take turns.
OneBaton ==
    main \in {"give", "hand", "last", "stop"} =>
        thread_sem + (IF main \in {"hand", "stop"} THEN 1 ELSE 0)
            + Cardinality({w \in Workers : Busy(w)}) = 1

\* The numbers are tested in the order of the command line, each of them once: a
\* worker that is about to print a verdict (prime_reg.c:56-62) prints the first one.
InOrder ==
    /\ \A j, k \in Positions : j < k /\ verdict[k] # "none" => verdict[j] # "none"
    /\ \A w \in Workers : worker[w] = "test" => num[w] # NoWork /\ verdict[num[w]] = "none"

\* The records are freed, and the semaphore removed, when no worker reads its
\* record any more: main waits for a count that only a worker that has left its
\* loop raises, and that lost increments only lower.
NoUseAfterFree ==
    destroyed \/ freed =>
        \A w \in Workers : worker[w] \in {"count", "getval2", "semop2", "done"}

\* finish++ of two workers have overwritten each other.
Counting == {w \in Workers : worker[w] \in {"count", "getval2", "semop2", "done"}}
Miscounted == finish < Cardinality(Counting)

\* Unless increments of finish are lost, the program ends: main returns, or a
\* worker that raises the removed semaphore exits.
EndsUnlessMiscounted == []~Miscounted => <>~Running

\* The program implements the abstract service: no number is tested twice, no
\* verdict is wrong, and main does not return with a number untested.
Service == INSTANCE PrimeService WITH returned <- main = "returned"

ImplementsService == Service!Spec
=============================================================================
