----------------------------- MODULE SpinPrime -----------------------------
(***************************************************************************)
(* Actively_Waiting/Master_&_worker_threads_finding prime_numbers:         *)
(* prime_reg.c.  main gives numbers to the workers through the fields      *)
(* avail and num of their records; both sides spin on them.                *)
(*                                                                         *)
(* Every access to a field that the other side writes is a step, but the   *)
(* reads of num in a test are one: main writes num when avail is 0 only.   *)
(* A number of the command line is identified with its position.  main     *)
(* fills the records and creates the threads before threads_done lets a    *)
(* worker read them: a behaviour starts there.                             *)
(***************************************************************************)
EXTENDS Integers, Sequences, FiniteSets

CONSTANTS threads_num,   \* argv[1]
          Numbers        \* argv[2], argv[3], ...

\* The values -1 and -2 are the program's marks for "given" and "no work", and
\* 0 or a negative number is said to be prime.
ASSUME PrimeAssumption == threads_num \in Nat \ {0} /\ Numbers \in Seq(Nat \ {0})

VARIABLES
    num, avail, finish,   \* the fields of work[i]
    work_done,
    worker,               \* where each worker is
    main, i,              \* where main is, and its index into work
    numbers_left,
    freed,                \* work has been freed
    verdict               \* history: the line printed for each number

vars == <<num, avail, finish, work_done, worker, main, i, numbers_left, freed, verdict>>

Workers == 0..(threads_num - 1)
sum == Len(Numbers)
Positions == 1..sum
NoWork == 0               \* work[i].num is -2

workVars == <<num, avail, finish>>
mainVars == <<main, i, numbers_left, work_done, freed>>

\* The position of the number main gives next: the first that is not marked -1.
pos == sum - numbers_left + 1

\* worker: loop (about to read work_done), look (about to read num), test,
\* release (the verdict is printed, avail not yet reset), clear (avail is 0,
\* num not yet reset), finish (out of the loop), done.
\* main: scan (looking for a worker for pos), hand (avail is set, num not yet),
\* drain (waiting for avail to be 0), stop (about to set work_done), join,
\* returned.
Init ==
    /\ num = [w \in Workers |-> NoWork]
    /\ avail = [w \in Workers |-> 0]
    /\ finish = [w \in Workers |-> 0]
    /\ work_done = 0
    /\ worker = [w \in Workers |-> "loop"]
    /\ main = IF sum > 0 THEN "scan" ELSE "drain"
    /\ i = 0
    /\ numbers_left = sum
    /\ freed = FALSE
    /\ verdict = [j \in Positions |-> "none"]

Running == main # "returned"

-----------------------------------------------------------------------------
\* primetest: 1 unless a number from 2 to number / 2 divides it.
primetest(number) == number # 1 /\ \A d \in 2..(number \div 2) : number % d # 0

-----------------------------------------------------------------------------
(* worker. *)

At(w, p) == Running /\ worker[w] = p
Goes(w, p) == worker' = [worker EXCEPT ![w] = p]

\* work_done ends the loop.
ReadDone(w) ==
    /\ At(w, "loop")
    /\ Goes(w, IF work_done = 1 THEN "finish" ELSE "look")
    /\ UNCHANGED <<workVars, mainVars, verdict>>

\* No work: continue.
ReadNum(w) ==
    /\ At(w, "look")
    /\ Goes(w, IF num[w] = NoWork THEN "loop" ELSE "test")
    /\ UNCHANGED <<workVars, mainVars, verdict>>

\* primetest, and the line that is printed.
Test(w) ==
    /\ At(w, "test")
    /\ verdict' = [verdict EXCEPT ![num[w]] =
                      IF primetest(Numbers[num[w]]) THEN "prime" ELSE "composite"]
    /\ Goes(w, "release")
    /\ UNCHANGED <<workVars, mainVars>>

Release(w) ==
    /\ At(w, "release")
    /\ avail' = [avail EXCEPT ![w] = 0]
    /\ Goes(w, "clear")
    /\ UNCHANGED <<num, finish, mainVars, verdict>>

\* Faulty variant: num keeps the number that has been tested.
ClearNothing(w) ==
    /\ At(w, "clear")
    /\ Goes(w, "loop")
    /\ UNCHANGED <<workVars, mainVars, verdict>>

\* num = -2, whatever main has written there since avail was reset.
Clear(w) ==
    /\ At(w, "clear")
    /\ num' = [num EXCEPT ![w] = NoWork]
    /\ Goes(w, "loop")
    /\ UNCHANGED <<avail, finish, mainVars, verdict>>

\* Faulty variant: the worker leaves without telling main.
FinishSilently(w) ==
    /\ At(w, "finish")
    /\ Goes(w, "done")
    /\ UNCHANGED <<workVars, mainVars, verdict>>

Finish(w) ==
    /\ At(w, "finish")
    /\ finish' = [finish EXCEPT ![w] = 1]
    /\ Goes(w, "done")
    /\ UNCHANGED <<num, avail, mainVars, verdict>>

-----------------------------------------------------------------------------
(* main. *)

\* The worker at i is not available: try the next one.
ScanNext ==
    /\ main = "scan" /\ avail[i] # 0
    /\ i' = (i + 1) % threads_num
    /\ UNCHANGED <<workVars, worker, main, numbers_left, work_done, freed, verdict>>

\* It is: only its worker resets avail, and not before it gets a number.
Claim ==
    /\ main = "scan" /\ avail[i] = 0
    /\ avail' = [avail EXCEPT ![i] = 1]
    /\ main' = "hand"
    /\ UNCHANGED <<num, finish, worker, i, numbers_left, work_done, freed, verdict>>

\* Give it the number; each number is offered from work[0] on.
Hand ==
    /\ main = "hand"
    /\ num' = [num EXCEPT ![i] = pos]
    /\ numbers_left' = numbers_left - 1
    /\ main' = IF numbers_left' > 0 THEN "scan" ELSE "drain"
    /\ i' = 0
    /\ UNCHANGED <<avail, finish, worker, work_done, freed, verdict>>

\* Faulty variant: main only waits for the last worker.
DrainLast ==
    /\ main = "drain" /\ avail[threads_num - 1] # 1
    /\ main' = "stop"
    /\ i' = 0
    /\ UNCHANGED <<workVars, worker, numbers_left, work_done, freed, verdict>>

\* Wait until no worker is busy, one after the other.
Drain ==
    /\ main = "drain" /\ avail[i] # 1
    /\ IF i + 1 < threads_num THEN i' = i + 1 /\ main' = main
                              ELSE i' = 0 /\ main' = "stop"
    /\ UNCHANGED <<workVars, worker, numbers_left, work_done, freed, verdict>>

Stop ==
    /\ main = "stop"
    /\ work_done' = 1
    /\ main' = "join"
    /\ UNCHANGED <<workVars, worker, i, numbers_left, freed, verdict>>

\* Wait until every worker has finished, one after the other; free and return.
Join ==
    /\ main = "join" /\ finish[i] # 0
    /\ IF i + 1 < threads_num THEN i' = i + 1 /\ UNCHANGED <<main, freed>>
                              ELSE i' = i /\ main' = "returned" /\ freed' = TRUE
    /\ UNCHANGED <<workVars, worker, numbers_left, work_done, verdict>>

WorkerStep(w) == ReadDone(w) \/ ReadNum(w) \/ Test(w) \/ Release(w) \/ Clear(w) \/ Finish(w)
MainStep == ScanNext \/ Claim \/ Hand \/ Drain \/ Stop \/ Join

Next == MainStep \/ \E w \in Workers : WorkerStep(w)

Spec == Init /\ [][Next]_vars

\* Every thread is scheduled again and again, while the others spin.
FairSpec == Spec /\ WF_vars(MainStep) /\ \A w \in Workers : WF_vars(WorkerStep(w))

-----------------------------------------------------------------------------
(* Properties. *)

TypeOK ==
    /\ num \in [Workers -> Positions \cup {NoWork}]
    /\ avail \in [Workers -> {0, 1}]
    /\ finish \in [Workers -> {0, 1}]
    /\ work_done \in {0, 1}
    /\ worker \in [Workers -> {"loop", "look", "test", "release", "clear", "finish", "done"}]
    /\ main \in {"scan", "hand", "drain", "stop", "join", "returned"}
    /\ i \in Workers
    /\ numbers_left \in 0..sum
    /\ freed \in BOOLEAN
    /\ verdict \in [Positions -> {"none", "prime", "composite"}]

\* No worker accesses its record after main has freed it (prime_reg.c:164-170).
NoUseAfterFree == freed => \A w \in Workers : worker[w] = "done"

\* Two workers never hold the same number, and a number is not held any more
\* once a worker that has tested it is ready for the next one.
OneOwner ==
    /\ \A v, w \in Workers : num[v] = num[w] /\ num[v] # NoWork => v = w
    /\ \A w \in Workers : worker[w] = "test" => num[w] # NoWork /\ verdict[num[w]] = "none"

\* A number that has been given to a worker and that nobody will test: the
\* worker has erased it while clearing the one before.
Lost == \E j \in 1..(sum - numbers_left) :
            verdict[j] = "none" /\ \A w \in Workers : num[w] # j

\* Unless a number is lost, every number gets its verdict and main returns.
EndsUnlessLost == []~Lost => <>(main = "returned")

\* The program implements the abstract service: no number is tested twice, no
\* verdict is wrong, and main does not return with a number untested.
Service == INSTANCE PrimeService WITH returned <- main = "returned"

ImplementsService == Service!Spec
=============================================================================
