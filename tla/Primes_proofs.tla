--------------------------- MODULE Primes_proofs ---------------------------
(***************************************************************************)
(* Proofs about the two prime services that are made of threads, for every *)
(* number of workers and every list of numbers.  About SemPrime: type      *)
(* correctness, the baton, the order of the verdicts, no use after free,   *)
(* and the implementation of PrimeService.  About SpinPrime, in the second *)
(* part: type correctness, the owner of a number, no use after free and    *)
(* the implementation of PrimeService.                                     *)
(***************************************************************************)
EXTENDS SemPrime, FiniteSetTheorems, TLAPS

\* How many numbers main has given.
given == sum - numbers_left

NoBusy == \A w \in Workers : ~Busy(w)

\* What main knows in each of its phases.
PhaseInv ==
    /\ main \in {"give", "hand"} => numbers_left > 0
    /\ main \notin {"give", "hand"} => numbers_left = 0
    /\ work_done = 1 <=> main \in {"join", "destroy", "free", "returned", "failed"}
    /\ destroyed <=> main \in {"free", "returned", "failed"}
    /\ freed <=> main = "returned"

\* The number of a worker, in each of its places.
WorkInv ==
    \A w \in Workers :
        /\ worker[w] \in {"test", "clear"} => num[w] # NoWork
        /\ worker[w] \notin {"loop", "look", "test", "clear"} => num[w] = NoWork
        /\ num[w] # NoWork => num[w] = given
        /\ worker[w] \in {"load", "store", "count", "getval2", "semop2", "done"} => work_done = 1
        /\ worker[w] = "clear" => verdict[given] # "none"
        /\ num[w] # NoWork /\ worker[w] # "clear" => verdict[given] = "none"

\* The baton is in one place.
BatonInv ==
    /\ \A v, w \in Workers : Busy(v) /\ Busy(w) => v = w
    /\ work_done = 0 /\ thread_sem > 0 => thread_sem = 1 /\ main \in {"give", "last"} /\ NoBusy
    /\ main \in {"give", "last"} /\ NoBusy => thread_sem > 0
    /\ main \notin {"give", "last"} => NoBusy

\* All the numbers given before the last one have been tested, no other has,
\* and the last one has been or is in the hands of a worker.
PendingInv ==
    /\ \A j \in Positions : j < given => verdict[j] # "none"
    /\ \A j \in Positions : j > given => verdict[j] = "none"
    /\ given > 0 /\ verdict[given] = "none" => \E w \in Workers : num[w] = given

Done == {w \in Workers : worker[w] = "done"}

\* The count of the workers that have left their loops: lost increments only
\* lower it, so thread_sem is raised at the end when all have left.
CountInv ==
    /\ finish <= Cardinality(Counting)
    /\ \A w \in Workers : worker[w] = "store" => load[w] <= Cardinality(Counting)
    /\ \A w \in Workers : worker[w] \in {"getval2", "semop2"} => Counting = Workers
    /\ work_done = 1 /\ thread_sem > 0 => Counting = Workers
    /\ main \in {"destroy", "free", "returned", "failed"} => Counting = Workers
    /\ work_done = 1 => thread_sem <= Cardinality(Done)

IInv == TypeOK /\ PhaseInv /\ WorkInv /\ BatonInv /\ PendingInv /\ CountInv

-----------------------------------------------------------------------------
LEMMA ConstantTypes ==
    /\ threads_num \in Nat \ {0}
    /\ sum \in Nat
    /\ Workers \subseteq Nat /\ 0 \in Workers
    /\ \A j \in Positions : j \in Nat /\ j # NoWork /\ Numbers[j] \in Nat \ {0}
BY SemPrimeAssumption DEF sum, Workers, Positions, NoWork

LEMMA NextIndex == ASSUME NEW k \in Workers
                   PROVE  (k + 1) % threads_num \in Workers
<1>1. threads_num \in Nat /\ threads_num > 0 /\ k + 1 \in Nat
  BY SemPrimeAssumption DEF Workers
<1>2. (k + 1) % threads_num \in 0..(threads_num - 1)
  BY <1>1
<1> QED
  BY <1>2 DEF Workers

\* Sets of workers, and what an element more makes of them.
LEMMA WorkerSets ==
    ASSUME NEW S \in SUBSET Workers
    PROVE  /\ IsFiniteSet(S)
           /\ Cardinality(S) \in 0..threads_num
           /\ Cardinality(S) = threads_num => S = Workers
<1>1. IsFiniteSet(Workers) /\ Cardinality(Workers) = threads_num
  BY FS_Interval, SemPrimeAssumption DEF Workers
<1> QED
  BY <1>1, FS_Subset, FS_CardinalityType, SemPrimeAssumption

LEMMA OneMore == ASSUME NEW S \in SUBSET Workers, NEW w \in Workers, w \notin S
                 PROVE  Cardinality(S \cup {w}) = Cardinality(S) + 1
BY WorkerSets, FS_AddElement

LEMMA InitIInv == Init => IInv
<1> SUFFICES ASSUME Init PROVE IInv
  OBVIOUS
<1> USE ConstantTypes DEF Init
<1>1. TypeOK
  <2>1. numbers_left \in 0..sum /\ i \in Workers /\ main \in {"give", "last"}
    OBVIOUS
  <2>2. thread_sem \in 0..threads_num /\ finish \in 0..threads_num /\ 0 \in 0..threads_num
    OBVIOUS
  <2> QED
    BY <2>1, <2>2 DEF TypeOK
<1>2. PhaseInv /\ WorkInv /\ BatonInv
  BY DEF PhaseInv, WorkInv, BatonInv, NoBusy, Busy
<1>3. PendingInv
  BY DEF PendingInv, given
<1>4. CountInv
  BY WorkerSets DEF CountInv, Counting
<1> QED
  BY <1>1, <1>2, <1>3, <1>4 DEF IInv

-----------------------------------------------------------------------------
LEMMA ReadDoneStep == ASSUME IInv, NEW w \in Workers, ReadDone(w) PROVE IInv'
<1> USE DEF IInv, At, Goes, Running, mainVars
<1>1. TypeOK'
  BY DEF ReadDone, TypeOK
<1>2. work_done = 1 => num[w] = NoWork
  BY DEF PhaseInv, BatonInv, NoBusy, Busy
<1>3. PhaseInv' /\ WorkInv'
  BY <1>2 DEF ReadDone, TypeOK, PhaseInv, WorkInv, given
<1>4. BatonInv' /\ PendingInv'
  BY DEF ReadDone, TypeOK, BatonInv, NoBusy, Busy, PendingInv, given
<1>5. Counting' = Counting /\ Done' = Done
  BY DEF ReadDone, TypeOK, Counting, Done
<1>6. CountInv'
  BY <1>5 DEF ReadDone, TypeOK, CountInv
<1> QED
  BY <1>1, <1>3, <1>4, <1>6

LEMMA ReadNumStep == ASSUME IInv, NEW w \in Workers, ReadNum(w) PROVE IInv'
<1> USE DEF IInv, At, Goes, Running, mainVars
<1>1. TypeOK'
  BY DEF ReadNum, TypeOK
<1>2. PhaseInv' /\ WorkInv'
  BY DEF ReadNum, TypeOK, PhaseInv, WorkInv, given
<1>3. BatonInv' /\ PendingInv'
  BY DEF ReadNum, TypeOK, BatonInv, NoBusy, Busy, PendingInv, given
<1>4. Counting' = Counting /\ Done' = Done
  BY DEF ReadNum, TypeOK, Counting, Done
<1>5. CountInv'
  BY <1>4 DEF ReadNum, TypeOK, CountInv
<1> QED
  BY <1>1, <1>2, <1>3, <1>5

LEMMA TestStep == ASSUME IInv, NEW w \in Workers, Test(w) PROVE IInv'
<1> USE DEF IInv, At, Goes, Running, mainVars
<1>1. num[w] = given /\ given \in Positions
  BY DEF Test, WorkInv, TypeOK
<1>2. /\ verdict'[given] \in {"prime", "composite"}
      /\ \A j \in Positions : j # given => verdict'[j] = verdict[j]
      /\ verdict' \in [Positions -> {"none", "prime", "composite"}]
  BY <1>1 DEF Test, TypeOK
<1>3. TypeOK'
  BY <1>2 DEF Test, TypeOK
<1>4. \A v \in Workers : v # w => num[v] = NoWork /\ worker[v] # "clear"
  BY DEF Test, BatonInv, Busy
<1>5. PhaseInv' /\ WorkInv'
  BY <1>1, <1>2, <1>4 DEF Test, TypeOK, PhaseInv, WorkInv, given
<1>6. BatonInv'
  BY DEF Test, TypeOK, BatonInv, NoBusy, Busy
<1>7. PendingInv'
  BY <1>1, <1>2 DEF Test, PendingInv, given, TypeOK
<1>8. Counting' = Counting /\ Done' = Done
  BY DEF Test, TypeOK, Counting, Done
<1>9. CountInv'
  BY <1>8 DEF Test, TypeOK, CountInv
<1> QED
  BY <1>3, <1>5, <1>6, <1>7, <1>9

LEMMA ClearStep == ASSUME IInv, NEW w \in Workers, Clear(w) PROVE IInv'
<1> USE DEF IInv, At, Goes, Running, mainVars
<1>1. TypeOK'
  BY DEF Clear, TypeOK, NoWork
<1>2. num[w] = given /\ verdict[given] # "none"
  BY DEF Clear, WorkInv
<1>3. PhaseInv' /\ WorkInv'
  BY DEF Clear, TypeOK, PhaseInv, WorkInv, given
<1>4. BatonInv'
  BY DEF Clear, TypeOK, BatonInv, NoBusy, Busy
<1>5. PendingInv'
  BY <1>2 DEF Clear, PendingInv, given
<1>6. Counting' = Counting /\ Done' = Done
  BY DEF Clear, TypeOK, Counting, Done
<1>7. CountInv'
  BY <1>6 DEF Clear, TypeOK, CountInv
<1> QED
  BY <1>1, <1>3, <1>4, <1>5, <1>7

\* The semaphore is down while a worker is in mysem_up after a number, so it is
\* raised, once.
LEMMA UpAfterTestStep == ASSUME IInv, NEW w \in Workers, UpAfterTest(w) PROVE IInv'
<1> USE DEF IInv, At, Goes, Running, mainVars
<1>1. /\ Busy(w) /\ ~NoBusy /\ main \in {"give", "last"}
      /\ thread_sem = 0 /\ ~destroyed /\ work_done = 0 /\ num[w] = NoWork
      /\ worker[w] \in {"getval", "semop"}
  <2>1. worker[w] \in {"getval", "semop"}
    BY DEF UpAfterTest, GetVal, SemOp
  <2>2. Busy(w) /\ ~NoBusy /\ main \in {"give", "last"}
    BY <2>1 DEF BatonInv, Busy, NoBusy
  <2>3. work_done = 0 /\ ~destroyed /\ thread_sem = 0
    BY <2>2 DEF PhaseInv, BatonInv, TypeOK
  <2> QED
    BY <2>1, <2>2, <2>3 DEF WorkInv
<1>2. CASE GetVal(w, "getval", "semop", "loop")
  <2>1. worker' = [worker EXCEPT ![w] = "semop"]
    BY <1>1, <1>2 DEF GetVal
  <2>2. TypeOK' /\ PhaseInv' /\ WorkInv'
    BY <1>1, <1>2, <2>1 DEF GetVal, TypeOK, PhaseInv, WorkInv, given
  <2>3. BatonInv' /\ PendingInv'
    BY <1>1, <1>2, <2>1 DEF GetVal, TypeOK, BatonInv, NoBusy, Busy, PendingInv, given
  <2>4. Counting' = Counting /\ Done' = Done
    BY <1>1, <2>1 DEF TypeOK, Counting, Done
  <2>5. CountInv'
    BY <1>2, <2>1, <2>4 DEF GetVal, TypeOK, CountInv
  <2> QED
    BY <2>2, <2>3, <2>5
<1>3. CASE SemOp(w, "semop", "loop")
  <2>1. worker' = [worker EXCEPT ![w] = "loop"] /\ thread_sem' = 1 /\ main' = main
    BY <1>1, <1>3 DEF SemOp
  <2>2. TypeOK' /\ PhaseInv' /\ WorkInv'
    BY <1>1, <1>3, <2>1, SemPrimeAssumption DEF SemOp, TypeOK, PhaseInv, WorkInv, given
  <2>3. NoBusy'
    BY <1>1, <1>3, <2>1 DEF SemOp, TypeOK, BatonInv, NoBusy, Busy
  <2>4. BatonInv' /\ PendingInv'
    BY <1>1, <1>3, <2>1, <2>3 DEF SemOp, TypeOK, BatonInv, NoBusy, PendingInv, given
  <2>5. Counting' = Counting /\ Done' = Done
    BY <1>1, <2>1 DEF TypeOK, Counting, Done
  <2>6. CountInv'
    BY <1>1, <1>3, <2>1, <2>5 DEF SemOp, TypeOK, CountInv
  <2> QED
    BY <2>2, <2>4, <2>6
<1> QED
  BY <1>2, <1>3 DEF UpAfterTest

LEMMA LoadFinishStep == ASSUME IInv, NEW w \in Workers, LoadFinish(w) PROVE IInv'
<1> USE DEF IInv, At, Goes, Running, mainVars
<1>1. TypeOK'
  BY DEF LoadFinish, TypeOK
<1>2. PhaseInv' /\ WorkInv'
  BY DEF LoadFinish, TypeOK, PhaseInv, WorkInv, given
<1>3. BatonInv' /\ PendingInv'
  BY DEF LoadFinish, TypeOK, BatonInv, NoBusy, Busy, PendingInv, given
<1>4. Counting' = Counting /\ Done' = Done
  BY DEF LoadFinish, TypeOK, Counting, Done
<1>5. CountInv'
  BY <1>4 DEF LoadFinish, TypeOK, CountInv
<1> QED
  BY <1>1, <1>2, <1>3, <1>5

\* What a worker stores in finish is at most the number of those that have
\* stored something, itself included.
LEMMA StoreFinishStep == ASSUME IInv, NEW w \in Workers, StoreFinish(w) PROVE IInv'
<1> USE DEF IInv, At, Goes, Running, mainVars
<1>1. /\ worker[w] = "store" /\ worker' = [worker EXCEPT ![w] = "count"]
      /\ finish' = load[w] + 1 /\ main # "failed"
  BY DEF StoreFinish
<1>2. Counting' = Counting \cup {w} /\ w \notin Counting /\ Done' = Done
  BY <1>1 DEF TypeOK, Counting, Done
<1>3. /\ Cardinality(Counting') = Cardinality(Counting) + 1
      /\ Cardinality(Counting) \in 0..threads_num
      /\ Cardinality(Counting') \in 0..threads_num
  <2>1. Counting \in SUBSET Workers /\ Counting' \in SUBSET Workers
    BY <1>2 DEF Counting
  <2> QED
    BY <1>2, <2>1, OneMore, WorkerSets
<1>4. Counting # Workers
  BY <1>2
<1>5. finish' \in 0..threads_num /\ finish' <= Cardinality(Counting')
  BY <1>1, <1>3, SemPrimeAssumption DEF TypeOK, CountInv
<1>6. TypeOK'
  BY <1>5 DEF StoreFinish, TypeOK
<1>7. PhaseInv' /\ WorkInv'
  BY DEF StoreFinish, TypeOK, PhaseInv, WorkInv, given
<1>8. BatonInv' /\ PendingInv'
  BY DEF StoreFinish, TypeOK, BatonInv, NoBusy, Busy, PendingInv, given
<1>9. CountInv'
  <2>1. \A v \in Workers : worker'[v] = "store" => load'[v] <= Cardinality(Counting')
    BY <1>1, <1>3 DEF StoreFinish, TypeOK, CountInv
  <2>2. /\ \A v \in Workers : worker'[v] \notin {"getval2", "semop2"}
        /\ ~(work_done' = 1 /\ thread_sem' > 0)
        /\ main' \notin {"destroy", "free", "returned", "failed"}
    BY <1>1, <1>4 DEF StoreFinish, TypeOK, CountInv
  <2>3. work_done' = 1 => thread_sem' <= Cardinality(Done')
    BY <1>2 DEF StoreFinish, CountInv
  <2> QED
    BY <1>5, <2>1, <2>2, <2>3 DEF CountInv
<1> QED
  BY <1>6, <1>7, <1>8, <1>9

\* A worker that reads the number of the workers in finish is not the only one
\* to have left its loop: all have.
LEMMA ReadFinishStep == ASSUME IInv, NEW w \in Workers, ReadFinish(w) PROVE IInv'
<1> USE DEF IInv, At, Goes, Running, mainVars
<1>1. TypeOK'
  BY DEF ReadFinish, TypeOK
<1>2. PhaseInv' /\ WorkInv'
  BY DEF ReadFinish, TypeOK, PhaseInv, WorkInv, given
<1>3. BatonInv' /\ PendingInv'
  BY DEF ReadFinish, TypeOK, BatonInv, NoBusy, Busy, PendingInv, given
<1>4. Counting' = Counting
  BY DEF ReadFinish, TypeOK, Counting
<1>5. finish = threads_num => Counting = Workers
  <2>1. Counting \in SUBSET Workers
    BY DEF Counting
  <2>2. Cardinality(Counting) \in 0..threads_num
    BY <2>1, WorkerSets
  <2>3. finish = threads_num => Cardinality(Counting) = threads_num
    BY <2>2, SemPrimeAssumption DEF CountInv
  <2> QED
    BY <2>1, <2>3, WorkerSets
<1>6. Cardinality(Done) <= Cardinality(Done') /\ Cardinality(Done) \in Nat
  <2>1. Done \in SUBSET Workers /\ Done' \in SUBSET Workers
    BY DEF Done
  <2>2. Done' = Done \/ (Done' = Done \cup {w} /\ w \notin Done)
    BY DEF ReadFinish, TypeOK, Done
  <2> QED
    BY <2>1, <2>2, WorkerSets, OneMore
<1>7. Cardinality(Done') \in Nat
  BY WorkerSets DEF Done
<1>8. CountInv'
  <2>1. work_done' = 1 => thread_sem' <= Cardinality(Done')
    BY <1>6, <1>7 DEF ReadFinish, CountInv, TypeOK
  <2> QED
    BY <1>4, <1>5, <2>1 DEF ReadFinish, TypeOK, CountInv
<1> QED
  BY <1>1, <1>2, <1>3, <1>8

LEMMA UpAtEndStep == ASSUME IInv, NEW w \in Workers, UpAtEnd(w) PROVE IInv'
<1> USE DEF IInv, At, Goes, Running, mainVars
<1>1. worker[w] \in {"getval2", "semop2"} /\ main \notin {"returned", "failed"}
  BY DEF UpAtEnd, GetVal, SemOp
<1>2. /\ work_done = 1 /\ num[w] = NoWork /\ numbers_left = 0
      /\ Counting = Workers /\ w \notin Done
      /\ main \notin {"give", "hand", "last"}
  BY <1>1 DEF WorkInv, CountInv, PhaseInv, Done
<1>3. PICK p \in {"semop2", "done"} : worker' = [worker EXCEPT ![w] = p]
  BY DEF UpAtEnd, GetVal, SemOp
<1>4. Counting' = Counting /\ Done' = (IF p = "done" THEN Done \cup {w} ELSE Done)
  BY <1>1, <1>2, <1>3 DEF Counting, Done, TypeOK
<1>5. /\ Cardinality(Done) \in 0..threads_num /\ Cardinality(Done') \in 0..threads_num
      /\ p = "done" => Cardinality(Done') = Cardinality(Done) + 1
      /\ p # "done" => Cardinality(Done') = Cardinality(Done)
  <2>1. Done \in SUBSET Workers /\ Done' \in SUBSET Workers
    BY DEF Done
  <2> QED
    BY <1>2, <1>4, <2>1, WorkerSets, OneMore
<1>6. /\ UNCHANGED <<num, finish, load, i, numbers_left, work_done, destroyed, freed, verdict>>
      /\ thread_sem' <= Cardinality(Done') /\ thread_sem' \in 0..threads_num
      /\ main' = main \/ (destroyed /\ main' = "failed")
  <2>1. CASE GetVal(w, "getval2", "semop2", "done")
    BY <1>2, <1>5, <2>1, SemPrimeAssumption DEF GetVal, CountInv, TypeOK
  <2>2. CASE SemOp(w, "semop2", "done")
    <3>1. p = "done"
      BY <1>1, <1>3, <2>2 DEF SemOp, TypeOK
    <3>2. thread_sem' = thread_sem \/ thread_sem' = thread_sem + 1
      BY <2>2 DEF SemOp
    <3>3. thread_sem' <= Cardinality(Done') /\ thread_sem' \in 0..threads_num
      BY <1>2, <1>5, <3>1, <3>2, SemPrimeAssumption DEF CountInv, TypeOK
    <3> QED
      BY <2>2, <3>3 DEF SemOp
  <2> QED
    BY <2>1, <2>2 DEF UpAtEnd
<1>7. TypeOK'
  BY <1>3, <1>6 DEF TypeOK
<1>8. PhaseInv' /\ WorkInv'
  BY <1>1, <1>2, <1>3, <1>6 DEF TypeOK, PhaseInv, WorkInv, given
<1>9. BatonInv'
  BY <1>1, <1>2, <1>3, <1>6 DEF TypeOK, PhaseInv, BatonInv, NoBusy, Busy
<1>10. PendingInv'
  BY <1>6 DEF PendingInv, given
<1>11. CountInv'
  BY <1>2, <1>3, <1>4, <1>6 DEF TypeOK, CountInv
<1> QED
  BY <1>7, <1>8, <1>9, <1>10, <1>11

-----------------------------------------------------------------------------
LEMMA WaitStep == IInv /\ (WaitToGive \/ WaitForLast \/ WaitForFinish) => IInv'
<1> SUFFICES ASSUME IInv, WaitToGive \/ WaitForLast \/ WaitForFinish PROVE IInv'
  OBVIOUS
<1> USE SemPrimeAssumption DEF IInv, WaitToGive, WaitForLast, WaitForFinish, Down
<1>1. thread_sem > 0 /\ thread_sem' = thread_sem - 1 /\ worker' = worker
  OBVIOUS
<1>2. TypeOK'
  BY <1>1 DEF TypeOK
<1>3. PhaseInv' /\ WorkInv'
  BY <1>1 DEF PhaseInv, WorkInv, given
<1>4. main \in {"give", "last"} => thread_sem = 1 /\ NoBusy
  BY <1>1 DEF PhaseInv, BatonInv, TypeOK
<1>5. BatonInv' /\ PendingInv'
  BY <1>1, <1>4 DEF PhaseInv, BatonInv, NoBusy, Busy, PendingInv, given, TypeOK
<1>6. Counting' = Counting /\ Done' = Done /\ Cardinality(Done) \in Nat
  BY <1>1, WorkerSets DEF Counting, Done
<1>7. CountInv'
  BY <1>1, <1>6 DEF PhaseInv, CountInv, TypeOK
<1> QED
  BY <1>2, <1>3, <1>5, <1>7

LEMMA HandStep == IInv /\ Hand => IInv'
<1> SUFFICES ASSUME IInv, Hand PROVE IInv'
  OBVIOUS
<1> USE ConstantTypes DEF IInv
<1>1. /\ numbers_left > 0 /\ numbers_left \in 0..sum /\ i \in Workers /\ main = "hand"
      /\ work_done = 0 /\ thread_sem = 0 /\ NoBusy
  BY DEF Hand, PhaseInv, BatonInv, TypeOK
<1>2. pos \in Positions /\ pos = given + 1 /\ given' = pos /\ pos # NoWork
  BY <1>1 DEF Hand, pos, given, Positions, NoWork
<1>3. /\ num' = [num EXCEPT ![i] = pos] /\ worker' = worker /\ verdict' = verdict
      /\ \A w \in Workers : num[w] = NoWork /\ worker[w] \in {"loop", "look"}
  BY <1>1 DEF Hand, NoBusy, Busy, WorkInv, TypeOK
<1>4. verdict[pos] = "none"
  BY <1>1, <1>2 DEF PendingInv, given
<1>5. TypeOK'
  BY <1>1, <1>2, NextIndex DEF Hand, TypeOK
<1>6. PhaseInv'
  BY <1>1 DEF Hand, PhaseInv, TypeOK
<1>7. WorkInv'
  BY <1>1, <1>2, <1>3, <1>4 DEF WorkInv, TypeOK
<1>8. BatonInv'
  <2>1. \A w \in Workers : Busy(w)' <=> w = i
    BY <1>1, <1>2, <1>3 DEF Busy, TypeOK
  <2> QED
    BY <1>1, <2>1 DEF Hand, BatonInv, NoBusy
<1>9. PendingInv'
  <2>1. given > 0 => verdict[given] # "none"
    BY <1>1, <1>2, <1>3 DEF PendingInv, NoWork, given
  <2>2. given \in Nat /\ \A j \in Positions : j < given + 1 => j < given \/ (j = given /\ given > 0)
    BY <1>1 DEF given, Positions
  <2>3. \A j \in Positions : j < given' => verdict[j] # "none"
    BY <1>2, <2>1, <2>2 DEF PendingInv
  <2>4. \A j \in Positions : j > given' => verdict[j] = "none"
    BY <1>2, <2>2 DEF PendingInv
  <2>5. num'[i] = given'
    BY <1>1, <1>2, <1>3 DEF TypeOK
  <2> QED
    BY <1>1, <1>3, <2>3, <2>4, <2>5 DEF PendingInv
<1>10. Counting' = Counting /\ Done' = Done
  BY <1>3 DEF Counting, Done
<1>11. CountInv'
  BY <1>1, <1>10 DEF Hand, CountInv
<1> QED
  BY <1>5, <1>6, <1>7, <1>8, <1>9, <1>11

LEMMA EndStep == IInv /\ (Stop \/ Destroy \/ Return) => IInv'
<1> SUFFICES ASSUME IInv, Stop \/ Destroy \/ Return PROVE IInv'
  OBVIOUS
<1> USE DEF IInv, Stop, Destroy, Return
<1>1. TypeOK'
  BY DEF TypeOK
<1>2. PhaseInv' /\ WorkInv'
  BY DEF TypeOK, PhaseInv, WorkInv, given
<1>3. BatonInv' /\ PendingInv'
  BY DEF TypeOK, PhaseInv, BatonInv, NoBusy, Busy, PendingInv, given
<1>4. Counting' = Counting /\ Done' = Done /\ Cardinality(Done) \in Nat
  BY WorkerSets DEF Counting, Done
<1>5. main = "stop" => thread_sem = 0
  BY DEF TypeOK, PhaseInv, BatonInv
<1>6. CountInv'
  BY <1>4, <1>5 DEF CountInv, PhaseInv
<1> QED
  BY <1>1, <1>2, <1>3, <1>6

LEMMA StutterStep == IInv /\ UNCHANGED vars => IInv'
BY DEF IInv, vars, TypeOK, PhaseInv, WorkInv, BatonInv, PendingInv, CountInv, NoBusy, Busy,
       Counting, Done, given

\* IInv is an inductive invariant.
THEOREM Inductive == Spec => []IInv
<1>1. IInv /\ [Next]_vars => IInv'
  <2> SUFFICES ASSUME IInv, [Next]_vars PROVE IInv'
    OBVIOUS
  <2>1. CASE MainStep
    BY <2>1, WaitStep, HandStep, EndStep DEF MainStep
  <2>2. ASSUME NEW w \in Workers, WorkerStep(w) PROVE IInv'
    BY <2>2, ReadDoneStep, ReadNumStep, TestStep, ClearStep, UpAfterTestStep,
       LoadFinishStep, StoreFinishStep, ReadFinishStep, UpAtEndStep DEF WorkerStep
  <2>3. CASE UNCHANGED vars
    BY <2>3, StutterStep
  <2> QED
    BY <2>1, <2>2, <2>3 DEF Next
<1> QED
  BY InitIInv, <1>1, PTL DEF Spec

-----------------------------------------------------------------------------
(* Theorems. *)

\* The variables keep their types; the semaphore is at most the number of workers.
THEOREM TypeCorrect == Spec => []TypeOK
BY Inductive, PTL DEF IInv

\* Until work_done the semaphore is up, or main is about to give, or one worker
\* is busy: no up of mysem_up is lost.
THEOREM OneBatonHolds == Spec => []OneBaton
<1>1. ASSUME IInv PROVE OneBaton
  <2> SUFFICES ASSUME main \in {"give", "hand", "last", "stop"}
               PROVE  thread_sem + (IF main \in {"hand", "stop"} THEN 1 ELSE 0)
                          + Cardinality({w \in Workers : Busy(w)}) = 1
    BY DEF OneBaton
  <2> USE <1>1 DEF IInv
  <2>1. work_done = 0 /\ thread_sem \in Nat
    BY DEF PhaseInv, TypeOK
  <2>2. CASE NoBusy
    <3>1. {w \in Workers : Busy(w)} = {}
      BY <2>2 DEF NoBusy
    <3>2. Cardinality({w \in Workers : Busy(w)}) = 0
      BY <3>1, FS_EmptySet
    <3>3. thread_sem = IF main \in {"hand", "stop"} THEN 0 ELSE 1
      BY <2>1, <2>2 DEF BatonInv
    <3> QED
      BY <3>2, <3>3
  <2>3. CASE ~NoBusy
    <3>1. PICK v \in Workers : Busy(v)
      BY <2>3 DEF NoBusy
    <3>2. {w \in Workers : Busy(w)} = {v}
      BY <3>1 DEF BatonInv
    <3>3. Cardinality({w \in Workers : Busy(w)}) = 1
      BY <3>2, FS_Singleton
    <3>4. main \notin {"hand", "stop"} /\ thread_sem = 0
      BY <2>1, <2>3 DEF BatonInv
    <3> QED
      BY <3>3, <3>4
  <2> QED
    BY <2>2, <2>3
<1> QED
  BY <1>1, Inductive, PTL

\* The verdicts are printed in the order of the command line, each of them once.
THEOREM InOrderHolds == Spec => []InOrder
<1>1. ASSUME IInv PROVE InOrder
  <2>1. given \in Int /\ \A j \in Positions : j \in Int
    BY <1>1, ConstantTypes DEF IInv, TypeOK, given
  <2>2. \A j, k \in Positions : j < k /\ verdict[k] # "none" => verdict[j] # "none"
    BY <1>1, <2>1 DEF IInv, PendingInv
  <2>3. \A w \in Workers : worker[w] = "test" => num[w] # NoWork /\ verdict[num[w]] = "none"
    BY <1>1 DEF IInv, WorkInv
  <2> QED
    BY <2>2, <2>3 DEF InOrder
<1> QED
  BY <1>1, Inductive, PTL

\* main frees the records when every worker has left its loop.
THEOREM NoUseAfterFreeHolds == Spec => []NoUseAfterFree
<1>1. IInv => NoUseAfterFree
  BY DEF IInv, PhaseInv, CountInv, Counting, NoUseAfterFree
<1> QED
  BY <1>1, Inductive, PTL

-----------------------------------------------------------------------------
(* primetest. *)

\* A number greater than half of n, and smaller than n, does not divide n.
LEMMA NoLargeDivisor ==
    ASSUME NEW n \in Nat, NEW d \in Nat, n < 2 * d, d < n
    PROVE  n % d = n - d
<1>1. n = d * 1 + (n - d) /\ 0 <= n - d /\ n - d < d
  OBVIOUS
<1> QED
  BY <1>1

\* Looking for divisors up to number / 2 is enough.
LEMMA PrimeTestCorrect == ASSUME NEW n \in Nat \ {0}
                          PROVE  primetest(n) <=> Service!IsPrime(n)
<1>1. n \div 2 \in Nat /\ 2 * (n \div 2) <= n /\ n < 2 * (n \div 2) + 2
  OBVIOUS
<1>2. ASSUME primetest(n), NEW d \in 2..(n - 1) PROVE n % d # 0
  <2>1. CASE d <= n \div 2
    <3>1. d \in 2..(n \div 2)
      BY <1>1, <2>1
    <3> QED
      BY <1>2, <3>1 DEF primetest
  <2>2. CASE d > n \div 2
    <3>1. n < 2 * d /\ d < n /\ d \in Nat
      BY <1>1, <2>2
    <3>2. n % d = n - d
      BY <3>1, NoLargeDivisor
    <3> QED
      BY <3>1, <3>2
  <2> QED
    BY <1>1, <2>1, <2>2
<1>3. ASSUME Service!IsPrime(n) PROVE primetest(n)
  <2>1. \A d \in 2..(n \div 2) : d \in 2..(n - 1)
    BY <1>1
  <2> QED
    BY <1>3, <2>1 DEF Service!IsPrime, primetest
<1>4. primetest(n) => n > 1
  BY DEF primetest
<1> QED
  BY <1>2, <1>3, <1>4 DEF Service!IsPrime

-----------------------------------------------------------------------------
(* The program implements the abstract service. *)

LEMMA RefineInit == Init => Service!Init
BY DEF Init, Service!Init, Positions, sum

LEMMA RefineTest == ASSUME IInv, NEW w \in Workers, Test(w)
                    PROVE  Service!Next
<1> DEFINE j == num[w]
<1>1. j \in 1..Len(Numbers) /\ verdict[j] = "none" /\ main # "returned" /\ main' = main
  BY DEF IInv, Test, At, Running, TypeOK, WorkInv, Positions, sum, mainVars
<1>2. Numbers[j] \in Nat \ {0}
  BY <1>1, SemPrimeAssumption
<1>3. verdict' = [verdict EXCEPT ![j] = IF Service!IsPrime(Numbers[j]) THEN "prime"
                                                                       ELSE "composite"]
  BY <1>2, PrimeTestCorrect DEF Test
<1>4. Service!Test(j)
  BY <1>1, <1>3 DEF Service!Test
<1> QED
  BY <1>1, <1>4 DEF Service!Next

\* When main returns, all the numbers have been given and no worker has one.
LEMMA RefineReturn == ASSUME IInv, Return PROVE Service!Next
<1> USE DEF IInv
<1>1. given = sum /\ NoBusy
  BY ConstantTypes DEF Return, PhaseInv, BatonInv, given
<1>2. \A j \in Positions : verdict[j] # "none"
  <2>1. \A j \in Positions : j < given \/ (j = given /\ given > 0)
    BY <1>1, ConstantTypes DEF Positions
  <2>2. given > 0 => verdict[given] # "none"
    BY <1>1 DEF PendingInv, NoBusy, Busy, NoWork
  <2> QED
    BY <2>1, <2>2 DEF PendingInv
<1> QED
  BY <1>2 DEF Return, Service!Next, Service!Return, Positions, sum

\* Every number is tested once and correctly, and main waits for all of them.
THEOREM Implements == Spec => ImplementsService
<1>1. IInv /\ [Next]_vars => [Service!Next]_(Service!vars)
  <2> SUFFICES ASSUME IInv, [Next]_vars PROVE Service!Next \/ UNCHANGED Service!vars
    OBVIOUS
  <2>1. ASSUME NEW w \in Workers, WorkerStep(w)
        PROVE  Service!Next \/ UNCHANGED Service!vars
    <3>1. CASE Test(w)
      BY <3>1, RefineTest
    <3>2. CASE UpAfterTest(w) \/ UpAtEnd(w)
      BY <3>2 DEF UpAfterTest, UpAtEnd, GetVal, SemOp, At, Running, mainVars, Service!vars
    <3>3. CASE ~Test(w) /\ ~UpAfterTest(w) /\ ~UpAtEnd(w)
      BY <2>1, <3>3 DEF WorkerStep, ReadDone, ReadNum, Clear, LoadFinish, StoreFinish,
                        ReadFinish, mainVars, Service!vars
    <3> QED
      BY <3>1, <3>2, <3>3
  <2>2. CASE Return
    BY <2>2, RefineReturn
  <2>3. CASE WaitToGive \/ Hand \/ WaitForLast \/ Stop \/ WaitForFinish \/ Destroy
    BY <2>3 DEF WaitToGive, WaitForLast, WaitForFinish, Down, Hand, Stop, Destroy, Service!vars
  <2>4. CASE UNCHANGED vars
    BY <2>4 DEF vars, Service!vars
  <2> QED
    BY <2>1, <2>2, <2>3, <2>4 DEF Next, MainStep
<1> QED
  BY RefineInit, <1>1, Inductive, PTL DEF Spec, ImplementsService, Service!Spec

-----------------------------------------------------------------------------
(* SpinPrime.  The two programs have the same variables, but for avail, the *)
(* flag by which a worker of SpinPrime says that it has taken its number.   *)

VARIABLE avail

Spin == INSTANCE SpinPrime

\* How many numbers main has given.
SpinGiven == Spin!sum - numbers_left

\* A worker between two numbers: it holds nothing, or a number not yet tested.
SpinIdle(w) == worker[w] \in {"loop", "look", "finish", "done"}

\* The handshake of one record.
SpinHandshakeInv ==
    \A w \in Spin!Workers :
        /\ num[w] <= SpinGiven
        /\ worker[w] \in {"test", "release"} => num[w] # Spin!NoWork /\ avail[w] = 1
        /\ worker[w] = "test" => verdict[num[w]] = "none"
        /\ worker[w] = "release" => verdict[num[w]] # "none"
        /\ worker[w] = "clear" => num[w] # Spin!NoWork
        /\ worker[w] = "clear" /\ verdict[num[w]] = "none" => avail[w] = 1
        /\ SpinIdle(w) /\ num[w] # Spin!NoWork => verdict[num[w]] = "none" /\ avail[w] = 1

\* Between avail and num of the worker it has chosen, main finds there nothing,
\* or a number that has been tested.
SpinHandInv ==
    main = "hand" =>
        /\ avail[i] = 1
        /\ worker[i] \in {"loop", "look", "clear"}
        /\ worker[i] = "clear" => verdict[num[i]] # "none"
        /\ worker[i] # "clear" => num[i] = Spin!NoWork

SpinOwnerInv ==
    /\ \A v, w \in Spin!Workers : num[v] = num[w] /\ num[v] # Spin!NoWork => v = w
    /\ \A j \in Spin!Positions : verdict[j] # "none" => j <= SpinGiven

\* What main knows in each of its phases.
SpinPhaseInv ==
    /\ main \in {"scan", "hand"} => numbers_left > 0
    /\ main \in {"drain", "stop", "join", "returned"} => numbers_left = 0
    /\ main = "drain" => \A v \in Spin!Workers : v < i => avail[v] = 0
    /\ main \in {"stop", "join", "returned"} => \A v \in Spin!Workers : avail[v] = 0
    /\ main = "stop" => i = 0
    /\ main = "join" => \A v \in Spin!Workers : v < i => finish[v] = 1
    /\ main = "returned" => \A v \in Spin!Workers : finish[v] = 1
    /\ freed => main = "returned"
    /\ work_done = 1 <=> main \in {"join", "returned"}
    /\ \A w \in Spin!Workers : worker[w] \in {"finish", "done"} => work_done = 1
    /\ \A w \in Spin!Workers : finish[w] = 1 => worker[w] = "done"

\* A worker that has erased its number: its avail stays set for ever.
SpinStuck(w) == /\ num[w] = Spin!NoWork
                /\ worker[w] \in {"loop", "look"}
                /\ ~(main = "hand" /\ i = w)

\* A number that was given is tested, or keeps a worker from being available.
SpinCoverInv ==
    \A j \in 1..SpinGiven : verdict[j] = "none" =>
        \E w \in Spin!Workers : avail[w] = 1 /\ (num[w] = j \/ SpinStuck(w))

SpinIInv == Spin!TypeOK /\ SpinHandshakeInv /\ SpinHandInv /\ SpinOwnerInv /\ SpinPhaseInv
  /\ SpinCoverInv

-----------------------------------------------------------------------------
LEMMA SpinConstantTypes ==
    /\ threads_num \in Nat \ {0}
    /\ Spin!sum \in Nat
    /\ Spin!Workers \subseteq Nat /\ 0 \in Spin!Workers
    /\ \A j \in Spin!Positions : j \in Nat /\ j # Spin!NoWork /\ Numbers[j] \in Nat \ {0}
BY SemPrimeAssumption DEF Spin!sum, Spin!Workers, Spin!Positions, Spin!NoWork

LEMMA SpinNextIndex == ASSUME NEW k \in Spin!Workers
                       PROVE  (k + 1) % threads_num \in Spin!Workers
<1>1. threads_num \in Nat /\ threads_num > 0 /\ k + 1 \in Nat
  BY SemPrimeAssumption DEF Spin!Workers
<1>2. (k + 1) % threads_num \in 0..(threads_num - 1)
  BY <1>1
<1> QED
  BY <1>2 DEF Spin!Workers

LEMMA SpinInitIInv == Spin!Init => SpinIInv
<1> SUFFICES ASSUME Spin!Init PROVE SpinIInv
  OBVIOUS
<1> USE SpinConstantTypes
<1>1. Spin!TypeOK
  <2>1. numbers_left \in 0..Spin!sum /\ i \in Spin!Workers
    BY DEF Spin!Init
  <2>2. main \in {"scan", "drain"}
    BY DEF Spin!Init
  <2> QED
    BY <2>1, <2>2 DEF Spin!Init, Spin!TypeOK
<1>2. SpinHandshakeInv
  BY DEF Spin!Init, SpinHandshakeInv, SpinIdle, Spin!NoWork, SpinGiven
<1>3. SpinHandInv /\ SpinOwnerInv
  BY DEF Spin!Init, SpinHandInv, SpinOwnerInv
<1>4. SpinPhaseInv /\ SpinCoverInv
  BY DEF Spin!Init, SpinPhaseInv, SpinCoverInv, SpinGiven, Spin!Workers
<1> QED
  BY <1>1, <1>2, <1>3, <1>4 DEF SpinIInv

LEMMA SpinReadDoneStep == ASSUME SpinIInv, NEW w \in Spin!Workers, Spin!ReadDone(w) PROVE SpinIInv'
<1> USE DEF SpinIInv, Spin!At, Spin!Goes, Spin!Running, Spin!workVars, Spin!mainVars
<1>1. Spin!TypeOK'
  BY DEF Spin!ReadDone, Spin!TypeOK
<1>2. SpinHandshakeInv' /\ SpinHandInv' /\ SpinOwnerInv'
  BY DEF Spin!ReadDone, Spin!TypeOK, SpinHandshakeInv, SpinHandInv, SpinOwnerInv, SpinPhaseInv,
    SpinIdle,
    SpinGiven
<1>3. SpinPhaseInv'
  BY DEF Spin!ReadDone, Spin!TypeOK, SpinPhaseInv
<1>4. SpinCoverInv'
  BY DEF Spin!ReadDone, Spin!TypeOK, SpinCoverInv, SpinPhaseInv, SpinStuck, SpinGiven
<1> QED
  BY <1>1, <1>2, <1>3, <1>4

LEMMA SpinReadNumStep == ASSUME SpinIInv, NEW w \in Spin!Workers, Spin!ReadNum(w) PROVE SpinIInv'
<1> USE DEF SpinIInv, Spin!At, Spin!Goes, Spin!Running, Spin!workVars, Spin!mainVars
<1>1. Spin!TypeOK'
  BY DEF Spin!ReadNum, Spin!TypeOK
<1>2. SpinHandshakeInv' /\ SpinHandInv' /\ SpinOwnerInv'
  BY DEF Spin!ReadNum, Spin!TypeOK, SpinHandshakeInv, SpinHandInv, SpinOwnerInv, SpinIdle, SpinGiven
<1>3. SpinPhaseInv'
  BY DEF Spin!ReadNum, Spin!TypeOK, SpinPhaseInv
<1>4. SpinCoverInv'
  BY DEF Spin!ReadNum, Spin!TypeOK, SpinCoverInv, SpinStuck, SpinGiven
<1> QED
  BY <1>1, <1>2, <1>3, <1>4

LEMMA SpinTestStep == ASSUME SpinIInv, NEW w \in Spin!Workers, Spin!Test(w) PROVE SpinIInv'
<1> USE DEF SpinIInv, Spin!At, Spin!Goes, Spin!Running, Spin!workVars, Spin!mainVars
<1>1. num[w] \in Spin!Positions /\ verdict[num[w]] = "none" /\ worker[w] = "test"
  BY DEF Spin!Test, Spin!TypeOK, SpinHandshakeInv
<1>2. /\ verdict'[num[w]] \in {"prime", "composite"}
      /\ \A j \in Spin!Positions : j # num[w] => verdict'[j] = verdict[j]
      /\ verdict' \in [Spin!Positions -> {"none", "prime", "composite"}]
  BY <1>1 DEF Spin!Test, Spin!TypeOK
<1>3. Spin!TypeOK'
  BY <1>2 DEF Spin!Test, Spin!TypeOK
<1>4. \A v \in Spin!Workers : v # w /\ num[v] # Spin!NoWork =>
         num[v] \in Spin!Positions /\ verdict'[num[v]] = verdict[num[v]]
  BY <1>2 DEF SpinOwnerInv, Spin!TypeOK
<1>5. SpinHandshakeInv'
  BY <1>1, <1>2, <1>4 DEF Spin!Test, Spin!TypeOK, SpinHandshakeInv, SpinIdle, SpinGiven
<1>6. SpinHandInv'
  BY <1>1, <1>4 DEF Spin!Test, Spin!TypeOK, SpinHandshakeInv, SpinHandInv
<1>7. SpinOwnerInv' /\ SpinPhaseInv'
  BY <1>1, <1>2 DEF Spin!Test, Spin!TypeOK, SpinOwnerInv, SpinHandshakeInv, SpinPhaseInv, SpinGiven
<1>8. SpinCoverInv'
  <2> SUFFICES ASSUME NEW j \in 1..SpinGiven, verdict'[j] = "none"
               PROVE  \E v \in Spin!Workers : avail'[v] = 1 /\ (num'[v] = j \/ SpinStuck(v)')
    BY DEF Spin!Test, SpinCoverInv, SpinGiven
  <2>1. j \in Spin!Positions /\ j # num[w] /\ verdict[j] = "none"
    BY <1>2, SpinConstantTypes DEF SpinGiven, Spin!Positions, Spin!TypeOK
  <2>2. PICK v \in Spin!Workers : avail[v] = 1 /\ (num[v] = j \/ SpinStuck(v))
    BY <2>1 DEF SpinCoverInv
  <2>3. v # w
    BY <1>1, <2>1, <2>2 DEF SpinStuck
  <2> QED
    BY <2>2, <2>3 DEF Spin!Test, SpinStuck, Spin!TypeOK
<1> QED
  BY <1>3, <1>5, <1>6, <1>7, <1>8

LEMMA SpinReleaseStep == ASSUME SpinIInv, NEW w \in Spin!Workers, Spin!Release(w) PROVE SpinIInv'
<1> USE DEF SpinIInv, Spin!At, Spin!Goes, Spin!Running, Spin!workVars, Spin!mainVars
<1>1. Spin!TypeOK'
  BY DEF Spin!Release, Spin!TypeOK
<1>2. SpinHandshakeInv' /\ SpinHandInv' /\ SpinOwnerInv'
  BY DEF Spin!Release, Spin!TypeOK, SpinHandshakeInv, SpinHandInv, SpinOwnerInv, SpinIdle, SpinGiven
<1>3. SpinPhaseInv'
  BY DEF Spin!Release, Spin!TypeOK, SpinPhaseInv
<1>4. SpinCoverInv'
  BY DEF Spin!Release, Spin!TypeOK, SpinCoverInv, SpinHandshakeInv, SpinStuck, SpinGiven
<1> QED
  BY <1>1, <1>2, <1>3, <1>4

LEMMA SpinClearStep == ASSUME SpinIInv, NEW w \in Spin!Workers, Spin!Clear(w) PROVE SpinIInv'
<1> USE DEF SpinIInv, Spin!At, Spin!Goes, Spin!Running, Spin!workVars, Spin!mainVars
<1>1. Spin!TypeOK'
  BY DEF Spin!Clear, Spin!TypeOK
<1>2. SpinHandshakeInv' /\ SpinHandInv' /\ SpinOwnerInv'
  BY SpinConstantTypes DEF Spin!Clear, Spin!TypeOK, SpinHandshakeInv, SpinHandInv, SpinOwnerInv,
    SpinIdle,
    SpinGiven, Spin!NoWork
<1>3. SpinPhaseInv'
  BY DEF Spin!Clear, Spin!TypeOK, SpinPhaseInv
<1>4. SpinCoverInv'
  BY DEF Spin!Clear, Spin!TypeOK, SpinCoverInv, SpinHandshakeInv, SpinHandInv, SpinStuck, SpinGiven
<1> QED
  BY <1>1, <1>2, <1>3, <1>4

LEMMA SpinFinishStep == ASSUME SpinIInv, NEW w \in Spin!Workers, Spin!Finish(w) PROVE SpinIInv'
<1> USE DEF SpinIInv, Spin!At, Spin!Goes, Spin!Running, Spin!workVars, Spin!mainVars
<1>1. Spin!TypeOK'
  BY DEF Spin!Finish, Spin!TypeOK
<1>2. SpinHandshakeInv' /\ SpinHandInv' /\ SpinOwnerInv'
  BY DEF Spin!Finish, Spin!TypeOK, SpinHandshakeInv, SpinHandInv, SpinOwnerInv, SpinIdle, SpinGiven
<1>3. SpinPhaseInv'
  BY DEF Spin!Finish, Spin!TypeOK, SpinPhaseInv
<1>4. SpinCoverInv'
  BY DEF Spin!Finish, Spin!TypeOK, SpinCoverInv, SpinStuck, SpinGiven
<1> QED
  BY <1>1, <1>2, <1>3, <1>4

-----------------------------------------------------------------------------
LEMMA SpinScanNextStep == SpinIInv /\ Spin!ScanNext => SpinIInv'
<1> SUFFICES ASSUME SpinIInv, Spin!ScanNext PROVE SpinIInv'
  OBVIOUS
<1> USE DEF SpinIInv, Spin!workVars
<1>1. Spin!TypeOK'
  BY SpinNextIndex DEF Spin!ScanNext, Spin!TypeOK
<1>2. SpinHandshakeInv' /\ SpinHandInv' /\ SpinOwnerInv' /\ SpinPhaseInv'
  BY DEF Spin!ScanNext, SpinHandshakeInv, SpinHandInv, SpinOwnerInv, SpinPhaseInv, SpinIdle,
    SpinGiven
<1>3. SpinCoverInv'
  BY DEF Spin!ScanNext, SpinCoverInv, SpinStuck, SpinGiven
<1> QED
  BY <1>1, <1>2, <1>3

LEMMA SpinClaimStep == SpinIInv /\ Spin!Claim => SpinIInv'
<1> SUFFICES ASSUME SpinIInv, Spin!Claim PROVE SpinIInv'
  OBVIOUS
<1> USE DEF SpinIInv, Spin!workVars
<1>1. Spin!TypeOK'
  BY DEF Spin!Claim, Spin!TypeOK
<1>2. SpinHandshakeInv'
  BY DEF Spin!Claim, Spin!TypeOK, SpinHandshakeInv, SpinIdle, SpinGiven
<1>3. SpinHandInv'
  BY DEF Spin!Claim, Spin!TypeOK, SpinHandshakeInv, SpinHandInv, SpinPhaseInv, SpinIdle
<1>4. SpinOwnerInv' /\ SpinPhaseInv'
  BY DEF Spin!Claim, Spin!TypeOK, SpinOwnerInv, SpinPhaseInv, SpinGiven
<1>5. SpinCoverInv'
  BY DEF Spin!Claim, Spin!TypeOK, SpinCoverInv, SpinStuck, SpinGiven
<1> QED
  BY <1>1, <1>2, <1>3, <1>4, <1>5

LEMMA SpinHandStep == SpinIInv /\ Spin!Hand => SpinIInv'
<1> SUFFICES ASSUME SpinIInv, Spin!Hand PROVE SpinIInv'
  OBVIOUS
<1> USE SpinConstantTypes DEF SpinIInv, Spin!workVars
<1>1. numbers_left > 0 /\ numbers_left \in 0..Spin!sum /\ i \in Spin!Workers /\ main = "hand"
  BY DEF Spin!Hand, SpinPhaseInv, Spin!TypeOK
<1>2. Spin!pos \in Spin!Positions /\ Spin!pos = SpinGiven + 1 /\ SpinGiven' = Spin!pos
        /\ Spin!pos # Spin!NoWork
  BY <1>1 DEF Spin!Hand, Spin!pos, SpinGiven, Spin!Positions, Spin!NoWork
<1>3. verdict[Spin!pos] = "none" /\ \A w \in Spin!Workers : num[w] # Spin!pos
  BY <1>1, <1>2 DEF SpinOwnerInv, SpinHandshakeInv, Spin!TypeOK, SpinGiven
<1>4. Spin!TypeOK'
  BY <1>1, <1>2 DEF Spin!Hand, Spin!TypeOK
<1>5. num'[i] = Spin!pos /\ \A w \in Spin!Workers : w # i => num'[w] = num[w]
  BY <1>1 DEF Spin!Hand, Spin!TypeOK
<1>6. SpinHandshakeInv'
  <2>1. \A w \in Spin!Workers : num[w] <= SpinGiven'
    <3>1. \A w \in Spin!Workers : num[w] \in Int /\ num[w] <= SpinGiven
      BY DEF SpinHandshakeInv, Spin!TypeOK, Spin!Positions, Spin!NoWork
    <3> QED
      BY <1>1, <1>2, <3>1 DEF SpinGiven
  <2>2. Spin!pos <= SpinGiven'
    BY <1>1, <1>2 DEF SpinGiven
  <2>3. \A w \in Spin!Workers : num'[w] <= SpinGiven'
    BY <1>5, <2>1, <2>2
  <2> QED
    BY <1>1, <1>2, <1>3, <1>5, <2>3 DEF Spin!Hand, SpinHandshakeInv, SpinHandInv, SpinIdle
<1>7. SpinHandInv' /\ SpinPhaseInv'
  BY <1>1 DEF Spin!Hand, SpinHandInv, SpinPhaseInv, Spin!TypeOK, Spin!Workers
<1>8. SpinOwnerInv'
  BY <1>1, <1>2, <1>3, <1>5 DEF Spin!Hand, SpinOwnerInv, Spin!Positions, SpinGiven
<1>9. SpinCoverInv'
  <2> SUFFICES ASSUME NEW j \in 1..SpinGiven', verdict[j] = "none"
               PROVE  \E v \in Spin!Workers : avail[v] = 1 /\ (num'[v] = j \/ SpinStuck(v)')
    BY DEF Spin!Hand, SpinCoverInv
  <2>1. CASE j = Spin!pos
    BY <1>1, <1>5, <2>1 DEF SpinHandInv
  <2>2. CASE j # Spin!pos
    <3>1. j \in 1..SpinGiven
      BY <1>1, <1>2, <2>2 DEF SpinGiven
    <3>2. PICK v \in Spin!Workers : avail[v] = 1 /\ (num[v] = j \/ SpinStuck(v))
      BY <3>1 DEF SpinCoverInv
    <3>3. v # i
      BY <1>1, <3>1, <3>2 DEF SpinHandInv, SpinStuck, Spin!NoWork
    <3> QED
      BY <1>5, <3>2, <3>3 DEF Spin!Hand, SpinStuck
  <2> QED
    BY <2>1, <2>2
<1> QED
  BY <1>4, <1>6, <1>7, <1>8, <1>9

LEMMA SpinEndStep == SpinIInv /\ (Spin!Drain \/ Spin!Stop \/ Spin!Join) => SpinIInv'
<1> SUFFICES ASSUME SpinIInv, Spin!Drain \/ Spin!Stop \/ Spin!Join PROVE SpinIInv'
  OBVIOUS
<1> USE SpinConstantTypes DEF SpinIInv, Spin!workVars
<1>0. /\ i \in Nat /\ i < threads_num
      /\ \A v \in Spin!Workers : v < i + 1 => v < i \/ v = i
      /\ ~(i + 1 < threads_num) => \A v \in Spin!Workers : v < i \/ v = i
      /\ i + 1 < threads_num => i + 1 \in Spin!Workers
  BY DEF Spin!TypeOK, Spin!Workers
<1>1. Spin!TypeOK'
  BY <1>0 DEF Spin!Drain, Spin!Stop, Spin!Join, Spin!TypeOK
<1>2. SpinHandshakeInv' /\ SpinHandInv' /\ SpinOwnerInv'
  BY DEF Spin!Drain, Spin!Stop, Spin!Join, SpinHandshakeInv, SpinHandInv, SpinOwnerInv, SpinIdle,
    SpinGiven
<1>3. SpinPhaseInv'
  <2>1. CASE Spin!Drain
    <3>1. avail[i] = 0 /\ \A v \in Spin!Workers : v < i => avail[v] = 0
      BY <2>1 DEF Spin!Drain, SpinPhaseInv, Spin!TypeOK
    <3>2. CASE i + 1 < threads_num
      BY <1>0, <2>1, <3>1, <3>2 DEF Spin!Drain, SpinPhaseInv
    <3>3. CASE ~(i + 1 < threads_num)
      BY <1>0, <2>1, <3>1, <3>3 DEF Spin!Drain, SpinPhaseInv
    <3> QED
      BY <3>2, <3>3
  <2>2. CASE Spin!Stop
    <3>1. \A v \in Spin!Workers : ~(v < 0)
      OBVIOUS
    <3>2. i = 0
      BY <2>2 DEF Spin!Stop, SpinPhaseInv
    <3> QED
      BY <2>2, <3>1, <3>2 DEF Spin!Stop, SpinPhaseInv
  <2>3. CASE Spin!Join
    <3>1. finish[i] = 1 /\ \A v \in Spin!Workers : v < i => finish[v] = 1
      BY <2>3 DEF Spin!Join, SpinPhaseInv, Spin!TypeOK
    <3>2. CASE i + 1 < threads_num
      BY <1>0, <2>3, <3>1, <3>2 DEF Spin!Join, SpinPhaseInv
    <3>3. CASE ~(i + 1 < threads_num)
      BY <1>0, <2>3, <3>1, <3>3 DEF Spin!Join, SpinPhaseInv
    <3> QED
      BY <3>2, <3>3
  <2> QED
    BY <2>1, <2>2, <2>3
<1>4. SpinCoverInv'
  BY DEF Spin!Drain, Spin!Stop, Spin!Join, SpinCoverInv, SpinStuck, SpinGiven
<1> QED
  BY <1>1, <1>2, <1>3, <1>4

LEMMA SpinStutterStep == SpinIInv /\ UNCHANGED Spin!vars => SpinIInv'
BY DEF SpinIInv, Spin!vars, Spin!TypeOK, SpinHandshakeInv, SpinHandInv, SpinOwnerInv, SpinPhaseInv,
  SpinCoverInv, SpinIdle, SpinStuck, SpinGiven

\* SpinIInv is an inductive invariant.
THEOREM SpinInductive == Spin!Spec => []SpinIInv
<1>1. SpinIInv /\ [Spin!Next]_(Spin!vars) => SpinIInv'
  <2> SUFFICES ASSUME SpinIInv, [Spin!Next]_(Spin!vars) PROVE SpinIInv'
    OBVIOUS
  <2>1. CASE Spin!MainStep
    BY <2>1, SpinScanNextStep, SpinClaimStep, SpinHandStep, SpinEndStep DEF Spin!MainStep
  <2>2. ASSUME NEW w \in Spin!Workers, Spin!WorkerStep(w) PROVE SpinIInv'
    BY <2>2, SpinReadDoneStep, SpinReadNumStep, SpinTestStep, SpinReleaseStep, SpinClearStep,
      SpinFinishStep
       DEF Spin!WorkerStep
  <2>3. CASE UNCHANGED Spin!vars
    BY <2>3, SpinStutterStep
  <2> QED
    BY <2>1, <2>2, <2>3 DEF Spin!Next
<1> QED
  BY SpinInitIInv, <1>1, PTL DEF Spin!Spec

-----------------------------------------------------------------------------
(* Theorems. *)

\* The variables keep their types.
THEOREM SpinTypeCorrect == Spin!Spec => []Spin!TypeOK
BY SpinInductive, PTL DEF SpinIInv

\* main frees the records when no worker can look at them any more.
THEOREM SpinNoUseAfterFreeHolds == Spin!Spec => []Spin!NoUseAfterFree
<1>1. SpinIInv => Spin!NoUseAfterFree
  BY DEF SpinIInv, SpinPhaseInv, Spin!NoUseAfterFree
<1> QED
  BY <1>1, SpinInductive, PTL

\* A number has one owner, until it has been tested.
THEOREM SpinOneOwnerHolds == Spin!Spec => []Spin!OneOwner
<1>1. SpinIInv => Spin!OneOwner
  BY DEF SpinIInv, SpinOwnerInv, SpinHandshakeInv, Spin!OneOwner
<1> QED
  BY <1>1, SpinInductive, PTL

-----------------------------------------------------------------------------
(* primetest. *)

\* A number greater than half of n, and smaller than n, does not divide n.
LEMMA SpinNoLargeDivisor ==
    ASSUME NEW n \in Nat, NEW d \in Nat, n < 2 * d, d < n
    PROVE  n % d = n - d
<1>1. n = d * 1 + (n - d) /\ 0 <= n - d /\ n - d < d
  OBVIOUS
<1> QED
  BY <1>1

\* Looking for divisors up to number / 2 is enough.
LEMMA SpinPrimeTestCorrect == ASSUME NEW n \in Nat \ {0}
                              PROVE  Spin!primetest(n) <=> Spin!Service!IsPrime(n)
<1>1. n \div 2 \in Nat /\ 2 * (n \div 2) <= n /\ n < 2 * (n \div 2) + 2
  OBVIOUS
<1>2. ASSUME Spin!primetest(n), NEW d \in 2..(n - 1) PROVE n % d # 0
  <2>1. CASE d <= n \div 2
    <3>1. d \in 2..(n \div 2)
      BY <1>1, <2>1
    <3> QED
      BY <1>2, <3>1 DEF Spin!primetest
  <2>2. CASE d > n \div 2
    <3>1. n < 2 * d /\ d < n /\ d \in Nat
      BY <1>1, <2>2
    <3>2. n % d = n - d
      BY <3>1, SpinNoLargeDivisor
    <3> QED
      BY <3>1, <3>2
  <2> QED
    BY <1>1, <2>1, <2>2
<1>3. ASSUME Spin!Service!IsPrime(n) PROVE Spin!primetest(n)
  <2>1. \A d \in 2..(n \div 2) : d \in 2..(n - 1)
    BY <1>1
  <2> QED
    BY <1>3, <2>1 DEF Spin!Service!IsPrime, Spin!primetest
<1>4. Spin!primetest(n) => n > 1
  BY DEF Spin!primetest
<1> QED
  BY <1>2, <1>3, <1>4 DEF Spin!Service!IsPrime

-----------------------------------------------------------------------------
(* The program implements the abstract service. *)

LEMMA SpinRefineInit == Spin!Init => Spin!Service!Init
BY DEF Spin!Init, Spin!Service!Init, Spin!Positions, Spin!sum

LEMMA SpinRefineTest == ASSUME SpinIInv, NEW w \in Spin!Workers, Spin!Test(w)
                        PROVE  Spin!Service!Next
<1> DEFINE j == num[w]
<1>1. j \in 1..Len(Numbers) /\ verdict[j] = "none" /\ main # "returned" /\ main' = main
  BY DEF SpinIInv, Spin!Test, Spin!At, Spin!Running, Spin!TypeOK, SpinHandshakeInv, Spin!Positions,
    Spin!sum, Spin!mainVars
<1>2. Numbers[j] \in Nat \ {0}
  BY <1>1, SemPrimeAssumption
<1>3. verdict' = [verdict EXCEPT ![j] = IF Spin!Service!IsPrime(Numbers[j]) THEN "prime"
                                                                            ELSE "composite"]
  BY <1>2, SpinPrimeTestCorrect DEF Spin!Test
<1>4. Spin!Service!Test(j)
  BY <1>1, <1>3 DEF Spin!Service!Test
<1> QED
  BY <1>1, <1>4 DEF Spin!Service!Next

\* When main returns, no worker is busy and all the numbers have been given.
LEMMA SpinRefineReturn == ASSUME SpinIInv, Spin!Join
                          PROVE  Spin!Service!Next \/ UNCHANGED Spin!Service!vars
<1> USE DEF SpinIInv
<1>1. \A w \in Spin!Workers : avail[w] = 0
  BY DEF Spin!Join, SpinPhaseInv
<1>2. SpinGiven = Spin!sum
  BY SpinConstantTypes DEF Spin!Join, SpinPhaseInv, SpinGiven
<1>3. \A j \in 1..Len(Numbers) : verdict[j] # "none"
  BY <1>1, <1>2 DEF SpinCoverInv, Spin!sum
<1>4. CASE main' = "returned"
  BY <1>3, <1>4 DEF Spin!Join, Spin!Service!Next, Spin!Service!Return
<1>5. CASE main' # "returned"
  BY <1>5 DEF Spin!Join, Spin!Service!vars
<1> QED
  BY <1>4, <1>5

\* Every number is tested once and correctly, and main waits for all of them.
THEOREM SpinImplements == Spin!Spec => Spin!ImplementsService
<1>1. SpinIInv /\ [Spin!Next]_(Spin!vars) => [Spin!Service!Next]_(Spin!Service!vars)
  <2> SUFFICES ASSUME SpinIInv, [Spin!Next]_(Spin!vars)
        PROVE Spin!Service!Next \/ UNCHANGED Spin!Service!vars
    OBVIOUS
  <2>1. ASSUME NEW w \in Spin!Workers, Spin!WorkerStep(w)
        PROVE  Spin!Service!Next \/ UNCHANGED Spin!Service!vars
    <3>1. CASE Spin!Test(w)
      BY <3>1, SpinRefineTest
    <3>2. CASE ~Spin!Test(w)
      BY <2>1, <3>2 DEF Spin!WorkerStep, Spin!ReadDone, Spin!ReadNum, Spin!Release, Spin!Clear,
        Spin!Finish, Spin!mainVars,
                        Spin!Service!vars
    <3> QED
      BY <3>1, <3>2
  <2>2. CASE Spin!Join
    BY <2>2, SpinRefineReturn
  <2>3. CASE Spin!ScanNext \/ Spin!Claim \/ Spin!Hand \/ Spin!Drain \/ Spin!Stop
    BY <2>3 DEF Spin!ScanNext, Spin!Claim, Spin!Hand, Spin!Drain, Spin!Stop, Spin!Service!vars
  <2>4. CASE UNCHANGED Spin!vars
    BY <2>4 DEF Spin!vars, Spin!Service!vars
  <2> QED
    BY <2>1, <2>2, <2>3, <2>4 DEF Spin!Next, Spin!MainStep
<1> QED
  BY SpinRefineInit, <1>1, SpinInductive, PTL DEF Spin!Spec, Spin!ImplementsService,
    Spin!Service!Spec
=============================================================================
