--------------------------- MODULE SpinPipe_proofs ---------------------------
(***************************************************************************)
(* Proofs about SpinPipe: type correctness and the safety invariants, for  *)
(* every size of the pipe and every length of the text.                    *)
(***************************************************************************)
EXTENDS SpinPipe, TLAPS

\* The character at which the current lap of the writer, and of the reader,
\* started.
lapW == countW - writeB
lapR == countR - readB

\* Who has been created, and who has closed the pipe.
CreationInv ==
    /\ main = "start" => writer = "none"
    /\ main \in {"start", "half", "failing"} => reader = "none"
    /\ main \in {"start", "half"} => endread = 0 /\ ~freed
    /\ main = "wait" /\ endread = 1 => reader \in {"free", "done"}
    /\ main = "wait" /\ freed => reader = "done"
    /\ main = "exited" => reader \in {"none", "free", "done"}
    /\ writer = "none" => countW = 0 /\ writeB = 0
    /\ reader = "none" => countR = 0 /\ readB = 0

\* Where the indices and the counters are.
IndexInv ==
    /\ writer \in {"write", "count"} => writeB < pipe_size /\ countW < length
    /\ writer = "wrap" => writeB = pipe_size
    /\ writer = "done" => countW = length
    /\ reader \in {"read", "count"} => readB < pipe_size /\ countR < countW
    /\ reader = "wrap" => readB = pipe_size
    /\ reader = "test" /\ readB = pipe_size => countR = length
    /\ reader \in {"free", "done"} => countW = length /\ countR = length
    /\ countR <= countW

\* The writer is in the lap of the reader, or in the next one and then the
\* reader has begun its own: the writer wraps only when it has seen that.
LapInv == /\ lapW = lapR \/ (lapW = lapR + pipe_size /\ readB > 0)
          /\ lapR >= 0

\* What the slots hold: the characters of the writer's lap up to where it is,
\* and those of the lap before from there on.
FifoInv ==
    \A s \in 0..(pipe_size - 1) :
        fifo[s] = IF s < writeB \/ (s = writeB /\ writer = "count")
                  THEN lapW + s
                  ELSE IF lapW = 0 THEN None ELSE lapW - pipe_size + s

IInv == TypeOK /\ CreationInv /\ IndexInv /\ LapInv /\ FifoInv

-----------------------------------------------------------------------------
\* What TypeOK says of the numbers.
LEMMA Numbers ==
    ASSUME TypeOK
    PROVE  /\ pipe_size \in Nat \ {0} /\ length \in Nat
           /\ writeB \in Nat /\ writeB <= pipe_size
           /\ readB \in Nat /\ readB <= pipe_size
           /\ countW \in Nat /\ countW <= length
           /\ countR \in Nat /\ countR <= length
BY PipeAssumption DEF TypeOK

LEMMA InitIInv == Init => IInv
<1> SUFFICES ASSUME Init PROVE IInv
  OBVIOUS
<1>1. TypeOK
  <2>1. pipe_size \in Nat \ {0} /\ length \in Nat
    BY PipeAssumption DEF Init
  <2>2. 0 \in 0..pipe_size /\ 0 \in 0..length
    BY <2>1
  <2> QED
    BY <2>2 DEF Init, TypeOK
<1>2. CreationInv /\ IndexInv /\ LapInv
  BY PipeAssumption DEF Init, CreationInv, IndexInv, LapInv, lapW, lapR
<1>3. FifoInv
  BY DEF Init, FifoInv, lapW
<1> QED
  BY <1>1, <1>2, <1>3 DEF IInv

LEMMA WriteStep == IInv /\ Write => IInv'
<1> SUFFICES ASSUME IInv, Write PROVE IInv'
  OBVIOUS
<1> USE Numbers DEF IInv, args, readerVars
<1>1. writeB < pipe_size /\ countW < length
  BY DEF Write, IndexInv
<1>2. TypeOK'
  BY <1>1 DEF Write, TypeOK, Characters
<1>3. CreationInv' /\ IndexInv' /\ LapInv'
  BY DEF Write, CreationInv, IndexInv, LapInv, lapW, lapR
<1>4. FifoInv'
  BY <1>1 DEF Write, FifoInv, lapW, TypeOK
<1> QED
  BY <1>2, <1>3, <1>4

LEMMA CountWriteStep == IInv /\ CountWrite => IInv'
<1> SUFFICES ASSUME IInv, CountWrite PROVE IInv'
  OBVIOUS
<1> USE Numbers DEF IInv, args, readerVars
<1>1. writeB < pipe_size /\ countW < length
  BY DEF CountWrite, IndexInv
<1>2. TypeOK'
  BY <1>1 DEF CountWrite, TypeOK, NextWrite, Characters
<1>3. CreationInv' /\ IndexInv' /\ LapInv'
  BY <1>1 DEF CountWrite, CreationInv, IndexInv, LapInv, lapW, lapR, NextWrite
<1>4. FifoInv'
  BY DEF CountWrite, FifoInv, lapW, NextWrite
<1> QED
  BY <1>2, <1>3, <1>4

\* The reader has begun the lap whose slots the writer is about to overwrite.
LEMMA WrapWriteStep == IInv /\ WrapWrite => IInv'
<1> SUFFICES ASSUME IInv, WrapWrite PROVE IInv'
  OBVIOUS
<1> USE Numbers DEF IInv, args, readerVars
<1>1. writeB = pipe_size /\ countR > lapW
  BY DEF WrapWrite, SlotFree, IndexInv, lapW
<1>2. lapW = lapR /\ readB > 0
  BY <1>1 DEF LapInv, lapR, lapW
<1>3. TypeOK'
  BY DEF WrapWrite, TypeOK, NextWrite, Characters
<1>4. CreationInv' /\ IndexInv'
  BY DEF WrapWrite, CreationInv, IndexInv, NextWrite
<1>5. LapInv' /\ lapW' = lapW + pipe_size /\ lapW >= 0
  BY <1>1, <1>2 DEF WrapWrite, LapInv, lapW, lapR
<1>6. FifoInv'
  BY <1>1, <1>5 DEF WrapWrite, FifoInv, lapW, NextWrite
<1> QED
  BY <1>3, <1>4, <1>5, <1>6

LEMMA ReaderMoves ==
    ASSUME IInv, StartRead \/ Read \/ Close \/ Free
    PROVE  IInv'
<1> USE Numbers DEF IInv, args, writerVars
<1>1. TypeOK'
  <2>1. CASE Read
    <3>1. fifo[readB] \in Characters \cup {None}
      BY <2>1 DEF Read, IndexInv, TypeOK
    <3> QED
      BY <2>1, <3>1 DEF Read, TypeOK, Characters
  <2>2. CASE StartRead \/ Close \/ Free
    BY <2>2 DEF StartRead, Close, Free, TypeOK, Characters
  <2> QED
    BY <2>1, <2>2
<1>2. CreationInv'
  BY DEF StartRead, Read, Close, Free, CreationInv, Running
<1>3. IndexInv'
  BY DEF StartRead, Read, Close, Free, AllRead, IndexInv
<1>4. LapInv' /\ FifoInv'
  BY DEF StartRead, Read, Close, Free, LapInv, FifoInv, lapW, lapR
<1> QED
  BY <1>1, <1>2, <1>3, <1>4

LEMMA CountReadStep == IInv /\ CountRead => IInv'
<1> SUFFICES ASSUME IInv, CountRead PROVE IInv'
  OBVIOUS
<1> USE Numbers DEF IInv, args, writerVars
<1>1. readB < pipe_size /\ countR < countW
  BY DEF CountRead, IndexInv
<1>2. TypeOK'
  BY <1>1 DEF CountRead, TypeOK, Characters
<1>3. CreationInv' /\ IndexInv'
  BY <1>1 DEF CountRead, AtBoundary, CreationInv, IndexInv, Running
<1>4. LapInv' /\ FifoInv'
  BY DEF CountRead, LapInv, FifoInv, lapW, lapR
<1> QED
  BY <1>2, <1>3, <1>4

\* The reader enters the lap in which the writer already is.
LEMMA WrapReadStep == IInv /\ WrapRead => IInv'
<1> SUFFICES ASSUME IInv, WrapRead PROVE IInv'
  OBVIOUS
<1> USE Numbers DEF IInv, args, writerVars
<1>1. readB = pipe_size /\ countR < countW
  BY DEF WrapRead, IndexInv
<1>2. lapW = lapR + pipe_size
  BY <1>1 DEF LapInv, lapW, lapR
<1>3. TypeOK'
  BY DEF WrapRead, TypeOK, Characters
<1>4. CreationInv' /\ IndexInv'
  BY DEF WrapRead, CreationInv, IndexInv, Running
<1>5. LapInv' /\ FifoInv'
  BY <1>1, <1>2 DEF WrapRead, LapInv, FifoInv, lapW, lapR
<1> QED
  BY <1>3, <1>4, <1>5

LEMMA MainInvStep == IInv /\ MainStep => IInv'
<1> SUFFICES ASSUME IInv, MainStep PROVE IInv'
  OBVIOUS
<1> USE Numbers DEF IInv, args, writerVars, readerVars, MainStep
<1>1. TypeOK'
  BY DEF CreateWriter, CreateReader, CreateFails, Exit, TypeOK, NextWrite, Characters
<1>2. CreationInv'
  BY DEF CreateWriter, CreateReader, CreateFails, Exit, CreationInv, NextWrite
<1>3. IndexInv'
  <2>1. CASE CreateWriter
    BY <2>1 DEF CreateWriter, CreationInv, IndexInv, NextWrite
  <2>2. CASE CreateReader
    BY <2>2 DEF CreateReader, CreationInv, IndexInv
  <2>3. CASE CreateFails \/ Exit
    BY <2>3 DEF CreateFails, Exit, IndexInv
  <2> QED
    BY <2>1, <2>2, <2>3
<1>4. LapInv'
  BY DEF CreateWriter, CreateReader, CreateFails, Exit, LapInv, lapW, lapR
<1>5. FifoInv'
  BY DEF CreateWriter, CreateReader, CreateFails, Exit, CreationInv, FifoInv, NextWrite, lapW
<1> QED
  BY <1>1, <1>2, <1>3, <1>4, <1>5

LEMMA StutterStep == IInv /\ UNCHANGED vars => IInv'
BY DEF IInv, vars, TypeOK, Characters, CreationInv, IndexInv, LapInv, FifoInv, lapW, lapR

\* IInv is an inductive invariant.
THEOREM Inductive == Spec => []IInv
<1>1. IInv /\ [Next]_vars => IInv'
  BY WriteStep, CountWriteStep, WrapWriteStep, ReaderMoves, CountReadStep, WrapReadStep,
     MainInvStep, StutterStep DEF Next, WriterStep, ReaderStep
<1> QED
  BY InitIInv, <1>1, PTL DEF Spec

-----------------------------------------------------------------------------
(* Theorems. *)

\* The variables keep their types.
THEOREM TypeCorrect == Spec => []TypeOK
BY Inductive, PTL DEF IInv

\* No access outside the buffer.
THEOREM InBoundsHolds == Spec => []InBounds
<1>1. IInv => InBounds
  BY DEF IInv, IndexInv, InBounds
<1> QED
  BY <1>1, Inductive, PTL

\* The writer is less than two laps ahead of the reader.
THEOREM LagBoundedHolds == Spec => []LagBounded
<1>1. IInv => LagBounded
  BY Numbers DEF IInv, LapInv, IndexInv, LagBounded, lapW, lapR
<1> QED
  BY <1>1, Inductive, PTL

\* What a read finds in its slot.
LEMMA SlotRead ==
    ASSUME IInv, Read
    PROVE  /\ fifo[readB] \in {countR, countR + pipe_size}
           /\ pipe_size = 1 => fifo[readB] = countR
<1> USE Numbers DEF IInv
<1>1. readB < pipe_size /\ countR < countW
  BY DEF Read, IndexInv
<1>2. fifo[readB] = IF readB < writeB \/ (readB = writeB /\ writer = "count")
                    THEN lapW + readB
                    ELSE IF lapW = 0 THEN None ELSE lapW - pipe_size + readB
  BY <1>1 DEF FifoInv
<1>3. CASE lapW = lapR
  <2>1. readB < writeB
    BY <1>1, <1>3 DEF lapW, lapR
  <2> QED
    BY <1>2, <1>3, <2>1 DEF lapW, lapR
<1>4. CASE lapW = lapR + pipe_size /\ readB > 0
  <2>1. pipe_size # 1 /\ lapW # 0
    BY <1>1, <1>4 DEF LapInv, lapR, lapW
  <2> QED
    BY <1>2, <1>4, <2>1 DEF lapW, lapR
<1> QED
  BY <1>3, <1>4 DEF LapInv

\* A step other than Read leaves the history of the reads alone.
LEMMA ReadOnly == ASSUME [Next]_vars, ~Read
                  PROVE  UNCHANGED <<out, pipe_size, length>>
BY DEF Next, WriterStep, ReaderStep, MainStep, Write, CountWrite, WrapWrite, StartRead,
       CountRead, WrapRead, Close, Free, CreateWriter, CreateReader, CreateFails, Exit,
       readerVars, args, vars

\* No read returns garbage, or a character older than the one asked for.
THEOREM ReadsFreshHolds == Spec => []ReadsFresh
<1>1. Init => ReadsFresh
  BY DEF Init, ReadsFresh
<1>2. IInv /\ ReadsFresh /\ [Next]_vars => ReadsFresh'
  <2>1. ASSUME IInv, ReadsFresh, Read PROVE ReadsFresh'
    BY <2>1, SlotRead DEF Read, ReadsFresh, IInv, TypeOK, Characters, args
  <2>2. ASSUME ReadsFresh, [Next]_vars, ~Read PROVE ReadsFresh'
    BY <2>2, ReadOnly DEF ReadsFresh, Characters
  <2> QED
    BY <2>1, <2>2
<1> QED
  BY <1>1, <1>2, Inductive, PTL DEF Spec

\* A pipe of one slot is a first-in first-out queue.
THEOREM OneSlotIsFifoHolds == Spec => []OneSlotIsFifo
<1>1. Init => OneSlotIsFifo
  BY DEF Init, OneSlotIsFifo
<1>2. IInv /\ OneSlotIsFifo /\ [Next]_vars => OneSlotIsFifo'
  <2>1. ASSUME IInv, OneSlotIsFifo, Read PROVE OneSlotIsFifo'
    BY <2>1, SlotRead DEF Read, OneSlotIsFifo, IInv, TypeOK, Characters, args
  <2>2. ASSUME OneSlotIsFifo, [Next]_vars, ~Read PROVE OneSlotIsFifo'
    BY <2>2, ReadOnly DEF OneSlotIsFifo, Characters
  <2> QED
    BY <2>1, <2>2
<1> QED
  BY <1>1, <1>2, Inductive, PTL DEF Spec

\* The buffer is not used after it has been freed.
THEOREM NoUseAfterFreeHolds == Spec => []NoUseAfterFree
<1>1. IInv => NoUseAfterFree
  BY Numbers DEF IInv, TypeOK, CreationInv, IndexInv, NoUseAfterFree, Running
<1> QED
  BY <1>1, Inductive, PTL

\* The program does not end before the whole text has been read.
THEOREM ReturnsCompleteHolds == Spec => []ReturnsComplete
<1>1. IInv => ReturnsComplete
  BY DEF IInv, CreationInv, IndexInv, ReturnsComplete
<1> QED
  BY <1>1, Inductive, PTL
=============================================================================
