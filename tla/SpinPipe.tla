------------------------------ MODULE SpinPipe ------------------------------
(***************************************************************************)
(* Actively_Waiting/FIFO_pipe/fifo.c: one thread writes the characters of  *)
(* argv[2] into a circular buffer, one reads them; they only synchronise   *)
(* by spinning on each other's counter.                                    *)
(*                                                                         *)
(* Every access to a shared variable is a step of its own, in program      *)
(* order: the shared variables are volatile, the program is built without  *)
(* optimisation, and x86 keeps the stores of a thread in order.  A         *)
(* character is identified with its index in the text.                     *)
(***************************************************************************)
EXTENDS Integers

CONSTANTS Sizes,     \* the values of argv[1]
          Lengths    \* the lengths of argv[2]

\* A pipe of size 0 would be written out of its bounds from the first character.
ASSUME PipeAssumption == Sizes \subseteq Nat \ {0} /\ Lengths \subseteq Nat

VARIABLES
    pipe_size, length,   \* set by main before the threads exist
    fifo,                \* the buffer: which character each slot holds
    writeB, countW,      \* the writer's index and its counter
    readB, countR,       \* the reader's
    endread,             \* set by pipe_close
    freed,               \* the buffer has been freed
    writer, reader, main,
    out                  \* history: the character that each read returned

vars == <<pipe_size, length, fifo, writeB, countW, readB, countR, endread, freed,
          writer, reader, main, out>>

writerVars == <<fifo, writeB, countW, writer>>
readerVars == <<readB, countR, reader, out>>
args == <<pipe_size, length>>

None == -1        \* no character: a slot never written, a read not made
Characters == 0..(length - 1)

\* writer: none, write (about to store a character), count (stored, not yet
\* counted), wrap (spinning at the end of the buffer), done.
\* reader: none, test (the loops of thread_read), read, count, wrap, free
\* (endread is set), done.
\* main: start, half (the writer exists), wait, failing (pthread_create has
\* failed, the pipe is closed, exit not yet called), exited.
Init ==
    /\ pipe_size \in Sizes
    /\ length \in Lengths
    /\ fifo = [s \in 0..(pipe_size - 1) |-> None]
    /\ writeB = 0 /\ countW = 0
    /\ readB = 0 /\ countR = 0
    /\ endread = 0
    /\ freed = FALSE
    /\ writer = "none" /\ reader = "none" /\ main = "start"
    /\ out = [n \in Characters |-> None]

Running == main # "exited"

-----------------------------------------------------------------------------
(* thread_write and pipe_write. *)

\* Where the loop of thread_write goes with n characters written.
NextWrite(n) == IF n < length THEN "write" ELSE "done"

Write ==
    /\ Running /\ writer = "write"
    /\ fifo' = [fifo EXCEPT ![writeB] = countW]
    /\ writer' = "count"
    /\ UNCHANGED <<args, writeB, countW, readerVars, endread, freed, main>>

CountWrite ==
    /\ Running /\ writer = "count"
    /\ writeB' = writeB + 1
    /\ countW' = countW + 1
    /\ writer' = IF writeB' = pipe_size THEN "wrap" ELSE NextWrite(countW')
    /\ UNCHANGED <<args, fifo, readerVars, endread, freed, main>>

\* Faulty variant: the loop tests > instead of >=.
SlotFreeOneTooEarly == countW - countR <= pipe_size

\* Faulty variant: the writer does not wait at all.
SlotFreeAlways == TRUE

\* The spinning loop of pipe_write ends.
SlotFree == countW - countR < pipe_size

WrapWrite ==
    /\ Running /\ writer = "wrap"
    /\ SlotFree
    /\ writeB' = 0
    /\ writer' = NextWrite(countW)
    /\ UNCHANGED <<args, fifo, countW, readerVars, endread, freed, main>>

-----------------------------------------------------------------------------
(* thread_read, pipe_read and pipe_close. *)

\* The inner loop of thread_read: a character has been counted.
StartRead ==
    /\ Running /\ reader = "test"
    /\ countW > countR
    /\ reader' = "read"
    /\ UNCHANGED <<args, writerVars, readB, countR, out, endread, freed, main>>

Read ==
    /\ Running /\ reader = "read"
    /\ out' = [out EXCEPT ![countR] = fifo[readB]]
    /\ reader' = "count"
    /\ UNCHANGED <<args, writerVars, readB, countR, endread, freed, main>>

\* Faulty variant: the reader waits for a character at the end of the buffer
\* even when it has read the last one.
AtBoundaryAlways == readB + 1 = pipe_size

\* Faulty variant: the reader compares before it counts.
AtBoundaryLate == readB = pipe_size

\* The character being counted is the last one of the buffer, not of the text.
AtBoundary == readB + 1 = pipe_size /\ countR + 1 # length

CountRead ==
    /\ Running /\ reader = "count"
    /\ readB' = readB + 1
    /\ countR' = countR + 1
    /\ reader' = IF AtBoundary THEN "wrap" ELSE "test"
    /\ UNCHANGED <<args, writerVars, out, endread, freed, main>>

WrapRead ==
    /\ Running /\ reader = "wrap"
    /\ countR # countW
    /\ readB' = 0
    /\ reader' = "test"
    /\ UNCHANGED <<args, writerVars, countR, out, endread, freed, main>>

\* Faulty variant: the reader stops as soon as it has caught up.
AllReadSoFar == countW = countR

\* The outer loop of thread_read ends.
AllRead == countW = length /\ countW = countR

\* pipe_close: endread first ...
Close ==
    /\ Running /\ reader = "test"
    /\ AllRead
    /\ endread' = 1
    /\ reader' = "free"
    /\ UNCHANGED <<args, writerVars, readB, countR, out, freed, main>>

\* ... then free.
Free ==
    /\ Running /\ reader = "free"
    /\ freed' = TRUE
    /\ reader' = "done"
    /\ UNCHANGED <<args, writerVars, readB, countR, out, endread, main>>

-----------------------------------------------------------------------------
(* main. *)

CreateWriter ==
    /\ main = "start"
    /\ main' = "half"
    /\ writer' = NextWrite(0)
    /\ UNCHANGED <<args, fifo, writeB, countW, readerVars, endread, freed>>

CreateReader ==
    /\ main = "half"
    /\ main' = "wait"
    /\ reader' = "test"
    /\ UNCHANGED <<args, writerVars, readB, countR, out, endread, freed>>

\* pthread_create fails: main closes the pipe, although the writer may exist.
CreateFails ==
    /\ main \in {"start", "half"}
    /\ main' = "failing"
    /\ endread' = 1
    /\ freed' = TRUE
    /\ UNCHANGED <<args, writerVars, readerVars>>

\* exit after a failure, or the end of the loop that spins on endread.
Exit ==
    /\ main = "failing" \/ (main = "wait" /\ endread = 1)
    /\ main' = "exited"
    /\ UNCHANGED <<args, writerVars, readerVars, endread, freed>>

WriterStep == Write \/ CountWrite \/ WrapWrite
ReaderStep == StartRead \/ Read \/ CountRead \/ WrapRead \/ Close \/ Free
MainStep == CreateWriter \/ CreateReader \/ CreateFails \/ Exit

Next == WriterStep \/ ReaderStep \/ MainStep

Spec == Init /\ [][Next]_vars

\* The system schedules the three threads: a spinning thread does not keep the
\* others from running.
FairSpec == Spec /\ WF_vars(WriterStep) /\ WF_vars(ReaderStep) /\ WF_vars(MainStep)

-----------------------------------------------------------------------------
(* Properties. *)

TypeOK ==
    /\ pipe_size \in Sizes
    /\ length \in Lengths
    /\ fifo \in [0..(pipe_size - 1) -> Characters \cup {None}]
    /\ writeB \in 0..pipe_size /\ readB \in 0..pipe_size
    /\ countW \in 0..length /\ countR \in 0..length
    /\ endread \in {0, 1}
    /\ freed \in BOOLEAN
    /\ writer \in {"none", "write", "count", "wrap", "done"}
    /\ reader \in {"none", "test", "read", "count", "wrap", "free", "done"}
    /\ main \in {"start", "half", "wait", "failing", "exited"}
    /\ out \in [Characters -> Characters \cup {None}]

\* The buffer is only accessed inside its bounds, and with a character that has
\* been counted: both indices run past the buffer until their thread wraps.
InBounds ==
    /\ writer = "write" => writeB < pipe_size /\ countW < length
    /\ reader = "read" => readB < pipe_size /\ countR < countW

\* How far the writer may run ahead: it waits for one slot at the end of the
\* buffer, and then writes the whole buffer without looking (fifo.c:39-46).
LagBounded == 0 <= countW - countR /\ countW - countR < 2 * pipe_size

\* What the reader gets instead of a character is never an older one, and never
\* garbage: it is the character asked for, or the one that has overwritten it,
\* one lap later.
ReadsFresh == \A n \in Characters : out[n] # None => out[n] \in {n, n + pipe_size}

\* With one slot the writer does wait for every character, and the pipe is a
\* first-in first-out queue.
OneSlotIsFifo ==
    pipe_size = 1 => \A n \in Characters : out[n] \in {n, None}

\* The reader does not free the buffer under the writer, nor main under either
\* thread: except when it could not create the reader (fifo.c:147-150), where
\* the writer goes on until exit.
NoUseAfterFree ==
    freed /\ main # "failing" /\ Running => writer # "write" /\ reader # "read"

\* When main returns normally the whole text has been read.
ReturnsComplete == main = "exited" /\ reader # "none" => countR = length

\* Nobody spins for ever.
Terminates == <>(main = "exited")
=============================================================================
