----------------------------- MODULE Coroutines -----------------------------
(***************************************************************************)
(* User_Level_Threads/Coroutines_Scheduller: routines_orig.c.  One thread  *)
(* of the system runs main and the workers in turn: contexts saved and     *)
(* restored by swapcontext, a ring of thread records, a timer signal that  *)
(* preempts, a user signal to yield, and semaphores that spin on it.       *)
(*                                                                         *)
(* A stack is a sequence of frames, the innermost first; a frame is the    *)
(* place where a function is, with the thread records or the register it   *)
(* holds.  A saved context points into the stack of the thread that saved  *)
(* it: it can be resumed if that stack is still as it was, and otherwise   *)
(* returns into whatever has overwritten it, or, if it is the context that *)
(* makecontext made, starts the worker once more; the model does not       *)
(* follow either (frame "undefined").                                      *)
(* Between SIG_BLOCK and SIG_UNBLOCK nothing interferes: one step.         *)
(* swapcontext is one step, too, and knows its records from the time the   *)
(* handler was entered.                                                    *)
(***************************************************************************)
EXTENDS Integers, Sequences

CONSTANTS workers,      \* argv[1]
          MaxAlarms     \* bound: how often the timer expires

ASSUME CoroutineAssumption == workers \in Nat \ {0} /\ MaxAlarms \in Nat

VARIABLES
    exec,         \* the thread whose stack the processor is on
    stack,        \* the frames on each thread's stack
    rout,         \* the context saved in each record: whose stack, and how it was
    running,      \* the field running of each record
    ring,         \* the records on the list, from main_thread->prev on along prev
    unlinked,     \* the field prev of a record that is off the list
    val,          \* the value of each record's semaphore
    work_is_done,
    alarms,       \* how often the timer has expired
    torn          \* history: it expired behind SIG_UNBLOCK in a handler

schedVars == <<exec, stack, rout, running, ring, unlinked, val, work_is_done, alarms, torn>>

Main == 0
Workers == 1..workers
Threads == {Main} \cup Workers

Frame(at, a, b) == [at |-> at, a |-> a, b |-> b]
At(at) == Frame(at, 0, 0)
Swap(f, t) == Frame("swap", f, t)
Context(t, s) == [own |-> t, stk |-> s]

Top == Head(stack[exec])
\* The executing thread continues with the frames fs in place of its innermost one.
Becomes(fs) == stack' = [stack EXCEPT ![exec] = fs \o Tail(@)]

OnRing == {ring[k] : k \in DOMAIN ring}
Place(t) == CHOOSE k \in DOMAIN ring : ring[k] = t

\* The fields prev and next.
PrevOf(t) == IF t = Main THEN IF ring = <<>> THEN Main ELSE ring[1]
           ELSE IF t \notin OnRing THEN unlinked[t]
           ELSE IF Place(t) = Len(ring) THEN Main ELSE ring[Place(t) + 1]
NextOf(t) == IF t = Main THEN IF ring = <<>> THEN Main ELSE ring[Len(ring)]
            ELSE IF t = ring[1] THEN Main ELSE ring[Place(t) - 1]

-----------------------------------------------------------------------------
(* The handlers. *)

Flagged == {t \in OnRing : running[t] = 1}

\* Which of two flagged records is found first from main_thread->prev on, along next.
Before(t, u) == t = ring[1] \/ (u # ring[1] /\ Place(t) > Place(u))
Found == IF running[Main] = 1 THEN Main
         ELSE CHOOSE t \in Flagged : \A u \in Flagged \ {t} : Before(t, u)

\* Faulty variant: the flag is set and never cleared.
TurnKept(f) == running' = [running EXCEPT ![PrevOf(f)] = 1]

Turn(f) == running' = [running EXCEPT ![f] = 0, ![PrevOf(f)] = 1]

\* Both handlers: the turn goes from the thread that runs to the one before it;
\* the search does not end if no record on the list is flagged.
Switch(base) ==
    IF running[Main] = 0 /\ Flagged = {}
    THEN stack' = [stack EXCEPT ![exec] = <<At("search")>> \o base] /\ UNCHANGED running
    ELSE Turn(Found) /\ stack' = [stack EXCEPT ![exec] = <<Swap(Found, PrevOf(Found))>> \o base]

\* A search that does not end blocks the signals; "undefined" and "telos" are the end.
Preemptible == Top.at \notin {"search", "undefined", "telos"}

alarm_handler ==
    /\ alarms < MaxAlarms /\ Preemptible
    /\ alarms' = alarms + 1
    /\ torn' = (torn \/ Top.at \in {"swap", "restore"})
    /\ Switch(stack[exec])
    /\ UNCHANGED <<exec, rout, ring, unlinked, val, work_is_done>>

\* kill(0, SIGUSR1) of my_threads_yield.  Once the work is done a worker goes
\* to main, and neither saves its context nor clears its flag.
user_handler ==
    /\ Top.at = "yield"
    /\ LET base == <<At("back")>> \o Tail(stack[exec]) IN
       IF running[Main] = 0 /\ work_is_done = 1
       THEN /\ running' = [running EXCEPT ![Main] = 1]
            /\ stack' = [stack EXCEPT ![exec] = <<At("restore")>> \o base]
       ELSE Switch(base)
    /\ UNCHANGED <<exec, rout, ring, unlinked, val, work_is_done, alarms, torn>>

\* Go on with context c, on the stacks s.
Resume(c, s) ==
    /\ exec' = c.own
    /\ stack' = IF s[c.own] = c.stk THEN s ELSE [s EXCEPT ![c.own] = <<At("undefined")>>]

Popped == [stack EXCEPT ![exec] = Tail(@)]

\* Faulty variant: the context is saved in the record of the thread that follows.
SwapSavingNext ==
    /\ Top.at = "swap"
    /\ rout' = [rout EXCEPT ![Top.b] = Context(exec, Tail(stack[exec]))]
    /\ Resume(rout[Top.b], Popped)
    /\ UNCHANGED <<running, ring, unlinked, val, work_is_done, alarms, torn>>

swapcontext ==
    /\ Top.at = "swap"
    /\ rout' = [rout EXCEPT ![Top.a] = Context(exec, Tail(stack[exec]))]
    /\ Resume(rout'[Top.b], Popped)
    /\ UNCHANGED <<running, ring, unlinked, val, work_is_done, alarms, torn>>

\* my_coroutines_switchto, and the end of a worker, whose uc_link is main's context.
setcontext ==
    /\ Top.at \in {"restore", "end"}
    /\ Resume(rout[Main], Popped)
    /\ UNCHANGED <<rout, running, ring, unlinked, val, work_is_done, alarms, torn>>

-----------------------------------------------------------------------------
(* Semaphores; a frame holds the semaphore and the value that was loaded. *)

stays == <<exec, rout, running, ring, unlinked, work_is_done, alarms, torn>>

my_threads_sem_down ==
    /\ Top.at = "down"
    /\ IF val[Top.a] >= 0 THEN Becomes(<<Frame("dec", Top.a, val[Top.a])>>)
                          ELSE Becomes(<<Frame("wait", Top.a, 0)>>)
    /\ UNCHANGED <<stays, val>>
StoreDown ==
    /\ Top.at = "dec"
    /\ val' = [val EXCEPT ![Top.a] = Top.b - 1]
    /\ Becomes(<<Frame("wait", Top.a, 0)>>)
    /\ UNCHANGED stays
Wait ==
    /\ Top.at = "wait"
    /\ IF val[Top.a] < 0 THEN Becomes(<<At("yield"), Top>>) ELSE Becomes(<<>>)
    /\ UNCHANGED <<stays, val>>
my_threads_sem_up ==
    /\ Top.at = "up"
    /\ Becomes(<<Frame("inc", Top.a, val[Top.a])>>)
    /\ UNCHANGED <<stays, val>>
StoreUp ==
    /\ Top.at = "inc"
    /\ val' = [val EXCEPT ![Top.a] = Top.b + 1]
    /\ Becomes(<<>>)
    /\ UNCHANGED stays

\* The handler returns into my_threads_yield, and that to its caller.
Back ==
    /\ Top.at = "back"
    /\ Becomes(<<>>)
    /\ UNCHANGED <<stays, val>>

LibraryStep == \/ user_handler \/ swapcontext \/ setcontext \/ Back
               \/ my_threads_sem_down \/ StoreDown \/ Wait \/ my_threads_sem_up \/ StoreUp

-----------------------------------------------------------------------------
(* The operations the program calls, as parts of its steps. *)

InitScheduler ==
    /\ exec = Main
    /\ stack = [t \in Threads |-> IF t = Main THEN <<At("create")>> ELSE <<At("find")>>]
    /\ rout = [t \in Threads |-> Context(t, <<>>)]
    /\ running = [t \in Threads |-> IF t = Main THEN 1 ELSE 0]
    /\ ring = <<>>
    /\ unlinked = [t \in Threads |-> Main]
    /\ val = [t \in Threads |-> 0]
    /\ work_is_done = 0
    /\ alarms = 0
    /\ torn = FALSE

\* my_threads_create: the record goes on the list, next to main ...
Link(t) == ring' = Append(ring, t)
\* ... and then gets its context.
MakeContext(t) == rout' = [rout EXCEPT ![t] = Context(t, stack[t])]

remove_thread(t) ==
    /\ unlinked' = [unlinked EXCEPT ![t] = PrevOf(t)]
    /\ ring' = IF t \in OnRing
               THEN SubSeq(ring, 1, Place(t) - 1) \o SubSeq(ring, Place(t) + 1, Len(ring))
               ELSE ring
=============================================================================
