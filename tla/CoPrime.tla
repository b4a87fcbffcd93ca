------------------------------ MODULE CoPrime ------------------------------
(***************************************************************************)
(* User_Level_Threads/Coroutines_Scheduller: prime_reg.c, the prime        *)
(* service on the scheduler of Coroutines.  Numbers are identified with    *)
(* their positions in the command line.  main's local pointers available   *)
(* and done are cur; a worker's local run is run.  Its reads of run->num   *)
(* in a test are one step.                                                 *)
(***************************************************************************)
EXTENDS Coroutines, FiniteSets

CONSTANT Numbers        \* argv[2], argv[3], ...

\* -1 marks a number that was given, 0 and -2 a worker without a number.
ASSUME NumbersAssumption == Numbers \in Seq(Nat \ {0})

VARIABLES
    run,                \* what each worker takes to be its record
    num, avail, finish, \* fields of the records
    numbers_left, cur,  \* main's counter and pointer
    erased,             \* history: a number was cleared, or overwritten, before it was tested
    verdict             \* history: the line printed for each number

progVars == <<run, num, avail, finish, numbers_left, cur, erased, verdict>>
vars == <<schedVars, progVars>>

Positions == 1..Len(Numbers)
NoWork == 0
pos == Len(Numbers) - numbers_left + 1

primetest(number) == number # 1 /\ \A d \in 2..(number \div 2) : number % d # 0

Init ==
    /\ InitScheduler
    /\ run = [t \in Threads |-> t]
    /\ num = [t \in Threads |-> NoWork]
    /\ avail = [t \in Threads |-> 0]
    /\ finish = [t \in Threads |-> 0]
    /\ numbers_left = Len(Numbers)
    /\ cur = 1
    /\ erased = FALSE
    /\ verdict = [j \in Positions |-> "none"]

Untested(r) == num[r] # NoWork /\ verdict[num[r]] = "none"

\* What the steps of the program leave alone in the scheduler.
calm == <<exec, rout, running, ring, unlinked, val, work_is_done, alarms, torn>>

-----------------------------------------------------------------------------
(* worker *)

Call(op, s) == Frame(op, s, 0)
me == run[exec]

\* The record whose flag is set, from main_thread->next on.
Find ==
    /\ Top.at = "find"
    /\ IF Flagged = {} /\ running[Main] = 0
       THEN Becomes(<<At("search")>>) /\ UNCHANGED run
       ELSE LET r == IF Flagged = {} THEN Main
                     ELSE CHOOSE t \in Flagged : \A u \in Flagged : Place(t) >= Place(u)
            IN run' = [run EXCEPT ![exec] = r] /\ Becomes(<<Call("down", r), At("got")>>)
    /\ UNCHANGED <<calm, num, avail, finish, numbers_left, cur, erased, verdict>>

Got ==
    /\ Top.at = "got"
    /\ Becomes(<<At(IF work_is_done = 1 /\ num[me] = NoWork THEN "finish" ELSE "test")>>)
    /\ UNCHANGED <<calm, progVars>>

Test ==
    /\ Top.at = "test"
    /\ verdict' = [j \in Positions |->
                      IF j # num[me] THEN verdict[j]
                      ELSE IF primetest(Numbers[j]) THEN "prime" ELSE "composite"]
    /\ Becomes(<<At("release")>>)
    /\ UNCHANGED <<calm, run, num, avail, finish, numbers_left, cur, erased>>

Release ==
    /\ Top.at = "release"
    /\ avail' = [avail EXCEPT ![me] = 0]
    /\ Becomes(<<At("clear")>>)
    /\ UNCHANGED <<calm, run, num, finish, numbers_left, cur, erased, verdict>>

\* num = 0, whatever main has written there since it was tested.
Clear ==
    /\ Top.at = "clear"
    /\ num' = [num EXCEPT ![me] = NoWork]
    /\ erased' = (erased \/ Untested(me))
    /\ Becomes(<<Call("down", me), At("got")>>)
    /\ UNCHANGED <<calm, run, avail, finish, numbers_left, cur, verdict>>

Finish ==
    /\ Top.at = "finish"
    /\ finish' = [finish EXCEPT ![me] = 1]
    /\ Becomes(<<At("remove")>>)
    /\ UNCHANGED <<calm, run, num, avail, numbers_left, cur, erased, verdict>>


Remove ==
    /\ Top.at = "remove"
    /\ remove_thread(me)
    /\ Becomes(<<Call("up", Main), At("stop")>>)
    /\ UNCHANGED <<exec, rout, running, val, work_is_done, alarms, torn, progVars>>

Stop ==
    /\ Top.at = "stop"
    /\ running' = [running EXCEPT ![me] = 0]
    /\ Becomes(<<Call("down", me), At("end")>>)
    /\ UNCHANGED <<exec, rout, ring, unlinked, val, work_is_done, alarms, torn, progVars>>

-----------------------------------------------------------------------------
(* main *)

Create ==
    /\ Top.at = "create"
    /\ Link(cur)
    /\ Becomes(<<At("make")>>)
    /\ UNCHANGED <<exec, rout, running, unlinked, val, work_is_done, alarms, torn, progVars>>

Make ==
    /\ Top.at = "make"
    /\ MakeContext(cur)
    /\ IF cur < workers THEN cur' = cur + 1 /\ Becomes(<<At("create")>>)
                        ELSE UNCHANGED cur /\ Becomes(<<At("next")>>)
    /\ UNCHANGED <<exec, running, ring, unlinked, val, work_is_done, alarms, torn>>
    /\ UNCHANGED <<run, num, avail, finish, numbers_left, erased, verdict>>

\* The next number, or the wait for the workers.
NextNumber ==
    /\ Top.at = "next"
    /\ IF numbers_left > 0 THEN cur' = PrevOf(Main) /\ Becomes(<<At("seek")>>)
                           ELSE cur' = NextOf(Main) /\ Becomes(<<At("drain")>>)
    /\ UNCHANGED <<calm, run, num, avail, finish, numbers_left, erased, verdict>>

\* A worker that is available gets the number, under SIG_BLOCK.
Give ==
    /\ Top.at = "seek" /\ avail[cur] = 0
    /\ avail' = [avail EXCEPT ![cur] = 1]
    /\ num' = [num EXCEPT ![cur] = pos]
    /\ numbers_left' = numbers_left - 1
    /\ erased' = (erased \/ Untested(cur))
    /\ Becomes(<<Call("up", cur), At("next")>>)
    /\ UNCHANGED <<calm, run, finish, cur, verdict>>

\* The others are passed by; after the last one main yields.
PassBy ==
    /\ Top.at = "seek" /\ avail[cur] # 0
    /\ IF PrevOf(cur) # Main THEN cur' = PrevOf(cur) /\ UNCHANGED stack
                           ELSE cur' = PrevOf(Main) /\ Becomes(<<At("yield"), At("seek")>>)
    /\ UNCHANGED <<calm, run, num, avail, finish, numbers_left, erased, verdict>>

\* main yields once for each worker it finds busy.
Drain ==
    /\ Top.at = "drain" /\ cur # Main
    /\ cur' = NextOf(cur)
    /\ IF avail[cur] = 1 THEN Becomes(<<At("yield"), At("drain")>>) ELSE UNCHANGED stack
    /\ UNCHANGED <<calm, run, num, avail, finish, numbers_left, erased, verdict>>

WorkIsDone ==
    /\ Top.at = "drain" /\ cur = Main
    /\ work_is_done' = 1
    /\ cur' = PrevOf(Main)
    /\ Becomes(<<At("join")>>)
    /\ UNCHANGED <<exec, rout, running, ring, unlinked, val, alarms, torn>>
    /\ UNCHANGED <<run, num, avail, finish, numbers_left, erased, verdict>>

\* Faulty variant: main wakes a worker and goes on to the next.
JoinOnce ==
    /\ Top.at = "join" /\ cur # Main
    /\ cur' = PrevOf(cur)
    /\ Becomes(<<Call("up", cur), At("join")>>)
    /\ UNCHANGED <<calm, run, num, avail, finish, numbers_left, erased, verdict>>

\* my_threads_join: wake the worker and wait to be woken, until it has finished.
Join ==
    /\ Top.at = "join" /\ cur # Main
    /\ IF finish[cur] = 0
       THEN UNCHANGED cur /\ Becomes(<<Call("up", cur), Call("down", Main), At("join")>>)
       ELSE cur' = PrevOf(cur) /\ UNCHANGED stack
    /\ UNCHANGED <<calm, run, num, avail, finish, numbers_left, erased, verdict>>

\* Destroy every record and return.
Destroy ==
    /\ Top.at = "join" /\ cur = Main
    /\ Becomes(<<At("telos")>>)
    /\ UNCHANGED <<calm, run, num, avail, finish, numbers_left, cur, erased, verdict>>

WorkerStep == Find \/ Got \/ Test \/ Release \/ Clear \/ Finish \/ Remove \/ Stop
MainStep == Create \/ Make \/ NextNumber \/ Give \/ PassBy \/ Drain \/ WorkIsDone \/ Join \/ Destroy

\* An end without main: a context was resumed that is not as it was saved, or a
\* search does not end.
Crashed == Top.at \in {"undefined", "search"}

\* The processor's next instruction.
Step == WorkerStep \/ MainStep \/ (LibraryStep /\ UNCHANGED progVars)
Next == Step \/ (alarm_handler /\ UNCHANGED progVars)

Spec == Init /\ [][Next]_vars
FairSpec == Spec /\ WF_vars(Step)

-----------------------------------------------------------------------------
(* Properties. *)

InMain(p) == \E k \in DOMAIN stack[Main] : stack[Main][k].at = p

\* As long as there is work, and no timer expires behind SIG_UNBLOCK in a
\* handler, exactly one record is flagged as running: that of the thread that
\* executes, or the one it is about to switch to (routines_orig.c:95-207).
OneTurn ==
    torn \/ work_is_done = 1 \/ Crashed \/
    \E t \in Threads :
        /\ running[t] = 1 /\ \A u \in Threads \ {t} : running[u] = 0
        /\ IF Top.at = "swap" THEN Top.a = exec /\ Top.b = t ELSE exec = t

\* Under the same conditions the record of every other thread holds that
\* thread's own context, and its stack is as it was when the context was saved;
\* but for the record main is just creating.
ContextsCurrent ==
    torn \/ work_is_done = 1 \/ Crashed \/
    \A t \in (OnRing \cup {Main}) \ {exec} :
        rout[t] = Context(t, stack[t]) \/ (InMain("make") /\ t = cur)

\* main destroys no record that is on the list, where a handler would find it,
\* unless a worker was preempted between finish = 1 and remove_thread.
DestroyedOffList ==
    Top.at = "telos" =>
        \A t \in OnRing : \E w \in Workers :
            run[w] = t /\ stack[w] # <<>> /\ stack[w][Len(stack[w])].at = "remove"

\* An instruction that stores a value of a semaphore that is out of date.
Miscounts == Top.at \in {"dec", "inc"} /\ Top.b # val[Top.a]

\* A worker is switched away from when it has left the list: nobody finds it again.
Stranded == Top.at = "swap" /\ exec \in Workers \ OnRing


\* The program implements the abstract service: every verdict is right, a number
\* never gets another one, and unless a number was cleared or overwritten untested,
\* main does not end with a number untested.  After torn two workers may print
\* the same verdict; nothing is said of what follows a crash.
Service == INSTANCE PrimeService WITH returned <- Top.at = "telos" /\ ~erased

ImplementsService == Service!Spec
=============================================================================
