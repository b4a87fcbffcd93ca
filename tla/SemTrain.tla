------------------------------ MODULE SemTrain ------------------------------
(***************************************************************************)
(* Semaphores/Competitive_threads: train.c and mysem.c, the roller-coaster *)
(* with binary semaphores.  pass lets one passenger at a time look for a   *)
(* seat, train_sem starts a ride, finish_sem lets the passengers out one   *)
(* by one, full_sem the passengers who found the train full, clear_sem the *)
(* train into its next round.                                              *)
(*                                                                         *)
(* No counter is protected: the passenger who has pass shares left_seats   *)
(* and queue with the train, and everybody shares the others.  x++ and x-- *)
(* are a load and a store, mysem_up is the reading of the value and the    *)
(* semop.  The history variable raced says that one of the things has      *)
(* happened on which the program relies not to; each is named at the       *)
(* action that sees it.                                                    *)
(***************************************************************************)
EXTENDS Integers, FiniteSets, Sequences

CONSTANTS Clients,       \* the passenger threads; argv[2] is their number
          Train,         \* the thread of the train
          seats          \* argv[1]

ASSUME SemTrainAssumption ==
    /\ IsFiniteSet(Clients) /\ Train \notin Clients
    /\ seats \in Nat \ {0}

VARIABLES
    pc,                  \* where each thread is
    todo,                \* the semaphores it is about to raise, before it goes on
    raising,             \* it has found the first of them down, in mysem_up
    load,                \* the value a passenger has loaded; the train's i
    sem,                 \* the values of the semaphores
    left_seats, passengers, queue, count,
    main, mainLoad,
    raced

vars == <<pc, todo, raising, load, sem, left_seats, passengers, queue, count, main, mainLoad,
          raced>>

own == <<todo, raising>>
mainVars == <<main, mainLoad>>

Threads == Clients \cup {Train}
Semaphores == {"pass", "train_sem", "finish_sem", "full_sem", "clear_sem", "main_sem"}

\* Passengers: none, arrive (in mysem_down(pass)), test, take, taking, again, enqueue,
\* queued (in mysem_down(full_sem)), seated (in mysem_down(finish_sem)), off, counting,
\* counted, clear, leaving, storing, done.
\* train: loop, poll, any, few, ask, called (in mysem_down(train_sem)), ride, release,
\* emptying (in mysem_down(clear_sem)), done.
\* main: reset, load, store, wait, returned.
Init ==
    /\ pc = [t \in Threads |-> IF t = Train THEN "loop" ELSE "none"]
    /\ todo = [t \in Threads |-> <<>>]
    /\ raising = [t \in Threads |-> FALSE]
    /\ load = [t \in Threads |-> 0]
    /\ sem = [s \in Semaphores |-> IF s = "pass" THEN 1 ELSE 0]
    /\ left_seats = 0 /\ queue = 0 /\ count = 0
    /\ passengers = Cardinality(Clients)
    /\ main = "reset" /\ mainLoad = 0
    /\ raced = FALSE

Running == main # "returned"

Notes(race) == raced' = (raced \/ race)

-----------------------------------------------------------------------------
(* The semaphores. *)

\* Thread t is at p and has raised all it had to.
At(t, p) == Running /\ pc[t] = p /\ todo[t] = <<>>

GoTo(t, p) == pc' = [pc EXCEPT ![t] = p]

\* Thread t goes on to p, and raises the semaphores of list first.
GoRaising(t, p, list) ==
    /\ GoTo(t, p)
    /\ todo' = [todo EXCEPT ![t] = list]
    /\ UNCHANGED <<raising, load, sem, mainVars>>

\* mysem_up, GETVAL: a semaphore that is up is left alone.  A race: the passenger
\* for whom finish_sem was raised before has not taken it yet.
GetVal(t) ==
    /\ Running /\ todo[t] # <<>> /\ ~raising[t]
    /\ IF sem[Head(todo[t])] = 1
       THEN /\ todo' = [todo EXCEPT ![t] = Tail(@)]
            /\ Notes(Head(todo[t]) = "finish_sem")
            /\ UNCHANGED raising
       ELSE /\ raising' = [raising EXCEPT ![t] = TRUE]
            /\ UNCHANGED <<todo, raced>>
    /\ UNCHANGED <<pc, load, sem, left_seats, passengers, queue, count, mainVars>>

\* mysem_up, semop.  A race: two threads raise one semaphore at once.  Its value is
\* then 2, and no up is dropped any more.
SemOp(t) ==
    /\ Running /\ todo[t] # <<>> /\ raising[t]
    /\ sem' = [sem EXCEPT ![Head(todo[t])] = @ + 1]
    /\ raising' = [raising EXCEPT ![t] = FALSE]
    /\ todo' = [todo EXCEPT ![t] = Tail(@)]
    /\ Notes(sem[Head(todo[t])] > 0)
    /\ UNCHANGED <<pc, load, left_seats, passengers, queue, count, mainVars>>

\* Where a thread calls mysem_down, with which semaphore, and where it goes on.
Waits == {"arrive", "queued", "seated", "called", "emptying"}
Awaits(p) == CASE p = "arrive" -> "pass" [] p = "queued" -> "full_sem"
               [] p = "seated" -> "finish_sem" [] p = "called" -> "train_sem"
               [] OTHER -> "clear_sem"
Onwards(p) == CASE p \in {"arrive", "queued"} -> "test" [] p = "seated" -> "off"
                [] p = "called" -> "ride" [] OTHER -> "loop"

Down(t) ==
    /\ pc[t] \in Waits /\ At(t, pc[t])
    /\ sem[Awaits(pc[t])] > 0
    /\ sem' = [sem EXCEPT ![Awaits(pc[t])] = @ - 1]
    /\ GoTo(t, Onwards(pc[t]))
    /\ UNCHANGED <<own, load, left_seats, passengers, queue, count, mainVars, raced>>

-----------------------------------------------------------------------------
(* passenger. *)

\* The counters a step of a passenger does not assign to.
quiet == <<own, sem, mainVars>>

\* The first test of left_seats.
Test(p) ==
    /\ At(p, "test")
    /\ GoTo(p, IF left_seats < seats THEN "take" ELSE "again")
    /\ UNCHANGED <<quiet, load, left_seats, passengers, queue, count, raced>>

LoadSeats(p) ==
    /\ At(p, "take")
    /\ load' = [load EXCEPT ![p] = left_seats]
    /\ GoTo(p, "taking")
    /\ UNCHANGED <<quiet, left_seats, passengers, queue, count, raced>>

\* The passenger has a seat and gives pass up.  A race: left_seats has been set to
\* 0 since the load.
TakeSeat(p) ==
    /\ At(p, "taking")
    /\ left_seats' = load[p] + 1
    /\ GoRaising(p, "seated", <<"pass">>)
    /\ Notes(load[p] # left_seats)
    /\ UNCHANGED <<passengers, queue, count>>

\* The second test: the train is full, and is told so; or it was, and is not now.
Again(p) ==
    /\ At(p, "again")
    /\ IF left_seats = seats THEN GoRaising(p, "test", <<"train_sem">>)
                             ELSE GoRaising(p, "enqueue", <<>>)
    /\ UNCHANGED <<left_seats, passengers, queue, count, raced>>

\* Only who has pass changes queue.
Enqueue(p) ==
    /\ At(p, "enqueue")
    /\ queue' = queue + 1
    /\ GoTo(p, "queued")
    /\ UNCHANGED <<quiet, load, left_seats, passengers, count, raced>>

LoadCount(p) ==
    /\ At(p, "off")
    /\ load' = [load EXCEPT ![p] = count]
    /\ GoTo(p, "counting")
    /\ UNCHANGED <<quiet, left_seats, passengers, queue, count, raced>>

\* A race, here and in Leave: another thread has stored since the load.
StoreCount(p) ==
    /\ At(p, "counting")
    /\ count' = load[p] + 1
    /\ GoTo(p, "counted")
    /\ Notes(load[p] # count)
    /\ UNCHANGED <<quiet, load, left_seats, passengers, queue>>

TestCount(p) ==
    /\ At(p, "counted")
    /\ GoTo(p, IF count = seats THEN "clear" ELSE "leaving")
    /\ UNCHANGED <<quiet, load, left_seats, passengers, queue, count, raced>>

\* Faulty variant: count is not set to 0.
ClearKeeping(p) ==
    /\ At(p, "clear")
    /\ GoRaising(p, "leaving", <<"clear_sem">>)
    /\ Notes(\E q \in Clients \ {p} : pc[q] = "clear")
    /\ UNCHANGED <<left_seats, passengers, queue, count>>

\* A race: another passenger has found count = seats too.
Clear(p) ==
    /\ At(p, "clear")
    /\ count' = 0
    /\ GoRaising(p, "leaving", <<"clear_sem">>)
    /\ Notes(\E q \in Clients \ {p} : pc[q] = "clear")
    /\ UNCHANGED <<left_seats, passengers, queue>>

LoadLeft(p) ==
    /\ At(p, "leaving")
    /\ load' = [load EXCEPT ![p] = passengers]
    /\ GoTo(p, "storing")
    /\ UNCHANGED <<quiet, left_seats, passengers, queue, count, raced>>

Leave(p) ==
    /\ At(p, "storing")
    /\ passengers' = load[p] - 1
    /\ GoTo(p, "done")
    /\ Notes(load[p] # passengers)
    /\ UNCHANGED <<quiet, load, left_seats, queue, count>>

-----------------------------------------------------------------------------
(* train. *)

\* The loop's condition.
Loop ==
    /\ At(Train, "loop")
    /\ IF passengers > 0 THEN GoRaising(Train, "poll", <<>>)
                         ELSE GoRaising(Train, "done", <<"main_sem">>)
    /\ UNCHANGED <<left_seats, passengers, queue, count, raced>>

\* The three parts of the condition to look again.
Polls(p) == CASE p = "poll" -> left_seats < seats [] p = "any" -> passengers > 0
              [] p = "few" -> passengers # seats
PollNext(p) == CASE p = "poll" -> "any" [] p = "any" -> "few" [] p = "few" -> "loop"

Poll ==
    /\ pc[Train] \in {"poll", "any", "few"} /\ At(Train, pc[Train])
    /\ GoTo(Train, IF Polls(pc[Train]) THEN PollNext(pc[Train]) ELSE "ask")
    /\ UNCHANGED <<quiet, load, left_seats, passengers, queue, count, raced>>

\* The passengers who can still find the train full and call it.
Callers == {p \in Clients : pc[p] \in {"none", "arrive", "test", "take", "taking", "again",
                                       "enqueue", "queued"}}

\* Nobody will find the train full and call it: those to come all find a seat.
NobodyCalls == sem["train_sem"] = 0 /\ Cardinality(Callers) + left_seats <= seats

\* The last train calls itself.  A race: it does not, since passengers is not
\* right yet, and nobody else will.
Ask ==
    /\ At(Train, "ask")
    /\ GoRaising(Train, "called", IF passengers = seats THEN <<"train_sem">> ELSE <<>>)
    /\ Notes(passengers # seats /\ NobodyCalls)
    /\ UNCHANGED <<left_seats, passengers, queue, count>>

\* Faulty variant: the loop that raises finish_sem ends one too early.
RideReleasingLess ==
    /\ At(Train, "ride")
    /\ left_seats' = 0
    /\ load' = [load EXCEPT ![Train] = 0]
    /\ GoTo(Train, "release")
    /\ todo' = [todo EXCEPT ![Train] = [j \in 1..(seats - 1) |-> "finish_sem"]]
    /\ Notes(left_seats # seats)
    /\ UNCHANGED <<raising, sem, passengers, queue, count, mainVars>>

\* The ride is over: the seats are free, and finish_sem is raised for each of them.
\* A race: the train was not full.
Ride ==
    /\ At(Train, "ride")
    /\ left_seats' = 0
    /\ load' = [load EXCEPT ![Train] = 0]
    /\ GoTo(Train, "release")
    /\ todo' = [todo EXCEPT ![Train] = [j \in 1..seats |-> "finish_sem"]]
    /\ Notes(left_seats # seats)
    /\ UNCHANGED <<raising, sem, passengers, queue, count, mainVars>>

\* The loop that raises full_sem.  A race: it ends, and a passenger who has found
\* the train full joins the queue later.
Release ==
    /\ At(Train, "release")
    /\ IF load[Train] < queue
       THEN /\ GoTo(Train, "release")
            /\ todo' = [todo EXCEPT ![Train] = <<"full_sem">>]
            /\ load' = [load EXCEPT ![Train] = @ + 1]
            /\ UNCHANGED raced
       ELSE /\ GoTo(Train, "emptying")
            /\ Notes(\E p \in Clients : pc[p] \in {"again", "enqueue"})
            /\ UNCHANGED <<todo, load>>
    /\ UNCHANGED <<raising, sem, left_seats, passengers, queue, count, mainVars>>

-----------------------------------------------------------------------------
(* main. *)

Uncreated == {p \in Clients : pc[p] = "none"}
NextCreation(C) == IF Uncreated \subseteq C THEN "wait" ELSE "load"

mainRest == <<todo, raising, load, sem, left_seats, queue, count>>

Reset ==
    /\ main = "reset"
    /\ passengers' = 0
    /\ main' = NextCreation({})
    /\ UNCHANGED <<mainRest, pc, mainLoad, raced>>

LoadPassengers ==
    /\ main = "load"
    /\ mainLoad' = passengers
    /\ main' = "store"
    /\ UNCHANGED <<mainRest, pc, passengers, raced>>

\* A race: a passenger has left since the load.
Create(p) ==
    /\ main = "store" /\ p \in Uncreated
    /\ passengers' = mainLoad + 1
    /\ mainLoad' = 0
    /\ GoTo(p, "arrive")
    /\ main' = NextCreation({p})
    /\ Notes(mainLoad # passengers)
    /\ UNCHANGED mainRest

\* main waits for the train and ends the process.
Finish ==
    /\ main = "wait" /\ sem["main_sem"] > 0
    /\ sem' = [sem EXCEPT !["main_sem"] = @ - 1]
    /\ main' = "returned"
    /\ UNCHANGED <<pc, own, load, left_seats, passengers, queue, count, mainLoad, raced>>

PassengerStep(p) ==
    \/ Test(p) \/ LoadSeats(p) \/ TakeSeat(p) \/ Again(p) \/ Enqueue(p)
    \/ LoadCount(p) \/ StoreCount(p) \/ TestCount(p) \/ Clear(p) \/ LoadLeft(p) \/ Leave(p)

TrainStep == Loop \/ Poll \/ Ask \/ Ride \/ Release

ThreadStep(t) ==
    \/ GetVal(t) \/ SemOp(t) \/ Down(t)
    \/ t \in Clients /\ PassengerStep(t)
    \/ t = Train /\ TrainStep

MainStep == Reset \/ LoadPassengers \/ (\E p \in Clients : Create(p)) \/ Finish

Next == (\E t \in Threads : ThreadStep(t)) \/ MainStep

Spec == Init /\ [][Next]_vars

-----------------------------------------------------------------------------
(* Properties. *)

\* The passengers in the train, waiting for finish_sem, and the times the train is
\* still to raise it.
Seated == {p \in Clients : pc[p] = "seated"}
Pending == Cardinality({j \in DOMAIN todo[Train] : todo[Train][j] = "finish_sem"})

\* As long as no race has happened, the passengers in the train are those who have
\* taken a seat since left_seats was set to 0 and those for whom finish_sem is up or
\* will be raised.  No up of a ride is lost or doubled, whichever passenger takes it,
\* although the seats are free before those who sat there have left (train.c:27-30,
\* 59); whether there is a next ride for the others is StuckOnlyIfRaced.
SeatsMatch ==
    raced \/ Cardinality(Seated) = left_seats + sem["finish_sem"] + Pending

\* Every thread has ended, waits for a semaphore that is down or polls counters
\* that nobody will change, and main waits.
Blocked(t) == todo[t] = <<>> /\ pc[t] \in Waits /\ sem[Awaits(pc[t])] = 0
Spins(p) == pc[p] \in {"test", "again"} /\ left_seats = seats
Polling == /\ pc[Train] \in {"loop", "poll", "any", "few"}
           /\ left_seats < seats /\ passengers > 0 /\ passengers # seats
Stuck == /\ main = "wait" /\ sem["main_sem"] = 0
         /\ \A p \in Clients : pc[p] = "done" \/ Blocked(p) \/ Spins(p)
         /\ \/ Blocked(Train) /\ (pc[Train] = "called" => \A p \in Clients : ~Spins(p))
            \/ Polling
            \/ pc[Train] = "done" /\ todo[Train] = <<>>

\* Nothing but the races stops the program, if the passengers fill a number of
\* trains: a passenger who overlooks that the seats are free again waits for
\* full_sem with pass, and is raised (train.c:31, 46-58); a wakeup of train_sem that
\* the train has not used yet starts no ride too many.
StuckOnlyIfRaced == Stuck /\ Cardinality(Clients) % seats = 0 => raced

\* A constraint for TLC: nothing is claimed of what happens after a race.
Unraced == ~raced
=============================================================================
