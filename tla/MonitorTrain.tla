---------------------------- MODULE MonitorTrain ----------------------------
(***************************************************************************)
(* Monitors/Competitive_threads/train.c: passengers board a roller-coaster *)
(* with a limited number of seats, under one mutex and three condition     *)
(* variables.                                                              *)
(*                                                                         *)
(* What a thread does between taking monitor_lock and releasing it is one  *)
(* step, except in exit_ride: main increments passengers without the lock, *)
(* so the load, the store and the later test of passengers are three       *)
(* steps there, and the increment is two.                                  *)
(***************************************************************************)
EXTENDS Integers, FiniteSets

CONSTANTS Clients,       \* the passenger threads; argv[2] is their number
          seats,         \* argv[1]
          NoOne,         \* the value of monitor_lock when it is free
          MaxSpurious    \* bound: spurious wakeups in one behaviour

ASSUME TrainAssumption ==
    /\ IsFiniteSet(Clients) /\ NoOne \notin Clients
    /\ seats \in Nat \ {0}
    /\ MaxSpurious \in Nat

VARIABLES
    pc,            \* where each passenger is
    train,         \* where the train is
    monitor_lock,  \* its holder between two steps, or NoOne
    free_seats, passengers, count, step,
    load,          \* the value of passengers loaded by the one that leaves
    main,
    mainLoad,      \* the value of passengers loaded by main
    spurious       \* spurious wakeups so far

vars == <<pc, train, monitor_lock, free_seats, passengers, count, step, load, main,
          mainLoad, spurious>>

\* none:      main has not created the thread;
\* start:     about to lock monitor_lock in enter_train;
\* queued:    waiting on wait_cond;  retry: woken from there;
\* seated:    waiting on passenger_cond;
\* last:      waiting there too, in the last seat;  lastWoken: woken;
\* riding:    woken, about to lock monitor_lock in exit_ride;
\* counting:  holds it, passengers is loaded;
\* testing:   holds it, about to test passengers;
\* done:      the thread has returned.
PCs == {"none", "start", "queued", "retry", "seated", "last", "lastWoken", "riding",
        "counting", "testing", "done"}

At(p) == {c \in Clients : pc[c] = p}
Queued == At("queued")
Seated == At("seated") \cup At("last")

\* The train is created before passengers is set to 0.
\* train: loop (about to test passengers in train), lock (about to lock in
\* ride), waiting (on ride_cond), woken, done.
\* main: reset, load, store (passengers is loaded), join, returned.
Init ==
    /\ pc = [c \in Clients |-> "none"]
    /\ train = "loop"
    /\ monitor_lock = NoOne
    /\ free_seats = seats
    /\ passengers = Cardinality(Clients)
    /\ count = 0
    /\ step = 0
    /\ load = 0
    /\ main = "reset"
    /\ mainLoad = 0
    /\ spurious = 0

mainVars == <<main, mainLoad>>

-----------------------------------------------------------------------------
(* POSIX condition variables. *)

\* The sets of threads that n calls of pthread_cond_signal may wake.
Signals(n, W) == {V \in SUBSET W : Cardinality(V) = n \/ (V = W /\ Cardinality(W) < n)}

Resume(p) == CASE p = "queued" -> "retry" [] p = "seated" -> "riding" [] OTHER -> "lastWoken"

\* Passenger p moves to q, those of W are woken.
GoTo(p, q, W) ==
    pc' = [c \in Clients |-> IF c = p THEN q
                             ELSE IF c \in W THEN Resume(pc[c]) ELSE pc[c]]

\* pthread_cond_signal(&ride_cond).
SignalRide == train' = IF train = "waiting" THEN "woken" ELSE train

-----------------------------------------------------------------------------
(* enter_train. *)

\* There is a seat, and it is not the last one.
TakeSeat(p) ==
    /\ monitor_lock = NoOne /\ pc[p] \in {"start", "retry"}
    /\ free_seats' = free_seats - 1
    /\ free_seats' > 0
    /\ GoTo(p, "seated", {})
    /\ UNCHANGED <<train, monitor_lock, passengers, count, step, load, mainVars, spurious>>

\* Faulty variant: the train is not told that it is full.
TakeLastSeatSilently(p) ==
    /\ monitor_lock = NoOne /\ pc[p] \in {"start", "retry"}
    /\ free_seats' = free_seats - 1
    /\ free_seats' = 0
    /\ step' = 3
    /\ GoTo(p, "last", {})
    /\ UNCHANGED <<train, monitor_lock, passengers, count, load, mainVars, spurious>>

\* The last seat: the train can go.
TakeLastSeat(p) ==
    /\ monitor_lock = NoOne /\ pc[p] \in {"start", "retry"}
    /\ free_seats' = free_seats - 1
    /\ free_seats' = 0
    /\ step' = 3
    /\ SignalRide
    /\ GoTo(p, "last", {})
    /\ UNCHANGED <<monitor_lock, passengers, count, load, mainVars, spurious>>

\* No seat: free_seats keeps counting down.
Queue(p) ==
    /\ monitor_lock = NoOne /\ pc[p] \in {"start", "retry"}
    /\ free_seats' = free_seats - 1
    /\ free_seats' < 0
    /\ GoTo(p, "queued", {})
    /\ UNCHANGED <<train, monitor_lock, passengers, count, step, load, mainVars, spurious>>

\* The passenger in the last seat has the lock again.
LastRode(p) ==
    /\ monitor_lock = NoOne /\ pc[p] = "lastWoken"
    /\ step' = 1
    /\ GoTo(p, "riding", {})
    /\ UNCHANGED <<train, monitor_lock, free_seats, passengers, count, load, mainVars, spurious>>

-----------------------------------------------------------------------------
(* exit_ride. *)

\* Lock, and load passengers to decrement it.
StartExit(p) ==
    /\ monitor_lock = NoOne /\ pc[p] = "riding"
    /\ monitor_lock' = p
    /\ load' = passengers
    /\ GoTo(p, "counting", {})
    /\ UNCHANGED <<train, free_seats, passengers, count, step, mainVars, spurious>>

\* Faulty variant: the seats are free as soon as one passenger has left.
EmptiedAtOnce == TRUE

\* All the seats have been left.
Emptied == count + 1 = seats

\* The store; the passenger who empties the train wakes those who queue.
CountExit(p) ==
    /\ pc[p] = "counting"
    /\ passengers' = load - 1
    /\ load' = 0
    /\ IF Emptied
       THEN /\ free_seats' = seats
            /\ count' = 0
            /\ step' = 1
            /\ \E W \in Signals(seats, Queued) : GoTo(p, "testing", W)
       ELSE /\ count' = count + 1
            /\ GoTo(p, "testing", {})
            /\ UNCHANGED <<free_seats, step>>
    /\ UNCHANGED <<train, monitor_lock, mainVars, spurious>>

\* Faulty variant: the train is not told that nobody is left.
EndExitSilently(p) ==
    /\ pc[p] = "testing"
    /\ step' = IF passengers = 0 THEN 2 ELSE step
    /\ monitor_lock' = NoOne
    /\ GoTo(p, "done", {})
    /\ UNCHANGED <<train, free_seats, passengers, count, load, mainVars, spurious>>

\* Nobody is left: tell the train.
EndExit(p) ==
    /\ pc[p] = "testing"
    /\ IF passengers = 0 THEN step' = 2 /\ SignalRide
                         ELSE UNCHANGED <<step, train>>
    /\ monitor_lock' = NoOne
    /\ GoTo(p, "done", {})
    /\ UNCHANGED <<free_seats, passengers, count, load, mainVars, spurious>>

-----------------------------------------------------------------------------
(* train and ride. *)

\* The loop of train reads passengers without the lock.
TestPassengers ==
    /\ train = "loop"
    /\ train' = IF passengers > 0 THEN "lock" ELSE "done"
    /\ UNCHANGED <<pc, monitor_lock, free_seats, passengers, count, step, load, mainVars, spurious>>

\* The train is not ready: return, or wait on ride_cond.
AwaitPassengers ==
    /\ train = "lock" /\ monitor_lock = NoOne
    /\ free_seats # 0 \/ step # 0
    /\ step # 3
    /\ train' = IF step = 2 THEN "loop" ELSE "waiting"
    /\ UNCHANGED <<pc, monitor_lock, free_seats, passengers, count, step, load, mainVars, spurious>>

\* What makes the train go: a full train that it finds, or the signal.
MayDepart == \/ train = "lock" /\ (step = 3 \/ (free_seats = 0 /\ step = 0))
             \/ train = "woken"

NobodyLeft ==
    /\ monitor_lock = NoOne /\ MayDepart
    /\ passengers = 0
    /\ train' = "loop"
    /\ UNCHANGED <<pc, monitor_lock, free_seats, passengers, count, step, load, mainVars, spurious>>

\* The ride: whoever waits for its end is woken.
Depart ==
    /\ monitor_lock = NoOne /\ MayDepart
    /\ passengers # 0
    /\ step' = 1
    /\ \E W \in Signals(seats, Seated) : GoTo(NoOne, "done", W)
    /\ train' = "loop"
    /\ UNCHANGED <<monitor_lock, free_seats, passengers, count, load, mainVars, spurious>>

-----------------------------------------------------------------------------
(* main. *)

\* Where the loop that creates the passengers goes, when those of C are created.
NextCreation(C) == IF At("none") \subseteq C THEN "join" ELSE "load"

Reset ==
    /\ main = "reset"
    /\ passengers' = 0
    /\ main' = NextCreation({})
    /\ UNCHANGED <<pc, train, monitor_lock, free_seats, count, step, load, mainLoad, spurious>>

\* passengers++ before pthread_create: the load ...
LoadPassengers ==
    /\ main = "load"
    /\ mainLoad' = passengers
    /\ main' = "store"
    /\ UNCHANGED <<pc, train, monitor_lock, free_seats, passengers, count, step, load, spurious>>

\* ... and the store, and the creation of the thread.
CreatePassenger(p) ==
    /\ main = "store" /\ pc[p] = "none"
    /\ passengers' = mainLoad + 1
    /\ mainLoad' = 0
    /\ GoTo(p, "start", {})
    /\ main' = NextCreation({p})
    /\ UNCHANGED <<train, monitor_lock, free_seats, count, step, load, spurious>>

Return ==
    /\ main = "join"
    /\ \A p \in Clients : pc[p] = "done"
    /\ train = "done"
    /\ main' = "returned"
    /\ UNCHANGED <<pc, train, monitor_lock, free_seats, passengers, count, step, load,
                   mainLoad, spurious>>

-----------------------------------------------------------------------------
\* pthread_cond_wait may return without a signal, in a passenger ...
SpuriousWakeup(p) ==
    /\ pc[p] \in {"queued", "seated", "last"}
    /\ spurious < MaxSpurious
    /\ spurious' = spurious + 1
    /\ pc' = [pc EXCEPT ![p] = Resume(@)]
    /\ UNCHANGED <<train, monitor_lock, free_seats, passengers, count, step, load, mainVars>>

\* ... and in the train.
SpuriousRide ==
    /\ train = "waiting"
    /\ spurious < MaxSpurious
    /\ spurious' = spurious + 1
    /\ train' = "woken"
    /\ UNCHANGED <<pc, monitor_lock, free_seats, passengers, count, step, load, mainVars>>

PassengerStep(p) == \/ TakeSeat(p) \/ TakeLastSeat(p) \/ Queue(p) \/ LastRode(p)
                    \/ StartExit(p) \/ CountExit(p) \/ EndExit(p)

TrainStep == TestPassengers \/ AwaitPassengers \/ NobodyLeft \/ Depart

MainStep == Reset \/ LoadPassengers \/ (\E p \in Clients : CreatePassenger(p)) \/ Return

Next == \/ \E p \in Clients : PassengerStep(p)
        \/ TrainStep
        \/ MainStep
        \/ \E p \in Clients : SpuriousWakeup(p)
        \/ SpuriousRide

Spec == Init /\ [][Next]_vars

\* The scheduler lets every thread that can run do so.  Spurious wakeups are
\* never owed.
FairSpec == Spec /\ WF_vars(TrainStep) /\ WF_vars(MainStep)
                 /\ \A p \in Clients : WF_vars(PassengerStep(p))

-----------------------------------------------------------------------------
(* Properties. *)

TypeOK ==
    /\ pc \in [Clients -> PCs]
    /\ train \in {"loop", "lock", "waiting", "woken", "done"}
    /\ monitor_lock \in Clients \cup {NoOne}
    /\ free_seats \in Int /\ free_seats <= seats
    /\ passengers \in Int
    /\ count \in 0..(seats - 1)
    /\ step \in 0..3
    /\ load \in Int
    /\ main \in {"reset", "load", "store", "join", "returned"}
    /\ mainLoad \in Int
    /\ spurious \in 0..MaxSpurious
    /\ \A p \in Clients : monitor_lock = p <=> pc[p] \in {"counting", "testing"}

\* A train whose passengers all sit and wait is not asleep itself: the signal of
\* the last one cannot be lost, whether the train waits for it or not yet
\* (train.c:23-30 and train.c:61-64).
FullTrainNoticed == Cardinality(Seated) = seats => train # "waiting"

\* The program implements the abstract roller-coaster: seats are never taken
\* twice, also when passengers are woken for nothing.
Aboard == {p \in Clients : pc[p] \in {"seated", "last", "lastWoken", "riding", "counting"}}

Coaster == INSTANCE RollerCoaster
             WITH Seats <- seats,
                  aboard <- Aboard,
                  rode <- {p \in Clients : pc[p] \in {"testing", "done"}},
                  boarded <- IF free_seats > 0 THEN seats - free_seats ELSE seats

ImplementsCoaster == Coaster!Spec

\* The passengers that main has created and that have not been counted out:
\* what passengers stands for.
Drifted == main # "reset" /\ passengers # Cardinality({p \in Clients :
                                                pc[p] \notin {"none", "testing", "done"}})

\* The train has read 0 passengers although some have not ridden yet.
LeftEarly == train = "done" /\ \E p \in Clients : pc[p] \notin {"testing", "done"}

\* If the passengers fill a number of trains, every one rides and main returns:
\* unless an increment of main and a decrement have overwritten each other, the
\* train has left between two passengers, or a wakeup was spurious.
AllRideUnless ==
    Cardinality(Clients) % seats = 0 /\ [](~Drifted /\ ~LeftEarly /\ spurious = 0)
        => <>(main = "returned")

=============================================================================
