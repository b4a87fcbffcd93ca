------------------------------ MODULE CCRTrain ------------------------------
(***************************************************************************)
(* Critical_Regions/Competitive_threads/trainCCR.c: the roller-coaster     *)
(* with conditional critical regions (CCR.h).  Train and passengers wait   *)
(* in one condition variable, each for a condition of its own.             *)
(*                                                                         *)
(* free_seats is only changed inside the region.  step, finish and         *)
(* passengers are not: a passenger who has left the region assigns to them *)
(* without the lock, and so does main to passengers.  Each of these        *)
(* accesses is a step; a pass through the region of a passenger is one,    *)
(* that of the train three.                                                *)
(***************************************************************************)
EXTENDS Integers, FiniteSets

CONSTANTS Clients,       \* the passenger threads; argv[2] is their number
          Train,         \* the thread of the train
          seats,         \* argv[1]
          MaxSpurious    \* bound: spurious wakeups in one behaviour

ASSUME CCRTrainAssumption ==
    /\ IsFiniteSet(Clients) /\ Train \notin Clients
    /\ seats \in Nat \ {0}
    /\ MaxSpurious \in Nat

VARIABLES
    pc,            \* where each thread is
    free_seats, passengers, step, finish,
    load,          \* the value of passengers each leaving passenger has loaded
    main, mainLoad,
    odd,           \* history: the train has left with an empty seat, or step or
                   \* finish was reset while somebody was in a seat, or finish
                   \* when step was set again
    spurious       \* spurious wakeups so far

vars == <<pc, free_seats, passengers, step, finish, load, main, mainLoad, odd, spurious>>

mainVars == <<main, mainLoad>>
history == <<odd, spurious>>

\* none:     main has not created the passenger;
\* board:    about to lock for the first region;  boardWait, boardWoken: waiting
\*           there, and woken;
\* ride:     in a seat, about to lock for the second region;  rideWait, rideWoken;
\* off:      out of the region, about to compare free_seats with seats;
\* resetting, resetFinish: about to set step, finish to 0;
\* leaving:  about to load passengers;  counting: about to store it;  done.
\* train:    loop (about to test passengers), lock, wait, woken; and with the
\*           lock: check (about to test passengers in ride), riding (about to
\*           set step), arrived (about to set finish and leave the region); done.
\* main:     reset, load, store, join, returned.
Waits == {"boardWait", "rideWait", "wait"}
InRegion == {"check", "riding", "arrived"}

Threads == Clients \cup {Train}
Waiting == {t \in Threads : pc[t] \in Waits}
Free == pc[Train] \notin InRegion      \* nobody holds CCR_trainmtx

\* The train is created before passengers is set to 0.
Init ==
    /\ pc = [t \in Threads |-> IF t = Train THEN "loop" ELSE "none"]
    /\ free_seats = seats
    /\ passengers = Cardinality(Clients)
    /\ step = 0
    /\ finish = 0
    /\ load = [p \in Clients |-> 0]
    /\ main = "reset"
    /\ mainLoad = 0
    /\ odd = FALSE
    /\ spurious = 0

-----------------------------------------------------------------------------
(* CCR_EXEC. *)

\* The sets of threads that n calls of pthread_cond_signal may wake.
Signals(n) == {W \in SUBSET Waiting : \/ Cardinality(W) = n
                                      \/ W = Waiting /\ Cardinality(W) < n}

Woken(p) == CASE p = "boardWait" -> "boardWoken"
              [] p = "rideWait" -> "rideWoken"
              [] OTHER -> "woken"

\* Thread t moves to p, the waiting threads of W are woken.
GoTo(t, p, W) ==
    pc' = [x \in Threads |-> IF x = t THEN p
                             ELSE IF x \in W THEN Woken(pc[x]) ELSE pc[x]]

\* Faulty variant: the woken thread tests its condition and does not signal.
PassedOnNever(t) == 0

\* The signals of a thread before it tests its condition: one, if it has been
\* woken in pthread_cond_wait.
PassedOn(t) == IF pc[t] \in {"boardWoken", "rideWoken", "woken"} THEN 1 ELSE 0

\* Thread t has the lock, its condition is not true.
Await(t, waiting) ==
    /\ Free
    /\ \E W \in Signals(PassedOn(t)) : GoTo(t, waiting, W)
    /\ UNCHANGED <<free_seats, passengers, step, finish, load, mainVars, history>>

-----------------------------------------------------------------------------
(* passenger. *)

\* Faulty variant: any seat is taken as soon as it is free.
MayBoardAtOnce == free_seats > 0

MayBoard == free_seats > 0 /\ finish = 0

AwaitBoard(p) ==
    /\ pc[p] \in {"board", "boardWoken"} /\ ~MayBoard
    /\ Await(p, "boardWait")

\* enter_train, and the signal at the end of the region.
Board(p) ==
    /\ pc[p] \in {"board", "boardWoken"} /\ Free /\ MayBoard
    /\ free_seats' = free_seats - 1
    /\ \E W \in Signals(PassedOn(p) + 1) : GoTo(p, "ride", W)
    /\ UNCHANGED <<passengers, step, finish, load, mainVars, history>>

MayLeave == (free_seats = 0 \/ finish = 1) /\ step = 1

AwaitLeave(p) ==
    /\ pc[p] \in {"ride", "rideWoken"} /\ ~MayLeave
    /\ Await(p, "rideWait")

\* exit_train, and the signal at the end of the region.
Leave(p) ==
    /\ pc[p] \in {"ride", "rideWoken"} /\ Free /\ MayLeave
    /\ free_seats' = free_seats + 1
    /\ \E W \in Signals(PassedOn(p) + 1) : GoTo(p, "off", W)
    /\ UNCHANGED <<passengers, step, finish, load, mainVars, history>>

\* Outside the region: the train is empty, or not.
TestEmpty(p) ==
    /\ pc[p] = "off"
    /\ GoTo(p, IF free_seats = seats THEN "resetting" ELSE "leaving", {})
    /\ UNCHANGED <<free_seats, passengers, step, finish, load, mainVars, history>>

\* step = 0, and then finish = 0: the next passengers may board.
ResetStep(p) ==
    /\ pc[p] = "resetting"
    /\ step' = 0
    /\ GoTo(p, "resetFinish", {})
    /\ odd' = (odd \/ (step = 1 /\ free_seats # seats))
    /\ UNCHANGED <<free_seats, passengers, finish, load, mainVars, spurious>>

ResetFinish(p) ==
    /\ pc[p] = "resetFinish"
    /\ finish' = 0
    /\ GoTo(p, "leaving", {})
    /\ odd' = (odd \/ (finish = 1 /\ (free_seats # seats \/ step = 1)))
    /\ UNCHANGED <<free_seats, passengers, step, load, mainVars, spurious>>

\* passengers--.
LoadLeft(p) ==
    /\ pc[p] = "leaving"
    /\ load' = [load EXCEPT ![p] = passengers]
    /\ GoTo(p, "counting", {})
    /\ UNCHANGED <<free_seats, passengers, step, finish, mainVars, history>>

StoreLeft(p) ==
    /\ pc[p] = "counting"
    /\ passengers' = load[p] - 1
    /\ load' = [load EXCEPT ![p] = 0]
    /\ GoTo(p, "done", {})
    /\ UNCHANGED <<free_seats, step, finish, mainVars, history>>

-----------------------------------------------------------------------------
(* train. *)

\* The loop of train reads passengers without the lock.
TestPassengers ==
    /\ pc[Train] = "loop"
    /\ GoTo(Train, IF passengers > 0 THEN "lock" ELSE "done", {})
    /\ UNCHANGED <<free_seats, passengers, step, finish, load, mainVars, history>>

MayRide == (free_seats = 0 /\ finish = 0) \/ passengers = 0

AwaitRide ==
    /\ pc[Train] \in {"lock", "woken"} /\ ~MayRide
    /\ Await(Train, "wait")

StartRide ==
    /\ pc[Train] \in {"lock", "woken"} /\ MayRide
    /\ \E W \in Signals(PassedOn(Train)) : GoTo(Train, "check", W)
    /\ UNCHANGED <<free_seats, passengers, step, finish, load, mainVars, history>>

\* ride, in the region: nobody is left ...
NobodyLeft ==
    /\ pc[Train] = "check" /\ passengers = 0
    /\ \E W \in Signals(1) : GoTo(Train, "loop", W)
    /\ UNCHANGED <<free_seats, passengers, step, finish, load, mainVars, history>>

\* ... or the train rides, sets step ...
Ride ==
    /\ pc[Train] = "check" /\ passengers # 0
    /\ GoTo(Train, "riding", {})
    /\ odd' = (odd \/ free_seats # 0)
    /\ UNCHANGED <<free_seats, passengers, step, finish, load, mainVars, spurious>>

SetStep ==
    /\ pc[Train] = "riding"
    /\ step' = 1
    /\ GoTo(Train, "arrived", {})
    /\ UNCHANGED <<free_seats, passengers, finish, load, mainVars, history>>

\* Faulty variant: the train leaves the region without a signal.
SetFinishSilently ==
    /\ pc[Train] = "arrived"
    /\ finish' = 1
    /\ GoTo(Train, "loop", {})
    /\ UNCHANGED <<free_seats, passengers, step, load, mainVars, history>>

\* ... and finish, and leaves the region.
SetFinish ==
    /\ pc[Train] = "arrived"
    /\ finish' = 1
    /\ \E W \in Signals(1) : GoTo(Train, "loop", W)
    /\ UNCHANGED <<free_seats, passengers, step, load, mainVars, history>>

-----------------------------------------------------------------------------
(* main. *)

\* Where the loop that creates the passengers goes, when those of C are created.
NextCreation(C) == IF {p \in Clients : pc[p] = "none"} \subseteq C THEN "join" ELSE "load"

Reset ==
    /\ main = "reset"
    /\ passengers' = 0
    /\ main' = NextCreation({})
    /\ UNCHANGED <<pc, free_seats, step, finish, load, mainLoad, history>>

\* passengers++ before pthread_create: the load ...
LoadPassengers ==
    /\ main = "load"
    /\ mainLoad' = passengers
    /\ main' = "store"
    /\ UNCHANGED <<pc, free_seats, passengers, step, finish, load, history>>

\* ... and the store, and the creation of the thread.
CreatePassenger(p) ==
    /\ main = "store" /\ pc[p] = "none"
    /\ passengers' = mainLoad + 1
    /\ mainLoad' = 0
    /\ GoTo(p, "board", {})
    /\ main' = NextCreation({p})
    /\ UNCHANGED <<free_seats, step, finish, load, history>>

Return ==
    /\ main = "join"
    /\ \A t \in Threads : pc[t] = "done"
    /\ main' = "returned"
    /\ UNCHANGED <<pc, free_seats, passengers, step, finish, load, mainLoad, history>>

-----------------------------------------------------------------------------
\* pthread_cond_wait may return without a signal.
SpuriousWakeup(t) ==
    /\ t \in Waiting
    /\ spurious < MaxSpurious
    /\ spurious' = spurious + 1
    /\ pc' = [pc EXCEPT ![t] = Woken(@)]
    /\ UNCHANGED <<free_seats, passengers, step, finish, load, mainVars, odd>>

PassengerStep(p) == \/ AwaitBoard(p) \/ Board(p) \/ AwaitLeave(p) \/ Leave(p)
                    \/ TestEmpty(p) \/ ResetStep(p) \/ ResetFinish(p)
                    \/ LoadLeft(p) \/ StoreLeft(p)

TrainStep == \/ TestPassengers \/ AwaitRide \/ StartRide
             \/ NobodyLeft \/ Ride \/ SetStep \/ SetFinish

MainStep == Reset \/ LoadPassengers \/ (\E p \in Clients : CreatePassenger(p)) \/ Return

Next == \/ \E p \in Clients : PassengerStep(p)
        \/ TrainStep
        \/ MainStep
        \/ \E t \in Threads : SpuriousWakeup(t)

Spec == Init /\ [][Next]_vars

-----------------------------------------------------------------------------
(* Properties. *)

PassengerPCs == {"none", "board", "boardWait", "boardWoken", "ride", "rideWait", "rideWoken",
                 "off", "resetting", "resetFinish", "leaving", "counting", "done"}
TrainPCs == {"loop", "lock", "wait", "woken", "done"} \cup InRegion

TypeOK ==
    /\ pc \in [Threads -> PassengerPCs \cup TrainPCs]
    /\ \A p \in Clients : pc[p] \in PassengerPCs
    /\ pc[Train] \in TrainPCs
    /\ free_seats \in 0..seats
    /\ passengers \in Int
    /\ step \in {0, 1} /\ finish \in {0, 1}
    /\ load \in [Clients -> Int]
    /\ main \in {"reset", "load", "store", "join", "returned"}
    /\ mainLoad \in Int
    /\ odd \in BOOLEAN
    /\ spurious \in 0..MaxSpurious

\* A wakeup is on its way: some thread has it, or is in the region and signals
\* when it leaves.
WakeupUnderWay == ~Free \/ \E t \in Threads : pc[t] \in {"boardWoken", "rideWoken", "woken"}

\* A passenger whose ride is over never sleeps on in the train, and a full train
\* never sleeps with its passengers aboard: one signal wakes one thread, which may
\* be any other (CCR.h:13-14), and step and finish are written outside the region
\* too.  The train is safe only as long as no reset has hit an occupied train.
NoLostWakeup ==
    /\ MayLeave /\ (\E p \in Clients : pc[p] = "rideWait") => WakeupUnderWay
    /\ ~odd /\ free_seats = 0 /\ finish = 0 /\ pc[Train] = "wait" => WakeupUnderWay

Aboard == {p \in Clients : pc[p] \in {"ride", "rideWait", "rideWoken"}}
Rode == {p \in Clients : pc[p] \in {"off", "resetting", "resetFinish", "leaving", "counting",
                                    "done"}}

Coaster == INSTANCE RollerCoaster
             WITH Seats <- seats,
                  aboard <- Aboard,
                  rode <- Rode,
                  boarded <- CASE Aboard = {} -> 0
                               [] Aboard # {} /\ finish = 1 -> seats
                               [] OTHER -> seats - free_seats

\* Until a reset hits an occupied train, or the train leaves with an empty seat,
\* the program implements the abstract roller-coaster.
ImplementsCoaster ==
    Coaster!Init /\ [][odd' \/ Coaster!Next \/ UNCHANGED Coaster!vars]_vars

\* Every thread waits, and main waits for one of them.
Stuck == /\ main = "join"
         /\ \A t \in Threads : pc[t] \in Waits \cup {"done"}
         /\ \E t \in Threads : pc[t] # "done"

\* What the program does outside the region can stop it: finish = 0 and
\* passengers-- are not followed by a signal (trainCCR.c:70-75), ...
ResetUnnoticed == MayBoard /\ \E p \in Clients : pc[p] = "boardWait"
LastUnnoticed == passengers = 0 /\ pc[Train] = "wait"

\* ... and passengers goes wrong when two threads change it at once, or is 0
\* between two passengers.
Drifted == passengers # Cardinality({p \in Clients : pc[p] \notin {"none", "done"}})
LeftEarly == pc[Train] = "done" /\ Rode # Clients

\* Nothing else makes main wait for ever, if the passengers fill a number of
\* trains.
StuckOnlyBy ==
    Stuck /\ Cardinality(Clients) % seats = 0
        => odd \/ ResetUnnoticed \/ LastUnnoticed \/ Drifted \/ LeftEarly
=============================================================================
