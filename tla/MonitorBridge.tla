--------------------------- MODULE MonitorBridge ---------------------------
(***************************************************************************)
(* Monitors/Competitive_Team_thread/bridge.c: red and blue cars share a     *)
(* bridge under one mutex and three condition variables.                   *)
(*                                                                         *)
(* The r_ and b_ functions of the source are mirror images; one action,    *)
(* indexed by the colour, stands for both.  Everything a car does between  *)
(* locking monitor_lock and releasing it (by pthread_mutex_unlock or       *)
(* pthread_cond_wait) is one step, except in the exit functions: they      *)
(* decrement blue_left or red_left, which main increments without the      *)
(* lock, so the load and the store of that decrement are two steps, and so *)
(* are those of main's increment.                                          *)
(***************************************************************************)
EXTENDS Integers, FiniteSets

CONSTANTS Red, Blue,     \* the car threads of each colour
          Slots,         \* argv[1]: cars the bridge takes
          NoCar,         \* the value of monitor_lock when it is free
          MaxSpurious    \* bound: spurious wakeups in one behaviour

ASSUME BridgeAssumption ==
    /\ IsFiniteSet(Red) /\ IsFiniteSet(Blue)
    /\ Red \cap Blue = {}
    /\ NoCar \notin Red \cup Blue
    /\ Slots \in Nat \ {0}
    /\ MaxSpurious \in Nat

VARIABLES
    pc,            \* where each car thread is
    monitor_lock,  \* its holder between two steps, or NoCar
    left,          \* red_left and blue_left
    step,          \* step_r and step_b: cars admitted since the bridge emptied
    count,         \* reds and blues: cars on the bridge
    cnt,           \* red_cnt and blue_cnt: how many cars think they queue
    bridge_empty,  \* despite its name, 1 while the bridge is in use
    carLoad,       \* the value of left loaded by the car that is leaving
    creating,      \* the car main is about to create, or NoCar
    mainLoad,      \* the value of left loaded by main's increment
    main,          \* "running" or "returned"
    spurious       \* spurious wakeups so far

vars == <<pc, monitor_lock, left, step, count, cnt, bridge_empty, carLoad,
          creating, mainLoad, main, spurious>>

Cars == Red \cup Blue
Colours == {"red", "blue"}
Other(k) == IF k = "red" THEN "blue" ELSE "red"
Team(k) == IF k = "red" THEN Red ELSE Blue
Colour(c) == IF c \in Red THEN "red" ELSE "blue"

\* none:     main has not created the thread;
\* start:    it is about to lock monitor_lock in its enter function;
\* queued:   waiting on red_queue or blue_queue;
\* retry:    woken from there, it must take the lock and test again;
\* bridge:   on the bridge, waiting on bridge_queue;
\* crossing: on the bridge, about to call its exit function;
\* leaving:  in the exit function, holding the lock, left already loaded;
\* done:     the thread has returned.
PCs == {"none", "start", "queued", "retry", "bridge", "crossing", "leaving", "done"}

Queued(k) == {c \in Team(k) : pc[c] = "queued"}
OnBridgeQueue == {c \in Cars : pc[c] = "bridge"}
OnBridge(k) == {c \in Team(k) : pc[c] \in {"bridge", "crossing", "leaving"}}

Init ==
    /\ pc = [c \in Cars |-> "none"]
    /\ monitor_lock = NoCar
    /\ left = [k \in Colours |-> 0]
    /\ step = [k \in Colours |-> 0]
    /\ count = [k \in Colours |-> 0]
    /\ cnt = [k \in Colours |-> 0]
    /\ bridge_empty = 0
    /\ carLoad = 0
    /\ creating = NoCar
    /\ mainLoad = 0
    /\ main = "running"
    /\ spurious = 0

mainVars == <<creating, mainLoad, main>>

-----------------------------------------------------------------------------
(* POSIX condition variables. *)

\* The sets of threads one pthread_cond_signal may wake: some waiter, if any.
Signal(W) == IF W = {} THEN {{}} ELSE {{c} : c \in W}

\* Where a thread continues when its pthread_cond_wait returns.  A car woken
\* from bridge_queue takes the lock only to release it.
Resume(p) == IF p = "queued" THEN "retry" ELSE "crossing"

\* Car c moves to p, the cars of W are woken.
GoTo(c, p, W) ==
    pc' = [x \in Cars |-> IF x = c THEN p
                          ELSE IF x \in W THEN Resume(pc[x]) ELSE pc[x]]

-----------------------------------------------------------------------------
(* b_enter_bridge and r_enter_bridge. *)

Locks(c, P) == main = "running" /\ pc[c] \in P /\ monitor_lock = NoCar

\* The condition of the while loop.
MustQueue(k) == count[Other(k)] > 0 \/ step[k] = Slots

Queue(c) ==
    LET k == Colour(c) IN
    /\ Locks(c, {"start", "retry"})
    /\ MustQueue(k)
    /\ cnt' = [cnt EXCEPT ![k] = @ + 1]
    /\ GoTo(c, "queued", {})
    /\ UNCHANGED <<monitor_lock, left, step, count, bridge_empty, carLoad, spurious, mainVars>>

\* step++, the cars' count and bridge_empty, common to the three ways on.
Board(c) ==
    LET k == Colour(c) IN
    /\ Locks(c, {"start", "retry"})
    /\ ~MustQueue(k)
    /\ step' = [step EXCEPT ![k] = @ + 1]
    /\ count' = [count EXCEPT ![k] = @ + 1]
    /\ bridge_empty' = IF count'[k] = 1 THEN 1 ELSE bridge_empty
    /\ UNCHANGED <<monitor_lock, left, carLoad, spurious, mainVars>>

\* A car that does not fill the bridge calls the next one of its queue.
CallNext(k, W) ==
    IF cnt[k] > 0
    THEN W \in Signal(Queued(k)) /\ cnt' = [cnt EXCEPT ![k] = @ - 1]
    ELSE W = {} /\ cnt' = cnt

\* The car that fills the bridge does not wait.
BoardLastSlot(c) ==
    LET k == Colour(c) IN
    /\ Board(c)
    /\ count'[k] = Slots
    /\ GoTo(c, "crossing", {})
    /\ UNCHANGED cnt

\* All the cars of the colour that are left are on the bridge: start crossing.
BoardLastCar(c) ==
    LET k == Colour(c) IN
    /\ Board(c)
    /\ count'[k] # Slots
    /\ count'[k] = left[k]
    /\ \E W \in SUBSET Cars, V \in Signal(OnBridgeQueue) :
          CallNext(k, W) /\ GoTo(c, "crossing", W \cup V)

\* Otherwise the car waits on the bridge for the batch to be complete.
BoardAndWait(c) ==
    LET k == Colour(c) IN
    /\ Board(c)
    /\ count'[k] # Slots
    /\ count'[k] # left[k]
    /\ \E W \in SUBSET Cars : CallNext(k, W) /\ GoTo(c, "bridge", W)

-----------------------------------------------------------------------------
(* b_exit_bridge and r_exit_bridge. *)

\* Lock, count down the bridge, and load red_left or blue_left to decrement it.
StartExit(c) ==
    LET k == Colour(c) IN
    /\ Locks(c, {"crossing"})
    /\ monitor_lock' = c
    /\ count' = [count EXCEPT ![k] = @ - 1]
    /\ carLoad' = left[k]
    /\ GoTo(c, "leaving", {})
    /\ UNCHANGED <<left, step, cnt, bridge_empty, spurious, mainVars>>

\* The store of the decrement, and the unlock at the end of the function.
StoreLeft(c) ==
    /\ main = "running"
    /\ pc[c] = "leaving"
    /\ left' = [left EXCEPT ![Colour(c)] = carLoad - 1]
    /\ carLoad' = 0
    /\ monitor_lock' = NoCar
    /\ UNCHANGED <<count, spurious, mainVars>>

\* Faulty variant: the batch is forgotten as soon as one of its cars leaves.
ExitFollowedResetting(c) ==
    /\ StoreLeft(c)
    /\ count[Colour(c)] > 0
    /\ step' = [step EXCEPT ![Colour(c)] = 0]
    /\ \E V \in Signal(OnBridgeQueue) : GoTo(c, "done", V)
    /\ UNCHANGED <<cnt, bridge_empty>>

\* Cars remain on the bridge: the next one of the batch is told to cross.
ExitFollowed(c) ==
    /\ StoreLeft(c)
    /\ count[Colour(c)] > 0
    /\ \E V \in Signal(OnBridgeQueue) : GoTo(c, "done", V)
    /\ UNCHANGED <<step, cnt, bridge_empty>>

\* Faulty variant: only the other colour is told that the bridge is empty.
ExitLastToOthers(c) ==
    LET k == Colour(c) IN
    /\ StoreLeft(c)
    /\ count[k] = 0
    /\ bridge_empty' = 0
    /\ step' = [step EXCEPT ![k] = 0]
    /\ \E W \in SUBSET Cars : CallNext(Other(k), W) /\ GoTo(c, "done", W)

\* The bridge is empty: wake a car of each queue.
ExitLast(c) ==
    LET k == Colour(c) IN
    /\ StoreLeft(c)
    /\ count[k] = 0
    /\ bridge_empty' = 0
    /\ step' = [step EXCEPT ![k] = 0]
    /\ \E W \in SUBSET Cars, V \in Signal(Queued(k)) :
          CallNext(Other(k), W) /\ GoTo(c, "done", W \cup V)

-----------------------------------------------------------------------------
(* main: creates the cars in any order of the two colours, then joins.     *)

\* blue_left++ or red_left++ before pthread_create: the load ...
LoadLeft(c) ==
    /\ main = "running" /\ creating = NoCar
    /\ pc[c] = "none"
    /\ creating' = c
    /\ mainLoad' = left[Colour(c)]
    /\ UNCHANGED <<pc, monitor_lock, left, step, count, cnt, bridge_empty, carLoad, main, spurious>>

\* ... and the store, and the creation of the thread.
CreateCar ==
    /\ main = "running" /\ creating # NoCar
    /\ left' = [left EXCEPT ![Colour(creating)] = mainLoad + 1]
    /\ pc' = [pc EXCEPT ![creating] = "start"]
    /\ creating' = NoCar
    /\ mainLoad' = 0
    /\ UNCHANGED <<monitor_lock, step, count, cnt, bridge_empty, carLoad, main, spurious>>

\* How many blue cars the join loop waits for.  With more red cars than blue
\* ones it reads cars_b[i - blue], i.e. cars_b[red - blue .. red - 1], and only
\* the first of these lie inside the array; the joins of what lies behind it
\* wait for no car.
JoinedBlues ==
    LET r == Cardinality(Red)
        b == Cardinality(Blue)
    IN IF b >= r THEN b ELSE IF 2 * b > r THEN 2 * b - r ELSE 0

\* main returns, and with it the process and every thread still running.
Return ==
    /\ main = "running" /\ creating = NoCar
    /\ \A c \in Cars : pc[c] # "none"
    /\ \A c \in Red : pc[c] = "done"
    /\ Cardinality({c \in Blue : pc[c] = "done"}) >= JoinedBlues
    /\ main' = "returned"
    /\ UNCHANGED <<pc, monitor_lock, left, step, count, cnt, bridge_empty, carLoad, creating, mainLoad, spurious>>

-----------------------------------------------------------------------------
\* pthread_cond_wait may return without a signal.
SpuriousWakeup(c) ==
    /\ main = "running"
    /\ pc[c] \in {"queued", "bridge"}
    /\ spurious < MaxSpurious
    /\ spurious' = spurious + 1
    /\ pc' = [pc EXCEPT ![c] = Resume(@)]
    /\ UNCHANGED <<monitor_lock, left, step, count, cnt, bridge_empty, carLoad, mainVars>>

CarStep(c) == \/ Queue(c) \/ BoardLastSlot(c) \/ BoardLastCar(c) \/ BoardAndWait(c)
              \/ StartExit(c) \/ ExitFollowed(c) \/ ExitLast(c)

MainStep == (\E c \in Cars : LoadLeft(c)) \/ CreateCar \/ Return

Next == \/ \E c \in Cars : CarStep(c)
        \/ MainStep
        \/ \E c \in Cars : SpuriousWakeup(c)

Spec == Init /\ [][Next]_vars

\* The scheduler lets a car that can run do so, and main.  Spurious wakeups
\* are never owed.
FairSpec == Spec /\ WF_vars(MainStep) /\ \A c \in Cars : WF_vars(CarStep(c))

-----------------------------------------------------------------------------
(* Properties. *)

TypeOK ==
    /\ pc \in [Cars -> PCs]
    /\ monitor_lock \in Cars \cup {NoCar}
    /\ left \in [Colours -> Int]
    /\ step \in [Colours -> 0..Slots]
    /\ count \in [Colours -> 0..Slots]
    /\ cnt \in [Colours -> Nat]
    /\ bridge_empty \in {0, 1}
    /\ carLoad \in Int
    /\ creating \in Cars \cup {NoCar}
    /\ mainLoad \in Int
    /\ main \in {"running", "returned"}
    /\ spurious \in 0..MaxSpurious

\* Red and blue cars are never on the bridge together, although a car decides
\* to enter on counters that other cars change, and may have been woken long
\* before it decides (the while loops at bridge.c:21 and bridge.c:51).
OneDirection == OnBridge("red") = {} \/ OnBridge("blue") = {}

\* Never more than Slots cars on the bridge: step_r and step_b count the batch,
\* and are only reset when the last car of the batch has left (bridge.c:90).
BatchFits == \A k \in Colours : Cardinality(OnBridge(k)) <= Slots

\* red_cnt and blue_cnt never fall below the number of cars that wait, so the
\* test `cnt > 0` never suppresses the signal a queued car needs: a car woken
\* for nothing counts itself again, and a signal may find nobody waiting.
QueueCounted == \A k \in Colours : Cardinality(Queued(k)) <= cnt[k]

\* The cars of a colour that main has created and that have not decremented
\* left yet: what red_left and blue_left stand for.
Present(k) == {c \in Team(k) : pc[c] \notin {"none", "done"}}
Drifted == \E k \in Colours : left[k] # Cardinality(Present(k))

AllCrossed == \A c \in Cars : pc[c] = "done"

\* Every car crosses, unless an increment of main and a decrement of a car have
\* overwritten each other: a wrong red_left or blue_left is the only way to
\* strand cars that wait for their batch on bridge_queue.
CrossUnlessDrift == []~Drifted => <>AllCrossed

\* The cars on the bridge, those that have crossed and the size of the batch,
\* seen as the abstract bridge: the program implements it.
Bridge == INSTANCE NarrowBridge
            WITH on <- OnBridge("red") \cup OnBridge("blue"),
                 passed <- {c \in Cars : pc[c] = "done"},
                 admitted <- step["red"] + step["blue"]

ImplementsBridge == Bridge!Spec
=============================================================================
