----------------------------- MODULE CCRBridge -----------------------------
(***************************************************************************)
(* Critical_Regions/Competitive_Team_thread: bridgeCCR.c, where each car   *)
(* crosses the bridge inside one conditional critical region, and CCR.h,   *)
(* which builds the region from a mutex and a single condition variable.   *)
(*                                                                         *)
(* CCR_EXEC never broadcasts: it wakes one waiter when the region ends,    *)
(* and a waiter that is woken wakes the next one before it looks at its    *)
(* own condition.  One wakeup is thereby handed from waiter to waiter      *)
(* until a car whose turn it is has it.                                    *)
(*                                                                         *)
(* The steps of a car are: lock and wait, or lock and enter the region;    *)
(* the call of its enter function; the call of its exit function, the      *)
(* signal and the unlock.  All the shared variables are protected by the   *)
(* lock.  The r_ and b_ functions are one operator, indexed by the colour. *)
(***************************************************************************)
EXTENDS Integers, FiniteSets

CONSTANTS Red, Blue,     \* the car threads of each colour
          Slots,         \* argv[1]: cars the bridge takes
          NoCar,         \* the value of the lock when it is free
          MaxSpurious    \* bound: spurious wakeups in one behaviour

ASSUME CCRAssumption ==
    /\ IsFiniteSet(Red) /\ IsFiniteSet(Blue)
    /\ Red \cap Blue = {}
    /\ NoCar \notin Red \cup Blue
    /\ Slots \in Nat \ {0}
    /\ MaxSpurious \in Nat

VARIABLES
    pc,              \* where each car thread is
    lock,            \* CCR_bridgemtx: its holder between two steps, or NoCar
    turn,            \* red_turn and blue_turn
    left,            \* red_left and blue_left
    cars_on_bridge,
    batch,           \* history: the cars counted by cars_on_bridge
    lastSide,        \* history: the colour of the last car that entered
    spurious         \* spurious wakeups so far

vars == <<pc, lock, turn, left, cars_on_bridge, batch, lastSide, spurious>>

Cars == Red \cup Blue
Colours == {"red", "blue"}
Other(k) == IF k = "red" THEN "blue" ELSE "red"
Team(k) == IF k = "red" THEN Red ELSE Blue
Colour(c) == IF c \in Red THEN "red" ELSE "blue"

\* start:   about to lock the mutex;
\* waiting: in pthread_cond_wait of CCR_EXEC;
\* woken:   woken there, it must take the lock again;
\* inside:  in the body of the region, about to call its enter function;
\* entered: about to call its exit function;
\* done:    the thread has returned.
PCs == {"start", "waiting", "woken", "inside", "entered", "done"}

Waiting == {c \in Cars : pc[c] = "waiting"}

\* main sets the counters before it creates the first thread, creates them all
\* and joins them all; a thread that does not exist yet is one that has not
\* reached the lock.
Init ==
    /\ pc = [c \in Cars |-> "start"]
    /\ lock = NoCar
    /\ turn = [k \in Colours |-> IF k = "red" THEN 1 ELSE 0]
    /\ left = [k \in Colours |-> Cardinality(Team(k))]
    /\ cars_on_bridge = 0
    /\ batch = {}
    /\ lastSide = "none"
    /\ spurious = 0

bridgeVars == <<turn, left, cars_on_bridge, batch, lastSide>>

-----------------------------------------------------------------------------
\* The sets of threads one pthread_cond_signal may wake: some waiter, if any.
Signal(W) == IF W = {} THEN {{}} ELSE {{c} : c \in W}

\* Car c moves to p, the waiting cars of W are woken.
GoTo(c, p, W) ==
    pc' = [x \in Cars |-> IF x = c THEN p ELSE IF x \in W THEN "woken" ELSE pc[x]]

\* Lock, and the first test of the loop of CCR_EXEC: enter the region, or wait.
\* A car that waits has not signalled.
Arrive(c) ==
    /\ pc[c] = "start" /\ lock = NoCar
    /\ IF turn[Colour(c)] = 1 THEN GoTo(c, "inside", {}) /\ lock' = c
                              ELSE GoTo(c, "waiting", {}) /\ lock' = lock
    /\ UNCHANGED <<bridgeVars, spurious>>

\* Faulty variant: the woken car tests its condition and does not signal.
RecheckSilently(c) ==
    /\ pc[c] = "woken" /\ lock = NoCar
    /\ IF turn[Colour(c)] = 1 THEN GoTo(c, "inside", {}) /\ lock' = c
                              ELSE GoTo(c, "waiting", {}) /\ lock' = lock
    /\ UNCHANGED <<bridgeVars, spurious>>

\* pthread_cond_wait returns with the lock; signal, then test again.
Recheck(c) ==
    /\ pc[c] = "woken" /\ lock = NoCar
    /\ \E W \in Signal(Waiting) :
          IF turn[Colour(c)] = 1 THEN GoTo(c, "inside", W) /\ lock' = c
                                 ELSE GoTo(c, "waiting", W) /\ lock' = lock
    /\ UNCHANGED <<bridgeVars, spurious>>

-----------------------------------------------------------------------------
(* r_enter_bridge and b_enter_bridge. *)

\* Only k may go.
Turn(k) == [j \in Colours |-> IF j = k THEN 1 ELSE 0]

\* There is room: both functions compare with slots, or with red_left.
Room == cars_on_bridge < Slots \/ cars_on_bridge < left["red"]

\* Faulty variant: the car is counted on the bridge and not counted out of left.
EnterBridgeKeepingLeft(c) ==
    LET k == Colour(c) IN
    /\ pc[c] = "inside"
    /\ turn' = IF left[Other(k)] = 0 THEN Turn(k) ELSE turn
    /\ IF Room
       THEN /\ cars_on_bridge' = cars_on_bridge + 1
            /\ left' = left
            /\ batch' = batch \cup {c}
            /\ lastSide' = k
       ELSE UNCHANGED <<cars_on_bridge, left, batch, lastSide>>
    /\ GoTo(c, "entered", {})
    /\ UNCHANGED <<lock, spurious>>

EnterBridge(c) ==
    LET k == Colour(c) IN
    /\ pc[c] = "inside"
    /\ turn' = IF left[Other(k)] = 0 THEN Turn(k) ELSE turn
    /\ IF Room
       THEN /\ cars_on_bridge' = cars_on_bridge + 1
            /\ left' = [left EXCEPT ![k] = @ - 1]
            /\ batch' = batch \cup {c}
            /\ lastSide' = k
       ELSE UNCHANGED <<cars_on_bridge, left, batch, lastSide>>
    /\ GoTo(c, "entered", {})
    /\ UNCHANGED <<lock, spurious>>

-----------------------------------------------------------------------------
(* r_exit_bridge and b_exit_bridge, and the end of CCR_EXEC. *)

\* Faulty variant: the last car of a colour does not empty the bridge.
EmptiesWhenFull(k) == cars_on_bridge = Slots

\* The bridge empties: it is full, or no car of the colour is left.
Empties(k) == cars_on_bridge = Slots \/ left[k] = 0

\* Faulty variant: the turn is kept.
NextTurnKept(k) == turn

\* Whose turn it is when the bridge has emptied.
NextTurn(k) == IF left[Other(k)] # 0 THEN Turn(Other(k)) ELSE turn

\* Faulty variant: the turn passes with every car, whatever is on the bridge.
ExitBridgeFlipping(c) ==
    LET k == Colour(c) IN
    /\ pc[c] = "entered"
    /\ IF Empties(k) THEN cars_on_bridge' = 0 /\ batch' = {}
                     ELSE UNCHANGED <<cars_on_bridge, batch>>
    /\ turn' = NextTurn(k)
    /\ \E W \in Signal(Waiting) : GoTo(c, "done", W)
    /\ lock' = NoCar
    /\ UNCHANGED <<left, lastSide, spurious>>

ExitBridge(c) ==
    LET k == Colour(c) IN
    /\ pc[c] = "entered"
    /\ IF Empties(k) THEN cars_on_bridge' = 0 /\ batch' = {} /\ turn' = NextTurn(k)
                     ELSE UNCHANGED <<cars_on_bridge, batch, turn>>
    /\ \E W \in Signal(Waiting) : GoTo(c, "done", W)
    /\ lock' = NoCar
    /\ UNCHANGED <<left, lastSide, spurious>>

-----------------------------------------------------------------------------
\* pthread_cond_wait may return without a signal.
SpuriousWakeup(c) ==
    /\ pc[c] = "waiting"
    /\ spurious < MaxSpurious
    /\ spurious' = spurious + 1
    /\ pc' = [pc EXCEPT ![c] = "woken"]
    /\ UNCHANGED <<lock, bridgeVars>>

CarStep(c) == Arrive(c) \/ Recheck(c) \/ EnterBridge(c) \/ ExitBridge(c)

Next == \/ \E c \in Cars : CarStep(c)
        \/ \E c \in Cars : SpuriousWakeup(c)

Spec == Init /\ [][Next]_vars

\* A signal wakes c.
WakesUp(c) == /\ \E d \in Cars : CarStep(d)
              /\ pc[c] = "waiting" /\ pc'[c] = "woken"

\* A thread that finds the mutex free again and again takes it, and a waiter
\* that could be the one a signal wakes is not passed over for ever: waiters
\* whose turn it is not could otherwise wake each other for ever.
FairSpec == Spec /\ \A c \in Cars : SF_vars(CarStep(c)) /\ SF_vars(WakesUp(c))

-----------------------------------------------------------------------------
(* Properties. *)

TypeOK ==
    /\ pc \in [Cars -> PCs]
    /\ lock \in Cars \cup {NoCar}
    /\ turn \in [Colours -> {0, 1}]
    /\ left \in [Colours -> Nat]
    /\ cars_on_bridge \in 0..Slots
    /\ batch \in SUBSET Cars
    /\ lastSide \in Colours \cup {"none"}
    /\ spurious \in 0..MaxSpurious
    /\ \A c \in Cars : lock = c <=> pc[c] \in {"inside", "entered"}

\* A car that waits although it is its turn is never forgotten: some car holds
\* the wakeup, because it has been woken or because it is in the region and
\* signals when it leaves.  The condition variable wakes one waiter at a time,
\* possibly of the wrong colour (CCR.h:13-14 and CCR.h:18).
NoLostWakeup ==
    (\E c \in Waiting : turn[Colour(c)] = 1)
        => \E d \in Cars : pc[d] \in {"woken", "inside", "entered"}

\* The cars of a colour that have not been counted out of left.
ToGo(k) == {c \in Team(k) : pc[c] \in {"start", "waiting", "woken", "inside"}}

\* cars_on_bridge is the number of cars of the current batch, red_left and
\* blue_left the numbers of cars still to go: no car goes through the region
\* without having been counted, although both enter functions refuse a car
\* silently, and both look at red_left (bridgeCCR.c:29 and bridgeCCR.c:44).
CountersExact ==
    /\ cars_on_bridge = Cardinality(batch)
    /\ \A k \in Colours : left[k] = Cardinality(ToGo(k))

\* The turn never stays with a colour that has no car to go while the other one
\* has: its cars would wait for ever.  (A car that has been counted settles the
\* turn before it releases the lock.)  The first turn is red's, so this asks
\* for at least one red car.
TurnHasCars ==
    Red # {} /\ lock = NoCar =>
        \A k \in Colours : turn[k] = 1 /\ left[k] = 0 => left[Other(k)] = 0

\* Two batches of one colour follow each other only if the other colour has no
\* car to go: the turns alternate (bridgeCCR.c:59-62 and bridgeCCR.c:74-77).
\* Monitors/bridge.c makes no such promise.
Alternates ==
    [][\A k \in Colours :
          batch = {} /\ lastSide = k /\ batch' # {} /\ batch' \subseteq Team(k)
              => left[Other(k)] = 0]_vars

\* Every car crosses, if there is a red one.
EveryCarCrosses == Red # {} => <>(\A c \in Cars : pc[c] = "done")

\* The program implements the abstract bridge.
Bridge == INSTANCE NarrowBridge
            WITH on <- batch,
                 passed <- {c \in Cars : pc[c] = "done"} \ batch,
                 admitted <- cars_on_bridge

ImplementsBridge == Bridge!Spec
=============================================================================
