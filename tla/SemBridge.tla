----------------------------- MODULE SemBridge -----------------------------
(***************************************************************************)
(* Semaphores/Competitive_Team_thread: bridge.c and mysem.c.  The cars of  *)
(* a colour take the semaphore of their colour, red_sem or blue_sem, one   *)
(* after the other: whoever has it looks at the shared variables, which    *)
(* nothing else protects, and passes it on when it waits on the bridge.    *)
(* The car that settles a batch tosses for the next turn and raises        *)
(* general_sem for the other colour.                                       *)
(*                                                                         *)
(* thread_red and thread_blue are one operator, indexed by the colour.     *)
(* mysem_up is two steps, the reading of the value and the semop; x++ and  *)
(* x-- are a load and a store, except slots_left++, which is one step with *)
(* its test.  The test for turn == -2, which turn never is, is left out.   *)
(*                                                                         *)
(* The program is right if certain things do not happen at once.  The      *)
(* history variable raced says that one of them has; each is named at the  *)
(* action that sees it.                                                    *)
(***************************************************************************)
EXTENDS Integers, FiniteSets, Sequences

CONSTANTS Red, Blue,     \* the car threads of each colour
          slots,         \* argv[1]: cars the bridge takes
          blue_sem       \* the identifier of that semaphore, compared with turn

ASSUME SemBridgeAssumption ==
    /\ IsFiniteSet(Red) /\ IsFiniteSet(Blue)
    /\ Red \cap Blue = {}
    /\ slots \in Nat \ {0}
    /\ blue_sem \in Nat

VARIABLES
    pc,                   \* where each car thread is
    todo,                 \* the semaphores it is about to raise, before it goes on
    raising,              \* it has found the first of them down, in mysem_up
    load,                 \* the value it has loaded
    sem,                  \* the values of the semaphores
    turn, step, step2,
    slots_left, left,     \* left: red_left and blue_left
    count, stop,
    main, mainLoad,
    raced                 \* history: an assumption of the program has failed

vars == <<pc, todo, raising, load, sem, turn, step, step2, slots_left, left, count, stop,
          main, mainLoad, raced>>

own == <<todo, raising, load>>
turnVars == <<turn, step, step2>>
bridgeVars == <<slots_left, left, count>>
ends == <<stop, main, mainLoad>>

Cars == Red \cup Blue
Colours == {"red", "blue"}
Other(k) == IF k = "red" THEN "blue" ELSE "red"
Team(k) == IF k = "red" THEN Red ELSE Blue
Colour(c) == IF c \in Red THEN "red" ELSE "blue"

\* red_turn and blue_turn.
TurnOf(k) == IF k = "red" THEN 1 ELSE 0

\* A colour stands for its semaphore, red_sem or blue_sem.
Bridge(k) == IF k = "red" THEN "bridgeR_sem" ELSE "bridgeB_sem"
Semaphores == Colours \cup {"bridgeR_sem", "bridgeB_sem", "general_sem", "wait_sem", "main_sem"}

\* main: load and store (left++ of the next car), wait (in mysem_down), destroy,
\* return, returned, failed (exit(EXIT_FAILURE) of some thread).
Init ==
    /\ pc = [c \in Cars |-> "none"]
    /\ todo = [c \in Cars |-> <<>>]
    /\ raising = [c \in Cars |-> FALSE]
    /\ load = [c \in Cars |-> 0]
    /\ sem = [s \in Semaphores |-> IF s \in Colours THEN 1 ELSE 0]
    /\ turn = -1 /\ step = 0 /\ step2 = 0
    /\ slots_left = 0 /\ count = 0
    /\ left = [k \in Colours |-> 0]
    /\ stop = 0
    /\ main = IF Cars = {} THEN "wait" ELSE "load"
    /\ mainLoad = 0
    /\ raced = FALSE

Running == main \notin {"returned", "failed"}
Creating == main \in {"load", "store"}

Notes(race) == raced' = (raced \/ race)

-----------------------------------------------------------------------------
(* The semaphores. *)

\* Car c is at p and has raised all it had to.
At(c, p) == Running /\ pc[c] = p /\ todo[c] = <<>>

GoTo(c, p) == pc' = [pc EXCEPT ![c] = p]

\* Car c goes on to p, and raises the semaphores of list first.
GoRaising(c, p, list) ==
    /\ GoTo(c, p)
    /\ todo' = [todo EXCEPT ![c] = list]
    /\ UNCHANGED <<raising, load, sem>>

\* mysem_up, GETVAL: a semaphore that is up is left alone.  A race: a car that has
\* to be released from the bridge is not.
GetVal(c) ==
    /\ Running /\ todo[c] # <<>> /\ ~raising[c]
    /\ IF sem[Head(todo[c])] = 1 /\ main # "return"
       THEN /\ todo' = [todo EXCEPT ![c] = Tail(@)]
            /\ Notes(Head(todo[c]) = Bridge(Colour(c)))
            /\ UNCHANGED raising
       ELSE /\ raising' = [raising EXCEPT ![c] = TRUE]
            /\ UNCHANGED <<todo, raced>>
    /\ UNCHANGED <<pc, load, sem, turnVars, bridgeVars, ends>>

\* mysem_up, semop: it fails if main has removed the semaphore.
SemOp(c) ==
    /\ Running /\ todo[c] # <<>> /\ raising[c]
    /\ sem' = [sem EXCEPT ![Head(todo[c])] = @ + 1]
    /\ raising' = [raising EXCEPT ![c] = FALSE]
    /\ todo' = [todo EXCEPT ![c] = Tail(@)]
    /\ main' = IF main = "return" THEN "failed" ELSE main
    /\ UNCHANGED <<pc, load, turnVars, bridgeVars, stop, mainLoad, raced>>

\* Where a car calls mysem_down, with which semaphore, and where it goes on.
Waits == {"arrive", "ceded", "gated", "sent", "full", "on"}
Awaits(c) == CASE pc[c] = "arrive" -> Colour(c)
               [] pc[c] = "full" -> "wait_sem"
               [] pc[c] = "on" -> Bridge(Colour(c))
               [] OTHER -> "general_sem"
Onwards(p) == CASE p = "arrive" -> "first" [] p = "ceded" -> "gate" [] p = "sent" -> "slots"
                [] p = "on" -> "pass" [] OTHER -> "loop"

Down(c) ==
    /\ pc[c] \in Waits /\ At(c, pc[c])
    /\ sem[Awaits(c)] > 0
    /\ sem' = [sem EXCEPT ![Awaits(c)] = @ - 1]
    /\ GoTo(c, Onwards(pc[c]))
    /\ UNCHANGED <<own, turnVars, bridgeVars, ends, raced>>

-----------------------------------------------------------------------------
(* The first turn, and the wait for it. *)

Deciding == {c \in Cars : pc[c] \in {"setStep", "decide", "compare", "cede"}}

\* The test of step.  A race: the first turn is being decided.
First(c) ==
    /\ At(c, "first")
    /\ GoTo(c, IF step = 0 THEN "setStep" ELSE "gate")
    /\ Notes(Deciding # {})
    /\ UNCHANGED <<own, sem, turnVars, bridgeVars, ends>>

SetStep(c) ==
    /\ At(c, "setStep")
    /\ step' = step + 1
    /\ GoTo(c, "decide")
    /\ UNCHANGED <<own, sem, turn, step2, bridgeVars, ends, raced>>

Decide(c) ==
    /\ At(c, "decide")
    /\ turn' \in {0, 1}
    /\ GoTo(c, "compare")
    /\ UNCHANGED <<own, sem, step, step2, bridgeVars, ends, raced>>

\* A blue car compares with the semaphore.
Compare(c) ==
    /\ At(c, "compare")
    /\ GoTo(c, IF turn = (IF c \in Red THEN 1 ELSE blue_sem) THEN "gate" ELSE "cede")
    /\ UNCHANGED <<own, sem, turnVars, bridgeVars, ends, raced>>

Cede(c) ==
    /\ At(c, "cede")
    /\ turn' = TurnOf(Other(Colour(c)))
    /\ GoRaising(c, "ceded", <<"wait_sem">>)
    /\ UNCHANGED <<step, step2, bridgeVars, ends, raced>>

\* Faulty variant: every turn is taken for one's own.
MyTurnAlways(c) == TRUE

MyTurn(c) == turn = TurnOf(Colour(c))

\* The test before the loop, and the one in the loop: a car of the other colour
\* waits for general_sem.
Gate(c) ==
    /\ At(c, "gate")
    /\ GoTo(c, IF MyTurn(c) THEN "loop" ELSE "gated")
    /\ UNCHANGED <<own, sem, turnVars, bridgeVars, ends, raced>>

\* A race: the turn that this car sees has not been settled yet.
Loop(c) ==
    /\ At(c, "loop")
    /\ GoTo(c, IF MyTurn(c) THEN "slots" ELSE "sent")
    /\ Notes(\E d \in Cars : \/ pc[d] \in {"empty", "toss", "keep", "hand"}
                             \/ pc[d] = "stop" /\ todo[d] # <<>>)
    /\ UNCHANGED <<own, sem, turnVars, bridgeVars, ends>>
-----------------------------------------------------------------------------
(* The bridge. *)

\* The first test of slots_left, or the second, and slots_left++; or, on a full
\* bridge, the third.
TakeSlot(c) ==
    /\ At(c, "slots")
    /\ IF slots_left = slots
       THEN GoTo(c, "full") /\ UNCHANGED slots_left
       ELSE /\ slots_left' = slots_left + 1
            /\ GoTo(c, IF slots_left = 0 THEN "alone" ELSE "among")
    /\ UNCHANGED <<own, sem, turnVars, left, count, ends, raced>>

\* The first car of a batch crosses if it is the only one left, and waits for
\* the others if not.  A race, here and where red_left and blue_left are looked
\* at below: main has not counted all the cars yet.
Alone(c) ==
    LET k == Colour(c) IN
    /\ At(c, "alone")
    /\ IF left[k] = 1 THEN GoRaising(c, "passAlone", <<>>) ELSE GoRaising(c, "on", <<k>>)
    /\ Notes(Creating)
    /\ UNCHANGED <<turnVars, bridgeVars, ends>>

\* The car that has taken a slot completes the batch.
Completes(k) == slots_left = (IF left[k] < slots THEN left[k] ELSE slots)

\* Faulty variant: the next car is let through as well.
ReleasesNext(k) == Append([j \in 1..(slots_left - 1) |-> Bridge(k)], k)

\* The cars of the batch that wait.
Releases(k) == [j \in 1..(slots_left - 1) |-> Bridge(k)]

\* The next cars wait too, and the one that completes the batch releases them.
\* If it is also the last car of its colour it does not count itself.
Among(c) ==
    LET k == Colour(c) IN
    /\ At(c, "among")
    /\ IF Completes(k)
       THEN GoRaising(c, IF left[k] < slots THEN "passAlone" ELSE "pass", Releases(k))
       ELSE GoRaising(c, "on", <<k>>)
    /\ Notes(Creating)
    /\ UNCHANGED <<turnVars, bridgeVars, ends>>

\* red_left-- or blue_left--, and count++ except after passAlone.  A race, here
\* and below: another car has stored since the load.
LoadLeft(c) ==
    /\ pc[c] \in {"pass", "passAlone"} /\ At(c, pc[c])
    /\ load' = [load EXCEPT ![c] = left[Colour(c)]]
    /\ GoTo(c, IF pc[c] = "pass" THEN "passing" ELSE "passingAlone")
    /\ UNCHANGED <<todo, raising, sem, turnVars, bridgeVars, ends, raced>>

StoreLeft(c) ==
    LET k == Colour(c) IN
    /\ pc[c] \in {"passing", "passingAlone"} /\ At(c, pc[c])
    /\ left' = [left EXCEPT ![k] = load[c] - 1]
    /\ GoTo(c, IF pc[c] = "passing" THEN "count" ELSE "settle")
    /\ Notes(load[c] # left[k])
    /\ UNCHANGED <<own, sem, turnVars, slots_left, count, ends>>

LoadCount(c) ==
    /\ At(c, "count")
    /\ load' = [load EXCEPT ![c] = count]
    /\ GoTo(c, "counting")
    /\ UNCHANGED <<todo, raising, sem, turnVars, bridgeVars, ends, raced>>

StoreCount(c) ==
    /\ At(c, "counting")
    /\ count' = load[c] + 1
    /\ GoTo(c, "settle")
    /\ Notes(load[c] # count)
    /\ UNCHANGED <<own, sem, turnVars, slots_left, left, ends>>

-----------------------------------------------------------------------------
(* The end of a batch. *)

\* The cars between the test of slots_left and the end of the settlement.
Crossing == {"on", "pass", "passing", "passAlone", "passingAlone", "count", "counting", "settle",
             "empty", "toss", "keep", "hand"}

\* Faulty variant: a batch that is not full is never settled.
EmptiedFull(k) == count = slots

\* The bridge has emptied if all the slots have been used or no car is left.
Emptied(k) == count = slots \/ left[k] = 0

\* A race: another car has not come that far, or settles the batch too.
Settle(c) ==
    /\ At(c, "settle")
    /\ GoTo(c, IF Emptied(Colour(c)) THEN "empty" ELSE "stop")
    /\ Notes(Emptied(Colour(c)) /\
             (Creating \/ \E d \in Cars \ {c} : \/ pc[d] \in Crossing
                                                \/ pc[d] = "stop" /\ todo[d] # <<>>))
    /\ UNCHANGED <<own, sem, turnVars, bridgeVars, ends>>

Empty(c) ==
    /\ At(c, "empty")
    /\ slots_left' = 0
    /\ count' = 0
    /\ GoTo(c, "toss")
    /\ UNCHANGED <<own, sem, turnVars, left, ends, raced>>

Toss(c) ==
    /\ At(c, "toss")
    /\ turn' \in {0, 1}
    /\ GoTo(c, "keep")
    /\ UNCHANGED <<own, sem, step, step2, bridgeVars, ends, raced>>

\* The turn stays, if there is a car to use it.
Keep(c) ==
    LET k == Colour(c) IN
    /\ At(c, "keep")
    /\ IF ~MyTurn(c)
       THEN GoRaising(c, "hand", <<>>) /\ UNCHANGED turn
       ELSE IF left[k] = 0
       THEN GoRaising(c, "hand", <<"general_sem">>) /\ turn' = TurnOf(Other(k))
       ELSE GoRaising(c, "hand", <<k>>) /\ UNCHANGED turn
    /\ Notes(Creating)
    /\ UNCHANGED <<step, step2, bridgeVars, ends>>

\* The turn goes to the other colour: the first time to the car that waits for
\* general_sem, then also to the one that waits for the semaphore of its colour.
Hand(c) ==
    LET k == Colour(c)
        o == Other(k) IN
    /\ At(c, "hand")
    /\ IF turn # TurnOf(o)
       THEN GoRaising(c, "stop", <<>>) /\ UNCHANGED <<turn, step2>>
       ELSE IF left[o] = 0
       THEN GoRaising(c, "stop", <<k>>) /\ turn' = TurnOf(k) /\ UNCHANGED step2
       ELSE IF step2 = 0
       THEN GoRaising(c, "stop", <<"general_sem">>) /\ step2' = 1 /\ UNCHANGED turn
       ELSE GoRaising(c, "stop", <<"general_sem", o>>) /\ turn' = TurnOf(o) /\ UNCHANGED step2
    /\ Notes(Creating)
    /\ UNCHANGED <<step, bridgeVars, ends>>

\* stop++, and the last car raises main_sem.
LoadStop(c) ==
    /\ At(c, "stop")
    /\ load' = [load EXCEPT ![c] = stop]
    /\ GoTo(c, "stopping")
    /\ UNCHANGED <<todo, raising, sem, turnVars, bridgeVars, ends, raced>>

StoreStop(c) ==
    /\ At(c, "stopping")
    /\ stop' = load[c] + 1
    /\ GoTo(c, "last")
    /\ Notes(load[c] # stop)
    /\ UNCHANGED <<own, sem, turnVars, bridgeVars, main, mainLoad>>

Last(c) ==
    /\ At(c, "last")
    /\ GoRaising(c, "done", IF stop = Cardinality(Cars) THEN <<"main_sem">> ELSE <<>>)
    /\ UNCHANGED <<turnVars, bridgeVars, ends, raced>>

-----------------------------------------------------------------------------
(* main. *)

Uncreated == {c \in Cars : pc[c] = "none"}

\* The blue cars are created before the red ones.
NextColour == IF Uncreated \cap Blue # {} THEN "blue" ELSE "red"

LoadNew ==
    /\ main = "load"
    /\ mainLoad' = left[NextColour]
    /\ main' = "store"
    /\ UNCHANGED <<pc, own, sem, turnVars, bridgeVars, stop, raced>>

Create(c) ==
    /\ main = "store" /\ c \in Uncreated /\ Colour(c) = NextColour
    /\ left' = [left EXCEPT ![NextColour] = mainLoad + 1]
    /\ GoTo(c, "arrive")
    /\ main' = IF Uncreated = {c} THEN "wait" ELSE "load"
    /\ UNCHANGED <<own, sem, turnVars, slots_left, count, stop, mainLoad, raced>>

Finish ==
    /\ main = "wait" /\ sem["main_sem"] > 0
    /\ sem' = [sem EXCEPT !["main_sem"] = @ - 1]
    /\ main' = "destroy"
    /\ UNCHANGED <<pc, own, turnVars, bridgeVars, stop, mainLoad, raced>>

\* main_sem is the first semaphore to be removed.
Destroy ==
    /\ main = "destroy"
    /\ main' = "return"
    /\ UNCHANGED <<pc, own, sem, turnVars, bridgeVars, stop, mainLoad, raced>>

Return ==
    /\ main = "return"
    /\ main' = "returned"
    /\ UNCHANGED <<pc, own, sem, turnVars, bridgeVars, stop, mainLoad, raced>>

CarStep(c) ==
    \/ GetVal(c) \/ SemOp(c) \/ Down(c)
    \/ First(c) \/ SetStep(c) \/ Decide(c) \/ Compare(c) \/ Cede(c) \/ Gate(c) \/ Loop(c)
    \/ TakeSlot(c) \/ Alone(c) \/ Among(c)
    \/ LoadLeft(c) \/ StoreLeft(c) \/ LoadCount(c) \/ StoreCount(c)
    \/ Settle(c) \/ Empty(c) \/ Toss(c) \/ Keep(c) \/ Hand(c)
    \/ LoadStop(c) \/ StoreStop(c) \/ Last(c)

MainStep == LoadNew \/ (\E c \in Cars : Create(c)) \/ Finish \/ Destroy \/ Return

Next == (\E c \in Cars : CarStep(c)) \/ MainStep

Spec == Init /\ [][Next]_vars

-----------------------------------------------------------------------------
(* Properties. *)

\* A car drives onto the bridge when it takes a slot, and has left it when it is
\* counted out of red_left or blue_left.
OnBridge == {c \in Cars : pc[c] \in {"alone", "among", "on", "pass", "passing", "passAlone",
                                     "passingAlone"}}

Passed == {c \in Cars : pc[c] \in {"count", "counting", "settle", "empty", "toss", "keep", "hand",
                                   "stop", "stopping", "last", "done"}}

\* src/README.md:46 and src/Semaphores/README.md:3: only cars of one direction
\* are on the bridge.
OneDirection == OnBridge \subseteq Red \/ OnBridge \subseteq Blue

\* As long as no race has happened, the program implements the abstract bridge.
Abstract == INSTANCE NarrowBridge
              WITH Slots <- slots,
                   on <- OnBridge,
                   passed <- Passed,
                   admitted <- IF OnBridge = {} THEN 0 ELSE slots_left

ImplementsBridge ==
    Abstract!Init /\ [][raced' \/ Abstract!Next \/ UNCHANGED Abstract!vars]_vars

\* The cars between mysem_down of the semaphore of their colour and mysem_up.
Holders(k) == {c \in Team(k) : pc[c] \in {"first", "setStep", "decide", "compare", "cede", "ceded",
                                          "gate", "gated", "loop", "sent", "slots", "full",
                                          "alone", "among"}}

\* As long as no race has happened, one car of a colour at a time looks at the
\* variables, although the semaphore is raised in six places, some of them in
\* cars of the other colour (bridge.c:59, 82, 103, 142, 148 and 313), and
\* mysem_up never raises a semaphore to 2.
OneBaton ==
    raced \/ /\ \A k \in Colours : Cardinality(Holders(k)) + sem[k] <= 1
             /\ \A s \in Semaphores \ {"main_sem"} : sem[s] <= 1

\* Every car waits for a semaphore that is down, or has ended, and main waits.
Stuck == /\ main = "wait" /\ sem["main_sem"] = 0
         /\ \A c \in Cars : /\ todo[c] = <<>>
                            /\ pc[c] = "done" \/ (pc[c] \in Waits /\ sem[Awaits(c)] = 0)

\* Nothing but the races stops the program, if the bridge takes two cars and both
\* colours have some: the turn is handed on whatever the tosses are (bridge.c:122-163),
\* even if one falls on a colour that has no car left.  With one slot the first of
\* two cars waits for a second one that finds the bridge full; with one colour the
\* car that cedes the first turn (bridge.c:30-33) waits for a car of the other one.
StuckOnlyIfRaced == slots > 1 /\ Red # {} /\ Blue # {} /\ Stuck => raced

\* A constraint for TLC: nothing is claimed of what happens after a race.
Unraced == ~raced
=============================================================================
