-------------------------- MODULE SemBridge_proofs --------------------------
(***************************************************************************)
(* Proofs about SemBridge, for any number of cars and slots: as long as no *)
(* race has happened, one car of a colour at a time looks at the shared    *)
(* variables, no semaphore is raised twice, the program implements         *)
(* NarrowBridge, and, if the bridge takes two cars and both colours have   *)
(* some, it does not come to a stop.                                       *)
(***************************************************************************)
EXTENDS SemBridge, FiniteSetTheorems, TLAPS

\* The places of a car, from its creation to its end.
Early == {"none", "arrive", "first"}
DecidingAt == {"setStep", "decide", "compare", "cede"}
GateAt == {"ceded", "gate", "gated", "loop", "sent"}
SlotsAt == {"slots", "full"}
TakenAt == {"alone", "among"}
UnpassedAt == {"pass", "passing", "passAlone", "passingAlone"}
CountedAt == {"count", "counting", "settle"}
SettlingAt == {"empty", "toss", "keep"}
GoneAt == {"stop", "stopping", "last", "done"}
HolderAt == {"first"} \cup DecidingAt \cup GateAt \cup SlotsAt \cup TakenAt
PassedAt == CountedAt \cup SettlingAt \cup {"hand"} \cup GoneAt
Places == Early \cup HolderAt \cup {"on"} \cup UnpassedAt \cup PassedAt

\* The semaphore that a list of them ends with.
FinalOf(s) == s[Len(s)]

\* What a car may still have to raise, where it is.
ShapeOf(c, p, list) ==
    LET k == Colour(c) IN
    /\ p \notin {"on", "pass", "passAlone", "hand", "stop", "ceded", "done"} => list = <<>>
    /\ p = "on" => list \in {<<>>, <<k>>}
    /\ p \in {"pass", "passAlone"} => list \in Seq({Bridge(k)})
    /\ p = "hand" => list \in {<<>>, <<"general_sem">>, <<k>>}
    /\ p = "stop" => list \in {<<>>, <<k>>, <<Other(k)>>, <<"general_sem">>,
                               <<"general_sem", Other(k)>>}
    /\ p = "ceded" => list \in {<<>>, <<"wait_sem">>}
    /\ p = "done" => list \in {<<>>, <<"main_sem">>}

CarTypes ==
    /\ pc \in [Cars -> Places]
    /\ todo \in [Cars -> Seq(Semaphores)]
    /\ raising \in [Cars -> BOOLEAN]
    /\ \A c \in Cars : ShapeOf(c, pc[c], todo[c]) /\ (raising[c] => todo[c] # <<>>)

Types ==
    /\ CarTypes
    /\ sem \in [Semaphores -> Nat]
    /\ turn \in {-1, 0, 1} /\ step \in Nat /\ step2 \in {0, 1}
    /\ slots_left \in 0..slots /\ left \in [Colours -> Int]
    /\ stop \in Int /\ mainLoad \in Int
    /\ main \in {"load", "store", "wait", "destroy", "return", "returned", "failed"}

\* The car has the token of colour k, or is going to give it.
Raises(c, s) == todo[c] # <<>> /\ FinalOf(todo[c]) = s
Token(c, k) == (Colour(c) = k /\ pc[c] \in HolderAt) \/ Raises(c, k)
\* The token of k is with a car or in the semaphore.
Open(k) == sem[k] > 0 \/ \E c \in Cars : Token(c, k)
Crosses(c) == pc[c] \in UnpassedAt \cup CountedAt
\* Nobody of colour k is beyond the semaphore of its colour and before the end of a batch.
Quiet(k) == ~Open(k) /\ \A c \in Cars : Colour(c) = k => ~Crosses(c) /\ pc[c] # "on"
\* The car has seen that it is the turn of its colour.
Within(c) == pc[c] \in SlotsAt \cup TakenAt \cup {"on"} \/ Crosses(c)
AllPassed(k) == \A c \in Cars : Colour(c) = k => pc[c] \in PassedAt
Over == \A c \in Cars : pc[c] \in PassedAt

Settles(c) == pc[c] \in SettlingAt \cup {"hand"} \/ (pc[c] = "stop" /\ todo[c] # <<>>)

Waiting(k) == {c \in Team(k) : pc[c] = "on"}
Taking(k) == {c \in Team(k) : pc[c] \in TakenAt \cup {"on"}}
Unpassed(k) == {c \in Team(k) : pc[c] # "none" /\ pc[c] \notin PassedAt}
Ended == {c \in Cars : pc[c] \in {"last", "done"}}

\* The first turn is decided by one car, before any other goes on, and there is one after it.
Started ==
    /\ \A c, d \in Cars : pc[c] \in DecidingAt /\ d # c => pc[d] \in Early
    /\ (\A c \in Cars : pc[c] \in Early \cup DecidingAt) => step2 = 0 /\ slots_left = 0
    /\ \A c \in Cars : pc[c] \notin Early \cup {"setStep"} => step > 0
    /\ step > 0 /\ (\A c \in Cars : pc[c] \notin DecidingAt) => turn \in {0, 1}
    /\ \A c \in Cars : pc[c] \in {"compare", "cede"} => turn \in {0, 1}
    /\ \A c, d \in Cars : pc[c] = "ceded" /\ todo[c] # <<>> /\ pc[d] = "ceded" /\ todo[d] # <<>>
        => c = d

\* One car settles a batch, and only gives two semaphores once general_sem has been given.
OneSettles ==
    /\ \A c, d \in Cars : Settles(c) /\ Settles(d) => c = d
    /\ \A c \in Cars : pc[c] = "stop" /\ Len(todo[c]) > 1 => step2 = 1

\* A semaphore that a car has found down stays down until that car raises it.
Lowered ==
    /\ \A s \in Semaphores \ {"main_sem"} : sem[s] <= 1
    /\ \A c \in Cars : raising[c] /\ Head(todo[c]) # "main_sem" => sem[Head(todo[c])] = 0

\* red_left and blue_left are exact, and nobody is on the bridge before main has created all.
Counting ==
    /\ \A k \in Colours : left[k] = Cardinality(Unpassed(k))
    /\ main = "store" => mainLoad = left[NextColour]
    /\ Creating => \A c \in Cars : pc[c] \in {"none", "arrive"} \cup HolderAt
    /\ ~Creating => \A c \in Cars : pc[c] # "none"

\* stop is exact, and main is only released when all the cars have ended.
Ending ==
    /\ stop = Cardinality(Ended)
    /\ sem["main_sem"] > 0 \/ main \in {"destroy", "return", "returned", "failed"} => Ended = Cars
    /\ (\E c \in Cars : pc[c] = "done" /\ todo[c] # <<>>) => Ended = Cars

\* There is one token of each colour.
Baton(k) == /\ sem[k] > 0 => \A c \in Cars : ~Token(c, k)
            /\ \A c, d \in Cars : Token(c, k) /\ Token(d, k) => c = d

\* There is none while a batch of that colour leaves the bridge.
Closed(k) == sem[Bridge(k)] > 0 \/ (\E c \in Cars : Colour(c) = k /\ Crosses(c)) => ~Open(k)

\* The cars that are released from the bridge are on it.
Released(k) ==
    /\ sem[Bridge(k)] <= Cardinality(Waiting(k))
    /\ \A c \in Cars : Colour(c) = k /\ pc[c] \in UnpassedAt =>
         sem[Bridge(k)] + Len(todo[c]) <= Cardinality(Waiting(k))
    /\ \A c, d \in Cars : /\ Colour(c) = k /\ pc[c] \in UnpassedAt /\ todo[c] # <<>>
                          /\ Colour(d) = k /\ pc[d] \in UnpassedAt /\ todo[d] # <<>>
                          => c = d

\* No slot is taken but by the cars on the bridge.
Slotted(k) == turn = TurnOf(k) /\ Open(k) => slots_left <= Cardinality(Taking(k))

\* The turn does not change while there are cars on the bridge.
OwnTurn == \A c \in Cars : Within(c) => turn = TurnOf(Colour(c))

\* While a car settles a batch nobody is on the bridge, until it has given the turn away.
Settled(c) ==
    LET k == Colour(c)
        o == Other(k) IN
    /\ pc[c] \in SettlingAt => /\ Quiet(k) /\ (step2 = 1 => Quiet(o))
                               /\ \A d \in Cars : ~Within(d)
    /\ pc[c] \in {"toss", "keep"} => slots_left = 0
    /\ pc[c] = "hand" /\ turn = TurnOf(o) =>
         /\ Quiet(k)
         /\ \/ slots_left = 0 /\ (step2 = 1 => Quiet(o)) /\ \A d \in Cars : ~Within(d)
            \/ step2 = 0 /\ AllPassed(k)

\* Once the turn has been given away, the colour that does not have it waits for its semaphore.
Turned(k) == step2 = 1 /\ turn # TurnOf(k) /\ (\A c \in Cars : pc[c] \notin SettlingAt) => Quiet(k)

\* Before that, general_sem is only raised by the last car of a colour.
General ==
    step2 = 0 /\ (sem["general_sem"] > 0 \/ \E c \in Cars : Raises(c, "general_sem")) =>
      \E c \in Cars : pc[c] = "hand" /\ turn = TurnOf(Other(Colour(c))) /\ AllPassed(Colour(c))

Batches == /\ \A k \in Colours : /\ Baton(k) /\ Closed(k) /\ Released(k) /\ Slotted(k) /\ Turned(k)
           /\ OwnTurn
           /\ \A c \in Cars : Settled(c)
           /\ General

Good == /\ Types /\ Started /\ OneSettles /\ Lowered /\ Counting /\ Ending
        /\ Over \/ Batches

\* Nothing is claimed of what happens after a race.
IInv == raced \in BOOLEAN /\ (raced \/ Good)

-----------------------------------------------------------------------------
(* Colours, lists of semaphores, and sets of cars. *)

LEMMA ColourFacts ==
    /\ \A c \in Cars : Colour(c) \in Colours /\ c \in Team(Colour(c))
    /\ \A k \in Colours : /\ Team(k) \subseteq Cars
                          /\ \A c \in Cars : c \in Team(k) <=> Colour(c) = k
                          /\ Other(k) \in Colours /\ Other(k) # k /\ Other(Other(k)) = k
                          /\ \A j \in Colours : j = k \/ j = Other(k)
                          /\ TurnOf(k) \in {0, 1} /\ TurnOf(Other(k)) # TurnOf(k)
                          /\ \A t \in {0, 1} : t = TurnOf(k) \/ t = TurnOf(Other(k))
                          /\ Bridge(k) \in Semaphores /\ k \in Semaphores
                          /\ Bridge(k) \notin Colours \cup {"general_sem", "wait_sem", "main_sem"}
                          /\ Bridge(Other(k)) # Bridge(k)
                          /\ k \notin {"general_sem", "wait_sem", "main_sem"}
    /\ {"general_sem", "wait_sem", "main_sem"} \subseteq Semaphores
BY SemBridgeAssumption DEF Cars, Colours, Colour, Team, Other, TurnOf, Bridge, Semaphores

LEMMA ListFacts ==
    /\ <<>> \in Seq(Semaphores) /\ Len(<<>>) = 0 /\ \A s : <<>> \in Seq({s})
    /\ \A s \in Semaphores : /\ <<s>> \in Seq(Semaphores) /\ <<s>> # <<>> /\ Len(<<s>>) = 1
                             /\ FinalOf(<<s>>) = s /\ Head(<<s>>) = s /\ Tail(<<s>>) = <<>>
    /\ \A s, t \in Semaphores : /\ <<s, t>> \in Seq(Semaphores) /\ <<s, t>> # <<>>
                                /\ FinalOf(<<s, t>>) = t /\ Head(<<s, t>>) = s
                                    /\ Tail(<<s, t>>) = <<t>>
BY DEF FinalOf

LEMMA TailFacts ==
    ASSUME NEW S, NEW l \in Seq(S), l # <<>>
    PROVE  /\ Tail(l) \in Seq(S) /\ Len(Tail(l)) = Len(l) - 1 /\ Len(l) \in Nat \ {0}
           /\ Head(l) \in S
           /\ Tail(l) = <<>> => FinalOf(l) = Head(l)
           /\ Tail(l) # <<>> => FinalOf(Tail(l)) = FinalOf(l)
<1>1. Len(l) \in Nat \ {0} /\ Tail(l) \in Seq(S) /\ Len(Tail(l)) = Len(l) - 1 /\ Head(l) = l[1]
        /\ Head(l) \in S
  OBVIOUS
<1>2. ASSUME Tail(l) # <<>> PROVE FinalOf(Tail(l)) = FinalOf(l)
  <2>1. Len(l) > 1
    BY <1>1, <1>2
  <2>2. \A i \in 1..(Len(l) - 1) : Tail(l)[i] = l[i + 1]
    BY <1>1
  <2>3. Tail(l)[Len(l) - 1] = l[Len(l) - 1 + 1]
    BY <1>1, <2>1, <2>2
  <2> QED
    BY <1>1, <2>1, <2>3 DEF FinalOf
<1>3. ASSUME Tail(l) = <<>> PROVE FinalOf(l) = Head(l)
  <2>1. Len(Tail(l)) = 0
    BY <1>3, ListFacts
  <2>2. Len(l) = 1
    BY <1>1, <2>1
  <2>3. FinalOf(l) = l[1]
    BY <2>2 DEF FinalOf
  <2> QED
    BY <1>1, <2>3
<1> QED
  BY <1>1, <1>2, <1>3

\* The list of the cars to be released.
LEMMA ReleasesFacts ==
    ASSUME NEW k \in Colours, slots_left \in Nat, slots_left >= 1
    PROVE  /\ Releases(k) \in Seq({Bridge(k)}) /\ Len(Releases(k)) = slots_left - 1
           /\ Releases(k) \in Seq(Semaphores)
           /\ Releases(k) # <<>> => FinalOf(Releases(k)) = Bridge(k)
<1> DEFINE n == slots_left - 1
<1>1. n \in Nat /\ Bridge(k) \in Semaphores
  BY ColourFacts
<1>2. Releases(k) = [j \in 1..n |-> Bridge(k)]
  BY DEF Releases
<1>3. Releases(k) \in Seq({Bridge(k)}) /\ Len(Releases(k)) = n /\ Releases(k) \in Seq(Semaphores)
  BY <1>1, <1>2
<1>4. Releases(k) # <<>> => FinalOf(Releases(k)) = Bridge(k)
  <2> SUFFICES ASSUME Releases(k) # <<>> PROVE FinalOf(Releases(k)) = Bridge(k)
    OBVIOUS
  <2>1. n \in 1..n
    BY <1>1, <1>3
  <2> QED
    BY <1>2, <1>3, <2>1 DEF FinalOf
<1> QED
  BY <1>3, <1>4

LEMMA SetFacts ==
    /\ IsFiniteSet(Cars) /\ Cardinality(Cars) \in Nat
    /\ \A k \in Colours : /\ IsFiniteSet(Waiting(k)) /\ Cardinality(Waiting(k)) \in Nat
                          /\ IsFiniteSet(Taking(k)) /\ Cardinality(Taking(k)) \in Nat
                          /\ IsFiniteSet(Unpassed(k)) /\ Cardinality(Unpassed(k)) \in Nat
                          /\ Cardinality(Waiting(k)) = 0 <=> Waiting(k) = {}
                          /\ Cardinality(Taking(k)) = 0 <=> Taking(k) = {}
                          /\ Cardinality(Unpassed(k)) = 0 <=> Unpassed(k) = {}
    /\ IsFiniteSet(Ended) /\ Cardinality(Ended) \in Nat
    /\ Cardinality(Ended) = Cardinality(Cars) => Ended = Cars
<1>1. IsFiniteSet(Cars)
  BY SemBridgeAssumption, FS_Union DEF Cars
<1>2. /\ Ended \subseteq Cars
      /\ \A k \in Colours : Waiting(k) \subseteq Cars /\ Taking(k) \subseteq Cars
          /\ Unpassed(k) \subseteq Cars
  BY ColourFacts DEF Ended, Waiting, Taking, Unpassed
<1>3. \A S \in SUBSET Cars : IsFiniteSet(S) /\ Cardinality(S) \in Nat
        /\ (Cardinality(S) = 0 <=> S = {})
  BY <1>1, FS_Subset, FS_CardinalityType, FS_EmptySet
<1>4. Cardinality(Ended) = Cardinality(Cars) => Ended = Cars
  BY <1>1, <1>2, FS_Subset
<1> QED
  BY <1>1, <1>2, <1>3, <1>4

\* A car moves, and has to raise the semaphores of list.
Moves(c, q, list) ==
    /\ pc' = [pc EXCEPT ![c] = q]
    /\ todo' = [todo EXCEPT ![c] = list]

LEMMA MovesFacts ==
    ASSUME CarTypes, NEW c \in Cars, NEW q, NEW list, Moves(c, q, list)
    PROVE  /\ pc'[c] = q /\ todo'[c] = list
           /\ \A d \in Cars : d # c => pc'[d] = pc[d]
           /\ \A d \in Cars : d # c => todo'[d] = todo[d]
BY DEF Moves, CarTypes

LEMMA MovesTypes ==
    ASSUME CarTypes, NEW c \in Cars, NEW q \in Places, NEW list \in Seq(Semaphores),
           Moves(c, q, list),
           todo[c] = <<>>, ShapeOf(c, q, list), raising' = raising
    PROVE  CarTypes'
<1>1. pc' \in [Cars -> Places] /\ todo' \in [Cars -> Seq(Semaphores)]
        /\ raising' \in [Cars -> BOOLEAN]
  BY DEF Moves, CarTypes
<1>2. ASSUME NEW d \in Cars PROVE ShapeOf(d, pc'[d], todo'[d]) /\ (raising'[d] => todo'[d] # <<>>)
  <2>1. CASE d = c
    BY <2>1, MovesFacts DEF CarTypes
  <2>2. CASE d # c
    BY <2>2, MovesFacts DEF CarTypes
  <2> QED
    BY <2>1, <2>2
<1>3. (\A d \in Cars : ShapeOf(d, pc[d], todo[d]))' <=> \A d \in Cars : ShapeOf(d, pc'[d], todo'[d])
  BY DEF ShapeOf
<1> QED
  BY <1>1, <1>2, <1>3 DEF CarTypes

LEMMA MovesLowered ==
    ASSUME CarTypes, Lowered, NEW c \in Cars, NEW q, NEW list, Moves(c, q, list),
           todo[c] = <<>>, raising' = raising, sem' = sem
    PROVE  Lowered'
<1>1. \A d \in Cars : raising'[d] => d # c /\ raising[d]
  BY DEF CarTypes
<1> QED
  BY <1>1, MovesFacts DEF Lowered

\* Nobody is counted or created.
LEMMA MovesCounting ==
    ASSUME CarTypes, Counting, NEW c \in Cars, NEW q, NEW list, Moves(c, q, list),
           pc[c] # "none", q # "none", pc[c] \in PassedAt <=> q \in PassedAt,
           Creating => q \in HolderAt, UNCHANGED <<left, main, mainLoad>>
    PROVE  Counting' /\ UNCHANGED <<Unpassed("red"), Unpassed("blue")>>
<1>1. /\ \A d \in Cars : (pc'[d] = "none") <=> (pc[d] = "none")
      /\ \A d \in Cars : pc'[d] \in PassedAt <=> pc[d] \in PassedAt
      /\ \A d \in Cars : d # c => pc'[d] = pc[d]
      /\ pc'[c] = q
  BY MovesFacts
<1>2. ASSUME NEW k \in Colours PROVE Unpassed(k)' = Unpassed(k)
  <2>1. Team(k) \subseteq Cars
    BY ColourFacts
  <2> QED
    BY <1>1, <2>1 DEF Unpassed
<1>3. Uncreated' = Uncreated
  BY <1>1 DEF Uncreated
<1>4. NextColour' = NextColour /\ (Creating' <=> Creating)
  BY <1>3 DEF Creating, NextColour
<1>5. Creating' => \A d \in Cars : pc'[d] \in {"none", "arrive"} \cup HolderAt
  BY <1>1, <1>4 DEF Counting
<1>6. ~Creating' => \A d \in Cars : pc'[d] # "none"
  BY <1>1, <1>4 DEF Counting
<1>7. \A k \in Colours : left'[k] = Cardinality(Unpassed(k)')
  BY <1>2 DEF Counting
<1> QED
  BY <1>2, <1>4, <1>5, <1>6, <1>7 DEF Counting, Colours

LEMMA MovesEnding ==
    ASSUME CarTypes, Ending, NEW c \in Cars, NEW q, NEW list, Moves(c, q, list),
           pc[c] \notin {"last", "done"}, q \notin {"last", "done"}, UNCHANGED <<sem, main, stop>>
    PROVE  Ending'
<1>1. Ended' = Ended
  BY MovesFacts DEF Ended
<1>2. \A d \in Cars : pc'[d] = "done" /\ todo'[d] # <<>> => pc[d] = "done" /\ todo[d] # <<>>
  BY MovesFacts
<1> QED
  BY <1>1, <1>2 DEF Ending

\* A car with the token of its colour.
LEMMA HolderFacts ==
    ASSUME Good, Batches, NEW c \in Cars, pc[c] \in HolderAt
    PROVE  /\ sem[Colour(c)] = 0 /\ sem[Bridge(Colour(c))] = 0
           /\ \A d \in Cars : Token(d, Colour(c)) => c = d
           /\ \A d \in Cars : Colour(d) = Colour(c) => ~Crosses(d)
<1>1. Colour(c) \in Colours /\ Token(c, Colour(c)) /\ Open(Colour(c))
  BY ColourFacts DEF Token, Open
<1>2. Baton(Colour(c)) /\ Closed(Colour(c))
  BY <1>1 DEF Batches
<1>3. sem[Colour(c)] \in Nat /\ sem[Bridge(Colour(c))] \in Nat
  BY <1>1, ColourFacts DEF Good, Types
<1> QED
  BY <1>1, <1>2, <1>3 DEF Baton, Closed

\* What red_left and blue_left say.
LEMMA LeftFacts ==
    ASSUME Good
    PROVE  /\ \A k \in Colours : left[k] \in Nat
           /\ \A c \in Cars : pc[c] # "none" /\ pc[c] \notin PassedAt => left[Colour(c)] >= 1
           /\ \A k \in Colours : left[k] = 0 /\ ~Creating => AllPassed(k)
<1>1. \A k \in Colours : left[k] = Cardinality(Unpassed(k)) /\ left[k] \in Nat
        /\ (left[k] = 0 <=> Unpassed(k) = {})
  BY SetFacts DEF Good, Counting
<1>2. \A c \in Cars : pc[c] # "none" /\ pc[c] \notin PassedAt => Unpassed(Colour(c)) # {}
  BY ColourFacts DEF Unpassed
<1>3. \A k \in Colours : Unpassed(k) = {} /\ ~Creating => AllPassed(k)
  BY ColourFacts DEF Unpassed, AllPassed, Good, Counting
<1> QED
  BY <1>1, <1>2, <1>3, ColourFacts

\* The tokens after such a move.
LEMMA MovesTokens ==
    ASSUME CarTypes, NEW c \in Cars, NEW q, NEW list, Moves(c, q, list)
    PROVE  /\ \A d \in Cars : \A s : d # c => (Raises(d, s)' <=> Raises(d, s))
           /\ \A s : Raises(c, s)' <=> list # <<>> /\ FinalOf(list) = s
           /\ \A d \in Cars : \A k : d # c => (Token(d, k)' <=> Token(d, k))
           /\ \A k : Token(c, k)'
               <=> (Colour(c) = k /\ q \in HolderAt) \/ (list # <<>> /\ FinalOf(list) = k)
BY MovesFacts DEF Token, Raises

LEMMA MovesSame ==
    ASSUME CarTypes, NEW c \in Cars, NEW q, NEW list, Moves(c, q, list)
    PROVE  /\ \A d \in Cars : d # c => (Crosses(d)' <=> Crosses(d))
           /\ \A d \in Cars : d # c => (Within(d)' <=> Within(d))
           /\ \A d \in Cars : d # c => (Settles(d)' <=> Settles(d))
           /\ Crosses(c)' <=> q \in UnpassedAt \cup CountedAt
           /\ Within(c)' <=> q \in SlotsAt \cup TakenAt \cup {"on"} \cup UnpassedAt \cup CountedAt
           /\ Settles(c)' <=> q \in SettlingAt \cup {"hand"} \/ (q = "stop" /\ list # <<>>)
BY MovesFacts DEF Crosses, Within, Settles

LEMMA SetMoves ==
    ASSUME NEW S, NEW R, NEW c, IsFiniteSet(S), NEW P,
           R = IF P THEN S \cup {c} ELSE S \ {c}
    PROVE  /\ Cardinality(R) \in Nat
           /\ (c \in S <=> P) => Cardinality(R) = Cardinality(S)
           /\ c \notin S /\ P => Cardinality(R) = Cardinality(S) + 1
           /\ c \in S /\ ~P => Cardinality(R) = Cardinality(S) - 1
<1>1. CASE P
  BY <1>1, FS_AddElement, FS_CardinalityType
<1>2. CASE ~P
  BY <1>2, FS_RemoveElement, FS_CardinalityType
<1> QED
  BY <1>1, <1>2

\* The cars on the bridge after such a move.
LEMMA MovesSets ==
    ASSUME CarTypes, NEW c \in Cars, NEW q, NEW list, Moves(c, q, list), NEW k \in Colours
    PROVE  LET w == Cardinality(Waiting(k))
               t == Cardinality(Taking(k)) IN
           /\ w \in Nat /\ t \in Nat /\ w' \in Nat /\ t' \in Nat
           /\ Colour(c) # k \/ (pc[c] = "on" /\ q = "on") \/ (pc[c] # "on" /\ q # "on") => w' = w
           /\ Colour(c) = k /\ pc[c] # "on" /\ q = "on" => w' = w + 1
           /\ Colour(c) = k /\ pc[c] = "on" /\ q # "on" => w' = w - 1
           /\ \/ Colour(c) # k
              \/ pc[c] \in TakenAt \cup {"on"} <=> q \in TakenAt \cup {"on"}
              => t' = t
           /\ Colour(c) = k /\ pc[c] \notin TakenAt \cup {"on"} /\ q \in TakenAt \cup {"on"}
               => t' = t + 1
<1>1. /\ pc'[c] = q
      /\ \A d \in Cars : d # c => pc'[d] = pc[d]
      /\ Team(k) \subseteq Cars
      /\ c \in Team(k) <=> Colour(c) = k
  BY MovesFacts, ColourFacts
<1>2. Waiting(k)' = IF Colour(c) = k /\ q = "on" THEN Waiting(k) \cup {c} ELSE Waiting(k) \ {c}
  BY <1>1 DEF Waiting
<1>3. Taking(k)' = IF Colour(c) = k /\ q \in TakenAt \cup {"on"}
                THEN Taking(k) \cup {c} ELSE Taking(k) \ {c}
  BY <1>1 DEF Taking
<1>4. /\ c \in Waiting(k) <=> Colour(c) = k /\ pc[c] = "on"
      /\ c \in Taking(k) <=> Colour(c) = k /\ pc[c] \in TakenAt \cup {"on"}
  BY <1>1 DEF Waiting, Taking
<1>5. /\ IsFiniteSet(Waiting(k)) /\ IsFiniteSet(Taking(k))
      /\ Cardinality(Waiting(k)) \in Nat /\ Cardinality(Taking(k)) \in Nat
  BY SetFacts
<1>6. LET w == Cardinality(Waiting(k)) IN
      /\ w' \in Nat
      /\ (c \in Waiting(k) <=> (Colour(c) = k /\ q = "on")) => w' = w
      /\ c \notin Waiting(k) /\ Colour(c) = k /\ q = "on" => w' = w + 1
      /\ c \in Waiting(k) /\ ~(Colour(c) = k /\ q = "on") => w' = w - 1
  BY <1>2, <1>5, SetMoves
<1>7. LET t == Cardinality(Taking(k)) IN
      /\ t' \in Nat
      /\ (c \in Taking(k) <=> (Colour(c) = k /\ q \in TakenAt \cup {"on"})) => t' = t
      /\ c \notin Taking(k) /\ Colour(c) = k /\ q \in TakenAt \cup {"on"} => t' = t + 1
  BY <1>3, <1>5, SetMoves
<1> QED
  BY <1>4, <1>5, <1>6, <1>7

\* A car moves, raises nothing but its own token, and settles nothing.
Advances(c, q, list) ==
    LET k == Colour(c) IN
    /\ Moves(c, q, list) /\ todo[c] = <<>>
    /\ {pc[c], q} \cap (SettlingAt \cup {"hand"}) = {}
    /\ pc[c] # "on"
    /\ \/ list = <<>>
       \/ FinalOf(list) \notin Colours \cup {"general_sem"}
       \/ FinalOf(list) = k /\ pc[c] \in HolderAt
    /\ q \in HolderAt => pc[c] \in HolderAt
    /\ q = "on" => pc[c] \in TakenAt /\ list # <<>> /\ FinalOf(list) = k
    /\ q \in UnpassedAt =>
         \/ pc[c] \in UnpassedAt /\ list = <<>>
         \/ /\ pc[c] \in TakenAt /\ Len(list) \in 0..Cardinality(Waiting(k))
            /\ list # <<>> => FinalOf(list) = Bridge(k)
    /\ q \in CountedAt => pc[c] \in UnpassedAt \cup CountedAt
    /\ pc[c] \in TakenAt => q \in UnpassedAt \cup {"on"}
    /\ \/ slots_left' = slots_left /\ (q \in TakenAt => pc[c] \in TakenAt)
       \/ slots_left' = slots_left + 1 /\ pc[c] \in SlotsAt /\ q \in TakenAt
    /\ q \in SlotsAt => \/ pc[c] \in SlotsAt
                        \/ turn = TurnOf(k) /\ \A d \in Cars : ~Settles(d)
    /\ pc[c] \in PassedAt => q \in PassedAt
    /\ q = "stop" => list = <<>>

LEMMA AdvancesBatches ==
    ASSUME Types, Batches, NEW c \in Cars, NEW q, NEW list, Advances(c, q, list),
           UNCHANGED <<sem, turn, step2>>
    PROVE  Batches'
<1> DEFINE k == Colour(c)
<1>1. k \in Colours /\ CarTypes /\ Moves(c, q, list) /\ todo[c] = <<>>
  BY ColourFacts DEF Advances, Types
<1>2. /\ pc'[c] = q /\ todo'[c] = list
      /\ \A d \in Cars : d # c => pc'[d] = pc[d]
      /\ \A d \in Cars : d # c => todo'[d] = todo[d]
  BY <1>1, MovesFacts
\* No token is added.
<1>3. \A d \in Cars, j \in Colours : Token(d, j)' => Token(d, j)
  <2>1. \A j \in Colours : Token(c, j)' => Token(c, j)
    BY <1>1, MovesTokens DEF Advances, Token
  <2> QED
    BY <1>1, <2>1, MovesTokens
<1>4. \A j \in Colours : Open(j)' => Open(j)
  BY <1>3 DEF Open, Colours
<1>5. \A j \in Colours : sem[j] \in Nat /\ sem[Bridge(j)] \in Nat
  BY ColourFacts DEF Types
\* A car gets on the bridge, or starts the batch, with the token; it then does not keep it.
<1>6. ASSUME pc[c] \in TakenAt
      PROVE  /\ Open(k) /\ sem[Bridge(k)] = 0
             /\ \A d \in Cars : Colour(d) = k => ~Crosses(d)
             /\ q # "on" => ~Open(k)'
  <2>1. Token(c, k)
    BY <1>6 DEF Token, HolderAt
  <2>2. Baton(k) /\ Closed(k) /\ Open(k)
    BY <1>1, <2>1 DEF Batches, Open
  <2>3. sem[k] = 0 /\ sem[Bridge(k)] = 0
    BY <1>1, <1>5, <2>1, <2>2 DEF Baton, Closed
  <2>4. \A d \in Cars : d # c => ~Token(d, k)
    BY <2>1, <2>2 DEF Baton
  <2>5. q # "on" => ~Token(c, k)'
    <3> SUFFICES ASSUME q # "on" PROVE ~Token(c, k)'
      OBVIOUS
    <3>1. q \in UnpassedAt /\ q \notin HolderAt /\ (list # <<>> => FinalOf(list) = Bridge(k))
            /\ Bridge(k) # k
      BY <1>1, <1>6, ColourFacts DEF Advances, UnpassedAt, TakenAt, HolderAt, DecidingAt, GateAt,
        SlotsAt
    <3> QED
      BY <1>1, <3>1, MovesTokens
  <2>6. q # "on" => ~Open(k)'
    BY <1>1, <2>3, <2>4, <2>5, MovesTokens DEF Open
  <2> QED
    BY <2>2, <2>3, <2>6 DEF Closed
<1>7. /\ \A d \in Cars : d # c => (Crosses(d)' <=> Crosses(d))
      /\ Crosses(c)' => Crosses(c) \/ (pc[c] \in TakenAt /\ q # "on")
      /\ q = "on" => pc[c] \in TakenAt
  BY <1>1, MovesSame DEF Advances, Crosses, UnpassedAt, CountedAt
<1>8. \A d \in Cars : Within(d)'
        => Within(d) \/ (d = c /\ turn = TurnOf(k) /\ \A e \in Cars : ~Settles(e))
  <2>1. Within(c)' => Within(c) \/ (turn = TurnOf(k) /\ \A e \in Cars : ~Settles(e))
    BY <1>1, MovesSame DEF Advances, Within, Crosses
  <2> QED
    BY <1>1, <2>1, MovesSame
<1>9. \A j \in Colours : Quiet(j) => Quiet(j)'
  <2> SUFFICES ASSUME NEW j \in Colours, Quiet(j), NEW d \in Cars, Colour(d) = j
               PROVE  ~Crosses(d)' /\ pc'[d] # "on"
    BY <1>4 DEF Quiet
  <2>1. ~Open(j) /\ ~Crosses(d) /\ pc[d] # "on"
    BY DEF Quiet
  <2>2. d = c => pc[c] \notin TakenAt
    BY <1>6, <2>1
  <2> QED
    BY <1>2, <1>7, <2>1, <2>2
<1>10. \A j \in Colours : AllPassed(j) => AllPassed(j)'
  BY <1>2 DEF AllPassed, Advances
<1>11. ASSUME NEW j \in Colours PROVE Baton(j)' /\ Closed(j)' /\ Slotted(j)' /\ Turned(j)'
  <2>1. Baton(j) /\ Closed(j) /\ Slotted(j) /\ Turned(j)
    BY DEF Batches
  <2>2. Baton(j)'
    BY <1>3, <2>1 DEF Baton
  <2>3. Closed(j)'
    <3>1. sem[Bridge(j)] > 0 => ~Open(j)'
      BY <1>4, <2>1 DEF Closed
    <3>2. ASSUME NEW d \in Cars, Colour(d) = j, Crosses(d)' PROVE ~Open(j)'
      BY <1>4, <1>6, <1>7, <2>1, <3>2 DEF Closed
    <3> QED
      BY <3>1, <3>2 DEF Closed
  <2>4. Slotted(j)'
    <3> SUFFICES ASSUME turn = TurnOf(j), Open(j)'
                 PROVE  slots_left' <= Cardinality(Taking(j))'
      BY DEF Slotted
    <3>1. slots_left <= Cardinality(Taking(j)) /\ slots_left \in Nat
      BY <1>4, <2>1, SemBridgeAssumption DEF Slotted, Types
    <3>2. j = k => pc[c] \notin TakenAt \/ q = "on"
      BY <1>6
    <3>3. CASE slots_left' = slots_left
      <4>1. Cardinality(Taking(j))' >= Cardinality(Taking(j))
        BY <1>1, <3>2, <3>3, MovesSets DEF Advances
      <4> QED
        BY <3>1, <3>3, <4>1, <1>1, MovesSets
    <3>4. CASE slots_left' = slots_left + 1 /\ pc[c] \in SlotsAt /\ q \in TakenAt
      <4>1. j = k
        BY <1>1, <3>4, ColourFacts DEF Batches, OwnTurn, Within
      <4>2. pc[c] \notin TakenAt \cup {"on"}
        BY <3>4 DEF SlotsAt, TakenAt
      <4>3. Cardinality(Taking(j))' = Cardinality(Taking(j)) + 1
        BY <1>1, <3>4, <4>1, <4>2, MovesSets
      <4> QED
        BY <3>1, <3>4, <4>3, <1>1, MovesSets
    <3> QED
      BY <3>3, <3>4 DEF Advances
  <2>5. Turned(j)'
    <3>1. (\A d \in Cars : pc'[d] \notin SettlingAt) => \A d \in Cars : pc[d] \notin SettlingAt
      BY <1>2 DEF Advances
    <3> QED
      BY <1>9, <2>1, <3>1 DEF Turned
  <2> QED
    BY <2>2, <2>3, <2>4, <2>5
<1>12. ASSUME NEW j \in Colours PROVE Released(j)'
  <2>1. Released(j) /\ sem[Bridge(j)] \in Nat
    BY <1>5 DEF Batches
  <2>2. Cardinality(Waiting(j))' >= Cardinality(Waiting(j)) /\ Cardinality(Waiting(j)) \in Nat
          /\ Cardinality(Waiting(j))' \in Nat
    BY <1>1, MovesSets DEF Advances
  <2>3. \A d \in Cars : Colour(d) = j /\ pc'[d] \in UnpassedAt =>
          Len(todo'[d]) \in Nat /\ sem[Bridge(j)] + Len(todo'[d]) <= Cardinality(Waiting(j))
    <3>1. ASSUME NEW d \in Cars, d # c, Colour(d) = j, pc'[d] \in UnpassedAt
          PROVE  Len(todo'[d]) \in Nat /\ sem[Bridge(j)] + Len(todo'[d]) <= Cardinality(Waiting(j))
      <4>1. pc'[d] = pc[d] /\ todo'[d] = todo[d] /\ todo[d] \in Seq(Semaphores)
        BY <1>2, <3>1 DEF Types, CarTypes
      <4> QED
        BY <2>1, <3>1, <4>1 DEF Released
    <3>2. ASSUME Colour(c) = j, pc'[c] \in UnpassedAt
          PROVE  Len(todo'[c]) \in Nat /\ sem[Bridge(j)] + Len(todo'[c]) <= Cardinality(Waiting(j))
      <4>1. CASE pc[c] \in UnpassedAt /\ list = <<>>
        BY <1>2, <2>1, <2>2, <3>2, <4>1, ListFacts DEF Released
      <4>2. CASE pc[c] \in TakenAt /\ Len(list) \in Nat /\ Len(list) <= Cardinality(Waiting(k))
        BY <1>2, <1>6, <2>1, <3>2, <4>2
      <4> QED
        BY <1>2, <3>2, <4>1, <4>2 DEF Advances
    <3> QED
      BY <3>1, <3>2
  <2>4. \A d, e \in Cars : /\ Colour(d) = j /\ pc'[d] \in UnpassedAt /\ todo'[d] # <<>>
                          /\ Colour(e) = j /\ pc'[e] \in UnpassedAt /\ todo'[e] # <<>>
                          => d = e
    BY <1>2, <1>6, <2>1 DEF Released, Crosses, Advances
  <2>5. \A d \in Cars : Colour(d) = j /\ pc'[d] \in UnpassedAt =>
          sem[Bridge(j)] + Len(todo'[d]) <= Cardinality(Waiting(j))'
    BY <2>1, <2>2, <2>3
  <2>6. sem[Bridge(j)] <= Cardinality(Waiting(j))'
    BY <2>1, <2>2 DEF Released
  <2> QED
    BY <2>4, <2>5, <2>6 DEF Released
<1>13. OwnTurn'
  BY <1>8 DEF Batches, OwnTurn
<1>14. ASSUME NEW d \in Cars PROVE Settled(d)'
  <2>1. Settled(d) /\ Colour(d) \in Colours /\ Other(Colour(d)) \in Colours
    BY ColourFacts DEF Batches
  <2>2. /\ pc'[d] \in SettlingAt => pc[d] \in SettlingAt
        /\ pc'[d] \in {"toss", "keep"} => pc[d] \in {"toss", "keep"}
        /\ pc'[d] = "hand" => pc[d] = "hand"
    BY <1>2 DEF Advances, SettlingAt
  <2>3. Settles(d) => \A e \in Cars : Within(e)' => Within(e)
    BY <1>8
  <2>4. pc[d] \in SettlingAt \cup {"hand"} => Settles(d)
    BY DEF Settles
  <2>5. (\A e \in Cars : ~Within(e)) => slots_left' = slots_left
    BY DEF Advances, Within
  <2>6. pc[d] \in {"toss", "keep"} => \A e \in Cars : ~Within(e)
    BY <2>1 DEF Settled, SettlingAt
  <2> QED
    BY <1>9, <1>10, <2>1, <2>2, <2>3, <2>4, <2>5, <2>6 DEF Settled
<1>15. General'
  <2>1. General
    BY DEF Batches
  <2>2. \A d \in Cars : Raises(d, "general_sem")' => Raises(d, "general_sem")
    <3>1. ~Raises(c, "general_sem")'
      BY <1>1, ColourFacts, MovesTokens DEF Advances
    <3> QED
      BY <1>1, <3>1, MovesTokens
  <2>3. \A d \in Cars : pc[d] = "hand" => pc'[d] = "hand"
    BY <1>2 DEF Advances
  <2>4. \A d \in Cars : AllPassed(Colour(d)) => AllPassed(Colour(d))'
    BY <1>10, ColourFacts
  <2> QED
    BY <2>1, <2>2, <2>3, <2>4 DEF General
<1> QED
  BY <1>11, <1>12, <1>13, <1>14, <1>15 DEF Batches
LEMMA MovesStarted ==
    ASSUME CarTypes, Started, NEW c \in Cars, NEW q, NEW list, Moves(c, q, list),
           {pc[c], q} \cap (Early \cup DecidingAt) = {}, q = "ceded" => list = <<>>,
           turn' \in {0, 1}, step' = step
    PROVE  Started'
<1>1. /\ pc'[c] = q /\ todo'[c] = list
      /\ \A d \in Cars : d # c => pc'[d] = pc[d]
      /\ \A d \in Cars : d # c => todo'[d] = todo[d]
  BY MovesFacts
<1>2. \A d \in Cars : pc[d] \notin DecidingAt /\ pc'[d] \notin DecidingAt
  BY <1>1 DEF Started
<1>3. step' > 0
  BY DEF Started, DecidingAt
<1>4. \A d, e \in Cars : pc'[d] = "ceded" /\ todo'[d] # <<>> /\ pc'[e] = "ceded" /\ todo'[e] # <<>>
        => d = e
  BY <1>1 DEF Started
<1> QED
  BY <1>1, <1>2, <1>3, <1>4 DEF Started, DecidingAt

LEMMA AdvancesGood ==
    ASSUME Good, NEW c \in Cars, NEW q \in Places, NEW list \in Seq(Semaphores),
           Advances(c, q, list),
           ShapeOf(c, q, list),
           step' \in Nat, left' \in [Colours -> Int], stop' \in Int, slots_left' \in 0..slots,
           UNCHANGED <<raising, sem, turn, step2, main, mainLoad>>,
           Started', Counting', Ending'
    PROVE  Good'
<1>1. CarTypes /\ Moves(c, q, list) /\ todo[c] = <<>>
  BY DEF Good, Types, Advances
<1>2. Types'
  BY <1>1, MovesTypes DEF Good, Types
<1>3. OneSettles'
  <2>1. \A d, e \in Cars : Settles(d)' /\ Settles(e)' => d = e
    BY <1>1, MovesSame DEF Good, OneSettles, Advances
  <2>2. \A d \in Cars : pc'[d] = "stop" /\ Len(todo'[d]) > 1 => step2' = 1
    BY <1>1, MovesFacts, ListFacts DEF Good, OneSettles, Advances
  <2> QED
    BY <2>1, <2>2 DEF OneSettles
<1>4. Lowered'
  BY <1>1, MovesLowered DEF Good
<1>5. (Over \/ Batches)'
  <2>1. CASE Over
    BY <1>1, <2>1, MovesFacts DEF Over, Advances
  <2>2. CASE Batches
    BY <2>2, AdvancesBatches DEF Good
  <2> QED
    BY <2>1, <2>2 DEF Good
<1> QED
  BY <1>2, <1>3, <1>4, <1>5 DEF Good

LEMMA GoToMoves ==
    ASSUME Good, NEW c \in Cars, NEW p, At(c, p), NEW q, GoTo(c, q), todo' = todo
    PROVE  Moves(c, q, <<>>) /\ pc[c] = p /\ todo[c] = <<>> /\ CarTypes
BY DEF GoTo, At, Moves, Good, Types, CarTypes

\* A car goes on, and nothing that the invariant depends on changes.
LEMMA PlainStep ==
    ASSUME Good, NEW c \in Cars, NEW q \in Places, Advances(c, q, <<>>),
           {pc[c], q} \cap (Early \cup DecidingAt \cup {"last", "done"}) = {},
           pc[c] \in PassedAt <=> q \in PassedAt,
           pc[c] \in HolderAt => q \in HolderAt,
           UNCHANGED <<raising, sem, turn, step, step2, slots_left, left, stop, main, mainLoad>>
    PROVE  Good'
<1>1. CarTypes /\ Moves(c, q, <<>>) /\ todo[c] = <<>>
  BY DEF Good, Types, Advances
<1>2. Creating => q \in HolderAt
  BY DEF Good, Counting, Early
<1>3. Counting' /\ Ending'
  BY <1>1, <1>2, MovesCounting, MovesEnding DEF Good, Early
<1>4. Started'
  <2>1. turn \in {0, 1}
    BY DEF Good, Started, DecidingAt
  <2> QED
    BY <1>1, <2>1, MovesStarted DEF Good
<1>5. ShapeOf(c, q, <<>>)
  BY ListFacts DEF ShapeOf
<1> QED
  BY <1>3, <1>4, <1>5, ListFacts, AdvancesGood DEF Good, Types

\* The steps that do no more than that.
LEMMA GoingStep ==
    ASSUME Good, NEW c \in Cars,
           Gate(c) \/ Loop(c) \/ LoadLeft(c) \/ LoadCount(c) \/ StoreCount(c) \/ LoadStop(c),
           ~raced'
    PROVE  Good'
<1>1. PICK p, q :
        /\ At(c, p) /\ GoTo(c, q) /\ todo' = todo
        /\ UNCHANGED <<raising, sem, turn, step, step2, slots_left, left, stop, main, mainLoad>>
        /\ \/ p = "gate" /\ q \in {"loop", "gated"}
           \/ p = "loop" /\ q = "sent"
           \/ p = "loop" /\ q = "slots" /\ turn = TurnOf(Colour(c)) /\ \A d \in Cars : ~Settles(d)
           \/ p = "pass" /\ q = "passing"
           \/ p = "passAlone" /\ q = "passingAlone"
           \/ p = "count" /\ q = "counting"
           \/ p = "counting" /\ q = "settle"
           \/ p = "stop" /\ q = "stopping"
  <2>1. CASE Gate(c)
    BY <2>1 DEF Gate, own, turnVars, bridgeVars, ends
  <2>2. CASE Loop(c)
    BY <2>2 DEF Loop, MyTurn, Notes, Settles, SettlingAt, own, turnVars, bridgeVars, ends
  <2>3. CASE LoadLeft(c) \/ LoadCount(c) \/ StoreCount(c) \/ LoadStop(c)
    BY <2>3 DEF LoadLeft, LoadCount, StoreCount, LoadStop, own, turnVars, bridgeVars, ends
  <2> QED
    BY <2>1, <2>2, <2>3
<1>2. Moves(c, q, <<>>) /\ pc[c] = p /\ todo[c] = <<>>
  BY <1>1, GoToMoves
<1>3. /\ Advances(c, q, <<>>) /\ q \in Places
      /\ {pc[c], q} \cap (Early \cup DecidingAt \cup {"last", "done"}) = {}
      /\ pc[c] \in PassedAt <=> q \in PassedAt
      /\ pc[c] \in HolderAt => q \in HolderAt
  BY <1>1, <1>2 DEF Advances, Places, Early, DecidingAt, HolderAt, GateAt, SlotsAt, TakenAt,
    UnpassedAt, CountedAt, SettlingAt, GoneAt, PassedAt
<1> QED
  BY <1>1, <1>3, PlainStep


LEMMA FirstStep ==
    ASSUME Good, NEW c \in Cars, First(c), ~raced'
    PROVE  Good'
<1>1. /\ step = 0 => GoTo(c, "setStep")
      /\ step # 0 => GoTo(c, "gate")
      /\ At(c, "first") /\ \A d \in Cars : pc[d] \notin DecidingAt
  BY DEF First, Notes, Deciding, DecidingAt
<1>2. PICK q \in {"setStep", "gate"} : /\ Moves(c, q, <<>>) /\ pc[c] = "first" /\ todo[c] = <<>>
                                           /\ CarTypes
                                       /\ q = "setStep" <=> step = 0
  BY <1>1, GoToMoves DEF First, own
<1>3. UNCHANGED <<raising, sem, turn, step, step2, slots_left, left, stop, main, mainLoad>>
  BY DEF First, own, turnVars, bridgeVars, ends
<1>4. Started'
  <2>1. /\ pc'[c] = q /\ todo'[c] = <<>>
        /\ \A d \in Cars : d # c => pc'[d] = pc[d]
        /\ \A d \in Cars : d # c => todo'[d] = todo[d]
    BY <1>2, MovesFacts
  <2>2. q = "setStep" => \A d \in Cars : pc[d] \in Early
    BY <1>1, <1>2 DEF Good, Started, DecidingAt
  <2> QED
    BY <1>1, <1>2, <1>3, <2>1, <2>2 DEF Good, Types, Started, Early, DecidingAt
<1>5. Advances(c, q, <<>>) /\ ShapeOf(c, q, <<>>) /\ q \in Places
  BY <1>2, <1>3 DEF Advances, ShapeOf, Places, HolderAt, DecidingAt, GateAt, SettlingAt,
    UnpassedAt, CountedAt, TakenAt, SlotsAt, PassedAt, GoneAt
<1>6. Counting' /\ Ending'
  BY <1>2, <1>3, MovesCounting, MovesEnding DEF Good, PassedAt, CountedAt, SettlingAt, GoneAt,
    HolderAt, GateAt, DecidingAt
<1> QED
  BY <1>3, <1>4, <1>5, <1>6, ListFacts, AdvancesGood DEF Good, Types

LEMMA SetStepStep ==
    ASSUME Good, NEW c \in Cars, SetStep(c), ~raced'
    PROVE  Good'
<1>1. Moves(c, "decide", <<>>) /\ pc[c] = "setStep" /\ todo[c] = <<>> /\ CarTypes
        /\ step' = step + 1
  BY GoToMoves DEF SetStep, own
<1>2. UNCHANGED <<raising, sem, turn, step2, slots_left, left, stop, main, mainLoad>>
  BY DEF SetStep, own, bridgeVars, ends
<1>3. Started'
  <2>1. /\ pc'[c] = "decide" /\ todo'[c] = <<>>
        /\ \A d \in Cars : d # c => pc'[d] = pc[d]
        /\ \A d \in Cars : d # c => todo'[d] = todo[d]
    BY <1>1, MovesFacts
  <2>2. \A d \in Cars : d # c => pc[d] \in Early
    BY <1>1 DEF Good, Started, DecidingAt
  <2> QED
    BY <1>1, <1>2, <2>1, <2>2 DEF Good, Types, Started, Early, DecidingAt
<1>4. Advances(c, "decide", <<>>) /\ ShapeOf(c, "decide", <<>>) /\ "decide" \in Places
  BY <1>1, <1>2 DEF Advances, ShapeOf, Places, HolderAt, DecidingAt, GateAt, SettlingAt,
    UnpassedAt, CountedAt, TakenAt, SlotsAt, PassedAt, GoneAt
<1>5. Counting' /\ Ending'
  BY <1>1, <1>2, MovesCounting, MovesEnding DEF Good, PassedAt, CountedAt, SettlingAt, GoneAt,
    HolderAt, DecidingAt
<1>6. step' \in Nat
  BY <1>1 DEF Good, Types
<1> QED
  BY <1>2, <1>3, <1>4, <1>5, <1>6, ListFacts, AdvancesGood DEF Good, Types

LEMMA CompareStep ==
    ASSUME Good, NEW c \in Cars, Compare(c), ~raced'
    PROVE  Good'
<1>1. PICK q \in {"gate", "cede"} : Moves(c, q, <<>>) /\ pc[c] = "compare" /\ todo[c] = <<>>
        /\ CarTypes
  <2>1. PICK q \in {"gate", "cede"} : GoTo(c, q) /\ At(c, "compare")
    BY DEF Compare
  <2> QED
    BY <2>1, GoToMoves DEF Compare, own
<1>2. UNCHANGED <<raising, sem, turn, step, step2, slots_left, left, stop, main, mainLoad>>
  BY DEF Compare, own, turnVars, bridgeVars, ends
<1>3. Started'
  <2>1. /\ pc'[c] = q /\ todo'[c] = <<>>
        /\ \A d \in Cars : d # c => pc'[d] = pc[d]
        /\ \A d \in Cars : d # c => todo'[d] = todo[d]
    BY <1>1, MovesFacts
  <2>2. \A d \in Cars : d # c => pc[d] \in Early
    BY <1>1 DEF Good, Started, DecidingAt
  <2> QED
    BY <1>1, <1>2, <2>1, <2>2 DEF Good, Types, Started, Early, DecidingAt
<1>4. Advances(c, q, <<>>) /\ ShapeOf(c, q, <<>>) /\ q \in Places
  BY <1>1, <1>2 DEF Advances, ShapeOf, Places, HolderAt, DecidingAt, GateAt, SettlingAt,
    UnpassedAt, CountedAt, TakenAt, SlotsAt, PassedAt, GoneAt
<1>5. Counting' /\ Ending'
  BY <1>1, <1>2, MovesCounting, MovesEnding DEF Good, PassedAt, CountedAt, SettlingAt, GoneAt,
    HolderAt, GateAt, DecidingAt
<1> QED
  BY <1>1, <1>2, <1>3, <1>4, <1>5, ListFacts, AdvancesGood DEF Good, Types

\* The first turn changes while nobody has gone on.
LEMMA DecidingStep ==
    ASSUME Good, NEW c \in Cars, NEW q, NEW list, Moves(c, q, list), todo[c] = <<>>,
           \/ pc[c] = "decide" /\ q = "compare" /\ list = <<>>
           \/ pc[c] = "cede" /\ q = "ceded" /\ list = <<"wait_sem">>,
           turn' \in {0, 1},
           UNCHANGED <<raising, sem, step, step2, slots_left, left, stop, main, mainLoad>>
    PROVE  Good'
<1>1. /\ pc'[c] = q /\ todo'[c] = list /\ CarTypes
      /\ \A d \in Cars : d # c => pc'[d] = pc[d]
      /\ \A d \in Cars : d # c => todo'[d] = todo[d]
  BY MovesFacts DEF Good, Types
<1>2. /\ \A d \in Cars : d # c => pc[d] \in Early
      /\ step2 = 0 /\ slots_left = 0 /\ step > 0
  BY DEF Good, Started, Early, DecidingAt
<1>3. list \in Seq(Semaphores) /\ (list # <<>> => FinalOf(list) = "wait_sem")
  <2>1. "wait_sem" \in Semaphores
    BY DEF Semaphores
  <2>2. <<"wait_sem">> \in Seq(Semaphores) /\ FinalOf(<<"wait_sem">>) = "wait_sem"
    BY <2>1, ListFacts
  <2> QED
    BY <2>2, ListFacts
<1>4. Types'
  <2>1. ShapeOf(c, q, list) /\ q \in Places
    BY DEF ShapeOf, Places, HolderAt, DecidingAt, GateAt
  <2> QED
    BY <1>1, <1>3, <2>1, MovesTypes DEF Good, Types
<1>5. Started'
  BY <1>1, <1>2 DEF Good, Types, Started, Early, DecidingAt
<1>6. OneSettles'
  <2>1. \A d, e \in Cars : Settles(d)' /\ Settles(e)' => d = e
    BY <1>1, MovesSame DEF Good, OneSettles, SettlingAt
  <2>2. \A d \in Cars : pc'[d] = "stop" /\ Len(todo'[d]) > 1 => step2' = 1
    BY <1>1 DEF Good, OneSettles
  <2> QED
    BY <2>1, <2>2 DEF OneSettles
<1>7. Lowered'
  BY <1>1, MovesLowered DEF Good
<1>8. Counting' /\ Ending'
  BY <1>1, MovesCounting, MovesEnding DEF Good, PassedAt, CountedAt, SettlingAt, GoneAt, HolderAt,
    GateAt, DecidingAt
<1>9. Batches
  BY <1>1 DEF Good, Over, PassedAt, CountedAt, SettlingAt, GoneAt
<1>10. \A d \in Cars : pc'[d] \in Early \cup DecidingAt \cup {"ceded"}
  BY <1>1, <1>2 DEF DecidingAt
<1>11. \A d \in Cars : /\ pc[d] \notin SettlingAt /\ pc[d] # "hand"
                      /\ pc'[d] \notin SettlingAt /\ pc'[d] # "hand" /\ pc'[d] \notin UnpassedAt
                      /\ ~Crosses(d)' /\ ~Within(d)' 
  BY <1>1, <1>2, <1>10 DEF Crosses, Within, Early, DecidingAt, SettlingAt, UnpassedAt, CountedAt,
    SlotsAt, TakenAt
<1>12. \A d \in Cars, k \in Colours : Token(d, k)' <=> Token(d, k)
  <2>1. \A k \in Colours : Token(c, k)' <=> Token(c, k)
    BY <1>1, <1>3, ColourFacts, MovesTokens DEF Token, Raises, HolderAt, DecidingAt, GateAt
  <2> QED
    BY <1>1, <2>1, MovesTokens
<1>13. \A k \in Colours : Open(k)' <=> Open(k)
  BY <1>12 DEF Open, Colours
<1>14. ASSUME NEW k \in Colours
         PROVE Baton(k)' /\ Closed(k)' /\ Released(k)' /\ Slotted(k)' /\ Turned(k)'
  <2>1. Baton(k) /\ Closed(k) /\ Released(k)
    BY <1>9 DEF Batches
  <2>2. Cardinality(Waiting(k))' = Cardinality(Waiting(k)) /\ Cardinality(Taking(k))' \in Nat
    BY <1>1, MovesSets
  <2>3. Baton(k)'
    BY <1>12, <2>1 DEF Baton
  <2>4. Closed(k)'
    BY <1>11, <1>13, <2>1 DEF Closed
  <2>5. Released(k)'
    BY <1>11, <2>1, <2>2 DEF Released
  <2>6. Slotted(k)' /\ Turned(k)'
    BY <1>2, <2>2 DEF Slotted, Turned
  <2> QED
    BY <2>3, <2>4, <2>5, <2>6
<1>15. OwnTurn' /\ \A d \in Cars : Settled(d)'
  BY <1>11 DEF OwnTurn, Settled, SettlingAt
<1>16. General'
  <2>1. \A d \in Cars : ~Raises(d, "general_sem")'
    <3>1. \A d \in Cars : d # c => todo'[d] = <<>>
      BY <1>1, <1>2 DEF CarTypes, ShapeOf, Early
    <3> QED
      BY <1>1, <1>3, <3>1 DEF Raises
  <2>2. sem["general_sem"] = 0
    <3>1. sem["general_sem"] \in Nat
      BY ColourFacts DEF Good, Types
    <3> QED
      BY <1>2, <1>9, <1>11, <3>1 DEF Batches, General
  <2> QED
    BY <2>1, <2>2 DEF General
<1> QED
  BY <1>4, <1>5, <1>6, <1>7, <1>8, <1>14, <1>15, <1>16 DEF Good, Batches

LEMMA DecideStep ==
    ASSUME Good, NEW c \in Cars, Decide(c), ~raced'
    PROVE  Good'
<1>1. Moves(c, "compare", <<>>) /\ pc[c] = "decide" /\ todo[c] = <<>>
  BY GoToMoves DEF Decide, own
<1> QED
  BY <1>1, DecidingStep DEF Decide, own, bridgeVars, ends

LEMMA CedeStep ==
    ASSUME Good, NEW c \in Cars, Cede(c), ~raced'
    PROVE  Good'
<1>1. Moves(c, "ceded", <<"wait_sem">>) /\ pc[c] = "cede" /\ todo[c] = <<>>
  BY DEF Cede, GoRaising, GoTo, Moves, At
<1> QED
  BY <1>1, ColourFacts, DecidingStep DEF Cede, GoRaising, bridgeVars, ends

LEMMA TakeSlotStep ==
    ASSUME Good, NEW c \in Cars, TakeSlot(c), ~raced'
    PROVE  Good'
<1>1. CASE slots_left = slots
  <2>1. Moves(c, "full", <<>>) /\ pc[c] = "slots" /\ todo[c] = <<>>
    BY <1>1, GoToMoves DEF TakeSlot, own
  <2>2. UNCHANGED <<raising, sem, turn, step, step2, slots_left, left, stop, main, mainLoad>>
    BY <1>1 DEF TakeSlot, own, turnVars, ends
  <2>3. /\ Advances(c, "full", <<>>) /\ "full" \in Places
        /\ {pc[c], "full"} \cap (Early \cup DecidingAt \cup {"last", "done"}) = {}
        /\ pc[c] \in PassedAt <=> "full" \in PassedAt
        /\ pc[c] \in HolderAt => "full" \in HolderAt
    BY <2>1, <2>2 DEF Advances, Places, Early, DecidingAt, HolderAt, GateAt, SlotsAt, TakenAt,
      UnpassedAt, CountedAt, SettlingAt, GoneAt, PassedAt
  <2> QED
    BY <2>2, <2>3, PlainStep
<1>2. CASE slots_left # slots
  <2>1. PICK q \in {"alone", "among"} : Moves(c, q, <<>>) /\ pc[c] = "slots" /\ todo[c] = <<>>
          /\ CarTypes
    <3>1. PICK q \in {"alone", "among"} : GoTo(c, q) /\ At(c, "slots")
      BY <1>2 DEF TakeSlot
    <3> QED
      BY <3>1, GoToMoves DEF TakeSlot, own
  <2>2. /\ slots_left' = slots_left + 1
        /\ UNCHANGED <<raising, sem, turn, step, step2, left, stop, main, mainLoad>>
    BY <1>2 DEF TakeSlot, own, turnVars, ends
  <2>3. slots_left' \in 0..slots
    BY <1>2, <2>2, SemBridgeAssumption DEF Good, Types
  <2>4. Started'
    <3>1. turn \in {0, 1}
      BY <2>1 DEF Good, Started, Early, DecidingAt
    <3> QED
      BY <2>1, <2>2, <3>1, MovesStarted DEF Good, Early, DecidingAt
  <2>5. Counting' /\ Ending'
    BY <2>1, <2>2, MovesCounting, MovesEnding DEF Good, PassedAt, CountedAt, SettlingAt, GoneAt,
      HolderAt, TakenAt
  <2>6. Advances(c, q, <<>>) /\ ShapeOf(c, q, <<>>) /\ q \in Places
    BY <2>1, <2>2 DEF ShapeOf, Advances, Places, Early, DecidingAt, HolderAt, GateAt, SlotsAt,
      TakenAt, UnpassedAt, CountedAt, SettlingAt, GoneAt, PassedAt
  <2> QED
    BY <2>2, <2>3, <2>4, <2>5, <2>6, ListFacts, AdvancesGood DEF Good, Types
<1> QED
  BY <1>1, <1>2

\* A car gets on the bridge, with nobody left to be created.
LEMMA BridgeStep ==
    ASSUME Good, NEW c \in Cars, NEW q, NEW list \in Seq(Semaphores),
           Moves(c, q, list),
           todo[c] = <<>>, pc[c] \in TakenAt, ~Creating,
           \/ q = "on" /\ list = <<Colour(c)>>
           \/ /\ q \in {"pass", "passAlone"} /\ list \in Seq({Bridge(Colour(c))})
              /\ list # <<>> => FinalOf(list) = Bridge(Colour(c))
              /\ Batches => Len(list) \in 0..Cardinality(Waiting(Colour(c))),
           UNCHANGED <<raising, sem, turn, step, step2, slots_left, left, stop, main, mainLoad>>
    PROVE  Good'
<1>1. Batches /\ CarTypes /\ Colour(c) \in Colours /\ Colour(c) \in Semaphores
  BY ColourFacts DEF Good, Types, Over, TakenAt, PassedAt, CountedAt, SettlingAt, GoneAt
<1>2. q = "on" => list # <<>> /\ FinalOf(list) = Colour(c)
  BY <1>1, ListFacts
<1>3. Started'
  <2>1. turn \in {0, 1}
    BY DEF Good, Started, Early, DecidingAt, TakenAt
  <2> QED
    BY <1>1, <2>1, MovesStarted DEF Good, Early, DecidingAt, TakenAt
<1>4. Counting' /\ Ending'
  BY <1>1, MovesCounting, MovesEnding DEF Good, PassedAt, CountedAt, SettlingAt, GoneAt, TakenAt
<1>5. ShapeOf(c, q, list) /\ q \in Places
  BY DEF ShapeOf, Places, UnpassedAt
<1>6. Advances(c, q, list)
  BY <1>1, <1>2, ColourFacts DEF Advances, Places, Early, DecidingAt, HolderAt, GateAt, SlotsAt,
    TakenAt, UnpassedAt, CountedAt, SettlingAt, GoneAt, PassedAt
<1> QED
  BY <1>3, <1>4, <1>5, <1>6, AdvancesGood DEF Good, Types

LEMMA AloneStep ==
    ASSUME Good, NEW c \in Cars, Alone(c), ~raced'
    PROVE  Good'
<1> DEFINE k == Colour(c)
<1>1. k \in Semaphores /\ pc[c] = "alone" /\ todo[c] = <<>> /\ ~Creating
  BY ColourFacts DEF Alone, At, Notes
<1>2. PICK q, list : /\ Moves(c, q, list)
                     /\ (q = "on" /\ list = <<k>>) \/ (q = "passAlone" /\ list = <<>>)
  BY DEF Alone, GoRaising, GoTo, Moves
<1>3. <<>> \in Seq({Bridge(k)}) /\ list \in Seq(Semaphores)
  BY <1>1, <1>2, ListFacts
<1>4. Len(<<>>) \in 0..Cardinality(Waiting(k))
  BY <1>1, ColourFacts, SetFacts, ListFacts
<1> QED
  BY <1>1, <1>2, <1>3, <1>4, BridgeStep DEF Alone, GoRaising, turnVars, bridgeVars, ends, TakenAt

LEMMA AmongStep ==
    ASSUME Good, NEW c \in Cars, Among(c), ~raced'
    PROVE  Good'
<1> DEFINE k == Colour(c)
<1>1. k \in Colours /\ k \in Semaphores /\ pc[c] = "among" /\ todo[c] = <<>> /\ ~Creating
  BY ColourFacts DEF Among, At, Notes
<1>2. PICK q, list : /\ Moves(c, q, list)
                     /\ \/ q = "on" /\ list = <<k>>
                        \/ q \in {"pass", "passAlone"} /\ list = Releases(k) /\ Completes(k)
  BY DEF Among, GoRaising, GoTo, Moves
<1>3. ASSUME Completes(k)
      PROVE  /\ Releases(k) \in Seq({Bridge(k)}) /\ Releases(k) \in Seq(Semaphores)
             /\ Releases(k) # <<>> => FinalOf(Releases(k)) = Bridge(k)
             /\ Len(Releases(k)) = slots_left - 1 /\ slots_left - 1 \in Nat
  <2>1. left[k] \in Nat /\ left[k] >= 1
    BY <1>1, LeftFacts DEF PassedAt, CountedAt, SettlingAt, GoneAt
  <2>2. slots_left \in Nat /\ slots_left >= 1
    BY <1>3, <2>1, SemBridgeAssumption DEF Completes, Good, Types
  <2> QED
    BY <1>1, <2>2, ReleasesFacts
\* The cars to be released wait on the bridge: the slots are theirs and that of this car.
<1>4. ASSUME Batches, Completes(k) PROVE Len(Releases(k)) \in 0..Cardinality(Waiting(k))
  <2>1. Token(c, k) /\ Open(k) /\ turn = TurnOf(k) /\ Baton(k) /\ Slotted(k)
    BY <1>1, <1>4 DEF Token, Open, Batches, OwnTurn, Within, HolderAt, TakenAt
  <2>2. slots_left <= Cardinality(Taking(k))
    BY <2>1 DEF Slotted
  <2>3. \A d \in Cars : Colour(d) = k /\ pc[d] \in TakenAt => d = c
    BY <2>1 DEF Baton, Token, HolderAt
  <2>4. Taking(k) = Waiting(k) \cup {c} /\ c \notin Waiting(k)
    BY <1>1, <2>3, ColourFacts DEF Taking, Waiting, TakenAt
  <2>5. Cardinality(Taking(k)) = Cardinality(Waiting(k)) + 1 /\ Cardinality(Waiting(k)) \in Nat
    BY <1>1, <2>4, SetFacts, FS_AddElement
  <2> QED
    BY <1>3, <1>4, <2>2, <2>5 DEF Good, Types
<1>5. list \in Seq(Semaphores)
  BY <1>1, <1>2, <1>3, ListFacts
<1> QED
  BY <1>1, <1>2, <1>3, <1>4, <1>5, BridgeStep DEF Among, GoRaising, turnVars, bridgeVars, ends,
    TakenAt

LEMMA StoreLeftStep ==
    ASSUME Good, NEW c \in Cars, StoreLeft(c), ~raced'
    PROVE  Good'
<1> DEFINE k == Colour(c)
<1>1. PICK q \in {"count", "settle"} : GoTo(c, q) /\ pc[c] \in {"passing", "passingAlone"}
        /\ At(c, pc[c])
  BY DEF StoreLeft
<1>2. Moves(c, q, <<>>) /\ todo[c] = <<>> /\ CarTypes /\ k \in Colours
  BY <1>1, GoToMoves, ColourFacts DEF StoreLeft, own
<1>3. /\ UNCHANGED <<raising, sem, turn, step, step2, slots_left, stop, main, mainLoad>>
      /\ left' = [left EXCEPT ![k] = left[k] - 1]
  BY DEF StoreLeft, Notes, own, turnVars, ends
<1>4. /\ pc'[c] = q
      /\ \A d \in Cars : d # c => pc'[d] = pc[d]
  BY <1>2, MovesFacts
<1>5. ~Creating /\ ~Creating' /\ \A d \in Cars : pc[d] # "none" /\ pc'[d] # "none"
  BY <1>1, <1>3, <1>4 DEF Good, Counting, Creating, HolderAt, DecidingAt, GateAt, SlotsAt, TakenAt
<1>6. Unpassed(k)' = Unpassed(k) \ {c} /\ c \in Unpassed(k)
        /\ Unpassed(Other(k))' = Unpassed(Other(k))
  <2>1. Team(k) \subseteq Cars /\ Team(Other(k)) \subseteq Cars /\ c \in Team(k)
          /\ c \notin Team(Other(k))
    BY <1>2, ColourFacts
  <2>2. q \in PassedAt /\ pc[c] \notin PassedAt
    BY <1>1 DEF PassedAt, CountedAt, SettlingAt, GoneAt
  <2> QED
    BY <1>4, <1>5, <2>1, <2>2 DEF Unpassed
<1>7. Cardinality(Unpassed(k)') = left[k] - 1 /\ Cardinality(Unpassed(Other(k))') = left[Other(k)]
  <2>1. Cardinality(Unpassed(k) \ {c}) = Cardinality(Unpassed(k)) - 1
    BY <1>2, <1>6, SetFacts, FS_RemoveElement
  <2> QED
    BY <1>2, <1>6, <2>1, ColourFacts DEF Good, Counting
<1>8. left' \in [Colours -> Int] /\ \A j \in Colours : left'[j] = Cardinality(Unpassed(j)')
  <2>1. left \in [Colours -> Int] /\ left[k] \in Int
    BY <1>2 DEF Good, Types
  <2>2. left' \in [Colours -> Int] /\ left'[k] = left[k] - 1 /\ left'[Other(k)] = left[Other(k)]
    BY <1>2, <1>3, <2>1, ColourFacts
  <2> QED
    BY <1>2, <1>7, <2>2, ColourFacts
<1>9. Counting'
  BY <1>5, <1>8 DEF Counting, Creating
<1>10. Started' /\ Ending'
  <2>1. turn \in {0, 1}
    BY <1>1 DEF Good, Started, Early, DecidingAt
  <2> QED
    BY <1>1, <1>2, <1>3, <2>1, MovesStarted, MovesEnding DEF Good, Early, DecidingAt
<1>11. Advances(c, q, <<>>) /\ ShapeOf(c, q, <<>>) /\ q \in Places
  BY <1>1, <1>2, <1>3 DEF ShapeOf, Advances, Places, Early, DecidingAt, HolderAt, GateAt, SlotsAt,
    TakenAt, UnpassedAt, CountedAt, SettlingAt, GoneAt, PassedAt
<1> QED
  BY <1>3, <1>8, <1>9, <1>10, <1>11, ListFacts, AdvancesGood DEF Good, Types

LEMMA StoreStopStep ==
    ASSUME Good, NEW c \in Cars, StoreStop(c), ~raced'
    PROVE  Good'
<1>1. Moves(c, "last", <<>>) /\ pc[c] = "stopping" /\ todo[c] = <<>> /\ CarTypes
  BY GoToMoves DEF StoreStop, own
<1>2. /\ UNCHANGED <<raising, sem, turn, step, step2, slots_left, left, main, mainLoad>>
      /\ stop' = stop + 1
  BY DEF StoreStop, Notes, own, turnVars, bridgeVars
<1>3. Started' /\ Counting'
  <2>1. turn \in {0, 1} /\ ~Creating
    BY <1>1 DEF Good, Started, Counting, Early, DecidingAt, HolderAt, GateAt, SlotsAt, TakenAt
  <2> QED
    BY <1>1, <1>2, <2>1, MovesStarted, MovesCounting DEF Good, Early, DecidingAt, PassedAt, GoneAt
<1>4. Ending'
  <2>1. /\ pc'[c] = "last" /\ todo'[c] = <<>>
        /\ \A d \in Cars : d # c => pc'[d] = pc[d]
        /\ \A d \in Cars : d # c => todo'[d] = todo[d]
    BY <1>1, MovesFacts
  <2>2. Ended' = Ended \cup {c} /\ c \notin Ended
    BY <1>1, <2>1 DEF Ended
  <2>3. Cardinality(Ended') = Cardinality(Ended) + 1
    BY <2>2, SetFacts, FS_AddElement
  <2>4. \A d \in Cars : pc'[d] = "done" /\ todo'[d] # <<>> => pc[d] = "done" /\ todo[d] # <<>>
    BY <2>1
  <2> QED
    BY <1>2, <2>2, <2>3, <2>4 DEF Good, Ending
<1>5. Advances(c, "last", <<>>) /\ ShapeOf(c, "last", <<>>) /\ "last" \in Places
  BY <1>1, <1>2 DEF ShapeOf, Advances, Places, Early, DecidingAt, HolderAt, GateAt, SlotsAt,
    TakenAt, UnpassedAt, CountedAt, SettlingAt, GoneAt, PassedAt
<1>6. stop' \in Int
  BY <1>2 DEF Good, Types
<1> QED
  BY <1>2, <1>3, <1>4, <1>5, <1>6, ListFacts, AdvancesGood DEF Good, Types

LEMMA LastStep ==
    ASSUME Good, NEW c \in Cars, Last(c), ~raced'
    PROVE  Good'
<1>1. PICK list : /\ Moves(c, "done", list) /\ pc[c] = "last" /\ todo[c] = <<>> /\ CarTypes
                  /\ list = <<>> \/ (list = <<"main_sem">> /\ stop = Cardinality(Cars))
  BY DEF Last, GoRaising, GoTo, Moves, At, Good, Types
<1>2. UNCHANGED <<raising, sem, turn, step, step2, slots_left, left, stop, main, mainLoad>>
  BY DEF Last, GoRaising, turnVars, bridgeVars, ends
<1>3. list \in Seq(Semaphores) /\ (list # <<>> => FinalOf(list) = "main_sem")
  <2>1. "main_sem" \in Semaphores
    BY DEF Semaphores
  <2> QED
    BY <1>1, <2>1, ListFacts
<1>4. Started' /\ Counting'
  <2>1. turn \in {0, 1} /\ ~Creating
    BY <1>1 DEF Good, Started, Counting, Early, DecidingAt, HolderAt, GateAt, SlotsAt, TakenAt
  <2> QED
    BY <1>1, <1>2, <2>1, MovesStarted, MovesCounting DEF Good, Early, DecidingAt, PassedAt, GoneAt
<1>5. Ending'
  <2>1. /\ pc'[c] = "done" /\ todo'[c] = list
        /\ \A d \in Cars : d # c => pc'[d] = pc[d]
        /\ \A d \in Cars : d # c => todo'[d] = todo[d]
    BY <1>1, MovesFacts
  <2>2. Ended' = Ended
    BY <1>1, <2>1 DEF Ended
  <2>3. (\E d \in Cars : pc'[d] = "done" /\ todo'[d] # <<>>) => Ended = Cars
    BY <1>1, <2>1, SetFacts DEF Good, Ending
  <2> QED
    BY <1>2, <2>2, <2>3 DEF Good, Ending
<1>6. Advances(c, "done", list) /\ ShapeOf(c, "done", list) /\ "done" \in Places
  BY <1>1, <1>2, <1>3, ColourFacts DEF ShapeOf, Advances, Places, Early, DecidingAt, HolderAt,
    GateAt, SlotsAt, TakenAt, UnpassedAt, CountedAt, SettlingAt, GoneAt, PassedAt
<1> QED
  BY <1>2, <1>3, <1>4, <1>5, <1>6, AdvancesGood DEF Good, Types

\* A step of the settlement: c gives the token of a colour, or gives none.
SettlesTo(c, q, list) ==
    /\ Moves(c, q, list) /\ todo[c] = <<>> /\ list \in Seq(Semaphores)
    /\ pc[c] \in {"settle", "hand"} \cup SettlingAt
    /\ q \in {"hand", "stop"} \cup SettlingAt

LEMMA SettlesGood ==
    ASSUME Good, NEW c \in Cars, NEW q, NEW list, SettlesTo(c, q, list), ShapeOf(c, q, list),
           \A d \in Cars : d # c => ~Settles(d),
           turn' \in {0, 1}, step2' \in {0, 1}, slots_left' \in 0..slots,
           UNCHANGED <<raising, sem, step, left, stop, main, mainLoad>>,
           q = "stop" /\ Len(list) > 1 => step2' = 1,
           Batches /\ ~Over => Batches'
    PROVE  Good'
<1>1. CarTypes /\ Moves(c, q, list) /\ todo[c] = <<>> /\ list \in Seq(Semaphores)
  BY DEF Good, Types, SettlesTo
<1>2. /\ {pc[c], q} \cap (Early \cup DecidingAt \cup {"last", "done", "none", "ceded"}) = {}
      /\ pc[c] \in PassedAt /\ q \in PassedAt /\ q \in Places /\ pc[c] \notin HolderAt
  BY DEF SettlesTo, Places, Early, DecidingAt, HolderAt, GateAt, SlotsAt, TakenAt, UnpassedAt,
    CountedAt, SettlingAt, GoneAt, PassedAt
<1>3. Types'
  BY <1>1, <1>2, MovesTypes DEF Good, Types
<1>4. Started'
  BY <1>1, <1>2, MovesStarted DEF Good
<1>5. OneSettles'
  <2>1. \A d, e \in Cars : Settles(d)' /\ Settles(e)' => d = e
    BY <1>1, MovesSame
  <2>2. ASSUME NEW d \in Cars, d # c PROVE ~(pc'[d] = "stop" /\ Len(todo'[d]) > 1)
    BY <1>1, <2>2, MovesFacts, ListFacts DEF Settles
  <2> QED
    BY <1>1, <2>1, <2>2, MovesFacts DEF OneSettles
<1>6. Lowered'
  BY <1>1, MovesLowered DEF Good
<1>7. Counting' /\ Ending'
  <2>1. ~Creating
    BY <1>2 DEF Good, Counting, Early
  <2> QED
    BY <1>1, <1>2, <2>1, MovesCounting, MovesEnding DEF Good
<1>8. Over => Over'
  BY <1>1, <1>2, MovesFacts DEF Over
<1> QED
  BY <1>3, <1>4, <1>5, <1>6, <1>7, <1>8 DEF Good

\* The list ends with the token of colour k.
Gives(list, k) == list # <<>> /\ FinalOf(list) = k

LEMMA SettlesTokens ==
    ASSUME Types, Batches, NEW c \in Cars, NEW q, NEW list, SettlesTo(c, q, list), UNCHANGED sem,
           \A k \in Colours : Gives(list, k) => Quiet(k)
    PROVE  /\ \A d \in Cars : (d # c => pc'[d] = pc[d]) /\ pc'[c] = q
           /\ \A d \in Cars : Crosses(d)' => Crosses(d) /\ d # c
           /\ \A d \in Cars : Within(d)' => Within(d) /\ d # c
           /\ \A k \in Colours : Cardinality(Taking(k))' = Cardinality(Taking(k))
               /\ Cardinality(Taking(k)) \in Nat
           /\ \A k \in Colours : Baton(k)' /\ Closed(k)' /\ Released(k)'
           /\ \A k \in Colours : Open(k)' => Open(k) \/ Gives(list, k)
           /\ \A k \in Colours : Quiet(k) /\ ~Gives(list, k) => Quiet(k)'
           /\ \A k \in Colours : AllPassed(k) => AllPassed(k)'
<1>1. CarTypes /\ Moves(c, q, list) /\ todo[c] = <<>>
  BY DEF Types, SettlesTo
<1>2. /\ pc'[c] = q /\ todo'[c] = list
      /\ \A d \in Cars : d # c => pc'[d] = pc[d]
      /\ \A d \in Cars : d # c => todo'[d] = todo[d]
  BY <1>1, MovesFacts
<1>3. /\ q \in PassedAt /\ {pc[c], q} \cap (HolderAt \cup UnpassedAt \cup TakenAt \cup {"on"}) = {}
      /\ q \notin CountedAt \cup SlotsAt
  BY DEF SettlesTo, Places, Early, DecidingAt, HolderAt, GateAt, SlotsAt, TakenAt, UnpassedAt,
    CountedAt, SettlingAt, GoneAt, PassedAt
<1>4. \A d \in Cars, k \in Colours : Token(d, k)' => Token(d, k) \/ (d = c /\ Gives(list, k))
  <2>1. \A k \in Colours : Token(c, k)' => Gives(list, k)
    BY <1>1, <1>3, MovesTokens DEF Gives
  <2> QED
    BY <1>1, <2>1, MovesTokens
<1>5. \A k \in Colours : Open(k)' => Open(k) \/ Gives(list, k)
  BY <1>4 DEF Open, Colours
<1>6. /\ \A d \in Cars : Crosses(d)' => Crosses(d) /\ d # c
      /\ \A d \in Cars : Within(d)' => Within(d) /\ d # c
  BY <1>1, <1>3, MovesSame
<1>7. \A k \in Colours : Quiet(k) /\ ~Gives(list, k) => Quiet(k)'
  <2>1. \A d \in Cars : pc'[d] = "on" => pc[d] = "on"
    BY <1>2, <1>3
  <2> QED
    BY <1>5, <1>6, <2>1 DEF Quiet
<1>8. \A k \in Colours : /\ Cardinality(Taking(k))' = Cardinality(Taking(k))
                             /\ Cardinality(Taking(k)) \in Nat
                         /\ Cardinality(Waiting(k))' = Cardinality(Waiting(k))
  BY <1>1, <1>3, MovesSets
<1>9. ASSUME NEW k \in Colours PROVE Baton(k)' /\ Closed(k)' /\ Released(k)'
  <2>1. Baton(k) /\ Closed(k) /\ Released(k) /\ sem[k] \in Nat /\ sem[Bridge(k)] \in Nat
    BY ColourFacts DEF Batches, Types
  <2>2. Gives(list, k) => sem[Bridge(k)] = 0
    <3> SUFFICES ASSUME Gives(list, k) PROVE sem[Bridge(k)] = 0
      OBVIOUS
    <3>1. Waiting(k) = {}
      BY ColourFacts DEF Quiet, Waiting
    <3>2. Cardinality(Waiting(k)) = 0
      BY <3>1, SetFacts
    <3> QED
      BY <2>1, <3>2 DEF Released
  <2>3. Baton(k)'
    BY <1>4, <2>1 DEF Baton, Quiet, Open
  <2>4. Closed(k)'
    BY <1>5, <1>6, <2>1, <2>2 DEF Closed, Quiet
  <2>5. \A d \in Cars : pc'[d] \in UnpassedAt => d # c /\ pc'[d] = pc[d] /\ todo'[d] = todo[d]
    BY <1>2, <1>3
  <2>6. Released(k)'
    BY <1>8, <2>1, <2>5 DEF Released
  <2> QED
    BY <2>3, <2>4, <2>6
<1>10. \A k \in Colours : AllPassed(k) => AllPassed(k)'
  BY <1>2, <1>3 DEF AllPassed
<1> QED
  BY <1>2, <1>5, <1>6, <1>7, <1>8, <1>9, <1>10

\* A batch is settled when nobody else is on the bridge.
LEMMA SettleStep ==
    ASSUME Good, NEW c \in Cars, Settle(c), ~raced'
    PROVE  Good'
<1> DEFINE k == Colour(c)
           o == Other(k)
<1>1. /\ pc[c] = "settle" /\ todo[c] = <<>> /\ CarTypes /\ k \in Colours /\ o \in Colours
      /\ UNCHANGED <<raising, sem, turn, step, step2, slots_left, left, stop, main, mainLoad>>
  BY ColourFacts DEF Settle, At, Good, Types, own, turnVars, bridgeVars, ends
<1>2. CASE ~Emptied(k)
  <2>1. Moves(c, "stop", <<>>)
    BY <1>2, GoToMoves DEF Settle, own
  <2>2. /\ Advances(c, "stop", <<>>) /\ "stop" \in Places
        /\ {pc[c], "stop"} \cap (Early \cup DecidingAt \cup {"last", "done"}) = {}
        /\ pc[c] \in PassedAt <=> "stop" \in PassedAt
        /\ pc[c] \in HolderAt => "stop" \in HolderAt
    BY <1>1, <2>1 DEF Advances, Places, Early, DecidingAt, HolderAt, GateAt, SlotsAt, TakenAt,
      UnpassedAt, CountedAt, SettlingAt, GoneAt, PassedAt
  <2> QED
    BY <1>1, <2>2, PlainStep
<1>3. CASE Emptied(k)
  <2>1. Moves(c, "empty", <<>>)
    BY <1>3, GoToMoves DEF Settle, own
  <2>2. \A d \in Cars : d # c => pc[d] \notin Crossing /\ ~(pc[d] = "stop" /\ todo[d] # <<>>)
    BY <1>3 DEF Settle, Notes
  <2>3. \A d \in Cars : d # c => ~Settles(d) /\ ~Crosses(d) /\ pc[d] # "on"
    BY <2>2 DEF Crossing, Settles, Crosses, SettlingAt, UnpassedAt, CountedAt
  <2>4. SettlesTo(c, "empty", <<>>) /\ ShapeOf(c, "empty", <<>>)
    BY <1>1, <2>1, ListFacts DEF SettlesTo, ShapeOf, SettlingAt
  <2>5. ASSUME Batches, ~Over PROVE Batches'
    <3>1. /\ \A d \in Cars : (d # c => pc'[d] = pc[d]) /\ pc'[c] = "empty"
          /\ \A d \in Cars : Within(d)' => Within(d) /\ d # c
          /\ \A j \in Colours : Cardinality(Taking(j))' = Cardinality(Taking(j))
          /\ \A j \in Colours : Baton(j)' /\ Closed(j)' /\ Released(j)'
          /\ \A j \in Colours : Open(j)' => Open(j)
          /\ \A j \in Colours : Quiet(j) => Quiet(j)'
      BY <1>1, <2>4, <2>5, SettlesTokens DEF Gives, Good
    <3>2. ~Open(k) /\ turn = TurnOf(k)
      BY <1>1, <2>5 DEF Batches, Closed, OwnTurn, Crosses, Within, CountedAt
    <3>3. Quiet(k)'
      <4>1. \A d \in Cars : Colour(d) = k => ~Crosses(d)' /\ pc'[d] # "on"
        BY <1>1, <2>1, <2>3, <3>1, MovesSame DEF UnpassedAt, CountedAt
      <4> QED
        BY <1>1, <3>1, <3>2, <4>1 DEF Quiet
    <3>4. \A d \in Cars : ~Within(d)'
      <4> SUFFICES ASSUME NEW d \in Cars, d # c, Within(d) PROVE FALSE
        BY <3>1
      <4>1. pc[d] \in HolderAt
        BY <2>3 DEF Within, Crosses, HolderAt
      <4>2. Colour(d) = k
        BY <3>2, <2>5, ColourFacts DEF Batches, OwnTurn
      <4> QED
        BY <3>2, <4>1, <4>2 DEF Open, Token
    <3>5. step2 = 1 => Quiet(o)'
      <4>1. \A d \in Cars : pc[d] \notin SettlingAt
        BY <1>1, <2>3 DEF Settles, SettlingAt
      <4>2. Turned(o) /\ turn # TurnOf(o)
        BY <1>1, <2>5, <3>2, ColourFacts DEF Batches
      <4> QED
        BY <1>1, <3>1, <4>1, <4>2 DEF Turned
    <3>6. ASSUME NEW d \in Cars PROVE Settled(d)'
      <4>1. d # c => pc'[d] \notin SettlingAt \cup {"hand"}
        BY <2>3, <3>1 DEF Settles
      <4> QED
        BY <1>1, <3>1, <3>3, <3>4, <3>5, <4>1 DEF Settled, SettlingAt
    <3>7. \A j \in Colours : Slotted(j)' /\ Turned(j)'
      <4>1. \A j \in Colours : Slotted(j)
        BY <2>5 DEF Batches
      <4>2. pc'[c] \in SettlingAt
        BY <3>1 DEF SettlingAt
      <4> QED
        BY <1>1, <3>1, <4>1, <4>2 DEF Slotted, Turned
    <3>8. OwnTurn'
      BY <3>4 DEF OwnTurn
    <3>9. General'
      <4>1. ~(\E d \in Cars : pc[d] = "hand")
        BY <1>1, <2>3 DEF Settles
      <4>2. \A d \in Cars : Raises(d, "general_sem")' => Raises(d, "general_sem")
        BY <1>1, <2>1, MovesTokens
      <4> QED
        BY <1>1, <2>5, <4>1, <4>2 DEF Batches, General
    <3> QED
      BY <3>1, <3>6, <3>7, <3>8, <3>9 DEF Batches
  <2>6. turn \in {0, 1} /\ step2 \in {0, 1} /\ slots_left \in 0..slots
    BY <1>1 DEF Good, Types, Started, Early, DecidingAt
  <2> QED
    BY <1>1, <2>3, <2>4, <2>5, <2>6, SettlesGood
<1> QED
  BY <1>2, <1>3

\* slots_left and count are reset, and the next turn is tossed.
LEMMA EmptyTossStep ==
    ASSUME Good, NEW c \in Cars, Empty(c) \/ Toss(c), ~raced'
    PROVE  Good'
<1> DEFINE k == Colour(c)
           o == Other(k)
<1>1. PICK q \in {"toss", "keep"} :
         /\ Moves(c, q, <<>>) /\ todo[c] = <<>> /\ CarTypes /\ k \in Colours /\ o \in Colours
         /\ \/ q = "toss" /\ pc[c] = "empty" /\ turn' = turn /\ slots_left' = 0
            \/ q = "keep" /\ pc[c] = "toss" /\ turn' \in {0, 1} /\ slots_left' = slots_left
         /\ UNCHANGED <<raising, sem, step, step2, left, stop, main, mainLoad>>
  BY ColourFacts, GoToMoves DEF Empty, Toss, own, turnVars, bridgeVars, ends
<1>2. \A d \in Cars : d # c => ~Settles(d)
  BY <1>1 DEF Good, OneSettles, Settles, SettlingAt
<1>3. SettlesTo(c, q, <<>>) /\ ShapeOf(c, q, <<>>)
  BY <1>1, ListFacts DEF SettlesTo, ShapeOf, SettlingAt
<1>4. ASSUME Batches, ~Over PROVE Batches'
  <2>1. /\ \A d \in Cars : (d # c => pc'[d] = pc[d]) /\ pc'[c] = q
        /\ \A d \in Cars : Within(d)' => Within(d) /\ d # c
        /\ \A j \in Colours : Cardinality(Taking(j))' \in Nat
        /\ \A j \in Colours : Baton(j)' /\ Closed(j)' /\ Released(j)'
        /\ \A j \in Colours : Quiet(j) => Quiet(j)'
    BY <1>1, <1>3, <1>4, SettlesTokens DEF Gives, Good
  <2>2. /\ Quiet(k) /\ (step2 = 1 => Quiet(o)) /\ slots_left' = 0
        /\ \A d \in Cars : ~Within(d)
    BY <1>1, <1>4 DEF Batches, Settled, SettlingAt
  <2>3. ASSUME NEW d \in Cars PROVE Settled(d)'
    <3>1. d # c => pc'[d] \notin SettlingAt \cup {"hand"}
      BY <1>2, <2>1 DEF Settles
    <3> QED
      BY <1>1, <2>1, <2>2, <3>1 DEF Settled
  <2>4. \A j \in Colours : Slotted(j)' /\ Turned(j)'
    <3>1. pc'[c] \in SettlingAt
      BY <2>1 DEF SettlingAt
    <3> QED
      BY <2>1, <2>2, <3>1 DEF Slotted, Turned
  <2>5. OwnTurn'
    BY <2>1, <2>2 DEF OwnTurn
  <2>6. General'
    <3>1. ~(\E d \in Cars : pc[d] = "hand")
      BY <1>1, <1>2 DEF Settles
    <3>2. \A d \in Cars : Raises(d, "general_sem")' => Raises(d, "general_sem")
      BY <1>1, MovesTokens
    <3> QED
      BY <1>1, <1>4, <3>1, <3>2 DEF Batches, General
  <2> QED
    BY <2>1, <2>3, <2>4, <2>5, <2>6 DEF Batches
<1>5. turn' \in {0, 1} /\ step2' \in {0, 1} /\ slots_left' \in 0..slots
  BY <1>1, SemBridgeAssumption DEF Good, Types, Started, Early, DecidingAt
<1> QED
  BY <1>1, <1>2, <1>3, <1>4, <1>5, SettlesGood

\* The car that has tossed keeps the turn, or has nobody left to use it.
LEMMA KeepStep ==
    ASSUME Good, NEW c \in Cars, Keep(c), ~raced'
    PROVE  Good'
<1> DEFINE k == Colour(c)
           o == Other(k)
<1>1. /\ pc[c] = "keep" /\ todo[c] = <<>> /\ CarTypes /\ k \in Colours /\ o \in Colours /\ ~Creating
      /\ k \in Semaphores /\ "general_sem" \in Semaphores /\ k # "general_sem"
      /\ UNCHANGED <<raising, sem, step, step2, slots_left, left, stop, main, mainLoad>>
      /\ turn \in {0, 1}
  BY ColourFacts DEF Keep, GoRaising, Notes, At, Good, Types, bridgeVars, ends, Started, Early,
    DecidingAt
<1>2. PICK list : /\ Moves(c, "hand", list)
                  /\ \/ turn = TurnOf(o) /\ list = <<>> /\ turn' = turn
                     \/ turn = TurnOf(k) /\ left[k] = 0 /\ list = <<"general_sem">>
                         /\ turn' = TurnOf(o)
                     \/ turn = TurnOf(k) /\ list = <<k>> /\ turn' = turn
  BY <1>1, ColourFacts DEF Keep, GoRaising, GoTo, Moves, MyTurn
<1>3. /\ list \in Seq(Semaphores)
      /\ \A s : Gives(list, s) => \/ s = k /\ turn' = TurnOf(k)
                                  \/ s = "general_sem" /\ left[k] = 0 /\ turn' = TurnOf(o)
  <2>1. <<k>> \in Seq(Semaphores) /\ FinalOf(<<k>>) = k
    BY <1>1, ListFacts
  <2>2. <<"general_sem">> \in Seq(Semaphores) /\ FinalOf(<<"general_sem">>) = "general_sem"
    BY <1>1, ListFacts
  <2> QED
    BY <1>2, <2>1, <2>2, ListFacts DEF Gives
<1>4. \A d \in Cars : d # c => ~Settles(d)
  BY <1>1 DEF Good, OneSettles, Settles, SettlingAt
<1>5. SettlesTo(c, "hand", list) /\ ShapeOf(c, "hand", list)
  BY <1>1, <1>2, <1>3 DEF SettlesTo, ShapeOf, SettlingAt
<1>6. ASSUME Batches, ~Over PROVE Batches'
  <2>1. /\ Quiet(k) /\ (step2 = 1 => Quiet(o)) /\ slots_left = 0
        /\ \A d \in Cars : ~Within(d)
    BY <1>1, <1>6 DEF Batches, Settled, SettlingAt
  <2>2. \A j \in Colours : Gives(list, j) => j = k /\ Quiet(j)
    BY <1>3, <2>1, ColourFacts
  <2>3. /\ \A d \in Cars : (d # c => pc'[d] = pc[d]) /\ pc'[c] = "hand"
        /\ \A d \in Cars : Within(d)' => Within(d) /\ d # c
        /\ \A j \in Colours : Cardinality(Taking(j))' \in Nat
        /\ \A j \in Colours : Baton(j)' /\ Closed(j)' /\ Released(j)'
        /\ \A j \in Colours : Quiet(j) /\ ~Gives(list, j) => Quiet(j)'
        /\ \A j \in Colours : AllPassed(j) => AllPassed(j)'
    BY <1>1, <1>5, <1>6, <2>2, SettlesTokens DEF Good
  <2>4. /\ turn' = TurnOf(o) => Quiet(k)'
        /\ step2 = 1 => Quiet(o)'
    BY <1>1, <1>3, <2>1, <2>3, ColourFacts
  <2>5. ASSUME NEW d \in Cars PROVE Settled(d)'
    <3>1. d # c => pc'[d] \notin SettlingAt \cup {"hand"}
      BY <1>4, <2>3 DEF Settles
    <3> QED
      BY <1>1, <2>1, <2>3, <2>4, <3>1 DEF Settled, SettlingAt
  <2>6. ASSUME NEW j \in Colours PROVE Slotted(j)' /\ Turned(j)'
    <3>1. j = k \/ j = o
      BY <1>1, ColourFacts
    <3>2. turn' = TurnOf(k) \/ turn' = TurnOf(o)
      BY <1>2
    <3> QED
      BY <1>1, <2>1, <2>3, <2>4, <3>1, <3>2 DEF Slotted, Turned
  <2>7. OwnTurn'
    BY <2>1, <2>3 DEF OwnTurn
  <2>8. General'
    <3>1. ~(\E d \in Cars : pc[d] = "hand")
      BY <1>1, <1>4 DEF Settles
    <3>2. /\ \A d \in Cars : d # c => (Raises(d, "general_sem")' => Raises(d, "general_sem"))
          /\ Raises(c, "general_sem")' => Gives(list, "general_sem")
      BY <1>1, <1>2, MovesTokens DEF Gives
    <3>3. Gives(list, "general_sem") => AllPassed(k)' /\ turn' = TurnOf(o)
      BY <1>1, <1>3, <2>3, LeftFacts
    <3> QED
      BY <1>1, <1>6, <2>3, <3>1, <3>2, <3>3 DEF Batches, General
  <2> QED
    BY <2>3, <2>5, <2>6, <2>7, <2>8 DEF Batches
<1>7. turn' \in {0, 1} /\ step2' \in {0, 1} /\ slots_left' \in 0..slots
  BY <1>1, <1>2, ColourFacts DEF Good, Types
<1> QED
  BY <1>1, <1>4, <1>5, <1>6, <1>7, SettlesGood

\* And gives it to the other colour, if that one has cars left.
LEMMA HandStep ==
    ASSUME Good, NEW c \in Cars, Hand(c), ~raced'
    PROVE  Good'
<1> DEFINE k == Colour(c)
           o == Other(k)
<1>1. /\ pc[c] = "hand" /\ todo[c] = <<>> /\ CarTypes /\ k \in Colours /\ o \in Colours /\ ~Creating
      /\ k \in Semaphores /\ o \in Semaphores /\ "general_sem" \in Semaphores
      /\ k # "general_sem" /\ o # "general_sem" /\ k # o /\ Other(o) = k
      /\ UNCHANGED <<raising, sem, step, slots_left, left, stop, main, mainLoad>>
      /\ turn \in {0, 1} /\ step2 \in {0, 1}
  BY ColourFacts DEF Hand, GoRaising, Notes, At, Good, Types, bridgeVars, ends, Started, Early,
    DecidingAt
<1>2. PICK list :
         /\ Moves(c, "stop", list)
         /\ \/ turn = TurnOf(k) /\ list = <<>> /\ turn' = turn /\ step2' = step2
            \/ turn = TurnOf(o) /\ left[o] = 0 /\ list = <<k>> /\ turn' = TurnOf(k)
                /\ step2' = step2
            \/ turn = TurnOf(o) /\ step2 = 0 /\ list = <<"general_sem">> /\ turn' = turn
                /\ step2' = 1
            \/ turn = TurnOf(o) /\ step2 = 1 /\ list = <<"general_sem", o>> /\ turn' = turn
                /\ step2' = 1
  BY <1>1, ColourFacts DEF Hand, GoRaising, GoTo, Moves
<1>3. /\ list \in Seq(Semaphores)
      /\ \/ turn = TurnOf(k) /\ turn' = turn /\ step2' = step2 /\ \A s : ~Gives(list, s)
         \/ turn = TurnOf(o) /\ left[o] = 0 /\ turn' = TurnOf(k) /\ step2' = step2
             /\ \A s : Gives(list, s) => s = k
         \/ turn = TurnOf(o) /\ step2 = 0 /\ turn' = turn /\ step2' = 1 /\ \A s : Gives(list, s)
             => s = "general_sem"
         \/ turn = TurnOf(o) /\ step2 = 1 /\ turn' = turn /\ step2' = 1 /\ \A s : Gives(list, s)
             => s = o
  <2>1. <<k>> \in Seq(Semaphores) /\ FinalOf(<<k>>) = k
    BY <1>1, ListFacts
  <2>2. <<"general_sem">> \in Seq(Semaphores) /\ FinalOf(<<"general_sem">>) = "general_sem"
    BY <1>1, ListFacts
  <2>3. <<"general_sem", o>> \in Seq(Semaphores) /\ FinalOf(<<"general_sem", o>>) = o
    BY <1>1, ListFacts
  <2>4. list \in Seq(Semaphores)
    BY <1>2, <2>1, <2>2, <2>3, ListFacts
  <2> QED
    BY <1>2, <2>1, <2>2, <2>3, <2>4 DEF Gives
<1>4. \A d \in Cars : d # c => ~Settles(d)
  BY <1>1 DEF Good, OneSettles, Settles
<1>5. SettlesTo(c, "stop", list) /\ ShapeOf(c, "stop", list)
  BY <1>1, <1>2, <1>3 DEF SettlesTo, ShapeOf
<1>6. ASSUME Batches, ~Over PROVE Batches'
  <2>1. turn = TurnOf(o) =>
           /\ Quiet(k)
           /\ \/ slots_left = 0 /\ (step2 = 1 => Quiet(o)) /\ \A d \in Cars : ~Within(d)
              \/ step2 = 0 /\ AllPassed(k)
    BY <1>1, <1>6 DEF Batches, Settled
  <2>2. ASSUME turn = TurnOf(o), left[o] = 0
        PROVE  /\ ~AllPassed(k) /\ slots_left = 0 /\ (step2 = 1 => Quiet(o))
                   /\ \A d \in Cars : ~Within(d)
    <3>1. AllPassed(o)
      BY <1>1, <2>2, LeftFacts
    <3>2. ~AllPassed(k)
      BY <1>1, <1>6, <3>1, ColourFacts DEF Over, AllPassed
    <3> QED
      BY <2>1, <2>2, <3>2
  <2>3. /\ Gives(list, k) => Quiet(k) /\ turn = TurnOf(o) /\ left[o] = 0 /\ turn' = TurnOf(k)
        /\ Gives(list, o) => Quiet(o) /\ turn = TurnOf(o) /\ turn' = turn /\ slots_left = 0
        /\ Gives(list, "general_sem") => step2' = 1
    BY <1>1, <1>3, <2>1
  <2>4. \A j \in Colours : Gives(list, j) => Quiet(j)
    BY <1>1, <2>3, ColourFacts
  <2>5. /\ \A d \in Cars : (d # c => pc'[d] = pc[d]) /\ pc'[c] = "stop"
        /\ \A d \in Cars : Within(d)' => Within(d) /\ d # c
        /\ \A j \in Colours : Cardinality(Taking(j))' = Cardinality(Taking(j))
            /\ Cardinality(Taking(j)) \in Nat
        /\ \A j \in Colours : Baton(j)' /\ Closed(j)' /\ Released(j)'
        /\ \A j \in Colours : Open(j)' => Open(j) \/ Gives(list, j)
        /\ \A j \in Colours : Quiet(j) /\ ~Gives(list, j) => Quiet(j)'
    BY <1>1, <1>5, <1>6, <2>4, SettlesTokens DEF Good
  <2>6. \A d \in Cars : pc'[d] \notin SettlingAt \cup {"hand"}
          /\ (d # c => pc[d] \notin SettlingAt \cup {"hand"}) /\ pc[d] \notin SettlingAt
    BY <1>1, <1>4, <2>5 DEF Settles, SettlingAt
  <2>7. \A d \in Cars : Settled(d)'
    BY <2>6 DEF Settled, SettlingAt
  <2>8. ASSUME NEW j \in Colours PROVE Slotted(j)' /\ Turned(j)'
    <3>1. (j = k \/ j = o) /\ Slotted(j) /\ Turned(j) /\ TurnOf(k) # TurnOf(o)
      BY <1>1, <1>6, ColourFacts DEF Batches
    <3>2. ASSUME turn' = TurnOf(j), Open(j)' PROVE slots_left' <= Cardinality(Taking(j))'
      <4>1. CASE turn = TurnOf(j) /\ Open(j)
        BY <1>1, <2>5, <3>1, <4>1 DEF Slotted
      <4>2. CASE slots_left = 0
        BY <1>1, <2>5, <4>2
      <4> QED
        BY <1>3, <2>2, <2>3, <2>5, <3>1, <3>2, <4>1, <4>2
    <3>3. ASSUME step2' = 1, turn' # TurnOf(j) PROVE Quiet(j)'
      <4>1. CASE turn' = TurnOf(k)
        <5>1. step2 = 1 /\ j = o /\ ~Gives(list, o)
          BY <1>1, <1>3, <2>3, <3>1, <3>3, <4>1
        <5>2. Quiet(o)
          BY <1>3, <2>2, <2>6, <3>1, <4>1, <5>1 DEF Turned
        <5> QED
          BY <2>5, <5>1, <5>2, <1>1
      <4>2. CASE turn' = TurnOf(o)
        <5>1. j = k /\ turn = TurnOf(o) /\ ~Gives(list, k)
          BY <1>1, <1>3, <2>3, <3>1, <3>3, <4>2
        <5> QED
          BY <1>1, <2>1, <2>5, <5>1
      <4> QED
        BY <1>3, <4>1, <4>2
    <3> QED
      BY <3>2, <3>3 DEF Slotted, Turned
  <2>9. OwnTurn'
    BY <1>3, <2>2, <2>5, <1>6 DEF OwnTurn, Batches
  <2>10. General'
    <3> SUFFICES ASSUME step2' = 0
          PROVE ~(sem'["general_sem"] > 0) /\ \A d \in Cars : ~Raises(d, "general_sem")'
      BY <1>1 DEF General
    <3>1. step2 = 0 /\ ~Gives(list, "general_sem")
      BY <1>1, <1>3, <2>3
    <3>2. /\ \A d \in Cars : d # c => (Raises(d, "general_sem")' => Raises(d, "general_sem"))
          /\ Raises(c, "general_sem")' => Gives(list, "general_sem")
      BY <1>1, <1>2, MovesTokens DEF Gives
    <3>3. ~(turn = TurnOf(o) /\ AllPassed(k))
      BY <1>1, <1>3, <2>2, <3>1, ColourFacts
    <3>4. ~(sem["general_sem"] > 0 \/ \E d \in Cars : Raises(d, "general_sem"))
      BY <1>6, <2>6, <3>1, <3>3 DEF Batches, General
    <3>5. sem' = sem
      BY <1>1
    <3> QED
      BY <3>1, <3>2, <3>4, <3>5
  <2> QED
    BY <2>5, <2>7, <2>8, <2>9, <2>10 DEF Batches
<1>7. turn' \in {0, 1} /\ step2' \in {0, 1} /\ slots_left' \in 0..slots
  BY <1>1, <1>2, ColourFacts DEF Good, Types
<1>8. Len(list) > 1 => step2' = 1
  <2>1. Len(<<k>>) = 1
    BY <1>1, ListFacts
  <2> QED
    BY <1>2, <2>1, ListFacts
<1> QED
  BY <1>1, <1>4, <1>5, <1>6, <1>7, <1>8, SettlesGood

-----------------------------------------------------------------------------
(* mysem_up. *)

\* What a car raises where.
LEMMA RaiserFacts ==
    ASSUME CarTypes, NEW c \in Cars, todo[c] # <<>>
    PROVE  LET h == Head(todo[c])
               k == Colour(c) IN
           /\ todo[c] \in Seq(Semaphores) /\ h \in Semaphores
           /\ \/ pc[c] = "on" /\ h = k /\ Tail(todo[c]) = <<>>
              \/ pc[c] \in {"pass", "passAlone"} /\ h = Bridge(k) /\ FinalOf(todo[c]) = h
              \/ pc[c] \in {"hand", "stop"} /\ h \in Colours \cup {"general_sem"}
                  /\ Tail(todo[c]) = <<>>
              \/ pc[c] = "stop" /\ h = "general_sem" /\ Len(todo[c]) > 1
                  /\ FinalOf(todo[c]) = Other(k)
              \/ pc[c] = "ceded" /\ h = "wait_sem" /\ Tail(todo[c]) = <<>>
              \/ pc[c] = "done" /\ h = "main_sem" /\ Tail(todo[c]) = <<>>
           /\ ShapeOf(c, pc[c], Tail(todo[c]))
<1> DEFINE l == todo[c]
           k == Colour(c)
<1>1. /\ l \in Seq(Semaphores) /\ l # <<>> /\ ShapeOf(c, pc[c], l)
      /\ k \in Colours /\ Other(k) \in Colours /\ k \in Semaphores /\ Other(k) \in Semaphores
      /\ {"general_sem", "wait_sem", "main_sem"} \subseteq Semaphores
  BY ColourFacts DEF CarTypes
<1>2. Head(l) \in Semaphores
  BY <1>1, TailFacts
<1>3. CASE l \in Seq({Bridge(k)}) /\ pc[c] \in {"pass", "passAlone"}
  <2>1. Head(l) = Bridge(k) /\ Tail(l) \in Seq({Bridge(k)}) /\ Len(l) \in Nat \ {0}
    BY <1>1, <1>3, TailFacts
  <2>2. FinalOf(l) = Bridge(k)
    <3>1. l[Len(l)] \in {Bridge(k)}
      BY <1>3, <2>1
    <3> QED
      BY <3>1 DEF FinalOf
  <2>3. ShapeOf(c, pc[c], Tail(l))
    BY <1>3, <2>1 DEF ShapeOf
  <2> QED
    BY <1>1, <1>2, <1>3, <2>1, <2>2, <2>3
<1>4. CASE \E s \in Semaphores : l = <<s>>
  <2>1. PICK s \in Semaphores : l = <<s>>
    BY <1>4
  <2>2. Head(l) = s /\ Tail(l) = <<>> /\ FinalOf(l) = s /\ Len(l) = 1
    BY <2>1, ListFacts
  <2>3. \/ pc[c] = "on" /\ s = k
        \/ l \in Seq({Bridge(k)}) /\ pc[c] \in {"pass", "passAlone"}
        \/ pc[c] \in {"hand", "stop"} /\ s \in Colours \cup {"general_sem"}
        \/ pc[c] = "ceded" /\ s = "wait_sem"
        \/ pc[c] = "done" /\ s = "main_sem"
    <3>1. \A u \in Semaphores : l = <<u>> => u = s
      BY <2>2, ListFacts
    <3>2. \A u \in Semaphores : l # <<"general_sem", u>>
      <4>1. \A u \in Semaphores : Tail(<<"general_sem", u>>) = <<u>> /\ <<u>> # <<>>
        BY <1>1, ListFacts
      <4> QED
        BY <2>2, <4>1
    <3> QED
      BY <1>1, <3>1, <3>2 DEF ShapeOf
  <2>4. ShapeOf(c, pc[c], <<>>)
    BY ListFacts DEF ShapeOf
  <2> QED
    BY <1>1, <1>2, <1>3, <2>2, <2>3, <2>4
<1>5. CASE pc[c] = "stop" /\ l = <<"general_sem", Other(k)>>
  <2>1. Head(l) = "general_sem" /\ Tail(l) = <<Other(k)>> /\ FinalOf(l) = Other(k)
    BY <1>1, <1>5, ListFacts
  <2>2. Len(l) > 1
    <3>1. Len(Tail(l)) = Len(l) - 1 /\ Len(l) \in Nat
      BY <1>1, TailFacts
    <3>2. Len(<<Other(k)>>) = 1
      BY <1>1, ListFacts
    <3> QED
      BY <2>1, <3>1, <3>2
  <2>3. ShapeOf(c, pc[c], <<Other(k)>>)
    BY <1>5 DEF ShapeOf
  <2> QED
    BY <1>1, <1>2, <1>5, <2>1, <2>2, <2>3
<1> QED
  BY <1>1, <1>3, <1>4, <1>5 DEF ShapeOf

\* Two cars never raise the same semaphore, except main_sem.
LEMMA HeadsApart ==
    ASSUME Good, NEW c \in Cars, NEW d \in Cars, todo[c] # <<>>, todo[d] # <<>>,
           Head(todo[c]) = Head(todo[d]), Head(todo[c]) # "main_sem"
    PROVE  c = d
<1> DEFINE h == Head(todo[c])
<1>1. CarTypes /\ Colour(c) \in Colours /\ Colour(d) \in Colours
  BY ColourFacts DEF Good, Types
<1>2. CASE h = "wait_sem"
  BY <1>1, <1>2, RaiserFacts, ColourFacts DEF Good, Started
<1>3. CASE h = "general_sem"
  <2>1. pc[c] \in {"hand", "stop"} /\ pc[d] \in {"hand", "stop"}
    BY <1>1, <1>3, RaiserFacts, ColourFacts
  <2> QED
    BY <2>1 DEF Good, OneSettles, Settles
<1>4. CASE h \in Colours
  <2>1. /\ pc[c] \in {"on", "hand", "stop"} /\ Tail(todo[c]) = <<>>
        /\ pc[d] \in {"on", "hand", "stop"} /\ Tail(todo[d]) = <<>>
    BY <1>1, <1>4, RaiserFacts, ColourFacts
  <2>2. Raises(c, h) /\ Raises(d, h)
    BY <1>1, <2>1, TailFacts, RaiserFacts DEF Raises
  <2>3. CASE Batches
    BY <1>4, <2>2, <2>3 DEF Batches, Baton, Token
  <2>4. CASE Over
    <3>1. pc[c] \in {"hand", "stop"} /\ pc[d] \in {"hand", "stop"}
      BY <2>1, <2>4 DEF Over, PassedAt, CountedAt, SettlingAt, GoneAt
    <3> QED
      BY <3>1 DEF Good, OneSettles, Settles
  <2> QED
    BY <2>3, <2>4 DEF Good
<1>5. CASE \E k \in Colours : h = Bridge(k)
  <2>1. /\ pc[c] \in {"pass", "passAlone"} /\ h = Bridge(Colour(c))
        /\ pc[d] \in {"pass", "passAlone"} /\ h = Bridge(Colour(d))
    BY <1>1, <1>5, RaiserFacts, ColourFacts
  <2>2. Colour(c) = Colour(d)
    BY <1>1, <2>1, ColourFacts
  <2>3. Batches
    BY <2>1 DEF Good, Over, PassedAt, CountedAt, SettlingAt, GoneAt
  <2> QED
    BY <1>1, <2>1, <2>2, <2>3 DEF Batches, Released, UnpassedAt
<1> QED
  BY <1>1, <1>2, <1>3, <1>4, <1>5, RaiserFacts DEF Semaphores, Colours, Bridge

\* A car strikes a semaphore off its list.
Strikes(c) ==
    /\ todo[c] # <<>>
    /\ todo' = [todo EXCEPT ![c] = Tail(@)]
    /\ UNCHANGED <<pc, turn, step, step2, slots_left, left, stop, mainLoad>>

LEMMA StrikesFacts ==
    ASSUME CarTypes, NEW c \in Cars, Strikes(c)
    PROVE  /\ todo'[c] = Tail(todo[c]) /\ \A d \in Cars : d # c => todo'[d] = todo[d]
           /\ \A d \in Cars : \A s : Raises(d, s)' => Raises(d, s)
           /\ \A s : Raises(c, s)' <=> Raises(c, s) /\ Tail(todo[c]) # <<>>
           /\ \A d \in Cars : \A k : Token(d, k)' => Token(d, k)
           /\ \A d \in Cars : Settles(d)' => Settles(d)
           /\ \A d \in Cars : (Within(d)' <=> Within(d)) /\ (Crosses(d)' <=> Crosses(d))
           /\ Len(todo[c]) \in Nat /\ Len(todo'[c]) = Len(todo[c]) - 1
<1>1. todo'[c] = Tail(todo[c]) /\ \A d \in Cars : d # c => todo'[d] = todo[d]
  BY DEF Strikes, CarTypes
<1>2. /\ Tail(todo[c]) # <<>> => FinalOf(Tail(todo[c])) = FinalOf(todo[c])
      /\ Len(todo[c]) \in Nat /\ Len(Tail(todo[c])) = Len(todo[c]) - 1
  BY TailFacts DEF Strikes, CarTypes
<1>3. /\ \A s : Raises(c, s)' <=> Raises(c, s) /\ Tail(todo[c]) # <<>>
      /\ \A d \in Cars : \A s : d # c => (Raises(d, s)' <=> Raises(d, s))
  BY <1>1, <1>2 DEF Raises, Strikes
<1>4. \A d \in Cars : \A k : Token(d, k)' => Token(d, k)
  BY <1>3 DEF Token, Strikes
<1>5. \A d \in Cars : Settles(d)' => Settles(d)
  BY <1>1 DEF Settles, Strikes
<1>6. \A d \in Cars : (Within(d)' <=> Within(d)) /\ (Crosses(d)' <=> Crosses(d))
  BY DEF Within, Crosses, Strikes
<1> QED
  BY <1>1, <1>2, <1>3, <1>4, <1>5, <1>6

\* The semaphore goes up, or it is up already and is not one that releases a car.
Raised(c) ==
    LET h == Head(todo[c]) IN
    \/ sem' = [sem EXCEPT ![h] = @ + 1] /\ (h # "main_sem" => sem[h] = 0)
    \/ sem' = sem /\ h # Bridge(Colour(c))

LEMMA StrikesBatches ==
    ASSUME Good, Batches, NEW c \in Cars, Strikes(c), Raised(c)
    PROVE  Batches'
<1> DEFINE h == Head(todo[c])
<1>1. /\ CarTypes /\ Colour(c) \in Colours /\ todo[c] # <<>> /\ h \in Semaphores
      /\ UNCHANGED <<pc, turn, step2, slots_left>>
  BY ColourFacts, RaiserFacts DEF Good, Types, Strikes
<1>2. \A s \in Semaphores : sem'[s] = sem[s] \/ (s = h /\ sem'[s] = sem[s] + 1)
  BY <1>1 DEF Raised, Good, Types
<1>3. \A s \in Semaphores : sem[s] \in Nat
  BY DEF Good, Types
<1>4. ASSUME NEW k \in Colours, k = h PROVE Token(c, k) /\ ~Token(c, k)'
  <2>1. pc[c] \in {"on", "hand", "stop"} /\ Tail(todo[c]) = <<>>
    BY <1>1, <1>4, RaiserFacts, ColourFacts
  <2>2. FinalOf(todo[c]) = k
    BY <1>1, <1>4, <2>1, TailFacts, RaiserFacts
  <2>3. pc[c] \notin HolderAt
    BY <2>1 DEF HolderAt, DecidingAt, GateAt, SlotsAt, TakenAt
  <2> QED
    BY <1>1, <2>1, <2>2, <2>3, StrikesFacts DEF Token, Raises
<1>5. \A k \in Colours : Open(k)' => Open(k)
  <2> SUFFICES ASSUME NEW k \in Colours, Open(k)' PROVE Open(k)
    OBVIOUS
  <2>1. k \in Semaphores
    BY ColourFacts
  <2>2. CASE sem'[k] > 0
    BY <1>2, <1>4, <2>1, <2>2 DEF Open
  <2>3. CASE \E d \in Cars : Token(d, k)'
    BY <1>1, <2>3, StrikesFacts DEF Open
  <2> QED
    BY <2>2, <2>3 DEF Open
<1>6. \A k \in Colours : Quiet(k) => Quiet(k)'
  BY <1>1, <1>5, StrikesFacts DEF Quiet
<1>7. \A k \in Colours : /\ Waiting(k)' = Waiting(k) /\ Taking(k)' = Taking(k)
                         /\ AllPassed(k) => AllPassed(k)'
  BY <1>1 DEF Waiting, Taking, AllPassed
<1>8. ASSUME NEW k \in Colours PROVE Baton(k)' /\ Closed(k)' /\ Slotted(k)' /\ Turned(k)'
  <2>1. Baton(k) /\ Closed(k) /\ Slotted(k) /\ Turned(k) /\ k \in Semaphores
          /\ Bridge(k) \in Semaphores
    BY ColourFacts DEF Batches
  <2>2. \A d \in Cars : Token(d, k)' => Token(d, k)
    BY <1>1, StrikesFacts
  <2>3. Baton(k)'
    <3>1. ASSUME sem'[k] > 0, NEW d \in Cars PROVE ~Token(d, k)'
      <4>1. CASE sem'[k] = sem[k]
        BY <2>1, <2>2, <3>1, <4>1 DEF Baton
      <4>2. CASE k = h
        <5>1. Token(c, k) /\ ~Token(c, k)'
          BY <1>4, <4>2
        <5>2. d # c => ~Token(d, k)
          BY <2>1, <5>1 DEF Baton
        <5> QED
          BY <2>2, <5>1, <5>2
      <4> QED
        BY <1>2, <2>1, <4>1, <4>2
    <3>2. \A d, e \in Cars : Token(d, k)' /\ Token(e, k)' => d = e
      BY <2>1, <2>2 DEF Baton
    <3>3. Baton(k)' <=> /\ sem'[k] > 0 => \A d \in Cars : ~Token(d, k)'
                        /\ \A d, e \in Cars : Token(d, k)' /\ Token(e, k)' => d = e
      BY DEF Baton
    <3> QED
      BY <3>1, <3>2, <3>3
  <2>4. sem'[Bridge(k)] > 0 => ~Open(k)
    <3> SUFFICES ASSUME h = Bridge(k) PROVE ~Open(k)
      BY <1>2, <2>1 DEF Closed
    <3>1. pc[c] \in {"pass", "passAlone"} /\ Colour(c) = k
      BY <1>1, RaiserFacts, ColourFacts
    <3> QED
      BY <2>1, <3>1 DEF Closed, Crosses, UnpassedAt
  <2>5. Closed(k)'
    BY <1>1, <1>5, <2>1, <2>4, StrikesFacts DEF Closed
  <2>6. Slotted(k)' /\ Turned(k)'
    BY <1>1, <1>5, <1>6, <1>7, <2>1 DEF Slotted, Turned
  <2> QED
    BY <2>3, <2>5, <2>6
<1>9. ASSUME NEW k \in Colours PROVE Released(k)'
  <2>1. Released(k) /\ Bridge(k) \in Semaphores /\ sem[Bridge(k)] \in Nat
    BY <1>3, ColourFacts DEF Batches
  <2>2. \A d \in Cars : todo[d] \in Seq(Semaphores) /\ Len(todo[d]) \in Nat
    BY <1>1 DEF CarTypes
  <2>3. \A d \in Cars : d # c => todo'[d] = todo[d]
    BY <1>1, StrikesFacts
  <2>4. Len(todo'[c]) = Len(todo[c]) - 1
    BY <1>1, StrikesFacts
  <2>5. \A d \in Cars : todo'[d] # <<>> => todo[d] # <<>>
    BY <1>1, <2>3
  <2>6. CASE sem'[Bridge(k)] = sem[Bridge(k)]
    <3>1. \A d \in Cars : Len(todo'[d]) <= Len(todo[d]) /\ Len(todo'[d]) \in Int
      BY <2>2, <2>3, <2>4
    <3>2. \A d \in Cars : Colour(d) = k /\ pc[d] \in UnpassedAt =>
            sem[Bridge(k)] + Len(todo'[d]) <= Cardinality(Waiting(k))
      BY <2>1, <2>2, <3>1, SetFacts DEF Released
    <3> QED
      BY <1>1, <1>7, <2>1, <2>5, <2>6, <3>2 DEF Released
  <2>7. CASE h = Bridge(k) /\ sem'[Bridge(k)] = sem[Bridge(k)] + 1
    <3>1. pc[c] \in UnpassedAt /\ Colour(c) = k
      BY <1>1, <2>7, RaiserFacts, ColourFacts DEF UnpassedAt
    <3>2. sem[Bridge(k)] + Len(todo[c]) <= Cardinality(Waiting(k)) /\ Len(todo[c]) >= 1
            /\ Cardinality(Waiting(k)) \in Nat
      BY <1>1, <2>1, <2>2, <3>1, SetFacts, TailFacts, RaiserFacts DEF Released
    <3>3. \A d \in Cars : d # c /\ Colour(d) = k /\ pc[d] \in UnpassedAt => todo'[d] = <<>>
      BY <1>1, <2>1, <2>3, <3>1 DEF Released
    <3>4. \A d \in Cars : Colour(d) = k /\ pc[d] \in UnpassedAt =>
            sem'[Bridge(k)] + Len(todo'[d]) <= Cardinality(Waiting(k))
      BY <2>1, <2>2, <2>4, <2>7, <3>2, <3>3, ListFacts
    <3>5. sem'[Bridge(k)] <= Cardinality(Waiting(k))
      BY <2>1, <2>2, <2>7, <3>2
    <3> QED
      BY <1>1, <1>7, <2>1, <2>5, <3>4, <3>5 DEF Released
  <2> QED
    BY <1>2, <2>1, <2>6, <2>7
<1>10. OwnTurn'
  BY <1>1, StrikesFacts DEF Batches, OwnTurn
<1>11. ASSUME NEW d \in Cars PROVE Settled(d)'
  <2>1. Settled(d) /\ Colour(d) \in Colours /\ Other(Colour(d)) \in Colours
    BY ColourFacts DEF Batches
  <2>2. (\A e \in Cars : ~Within(e)) => \A e \in Cars : ~Within(e)'
    BY <1>1, StrikesFacts
  <2> QED
    BY <1>1, <1>6, <1>7, <2>1, <2>2 DEF Settled
<1>12. General'
  <2> SUFFICES ASSUME step2 = 0, sem'["general_sem"] > 0
        \/ \E d \in Cars : Raises(d, "general_sem")'
               PROVE  sem["general_sem"] > 0 \/ \E d \in Cars : Raises(d, "general_sem")
    <3>1. \A d \in Cars : AllPassed(Colour(d)) => AllPassed(Colour(d))'
      BY <1>7, ColourFacts
    <3> QED
      BY <1>1, <3>1 DEF Batches, General
  <2>1. CASE \E d \in Cars : Raises(d, "general_sem")'
    BY <1>1, <2>1, StrikesFacts
  <2>2. CASE sem'["general_sem"] > 0
    <3>1. "general_sem" \in Semaphores
      BY DEF Semaphores
    <3>2. sem["general_sem"] > 0 \/ h = "general_sem"
      BY <1>2, <2>2, <3>1
    <3>3. ASSUME h = "general_sem" PROVE Raises(c, "general_sem")
      <4>1. pc[c] = "stop" /\ Len(todo[c]) > 1 => FALSE
        BY DEF Good, OneSettles
      <4>2. Tail(todo[c]) = <<>>
        BY <1>1, <3>3, <4>1, RaiserFacts, ColourFacts
      <4> QED
        BY <1>1, <3>3, <4>2, TailFacts, RaiserFacts DEF Raises
    <3> QED
      BY <3>2, <3>3
  <2> QED
    BY <2>1, <2>2
<1> QED
  BY <1>8, <1>9, <1>10, <1>11, <1>12 DEF Batches

LEMMA StrikesGood ==
    ASSUME Good, NEW c \in Cars, Strikes(c), Raised(c),
           raising' \in [Cars -> BOOLEAN], ~raising'[c], \A d \in Cars : raising'[d] => raising[d],
           main' = main \/ (main = "return" /\ main' = "failed")
    PROVE  Good'
<1> DEFINE h == Head(todo[c])
<1>1. /\ CarTypes /\ todo[c] # <<>> /\ todo[c] \in Seq(Semaphores) /\ h \in Semaphores
          /\ ShapeOf(c, pc[c], Tail(todo[c]))
      /\ UNCHANGED <<pc, turn, step, step2, slots_left, left, stop, mainLoad>>
  BY RaiserFacts DEF Good, Types, Strikes
<1>2. \A s \in Semaphores : sem'[s] = sem[s]
        \/ (s = h /\ sem'[s] = sem[s] + 1 /\ (h # "main_sem" => sem[s] = 0))
  BY <1>1 DEF Raised, Good, Types
<1>3. /\ todo'[c] = Tail(todo[c])
      /\ \A d \in Cars : d # c => todo'[d] = todo[d]
  BY <1>1, StrikesFacts
<1>4. Types'
  <2>1. todo' \in [Cars -> Seq(Semaphores)]
    BY <1>1, TailFacts DEF Strikes, CarTypes
  <2>2. sem' \in [Semaphores -> Nat]
    BY <1>1 DEF Raised, Good, Types
  <2>3. ASSUME NEW d \in Cars PROVE ShapeOf(d, pc'[d], todo'[d]) /\ (raising'[d] => todo'[d] # <<>>)
    <3>1. CASE d = c
      BY <1>1, <1>3, <3>1
    <3>2. CASE d # c
      BY <1>1, <1>3, <3>2 DEF CarTypes
    <3> QED
      BY <3>1, <3>2
  <2>4. (\A d \in Cars : ShapeOf(d, pc[d], todo[d]))'
          <=> \A d \in Cars : ShapeOf(d, pc'[d], todo'[d])
    BY DEF ShapeOf
  <2>5. CarTypes'
    BY <1>1, <2>1, <2>3, <2>4 DEF CarTypes
  <2> QED
    BY <1>1, <2>2, <2>5 DEF Good, Types
<1>5. Started'
  <2>1. \A d \in Cars : todo'[d] # <<>> => todo[d] # <<>>
    BY <1>1, <1>3
  <2> QED
    BY <1>1, <2>1 DEF Good, Started
<1>6. OneSettles'
  <2>1. \A d \in Cars : Len(todo'[d]) > 1 => Len(todo[d]) > 1
    BY <1>1, <1>3, StrikesFacts
  <2> QED
    BY <1>1, <2>1, StrikesFacts DEF Good, OneSettles
<1>7. Lowered'
  <2>1. \A s \in Semaphores \ {"main_sem"} : sem'[s] <= 1
    BY <1>2 DEF Good, Lowered
  <2>2. ASSUME NEW d \in Cars, raising'[d], Head(todo'[d]) # "main_sem"
          PROVE sem'[Head(todo'[d])] = 0
    <3>1. d # c /\ raising[d] /\ todo'[d] = todo[d] /\ todo[d] # <<>>
      BY <1>1, <1>3, <2>2 DEF CarTypes
    <3>2. Head(todo[d]) # h
      BY <1>1, <2>2, <3>1, HeadsApart
    <3>3. Head(todo[d]) \in Semaphores /\ sem[Head(todo[d])] = 0
      BY <1>1, <2>2, <3>1, RaiserFacts DEF Good, Lowered
    <3> QED
      BY <1>2, <3>1, <3>2, <3>3
  <2> QED
    BY <2>1, <2>2 DEF Lowered
<1>8. Counting'
  <2>1. Uncreated' = Uncreated /\ (Creating' <=> Creating) /\ NextColour' = NextColour
    BY <1>1 DEF Uncreated, Creating, NextColour
  <2>2. \A k \in Colours : Unpassed(k)' = Unpassed(k)
    BY <1>1 DEF Unpassed
  <2> QED
    BY <1>1, <2>1, <2>2 DEF Good, Counting
<1>9. Ending'
  <2>1. Ended' = Ended
    BY <1>1 DEF Ended
  <2>2. \A d \in Cars : todo'[d] # <<>> => todo[d] # <<>>
    BY <1>1, <1>3
  <2>3. h = "main_sem" => pc[c] = "done"
    BY <1>1, RaiserFacts, ColourFacts
  <2>4. sem'["main_sem"] > 0 => sem["main_sem"] > 0 \/ h = "main_sem"
    BY <1>2 DEF Semaphores
  <2> QED
    BY <1>1, <2>1, <2>2, <2>3, <2>4 DEF Good, Ending
<1>10. (Over \/ Batches)'
  BY <1>1, StrikesBatches DEF Good, Over
<1> QED
  BY <1>4, <1>5, <1>6, <1>7, <1>8, <1>9, <1>10 DEF Good

LEMMA GetValStep ==
    ASSUME Good, NEW c \in Cars, GetVal(c), ~raced'
    PROVE  Good'
<1> DEFINE h == Head(todo[c])
<1>1. /\ CarTypes /\ todo[c] # <<>> /\ ~raising[c]
      /\ UNCHANGED <<pc, load, sem, turn, step, step2, slots_left, left, stop, main, mainLoad>>
  BY DEF GetVal, turnVars, bridgeVars, ends, Good, Types
<1>2. CASE sem[h] = 1 /\ main # "return"
  <2>1. Strikes(c) /\ Raised(c) /\ raising' = raising
    BY <1>1, <1>2 DEF GetVal, Strikes, Raised, Notes
  <2> QED
    BY <1>1, <2>1, StrikesGood DEF CarTypes
<1>3. CASE ~(sem[h] = 1 /\ main # "return")
  <2>1. raising' = [raising EXCEPT ![c] = TRUE] /\ todo' = todo
    BY <1>1, <1>3 DEF GetVal
  <2>2. h # "main_sem" => sem[h] = 0
    <3> SUFFICES ASSUME h # "main_sem" PROVE sem[h] = 0
      OBVIOUS
    <3>1. h \in Semaphores /\ sem[h] \in Nat /\ sem[h] <= 1
      BY <1>1, RaiserFacts DEF Good, Types, Lowered
    <3>2. CASE main = "return"
      <4>1. pc[c] \in {"last", "done"}
        BY <3>2 DEF Good, Ending, Ended
      <4> QED
        BY <1>1, <4>1, RaiserFacts
    <3> QED
      BY <1>3, <3>1, <3>2
  <2>3. Lowered'
    BY <1>1, <2>1, <2>2 DEF Good, Lowered, CarTypes
  <2>4. Types'
    BY <1>1, <2>1 DEF Good, Types, CarTypes, ShapeOf
  <2>5. Started' /\ OneSettles'
    BY <1>1, <2>1 DEF Good, Started, OneSettles, Settles
  <2>6. Counting' /\ Ending'
    BY <1>1, <2>1 DEF Good, Counting, Ending, Unpassed, Ended, NextColour, Uncreated, Creating
  <2>7. (Over \/ Batches)'
    <3>1. Over' <=> Over
      BY <1>1 DEF Over
    <3>2. Batches' <=> Batches
      BY <1>1, <2>1 DEF Batches, Baton, Closed, Released, Slotted, Turned, OwnTurn, Settled,
        General,
        AllPassed, Within, Crosses, Quiet, Open, Token, Raises, Waiting, Taking
    <3> QED
      BY <3>1, <3>2 DEF Good
  <2> QED
    BY <2>3, <2>4, <2>5, <2>6, <2>7 DEF Good
<1> QED
  BY <1>2, <1>3


LEMMA SemOpStep ==
    ASSUME Good, NEW c \in Cars, SemOp(c)
    PROVE  Good'
<1>1. CarTypes /\ raising[c] /\ raising' = [raising EXCEPT ![c] = FALSE] /\ Strikes(c)
  BY DEF SemOp, Strikes, turnVars, bridgeVars, Good, Types
<1>2. Raised(c)
  BY <1>1 DEF SemOp, Raised, Good, Lowered
<1> QED
  BY <1>1, <1>2, StrikesGood DEF SemOp, CarTypes

-----------------------------------------------------------------------------
(* mysem_down. *)

Downs(c, p, q, s) ==
    /\ Moves(c, q, <<>>) /\ pc[c] = p /\ todo[c] = <<>>
    /\ s \in Semaphores /\ sem[s] > 0 /\ sem' = [sem EXCEPT ![s] = @ - 1]
    /\ \/ p = "arrive" /\ q = "first" /\ s = Colour(c)
       \/ p = "ceded" /\ q = "gate" /\ s = "general_sem"
       \/ p = "gated" /\ q = "loop" /\ s = "general_sem"
       \/ p = "sent" /\ q = "slots" /\ s = "general_sem"
       \/ p = "full" /\ q = "loop" /\ s = "wait_sem"
       \/ p = "on" /\ q = "pass" /\ s = Bridge(Colour(c))
    /\ UNCHANGED <<raising, turn, step, step2, slots_left, left, stop, main, mainLoad>>

LEMMA DownDowns ==
    ASSUME Good, NEW c \in Cars, Down(c)
    PROVE  \E p, q, s : Downs(c, p, q, s)
<1> DEFINE p == pc[c]
           q == Onwards(p)
           s == Awaits(c)
<1>1. /\ p \in Waits /\ At(c, p) /\ sem[s] > 0 /\ sem' = [sem EXCEPT ![s] = @ - 1] /\ GoTo(c, q)
      /\ UNCHANGED <<own, turnVars, bridgeVars, ends>>
  BY DEF Down
<1>2. /\ Moves(c, q, <<>>) /\ todo[c] = <<>>
      /\ UNCHANGED <<raising, turn, step, step2, slots_left, left, stop, main, mainLoad>>
  BY <1>1, GoToMoves DEF own, turnVars, bridgeVars, ends
<1>3. /\ \/ p = "arrive" /\ q = "first" /\ s = Colour(c)
         \/ p = "ceded" /\ q = "gate" /\ s = "general_sem"
         \/ p = "gated" /\ q = "loop" /\ s = "general_sem"
         \/ p = "sent" /\ q = "slots" /\ s = "general_sem"
         \/ p = "full" /\ q = "loop" /\ s = "wait_sem"
         \/ p = "on" /\ q = "pass" /\ s = Bridge(Colour(c))
      /\ s \in Semaphores
  BY <1>1, ColourFacts DEF Waits, Onwards, Awaits
<1> QED
  BY <1>1, <1>2, <1>3 DEF Downs

\* A car that waits for general_sem gets it when it is the turn of its colour.
LEMMA SentFacts ==
    ASSUME Good, Batches, NEW c \in Cars, pc[c] \in {"ceded", "gated", "sent"},
           sem["general_sem"] > 0
    PROVE  /\ turn = TurnOf(Colour(c))
           /\ \A e \in Cars : pc[e] \notin SettlingAt
           /\ \A e \in Cars : pc[e] = "hand" /\ turn = TurnOf(Other(Colour(e))) =>
                step2 = 0 /\ AllPassed(Colour(e))
<1> DEFINE k == Colour(c)
<1>1. k \in Colours /\ Open(k) /\ ~Quiet(k) /\ Turned(k) /\ pc[c] \notin PassedAt
  BY ColourFacts DEF Open, Token, HolderAt, GateAt, Quiet, Batches, PassedAt, CountedAt,
    SettlingAt, GoneAt
<1>2. CASE step2 = 0
  <2>1. PICK d \in Cars : pc[d] = "hand" /\ turn = TurnOf(Other(Colour(d))) /\ AllPassed(Colour(d))
    BY <1>2 DEF Batches, General
  <2>2. Colour(d) # k /\ Colour(d) \in Colours
    BY <1>1, <2>1, ColourFacts DEF AllPassed
  <2>3. Other(Colour(d)) = k
    BY <1>1, <2>2, ColourFacts
  <2>4. \A e \in Cars : pc[e] \in SettlingAt \cup {"hand"} => e = d
    BY <2>1 DEF Good, OneSettles, Settles
  <2> QED
    BY <1>2, <2>1, <2>3, <2>4 DEF SettlingAt
<1>3. CASE step2 = 1
  <2>1. ASSUME NEW e \in Cars PROVE pc[e] \notin SettlingAt
    <3>1. Settled(e) /\ Colour(e) \in Colours
      BY ColourFacts DEF Batches
    <3>2. k = Colour(e) \/ k = Other(Colour(e))
      BY <1>1, <3>1, ColourFacts
    <3> QED
      BY <1>1, <1>3, <3>1, <3>2 DEF Settled
  <2>2. turn = TurnOf(k)
    BY <1>1, <1>3, <2>1 DEF Turned
  <2>3. ASSUME NEW e \in Cars, pc[e] = "hand", turn = TurnOf(Other(Colour(e))) PROVE FALSE
    <3>1. Settled(e) /\ Colour(e) \in Colours
      BY ColourFacts DEF Batches
    <3>2. k = Other(Colour(e))
      BY <1>1, <2>2, <2>3, <3>1, ColourFacts
    <3> QED
      BY <1>1, <1>3, <2>3, <3>1, <3>2 DEF Settled
  <2> QED
    BY <2>1, <2>2, <2>3
<1> QED
  BY <1>2, <1>3 DEF Good, Types

LEMMA DownsBatches ==
    ASSUME Good, Batches, NEW c \in Cars, NEW p, NEW q, NEW s, Downs(c, p, q, s)
    PROVE  Batches'
<1> DEFINE k == Colour(c)
<1>1. k \in Colours /\ CarTypes /\ Moves(c, q, <<>>) /\ todo[c] = <<>> /\ pc[c] = p
  BY ColourFacts DEF Downs, Good, Types
<1>2. /\ pc'[c] = q /\ todo'[c] = <<>>
      /\ \A d \in Cars : d # c => pc'[d] = pc[d]
      /\ \A d \in Cars : d # c => todo'[d] = todo[d]
  BY <1>1, MovesFacts
<1>3. /\ \A r \in Semaphores : sem[r] \in Nat /\ sem'[r] \in Nat /\ sem'[r] <= sem[r]
      /\ \A r \in Semaphores : r # s => sem'[r] = sem[r]
      /\ sem'[s] = sem[s] - 1 /\ sem[s] >= 1
  BY DEF Downs, Good, Types
<1>4. \A j \in Colours : j \in Semaphores /\ Bridge(j) \in Semaphores
  BY ColourFacts
<1>5. \A d \in Cars, j \in Colours : Token(d, j)'
        => Token(d, j) \/ (d = c /\ j = k /\ s = k /\ p = "arrive")
  <2>1. \A j \in Colours : Token(c, j)' => Token(c, j) \/ (j = k /\ s = k /\ p = "arrive")
    BY <1>1, MovesTokens DEF Downs, Token, HolderAt, DecidingAt, GateAt, SlotsAt, TakenAt
  <2> QED
    BY <1>1, <2>1, MovesTokens
<1>6. \A j \in Colours : Open(j)' => Open(j)
  <2> SUFFICES ASSUME NEW j \in Colours, Open(j)' PROVE Open(j)
    OBVIOUS
  <2>1. CASE sem'[j] > 0
    BY <1>3, <1>4, <2>1 DEF Open
  <2>2. CASE \E d \in Cars : Token(d, j)'
    BY <1>3, <1>4, <1>5, <2>2 DEF Open
  <2> QED
    BY <2>1, <2>2 DEF Open
<1>7. p = "on" => s = Bridge(k) /\ ~Open(k) /\ q = "pass"
  BY <1>1, <1>3 DEF Downs, Batches, Closed
<1>8. /\ \A d \in Cars : d # c => (Crosses(d)' <=> Crosses(d))
      /\ Crosses(c)' => p = "on"
      /\ q # "on"
  BY <1>1, MovesSame DEF Downs, UnpassedAt, CountedAt
<1>9. /\ \A d \in Cars : d # c => (Within(d)' <=> Within(d))
      /\ Within(c)' => Within(c) \/ p = "sent"
  BY <1>1, MovesSame DEF Downs, Within, UnpassedAt, CountedAt, SlotsAt, TakenAt
<1>10. \A j \in Colours : Quiet(j) => Quiet(j)'
  <2> SUFFICES ASSUME NEW j \in Colours, Quiet(j), NEW d \in Cars, Colour(d) = j
               PROVE  ~Crosses(d)' /\ pc'[d] # "on"
    BY <1>6 DEF Quiet
  <2> QED
    BY <1>1, <1>2, <1>8 DEF Quiet
<1>11. \A j \in Colours : AllPassed(j) => AllPassed(j)'
  BY <1>1, <1>2 DEF AllPassed, Downs, PassedAt, CountedAt, SettlingAt, GoneAt
<1>12. p = "sent" => /\ turn = TurnOf(k)
                     /\ \A e \in Cars : pc[e] \notin SettlingAt
                     /\ \A e \in Cars : pc[e] = "hand" /\ turn = TurnOf(Other(Colour(e))) =>
                          step2 = 0 /\ AllPassed(Colour(e))
  BY <1>1, SentFacts DEF Downs
<1>13. /\ \A d \in Cars : pc'[d] \in SettlingAt <=> pc[d] \in SettlingAt
       /\ \A d \in Cars : pc'[d] \in {"toss", "keep"} <=> pc[d] \in {"toss", "keep"}
       /\ \A d \in Cars : (pc'[d] = "hand") <=> (pc[d] = "hand")
  <2>1. {p, q} \cap (SettlingAt \cup {"hand"}) = {}
    BY DEF Downs, SettlingAt
  <2>2. {p, q} \cap {"toss", "keep"} = {}
    BY DEF Downs
  <2> QED
    BY <1>1, <1>2, <2>1, <2>2
<1>14. UNCHANGED <<turn, step2, slots_left>>
  BY DEF Downs
<1>15. ASSUME NEW j \in Colours PROVE Baton(j)'
  <2>1. Baton(j)
    BY DEF Batches
  <2>2. CASE p = "arrive" /\ j = k
    <3>1. sem[j] > 0 /\ sem[j] <= 1 /\ s = j
      BY <1>1, <1>3, <1>4, <2>2, ColourFacts DEF Downs, Good, Lowered
    <3>2. sem'[j] = 0 /\ \A d \in Cars : ~Token(d, j)
      BY <1>3, <1>4, <2>1, <3>1 DEF Baton
    <3> QED
      BY <1>5, <3>2 DEF Baton
  <2>3. CASE ~(p = "arrive" /\ j = k)
    <3>1. \A d \in Cars : Token(d, j)' => Token(d, j)
      BY <1>5, <2>3
    <3>2. sem'[j] > 0 => sem[j] > 0
      BY <1>3, <1>4
    <3> QED
      BY <2>1, <3>1, <3>2 DEF Baton
  <2> QED
    BY <2>2, <2>3
<1>16. ASSUME NEW j \in Colours PROVE Closed(j)'
  <2>1. Closed(j)
    BY DEF Batches
  <2>2. sem'[Bridge(j)] > 0 => ~Open(j)'
    BY <1>3, <1>4, <1>6, <2>1 DEF Closed
  <2>3. ASSUME NEW d \in Cars, Colour(d) = j, Crosses(d)' PROVE ~Open(j)'
    BY <1>6, <1>7, <1>8, <2>1, <2>3 DEF Closed
  <2> QED
    BY <2>2, <2>3 DEF Closed
<1>17. ASSUME NEW j \in Colours PROVE Released(j)'
  <2>1. Released(j) /\ sem[Bridge(j)] \in Nat /\ sem'[Bridge(j)] \in Nat
    BY <1>3, <1>4 DEF Batches
  <2>2. \A d \in Cars : todo[d] \in Seq(Semaphores) /\ Len(todo[d]) \in Nat
    BY <1>1 DEF CarTypes
  <2>3. CASE p = "on" /\ j = k
    <3>1. sem'[Bridge(j)] = sem[Bridge(j)] - 1
      BY <1>3, <1>7, <2>3
    <3>2. /\ Cardinality(Waiting(j))' = Cardinality(Waiting(j)) - 1
          /\ Cardinality(Waiting(j)) \in Nat /\ Cardinality(Waiting(j))' \in Nat
      BY <1>1, <1>8, <2>3, MovesSets
    <3>3. ASSUME NEW d \in Cars, Colour(d) = j, pc'[d] \in UnpassedAt
          PROVE  sem'[Bridge(j)] + Len(todo'[d]) <= Cardinality(Waiting(j))'
      <4>1. CASE d = c
        BY <1>2, <2>1, <3>1, <3>2, <4>1, ListFacts DEF Released
      <4>2. CASE d # c
        <5>1. pc[d] \in UnpassedAt /\ todo'[d] = todo[d]
          BY <1>2, <3>3, <4>2
        <5>2. sem[Bridge(j)] + Len(todo[d]) <= Cardinality(Waiting(j))
          BY <2>1, <3>3, <5>1 DEF Released
        <5> QED
          BY <2>1, <2>2, <3>1, <3>2, <5>1, <5>2
      <4> QED
        BY <4>1, <4>2
    <3>4. sem'[Bridge(j)] <= Cardinality(Waiting(j))'
      BY <2>1, <3>1, <3>2 DEF Released
    <3>5. \A d, e \in Cars : /\ Colour(d) = j /\ pc'[d] \in UnpassedAt /\ todo'[d] # <<>>
                            /\ Colour(e) = j /\ pc'[e] \in UnpassedAt /\ todo'[e] # <<>>
                            => d = e
      BY <1>2, <2>1 DEF Released
    <3> QED
      BY <3>3, <3>4, <3>5 DEF Released
  <2>4. CASE ~(p = "on" /\ j = k)
    <3>1. sem'[Bridge(j)] = sem[Bridge(j)]
      <4>1. s # Bridge(j)
        BY <1>1, <2>4, ColourFacts DEF Downs
      <4> QED
        BY <1>3, <1>4, <4>1
    <3>2. Cardinality(Waiting(j))' = Cardinality(Waiting(j))
      BY <1>1, <1>8, <2>4, MovesSets
    <3>3. \A d \in Cars : Colour(d) = j /\ pc'[d] \in UnpassedAt
            => pc[d] \in UnpassedAt /\ todo'[d] = todo[d]
      BY <1>1, <1>2, <2>4 DEF Downs, UnpassedAt
    <3> QED
      BY <2>1, <3>1, <3>2, <3>3 DEF Released
  <2> QED
    BY <2>3, <2>4
<1>18. ASSUME NEW j \in Colours PROVE Slotted(j)'
  <2>1. Slotted(j)
    BY DEF Batches
  <2>2. CASE p = "on" /\ j = k
    BY <1>6, <1>7, <2>2 DEF Slotted
  <2>3. CASE ~(p = "on" /\ j = k)
    <3>1. Cardinality(Taking(j))' = Cardinality(Taking(j))
      <4>1. p # "on" => (pc[c] \in TakenAt \cup {"on"} <=> q \in TakenAt \cup {"on"})
        BY <1>1 DEF Downs, TakenAt
      <4> QED
        BY <1>1, <2>3, <4>1, MovesSets
    <3> QED
      BY <1>6, <1>14, <2>1, <3>1 DEF Slotted
  <2> QED
    BY <2>2, <2>3
<1>19. ASSUME NEW j \in Colours PROVE Turned(j)'
  BY <1>10, <1>13, <1>14 DEF Batches, Turned
<1>20. OwnTurn'
  BY <1>9, <1>12, <1>14 DEF Batches, OwnTurn
<1>21. ASSUME NEW d \in Cars PROVE Settled(d)'
  <2>1. Settled(d) /\ Colour(d) \in Colours /\ Other(Colour(d)) \in Colours
    BY ColourFacts DEF Batches
  <2>2. CASE p # "sent"
    <3>1. (\A e \in Cars : ~Within(e)) => \A e \in Cars : ~Within(e)'
      BY <1>9, <2>2
    <3> QED
      BY <1>10, <1>11, <1>13, <1>14, <2>1, <3>1 DEF Settled
  <2>3. CASE p = "sent"
    BY <1>10, <1>11, <1>12, <1>13, <1>14, <2>1, <2>3 DEF Settled, SettlingAt
  <2> QED
    BY <2>2, <2>3
<1>22. General'
  <2>1. General
    BY DEF Batches
  <2>2. \A d \in Cars : Raises(d, "general_sem")' => Raises(d, "general_sem")
    BY <1>1, MovesTokens
  <2>3. sem'["general_sem"] > 0 => sem["general_sem"] > 0
    <3>1. "general_sem" \in Semaphores
      BY ColourFacts
    <3> QED
      BY <1>3, <3>1
  <2>4. \A d \in Cars : AllPassed(Colour(d)) => AllPassed(Colour(d))'
    BY <1>11, ColourFacts
  <2> QED
    BY <1>13, <1>14, <2>1, <2>2, <2>3, <2>4 DEF General
<1> QED
  BY <1>15, <1>16, <1>17, <1>18, <1>19, <1>20, <1>21, <1>22 DEF Batches

LEMMA DownStep ==
    ASSUME Good, NEW c \in Cars, Down(c)
    PROVE  Good'
<1>1. PICK p, q, s : Downs(c, p, q, s)
  BY DownDowns
<1>2. /\ CarTypes /\ Moves(c, q, <<>>) /\ todo[c] = <<>> /\ pc[c] = p /\ Colour(c) \in Colours
      /\ UNCHANGED <<raising, turn, step, step2, slots_left, left, stop, main, mainLoad>>
  BY <1>1, ColourFacts DEF Downs, Good, Types
<1>3. /\ pc'[c] = q /\ todo'[c] = <<>>
      /\ \A d \in Cars : d # c => pc'[d] = pc[d]
      /\ \A d \in Cars : d # c => todo'[d] = todo[d]
  BY <1>2, MovesFacts
<1>4. /\ \A r \in Semaphores : sem[r] \in Nat /\ sem'[r] \in Nat /\ sem'[r] <= sem[r]
      /\ \A r \in Semaphores : r # s => sem'[r] = sem[r]
      /\ s \in Semaphores /\ sem[s] >= 1
  BY <1>1 DEF Downs, Good, Types
<1>5. Types'
  <2>1. ShapeOf(c, q, <<>>) /\ q \in Places
    BY <1>1, ListFacts DEF Downs, ShapeOf, Places, HolderAt, GateAt, SlotsAt, UnpassedAt
  <2>2. sem' \in [Semaphores -> Nat]
    BY <1>1 DEF Downs, Good, Types
  <2> QED
    BY <1>2, <2>1, <2>2, ListFacts, MovesTypes DEF Good, Types
<1>6. Started'
  <2>1. CASE p = "arrive"
    <3>1. q = "first"
      BY <1>1, <2>1 DEF Downs
    <3> QED
      BY <1>2, <1>3, <2>1, <3>1 DEF Good, Started, Early, DecidingAt
  <2>2. CASE p # "arrive"
    <3>1. {pc[c], q} \cap (Early \cup DecidingAt) = {} /\ q # "ceded"
      BY <1>1, <1>2, <2>2 DEF Downs, Early, DecidingAt
    <3>2. turn \in {0, 1}
      BY <3>1 DEF Good, Started, Early, DecidingAt
    <3> QED
      BY <1>2, <3>1, <3>2, MovesStarted DEF Good
  <2> QED
    BY <2>1, <2>2
<1>7. OneSettles'
  <2>1. \A d, e \in Cars : Settles(d)' /\ Settles(e)' => d = e
    BY <1>1, <1>2, MovesSame DEF Good, OneSettles, Downs, SettlingAt
  <2>2. \A d \in Cars : pc'[d] = "stop" /\ Len(todo'[d]) > 1 => step2' = 1
    BY <1>2, <1>3, ListFacts DEF Good, OneSettles
  <2> QED
    BY <2>1, <2>2 DEF OneSettles
<1>8. Lowered'
  <2>1. \A r \in Semaphores \ {"main_sem"} : sem'[r] <= 1
    BY <1>4 DEF Good, Lowered
  <2>2. ASSUME NEW d \in Cars, raising'[d], Head(todo'[d]) # "main_sem"
          PROVE sem'[Head(todo'[d])] = 0
    <3>1. raising[d] /\ todo'[d] = todo[d] /\ todo[d] # <<>> /\ d # c
      BY <1>2, <1>3, <2>2 DEF CarTypes
    <3>2. Head(todo[d]) \in Semaphores /\ sem[Head(todo[d])] = 0
      BY <1>2, <2>2, <3>1, TailFacts DEF Good, Lowered, CarTypes
    <3> QED
      BY <1>4, <3>1, <3>2
  <2> QED
    BY <2>1, <2>2 DEF Lowered
<1>9. Counting'
  <2>1. Creating => q \in HolderAt
    BY <1>1, <1>2 DEF Downs, Good, Counting, HolderAt, DecidingAt, GateAt, SlotsAt, TakenAt
  <2>2. pc[c] # "none" /\ q # "none" /\ pc[c] \notin PassedAt /\ q \notin PassedAt
    BY <1>1, <1>2 DEF Downs, PassedAt, CountedAt, SettlingAt, GoneAt
  <2> QED
    BY <1>2, <2>1, <2>2, MovesCounting DEF Good
<1>10. Ending'
  <2>1. Ended' = Ended
    BY <1>1, <1>2, <1>3 DEF Ended, Downs
  <2>2. sem'["main_sem"] = sem["main_sem"]
    BY <1>1, <1>2, <1>4, ColourFacts DEF Downs
  <2>3. \A d \in Cars : pc'[d] = "done" /\ todo'[d] # <<>> => pc[d] = "done" /\ todo[d] # <<>>
    BY <1>3
  <2> QED
    BY <1>2, <2>1, <2>2, <2>3 DEF Good, Ending
<1>11. Batches
  BY <1>1, <1>2 DEF Good, Over, Downs, PassedAt, CountedAt, SettlingAt, GoneAt
<1>12. Batches'
  BY <1>1, <1>11, DownsBatches
<1> QED
  BY <1>5, <1>6, <1>7, <1>8, <1>9, <1>10, <1>12 DEF Good

-----------------------------------------------------------------------------
(* main. *)

LEMMA MainBatches ==
    ASSUME Batches, UNCHANGED <<pc, todo, turn, step2, slots_left>>,
           \A s \in Semaphores \ {"main_sem"} : sem'[s] = sem[s]
    PROVE  Batches'
<1>1. /\ sem'["general_sem"] = sem["general_sem"]
      /\ \A k \in Colours : sem'[k] = sem[k]
      /\ \A k \in Colours : sem'[Bridge(k)] = sem[Bridge(k)]
  BY ColourFacts
<1>2. /\ \A c \in Cars : \A k : Token(c, k)' <=> Token(c, k)
      /\ \A c \in Cars : \A s : Raises(c, s)' <=> Raises(c, s)
      /\ \A c \in Cars : Crosses(c)' <=> Crosses(c)
      /\ \A c \in Cars : Within(c)' <=> Within(c)
      /\ \A k \in Colours : Waiting(k)' = Waiting(k)
      /\ \A k \in Colours : Taking(k)' = Taking(k)
      /\ \A k \in Colours : AllPassed(k)' <=> AllPassed(k)
  BY DEF Token, Raises, Crosses, Within, Waiting, Taking, AllPassed
<1>3. \A k \in Colours : Open(k)' <=> Open(k)
  BY <1>1, <1>2 DEF Open
<1>4. \A k \in Colours : Quiet(k)' <=> Quiet(k)
  BY <1>2, <1>3 DEF Quiet
<1>5. ASSUME NEW k \in Colours
      PROVE  Baton(k)' /\ Closed(k)' /\ Released(k)' /\ Slotted(k)' /\ Turned(k)'
  <2>1. Baton(k) /\ Closed(k) /\ Released(k) /\ Slotted(k) /\ Turned(k)
    BY DEF Batches
  <2>2. Baton(k)' /\ Closed(k)' /\ Slotted(k)' /\ Turned(k)'
    BY <1>1, <1>2, <1>3, <1>4, <2>1 DEF Baton, Closed, Slotted, Turned
  <2>3. Released(k)'
    BY <1>1, <1>2, <2>1 DEF Released
  <2> QED
    BY <2>2, <2>3
<1>6. OwnTurn'
  BY <1>2 DEF Batches, OwnTurn
<1>7. ASSUME NEW c \in Cars PROVE Settled(c)'
  <2>1. Settled(c) /\ Colour(c) \in Colours /\ Other(Colour(c)) \in Colours
    BY ColourFacts DEF Batches
  <2> QED
    BY <1>2, <1>4, <2>1 DEF Settled
<1>8. General'
  <2>1. \A c \in Cars : AllPassed(Colour(c))' <=> AllPassed(Colour(c))
    BY <1>2, ColourFacts
  <2> QED
    BY <1>1, <1>2, <2>1 DEF Batches, General
<1> QED
  BY <1>5, <1>6, <1>7, <1>8 DEF Batches

\* main goes on, and takes main_sem or not.
LEMMA MainGood ==
    ASSUME Good,
           UNCHANGED <<pc, todo, raising, turn, step, step2, slots_left, left, stop>>,
           \A s \in Semaphores \ {"main_sem"} : sem'[s] = sem[s],
           Types', Counting', Ending'
    PROVE  Good'
<1>1. Started' /\ OneSettles'
  BY DEF Good, Started, OneSettles, Settles
<1>2. Lowered'
  <2>1. \A c \in Cars : raising[c] => Head(todo[c]) \in Semaphores
    BY TailFacts DEF Good, Types, CarTypes
  <2> QED
    BY <2>1 DEF Good, Lowered
<1>3. (Over \/ Batches)'
  BY MainBatches DEF Good, Over
<1> QED
  BY <1>1, <1>2, <1>3 DEF Good

LEMMA LoadNewStep ==
    ASSUME Good, LoadNew
    PROVE  Good'
<1>1. /\ main = "load" /\ main' = "store" /\ mainLoad' = left[NextColour] /\ NextColour \in Colours
      /\ UNCHANGED <<pc, todo, raising, sem, turn, step, step2, slots_left, left, stop>>
  BY DEF LoadNew, own, turnVars, bridgeVars, NextColour, Colours
<1>2. Types'
  BY <1>1 DEF Good, Types, CarTypes, ShapeOf
<1>3. Counting'
  BY <1>1 DEF Good, Counting, Creating, NextColour, Uncreated, Unpassed
<1>4. Ending'
  BY <1>1 DEF Good, Ending, Ended
<1> QED
  BY <1>1, <1>2, <1>3, <1>4, MainGood

LEMMA EndStep ==
    ASSUME Good, Finish \/ Destroy \/ Return
    PROVE  Good'
<1>1. /\ UNCHANGED <<pc, todo, raising, turn, step, step2, slots_left, left, stop, mainLoad>>
      /\ \A s \in Semaphores \ {"main_sem"} : sem'[s] = sem[s]
      /\ sem' \in [Semaphores -> Nat]
      /\ ~Creating /\ ~Creating' /\ main' \in {"destroy", "return", "returned"}
      /\ Ended = Cars
  <2>1. CASE Finish
    <3>1. "main_sem" \in Semaphores
      BY ColourFacts
    <3> QED
      BY <2>1, <3>1 DEF Finish, own, turnVars, bridgeVars, Good, Types, Creating, Ending
  <2>2. CASE Destroy \/ Return
    BY <2>2 DEF Destroy, Return, own, turnVars, bridgeVars, Good, Types, Creating, Ending
  <2> QED
    BY <2>1, <2>2
<1>2. Types'
  BY <1>1 DEF Good, Types, CarTypes, ShapeOf
<1>3. Counting'
  BY <1>1 DEF Good, Counting, Creating, Unpassed
<1>4. Ending'
  BY <1>1 DEF Good, Ending, Ended
<1> QED
  BY <1>1, <1>2, <1>3, <1>4, MainGood

LEMMA CreateStep ==
    ASSUME Good, NEW c \in Cars, Create(c)
    PROVE  Good'
<1> DEFINE k == Colour(c)
<1>1. /\ main = "store" /\ pc[c] = "none" /\ todo[c] = <<>> /\ CarTypes /\ k = NextColour
          /\ k \in Colours
      /\ left' = [left EXCEPT ![k] = mainLoad + 1]
      /\ main' = IF Uncreated = {c} THEN "wait" ELSE "load"
      /\ UNCHANGED <<todo, raising, sem, turn, step, step2, slots_left, stop, mainLoad>>
  BY ColourFacts DEF Create, Uncreated, own, turnVars, Good, Types, CarTypes, ShapeOf
<1>2. Moves(c, "arrive", <<>>)
  BY <1>1 DEF Create, GoTo, Moves, CarTypes
<1>3. /\ pc'[c] = "arrive"
      /\ \A d \in Cars : d # c => pc'[d] = pc[d]
      /\ \A d \in Cars : todo'[d] = todo[d]
  BY <1>1, <1>2, MovesFacts
<1>4. Types'
  <2>1. ShapeOf(c, "arrive", <<>>) /\ "arrive" \in Places
    BY DEF ShapeOf, Places, Early
  <2>2. left' \in [Colours -> Int] /\ main' \in {"wait", "load"}
    BY <1>1 DEF Good, Types
  <2> QED
    BY <1>1, <1>2, <2>1, <2>2, ListFacts, MovesTypes DEF Good, Types
<1>5. Started'
  BY <1>1, <1>3 DEF Good, Started, Early, DecidingAt
<1>6. OneSettles'
  <2>1. \A d \in Cars : Settles(d)' => Settles(d)
    BY <1>3 DEF Settles, SettlingAt
  <2> QED
    BY <1>1, <1>3, <2>1 DEF Good, OneSettles
<1>7. Lowered'
  BY <1>1, <1>2, MovesLowered DEF Good
<1>8. Counting'
  <2>1. ASSUME NEW j \in Colours PROVE left'[j] = Cardinality(Unpassed(j)')
    <3>1. CASE j = k
      <4>1. Unpassed(j)' = Unpassed(j) \cup {c} /\ c \notin Unpassed(j)
        BY <1>1, <1>3, <3>1, ColourFacts DEF Unpassed, PassedAt, CountedAt, SettlingAt, GoneAt
      <4>2. Cardinality(Unpassed(j)') = Cardinality(Unpassed(j)) + 1
        BY <4>1, SetFacts, FS_AddElement
      <4> QED
        BY <1>1, <3>1, <4>2 DEF Good, Counting, Types
    <3>2. CASE j # k
      <4>1. Unpassed(j)' = Unpassed(j)
        BY <1>3, <3>2, ColourFacts DEF Unpassed
      <4> QED
        BY <1>1, <3>2, <4>1 DEF Good, Counting, Types
    <3> QED
      BY <3>1, <3>2
  <2>2. main' # "store"
    BY <1>1
  <2>3. Creating' => \A d \in Cars : pc'[d] \in {"none", "arrive"} \cup HolderAt
    BY <1>1, <1>3 DEF Good, Counting, Creating
  <2>4. ~Creating' => \A d \in Cars : pc'[d] # "none"
    BY <1>1, <1>3 DEF Creating, Uncreated
  <2> QED
    BY <2>1, <2>2, <2>3, <2>4 DEF Counting
<1>9. Ending'
  <2>1. Ended' = Ended
    BY <1>1, <1>3 DEF Ended
  <2> QED
    BY <1>1, <1>3, <2>1 DEF Good, Ending
<1>10. Batches'
  <2>1. Batches
    BY <1>1 DEF Good, Over, PassedAt, CountedAt, SettlingAt, GoneAt
  <2>2. Advances(c, "arrive", <<>>)
    BY <1>1, <1>2 DEF Advances, HolderAt, DecidingAt, GateAt, SlotsAt, TakenAt, UnpassedAt,
      CountedAt, SettlingAt, PassedAt, GoneAt
  <2> QED
    BY <1>1, <2>1, <2>2, AdvancesBatches DEF Good
<1> QED
  BY <1>4, <1>5, <1>6, <1>7, <1>8, <1>9, <1>10 DEF Good

-----------------------------------------------------------------------------
(* The invariant. *)

LEMMA InitIInv == Init => IInv
<1> SUFFICES ASSUME Init PROVE Good
  BY DEF Init, IInv
<1>1. Types
  <2>1. <<>> \in Seq(Semaphores) /\ "none" \in Places
    BY DEF Places, Early
  <2>2. \A c \in Cars : ShapeOf(c, "none", <<>>)
    BY DEF ShapeOf
  <2> QED
    BY <2>1, <2>2, SemBridgeAssumption DEF Init, Types, CarTypes
<1>2. Started /\ OneSettles
  BY DEF Init, Started, OneSettles, Settles, Early, DecidingAt, SettlingAt
<1>3. Lowered
  BY ColourFacts DEF Init, Lowered
<1>4. Counting
  <2>1. \A k \in Colours : Unpassed(k) = {}
    BY ColourFacts DEF Init, Unpassed
  <2>2. Cardinality({}) = 0
    BY FS_EmptySet
  <2> QED
    BY <2>1, <2>2 DEF Init, Counting, Creating
<1>5. Ending
  <2>1. Ended = {} /\ Cardinality({}) = 0
    BY FS_EmptySet DEF Init, Ended
  <2>2. sem["main_sem"] = 0
    BY ColourFacts DEF Init, Colours, Semaphores
  <2> QED
    BY <2>1, <2>2 DEF Init, Ending
<1>6. Batches
  <2>1. /\ \A c \in Cars : \A s : ~Token(c, s)
        /\ \A c \in Cars : \A s : ~Raises(c, s)
        /\ \A c \in Cars : ~Crosses(c)
        /\ \A c \in Cars : ~Within(c)
        /\ \A c \in Cars : pc[c] = "none"
    BY DEF Init, Token, Raises, Crosses, Within, HolderAt, DecidingAt, GateAt, SlotsAt, TakenAt,
      UnpassedAt, CountedAt
  <2>2. /\ \A k \in Colours : sem[Bridge(k)] = 0
        /\ sem["general_sem"] = 0
        /\ turn = -1 /\ step2 = 0
    BY ColourFacts DEF Init, Colours
  <2>3. \A k \in Colours : Baton(k) /\ Closed(k) /\ Slotted(k) /\ Turned(k)
    BY <2>1, <2>2, ColourFacts DEF Baton, Closed, Slotted, Turned
  <2>4. \A k \in Colours : Released(k)
    BY <2>1, <2>2, SetFacts DEF Released, UnpassedAt
  <2>5. OwnTurn /\ \A c \in Cars : Settled(c)
    BY <2>1 DEF OwnTurn, Settled, SettlingAt
  <2>6. General
    BY <2>1, <2>2 DEF General
  <2> QED
    BY <2>3, <2>4, <2>5, <2>6 DEF Batches
<1> QED
  BY <1>1, <1>2, <1>3, <1>4, <1>5, <1>6 DEF Good

LEMMA CarStepGood ==
    ASSUME Good, NEW c \in Cars, CarStep(c), ~raced'
    PROVE  Good'
<1>1. CASE GetVal(c) \/ SemOp(c) \/ Down(c)
  BY <1>1, GetValStep, SemOpStep, DownStep
<1>2. CASE First(c) \/ SetStep(c) \/ Decide(c) \/ Compare(c) \/ Cede(c) \/ Gate(c) \/ Loop(c)
  BY <1>2, FirstStep, SetStepStep, DecideStep, CompareStep, CedeStep, GoingStep
<1>3. CASE TakeSlot(c) \/ Alone(c) \/ Among(c)
  BY <1>3, TakeSlotStep, AloneStep, AmongStep
<1>4. CASE LoadLeft(c) \/ StoreLeft(c) \/ LoadCount(c) \/ StoreCount(c)
  BY <1>4, StoreLeftStep, GoingStep
<1>5. CASE Settle(c) \/ Empty(c) \/ Toss(c) \/ Keep(c) \/ Hand(c)
  BY <1>5, SettleStep, EmptyTossStep, KeepStep, HandStep
<1>6. CASE LoadStop(c) \/ StoreStop(c) \/ Last(c)
  BY <1>6, GoingStep, StoreStopStep, LastStep
<1> QED
  BY <1>1, <1>2, <1>3, <1>4, <1>5, <1>6 DEF CarStep

\* A race is never forgotten.
LEMMA RacedStep ==
    ASSUME raced \in BOOLEAN, [Next]_vars
    PROVE  raced' \in BOOLEAN /\ (raced => raced')
<1>1. CASE \E c \in Cars : CarStep(c)
  <2>1. PICK c \in Cars : CarStep(c)
    BY <1>1
  <2>2. CASE GetVal(c) \/ SemOp(c) \/ Down(c)
    BY <2>2 DEF GetVal, SemOp, Down, Notes
  <2>3. CASE First(c) \/ SetStep(c) \/ Decide(c) \/ Compare(c) \/ Cede(c) \/ Gate(c) \/ Loop(c)
    BY <2>3 DEF First, SetStep, Decide, Compare, Cede, Gate, Loop, Notes
  <2>4. CASE TakeSlot(c) \/ Alone(c) \/ Among(c)
    BY <2>4 DEF TakeSlot, Alone, Among, Notes
  <2>5. CASE LoadLeft(c) \/ StoreLeft(c) \/ LoadCount(c) \/ StoreCount(c)
    BY <2>5 DEF LoadLeft, StoreLeft, LoadCount, StoreCount, Notes
  <2>6. CASE Settle(c) \/ Empty(c) \/ Toss(c) \/ Keep(c) \/ Hand(c)
    BY <2>6 DEF Settle, Empty, Toss, Keep, Hand, Notes
  <2>7. CASE LoadStop(c) \/ StoreStop(c) \/ Last(c)
    BY <2>7 DEF LoadStop, StoreStop, Last, Notes
  <2> QED
    BY <2>1, <2>2, <2>3, <2>4, <2>5, <2>6, <2>7 DEF CarStep
<1>2. CASE MainStep
  BY <1>2 DEF MainStep, LoadNew, Create, Finish, Destroy, Return
<1>3. CASE UNCHANGED vars
  BY <1>3 DEF vars
<1> QED
  BY <1>1, <1>2, <1>3 DEF Next

LEMMA IInvStep == IInv /\ [Next]_vars => IInv'
<1> SUFFICES ASSUME IInv, [Next]_vars, ~raced' PROVE Good'
  BY RacedStep DEF IInv
<1>1. Good
  BY RacedStep DEF IInv
<1>2. CASE \E c \in Cars : CarStep(c)
  BY <1>1, <1>2, CarStepGood
<1>3. CASE MainStep
  BY <1>1, <1>3, LoadNewStep, CreateStep, EndStep DEF MainStep
<1>4. CASE UNCHANGED vars
  <2>1. UNCHANGED <<pc, todo, raising, sem, turn, step, step2, slots_left, left, stop, main,
                     mainLoad>>
    BY <1>4 DEF vars
  <2>2. Types'
    BY <1>1, <2>1 DEF Good, Types, CarTypes, ShapeOf
  <2>3. Counting' /\ Ending'
    BY <1>1, <2>1 DEF Good, Counting, Ending, Creating, NextColour, Uncreated, Unpassed, Ended
  <2> QED
    BY <1>1, <2>1, <2>2, <2>3, MainGood
<1> QED
  BY <1>2, <1>3, <1>4 DEF Next

\* The whole of the above is an invariant of the program, until a race happens.
THEOREM Invariant == Spec => []IInv
<1> QED
  BY InitIInv, IInvStep, PTL DEF Spec

-----------------------------------------------------------------------------
(* What follows from it. *)

LEMMA HoldersBaton ==
    ASSUME Good, NEW k \in Colours
    PROVE  Cardinality(Holders(k)) + sem[k] <= 1
<1>1. \A c \in Holders(k) : c \in Cars /\ pc[c] \in HolderAt /\ Colour(c) = k
  BY ColourFacts DEF Holders, HolderAt, DecidingAt, GateAt, SlotsAt, TakenAt
<1>2. sem[k] \in Nat /\ sem[k] <= 1
  BY ColourFacts DEF Good, Types, Lowered
<1>3. CASE Holders(k) = {}
  BY <1>2, <1>3, FS_EmptySet
<1>4. CASE Holders(k) # {}
  <2>1. PICK c \in Holders(k) : TRUE
    BY <1>4
  <2>2. Batches
    BY <1>1, <2>1 DEF Good, Over, PassedAt, HolderAt, DecidingAt, GateAt, SlotsAt, TakenAt,
      CountedAt, SettlingAt, GoneAt
  <2>3. \A d \in Holders(k) : d \in Cars /\ Token(d, k)
    BY <1>1 DEF Token
  <2>4. Holders(k) = {c}
    BY <2>1, <2>2, <2>3 DEF Batches, Baton
  <2>5. sem[k] = 0
    BY <1>2, <2>1, <2>2, <2>3 DEF Batches, Baton
  <2>6. Cardinality({c}) = 1
    BY FS_Singleton
  <2> QED
    BY <2>4, <2>5, <2>6
<1> QED
  BY <1>3, <1>4

\* As long as no race has happened, one car of a colour at a time looks at the
\* shared variables, although red_sem and blue_sem are raised in six places, some
\* of them in cars of the other colour, and mysem_up never raises a semaphore to 2.
THEOREM OneBatonHolds == Spec => []OneBaton
<1>1. IInv => OneBaton
  BY HoldersBaton DEF IInv, Good, Lowered, OneBaton
<1> QED
  BY <1>1, Invariant, PTL

OnAt == TakenAt \cup {"on"} \cup UnpassedAt

LEMMA BridgeSets ==
    /\ OnBridge = {c \in Cars : pc[c] \in OnAt}
    /\ Passed = {c \in Cars : pc[c] \in PassedAt}
    /\ OnBridge' = {c \in Cars : pc'[c] \in OnAt}
    /\ Passed' = {c \in Cars : pc'[c] \in PassedAt}
    /\ OnAt \cap PassedAt = {}
BY DEF OnBridge, Passed, OnAt, TakenAt, UnpassedAt, PassedAt, CountedAt, SettlingAt, GoneAt

\* The cars on the bridge have seen that it is their turn.
LEMMA OnBridgeTurn ==
    ASSUME Good
    PROVE  /\ \A c \in OnBridge : Within(c) /\ c \in Cars
           /\ \A c \in OnBridge : turn = TurnOf(Colour(c))
           /\ OneDirection
<1>1. \A c \in OnBridge : Within(c) /\ c \in Cars /\ pc[c] \notin PassedAt
  BY BridgeSets DEF OnAt, Within, Crosses
<1>2. \A c \in OnBridge : turn = TurnOf(Colour(c))
  BY <1>1 DEF Good, Over, Batches, OwnTurn
<1>3. OneDirection
  BY <1>1, <1>2 DEF OneDirection, Cars, Colour, TurnOf
<1> QED
  BY <1>1, <1>2, <1>3

\* Only cars of one direction are on the bridge, as both README files say, as long
\* as no race has happened.
THEOREM OneDirectionUnlessRaced == Spec => [](raced \/ OneDirection)
<1>1. IInv => raced \/ OneDirection
  BY OnBridgeTurn DEF IInv
<1> QED
  BY <1>1, Invariant, PTL

LEMMA RefineInit == Init => Abstract!Init
BY DEF Init, Abstract!Init, OnBridge, Passed

\* A car takes a slot: it drives onto the abstract bridge, or stays where it is.
LEMMA RefineTakeSlot ==
    ASSUME Good, NEW c \in Cars, TakeSlot(c)
    PROVE  Abstract!Enter(c) \/ UNCHANGED Abstract!vars
<1> DEFINE k == Colour(c)
<1>1. pc[c] = "slots" /\ k \in Colours /\ pc \in [Cars -> Places] /\ slots_left \in 0..slots
        /\ slots \in Nat \ {0}
  BY ColourFacts, SemBridgeAssumption DEF TakeSlot, At, Good, Types, CarTypes
<1>2. CASE slots_left = slots
  <2>1. pc' = [pc EXCEPT ![c] = "full"] /\ slots_left' = slots_left
    BY <1>2 DEF TakeSlot, GoTo
  <2>2. "full" \notin OnAt \cup PassedAt /\ "slots" \notin OnAt \cup PassedAt
    BY DEF OnAt, TakenAt, UnpassedAt, PassedAt, CountedAt, SettlingAt, GoneAt
  <2>3. OnBridge' = OnBridge /\ Passed' = Passed
    BY <1>1, <2>1, <2>2, BridgeSets
  <2> QED
    BY <2>1, <2>3 DEF Abstract!vars
<1>3. CASE slots_left # slots
  <2>1. PICK q \in TakenAt : pc' = [pc EXCEPT ![c] = q]
    BY <1>3 DEF TakeSlot, GoTo, TakenAt
  <2>2. slots_left' = slots_left + 1
    BY <1>3 DEF TakeSlot
  <2>3. q \in OnAt /\ q \notin PassedAt /\ "slots" \notin OnAt \cup PassedAt
    BY DEF OnAt, TakenAt, UnpassedAt, PassedAt, CountedAt, SettlingAt, GoneAt
  <2>4. OnBridge' = OnBridge \cup {c} /\ Passed' = Passed /\ c \notin OnBridge \cup Passed
    BY <1>1, <2>1, <2>3, BridgeSets
  <2>5. Batches
    BY <1>1, <2>3 DEF Good, Over
  <2>6. turn = TurnOf(k)
    BY <1>1, <2>5 DEF Batches, OwnTurn, Within, SlotsAt
  <2>7. Abstract!SameSide(OnBridge \cup {c})
    BY <2>6, OnBridgeTurn DEF Abstract!SameSide, Colour, TurnOf, Cars
  <2>8. OnBridge = {} => slots_left = 0
    <3> SUFFICES ASSUME OnBridge = {} PROVE slots_left = 0
      OBVIOUS
    <3>1. Open(k)
      BY <1>1 DEF Open, Token, HolderAt, SlotsAt
    <3>2. slots_left <= Cardinality(Taking(k))
      BY <1>1, <2>5, <2>6, <3>1 DEF Batches, Slotted
    <3>3. Taking(k) = {}
      BY <1>1, BridgeSets, ColourFacts DEF Taking, OnAt
    <3> QED
      BY <1>1, <3>2, <3>3, FS_EmptySet
  <2>9. OnBridge \cup {c} # {}
    OBVIOUS
  <2> QED
    BY <1>1, <1>3, <2>2, <2>4, <2>7, <2>8, <2>9 DEF Abstract!Enter
<1> QED
  BY <1>2, <1>3

\* A car is counted out: it leaves the abstract bridge.
LEMMA RefineStoreLeft ==
    ASSUME Good, NEW c \in Cars, StoreLeft(c)
    PROVE  c \in OnBridge /\ Abstract!Leave({c})
<1>1. pc[c] \in {"passing", "passingAlone"} /\ pc \in [Cars -> Places] /\ slots_left' = slots_left
  BY DEF StoreLeft, Good, Types, CarTypes
<1>2. PICK q \in {"count", "settle"} : pc' = [pc EXCEPT ![c] = q]
  BY DEF StoreLeft, GoTo
<1>3. /\ q \notin OnAt /\ q \in PassedAt /\ pc[c] \in OnAt /\ pc[c] \notin PassedAt
  BY <1>1 DEF OnAt, TakenAt, UnpassedAt, PassedAt, CountedAt, SettlingAt, GoneAt
<1>4. OnBridge' = OnBridge \ {c} /\ Passed' = Passed \cup {c} /\ c \in OnBridge
  BY <1>1, <1>2, <1>3, BridgeSets
<1>5. OnBridge \ {c} = {} <=> OnBridge \subseteq {c}
  BY <1>4
<1> QED
  BY <1>1, <1>4, <1>5 DEF Abstract!Leave

\* slots_left is only reset while nobody is on the bridge.
LEMMA RefineEmpty ==
    ASSUME Good, NEW c \in Cars, Empty(c)
    PROVE  UNCHANGED Abstract!vars
<1>1. pc[c] = "empty" /\ pc \in [Cars -> Places] /\ pc' = [pc EXCEPT ![c] = "toss"]
  BY DEF Empty, At, GoTo, Good, Types, CarTypes
<1>2. {"empty", "toss"} \cap OnAt = {} /\ {"empty", "toss"} \subseteq PassedAt
  BY DEF OnAt, TakenAt, UnpassedAt, PassedAt, CountedAt, SettlingAt, GoneAt
<1>3. OnBridge' = OnBridge /\ Passed' = Passed
  BY <1>1, <1>2, BridgeSets
<1>4. OnBridge = {}
  <2>1. CASE Over
    BY <2>1, BridgeSets DEF Over
  <2>2. CASE Batches
    <3>1. \A d \in Cars : ~Within(d)
      BY <1>1, <2>2 DEF Batches, Settled, SettlingAt
    <3> QED
      BY <3>1, OnBridgeTurn
  <2> QED
    BY <2>1, <2>2 DEF Good
<1> QED
  BY <1>3, <1>4 DEF Abstract!vars

\* Nothing else is seen on the abstract bridge.
LEMMA RefineMove ==
    ASSUME CarTypes, NEW c \in Cars, NEW q, pc' = [pc EXCEPT ![c] = q], slots_left' = slots_left,
           pc[c] \in OnAt <=> q \in OnAt, pc[c] \in PassedAt <=> q \in PassedAt
    PROVE  UNCHANGED Abstract!vars
<1>1. OnBridge' = OnBridge /\ Passed' = Passed
  BY BridgeSets DEF CarTypes
<1> QED
  BY <1>1 DEF Abstract!vars

LEMMA RefineOther ==
    ASSUME Good, NEW c \in Cars,
           \/ GetVal(c) \/ SemOp(c) \/ Down(c)
           \/ First(c) \/ SetStep(c) \/ Decide(c) \/ Compare(c) \/ Cede(c) \/ Gate(c) \/ Loop(c)
           \/ Alone(c) \/ Among(c) \/ LoadLeft(c) \/ LoadCount(c) \/ StoreCount(c)
           \/ Settle(c) \/ Toss(c) \/ Keep(c) \/ Hand(c)
           \/ LoadStop(c) \/ StoreStop(c) \/ Last(c) \/ Create(c)
    PROVE  UNCHANGED Abstract!vars
<1>1. CarTypes
  BY DEF Good, Types
<1>2. CASE GetVal(c) \/ SemOp(c)
  <2>1. pc' = pc /\ slots_left' = slots_left
    BY <1>2 DEF GetVal, SemOp, bridgeVars
  <2> QED
    BY <2>1 DEF Abstract!vars, OnBridge, Passed
<1>3. slots_left' = slots_left
  BY DEF GetVal, SemOp, Down, First, SetStep, Decide, Compare, Cede, Gate, Loop, Alone, Among,
    LoadLeft, LoadCount,
    StoreCount, Settle, Toss, Keep, Hand, LoadStop, StoreStop, Last, Create, bridgeVars
<1>4. CASE Down(c) \/ Create(c)
  <2>1. \E q : /\ pc' = [pc EXCEPT ![c] = q]
               /\ \/ {pc[c], q} \subseteq {"none", "arrive", "first", "ceded", "gate",
                                              "gated", "loop", "sent", "slots", "full"}
                  \/ {pc[c], q} \subseteq {"on", "pass"}
    <3>1. CASE Down(c)
      BY <3>1 DEF Down, GoTo, Waits, Onwards
    <3>2. CASE Create(c)
      BY <3>2 DEF Create, GoTo, Uncreated
    <3> QED
      BY <1>4, <3>1, <3>2
  <2> QED
    BY <1>1, <1>3, <2>1, RefineMove DEF OnAt, TakenAt, UnpassedAt, PassedAt, CountedAt,
      SettlingAt, GoneAt
<1>5. CASE First(c) \/ SetStep(c) \/ Decide(c) \/ Compare(c) \/ Cede(c) \/ Gate(c) \/ Loop(c)
  <2>1. \E q : /\ pc' = [pc EXCEPT ![c] = q]
               /\ {pc[c], q} \subseteq {"first", "setStep", "decide", "compare", "cede", "ceded",
                                           "gate", "gated", "loop", "sent", "slots"}
    BY <1>5 DEF First, SetStep, Decide, Compare, Cede, Gate, Loop, GoTo, GoRaising, At
  <2> QED
    BY <1>1, <1>3, <2>1, RefineMove DEF OnAt, TakenAt, UnpassedAt, PassedAt, CountedAt,
      SettlingAt, GoneAt
<1>6. CASE Alone(c) \/ Among(c) \/ LoadLeft(c)
  <2>1. \E q : pc' = [pc EXCEPT ![c] = q] /\ {pc[c], q} \subseteq OnAt
    BY <1>6 DEF Alone, Among, LoadLeft, GoTo, GoRaising, At, OnAt, TakenAt, UnpassedAt
  <2>2. OnAt \cap PassedAt = {}
    BY BridgeSets
  <2> QED
    BY <1>1, <1>3, <2>1, <2>2, RefineMove
<1>7. CASE \/ LoadCount(c) \/ StoreCount(c) \/ Settle(c) \/ Toss(c) \/ Keep(c) \/ Hand(c)
           \/ LoadStop(c) \/ StoreStop(c) \/ Last(c)
  <2>1. \E q : pc' = [pc EXCEPT ![c] = q] /\ {pc[c], q} \subseteq PassedAt
    BY <1>7 DEF LoadCount, StoreCount, Settle, Toss, Keep, Hand, LoadStop, StoreStop, Last, GoTo,
      GoRaising, At,
      PassedAt, CountedAt, SettlingAt, GoneAt
  <2>2. OnAt \cap PassedAt = {}
    BY BridgeSets
  <2> QED
    BY <1>1, <1>3, <2>1, <2>2, RefineMove
<1> QED
  BY <1>2, <1>4, <1>5, <1>6, <1>7

\* As long as no race has happened, bridge.c implements the abstract bridge: one
\* direction at a time, at most slots cars between two moments at which the bridge
\* is empty, each car once.
THEOREM Implements == Spec => ImplementsBridge
<1>1. ASSUME IInv, [Next]_vars, ~raced' PROVE Abstract!Next \/ UNCHANGED Abstract!vars
  <2>1. Good
    BY <1>1, RacedStep DEF IInv
  <2>2. ASSUME NEW c \in Cars, TakeSlot(c) PROVE Abstract!Next \/ UNCHANGED Abstract!vars
    BY <2>1, <2>2, RefineTakeSlot DEF Abstract!Next, Abstract!Cars, Cars
  <2>3. ASSUME NEW c \in Cars, StoreLeft(c) PROVE Abstract!Next
    BY <2>1, <2>3, RefineStoreLeft DEF Abstract!Next
  <2>4. ASSUME NEW c \in Cars, CarStep(c) PROVE Abstract!Next \/ UNCHANGED Abstract!vars
    BY <2>1, <2>2, <2>3, <2>4, RefineEmpty, RefineOther DEF CarStep
  <2>5. CASE MainStep
    <3>1. CASE \E c \in Cars : Create(c)
      BY <2>1, <3>1, RefineOther
    <3>2. CASE LoadNew \/ Finish \/ Destroy \/ Return
      BY <3>2 DEF LoadNew, Finish, Destroy, Return, bridgeVars, Abstract!vars, OnBridge, Passed
    <3> QED
      BY <2>5, <3>1, <3>2 DEF MainStep
  <2>6. CASE UNCHANGED vars
    BY <2>6 DEF vars, Abstract!vars, OnBridge, Passed
  <2> QED
    BY <1>1, <2>4, <2>5, <2>6 DEF Next
<1>2. IInv /\ [Next]_vars => [raced' \/ Abstract!Next \/ UNCHANGED Abstract!vars]_vars
  BY <1>1
<1> QED
  BY RefineInit, <1>2, Invariant, PTL DEF Spec, ImplementsBridge

-----------------------------------------------------------------------------
(***************************************************************************)
(* Nothing but the races stops the program.  The invariant above says that *)
(* nothing happens twice; the one below that what has to come does come:   *)
(* the token of the colour that has the turn is not lost, the batch that   *)
(* leaves is as large as the one that is counted, and a car that waits at  *)
(* the gate is called.                                                     *)
(***************************************************************************)

\* Both colours have cars, and the bridge takes two.
Proper == slots > 1 /\ Red # {} /\ Blue # {}

\* Cars of colour k leave the bridge.
Departing(k) == sem[Bridge(k)] > 0 \/ \E c \in Cars : Colour(c) = k /\ Crosses(c)

\* The car has not yet given the turn, or the token, that it is about to give.
HandsOver(c) == pc[c] \in SettlingAt \/ (pc[c] = "hand" /\ turn # TurnOf(Colour(c)))

\* The token of the colour that has the turn only goes while a batch leaves or is settled;
\* before the turn is handed over for the first time the other colour has its own, too.
Live(k) ==
    step2 = 0 \/ turn = TurnOf(k) =>
      \/ Open(k) \/ Departing(k)
      \/ \E c \in Cars : HandsOver(c) /\ (step2 = 1 \/ Colour(c) = k)

\* The turn is not with a colour that has no cars left.
Useful(k) ==
    turn = TurnOf(k) /\ AllPassed(k) => Departing(k) \/ \E c \in Cars : HandsOver(c)

\* While cars may still drive onto the bridge slots_left is exact and nobody is counted.
Exact(k) == turn = TurnOf(k) /\ Open(k) => slots_left = Cardinality(Taking(k)) /\ count = 0

\* As long as that is so there is a slot left, and a car to take it.
Coming(k) == \E c \in Cars : Colour(c) = k /\ pc[c] \in Early \cup (HolderAt \ TakenAt)
Room(k) ==
    turn = TurnOf(k) /\ Open(k) /\ (\A c \in Cars : Colour(c) = k => pc[c] \notin TakenAt) =>
      slots_left < slots /\ (AllPassed(k) \/ Coming(k))

\* All the cars that wait on the bridge are released.
Releasing(c, k) == /\ Colour(c) = k /\ pc[c] \in UnpassedAt /\ todo[c] # <<>>
                   /\ sem[Bridge(k)] + Len(todo[c]) = Cardinality(Waiting(k))
Emptying(k) ==
    Departing(k) => sem[Bridge(k)] = Cardinality(Waiting(k)) \/ \E c \in Cars : Releasing(c, k)

\* The batch that leaves takes all the slots, or is the last of its colour.
UncountedAt == {"on", "pass", "passing", "count", "counting"}
Uncounted(k) == {c \in Team(k) : pc[c] \in UncountedAt}
Full(k) == count + Cardinality(Uncounted(k)) = slots
LastOnes(k) == \A c \in Cars : Colour(c) = k => pc[c] \in PassedAt \cup UnpassedAt \cup {"on"}
Batch(k) == Departing(k) => Full(k) \/ LastOnes(k)

Flows(k) == Live(k) /\ Useful(k) /\ Exact(k) /\ Room(k) /\ Emptying(k) /\ Batch(k)

\* A car that waits for general_sem although it has the turn will be let through.
Calls(c) == todo[c] # <<>> /\ Head(todo[c]) = "general_sem"
Called(c) ==
    pc[c] \in {"ceded", "gated", "sent"} /\ turn = TurnOf(Colour(c)) =>
      sem["general_sem"] > 0 \/ \E d \in Cars : Calls(d) \/ HandsOver(d)

\* The counters that the first car of a batch finds, and those that the last one leaves.
Reset(c) ==
    /\ pc[c] = "alone" => slots_left = 1
    /\ pc[c] \in {"toss", "keep"} => count = 0
    /\ pc[c] = "hand" /\ turn # TurnOf(Colour(c)) => count = 0 \/ Departing(Other(Colour(c)))

\* Nobody finds the bridge full.
Follows(c) == Called(c) /\ Reset(c) /\ pc[c] # "full"

Fresh == (\A c \in Cars : pc[c] \in Early \cup DecidingAt) => count = 0

Flow == /\ count \in Int /\ Fresh
        /\ \A k \in Colours : Flows(k)
        /\ \A c \in Cars : Follows(c)

\* The last car raises main_sem.
Ends ==
    (\A c \in Cars : pc[c] = "done") =>
      \/ sem["main_sem"] > 0 \/ main \in {"destroy", "return", "returned", "failed"}
      \/ \E c \in Cars : todo[c] # <<>>

\* Nothing is claimed of what happens after a race, nor of an improper instance.
FlowInv == raced \/ (Proper => Ends /\ (Over \/ Flow))

-----------------------------------------------------------------------------
(* What that says of a state. *)

\* A batch leaves the bridge in its turn, and without a token.
Leaving(k) == Departing(k) => turn = TurnOf(k) /\ ~Open(k)

LEMMA DepartingFacts == Good /\ Batches => \A k \in Colours : Leaving(k)
<1> SUFFICES ASSUME Good, Batches, NEW k \in Colours, Departing(k)
             PROVE  turn = TurnOf(k) /\ ~Open(k)
  BY DEF Leaving
<1>1. Closed(k) /\ Released(k) /\ OwnTurn /\ sem[Bridge(k)] \in Nat
  BY ColourFacts DEF Batches, Good, Types
<1>2. ~Open(k)
  BY <1>1 DEF Closed, Departing
<1>3. \E c \in Cars : Colour(c) = k /\ Within(c)
  <2>1. CASE \E c \in Cars : Colour(c) = k /\ Crosses(c)
    BY <2>1 DEF Within
  <2>2. CASE sem[Bridge(k)] > 0
    <3>1. Waiting(k) # {}
      BY <1>1, <2>2, SetFacts DEF Released
    <3> QED
      BY <3>1, ColourFacts DEF Waiting, Within
  <2> QED
    BY <2>1, <2>2 DEF Departing
<1>4. turn = TurnOf(k)
  BY <1>1, <1>3 DEF OwnTurn
<1> QED
  BY <1>2, <1>4

LEMMA DepartingNext == (Good /\ Batches)' => \A k \in Colours : Leaving(k)'
<1>1. (Good /\ Batches)' => (\A k \in Colours : Leaving(k))'
  BY DepartingFacts, PTL
<1> QED
  BY <1>1

\* Of the colour that does not have the turn only the token matters.
LEMMA OtherFlows ==
    ASSUME NEW k \in Colours, Good', Batches', turn' # TurnOf(k), Live(k)'
    PROVE  Flows(k)'
BY DepartingNext DEF Flows, Useful, Exact, Room, Emptying, Batch, Leaving

\* Nobody is on the bridge or has decided to drive onto it.
LEMMA BareFacts ==
    ASSUME Good, Batches, \A c \in Cars : ~Within(c)
    PROVE  /\ \A k \in Colours : Cardinality(Taking(k)) = 0 /\ ~Departing(k)
           /\ \A k \in Colours : AllPassed(k) \/ Coming(k)
           /\ \A c \in Cars : pc[c] \notin TakenAt
<1>1. \A c \in Cars : ~Crosses(c) /\ pc[c] \notin SlotsAt \cup TakenAt \cup {"on"}
  BY DEF Within
<1>2. ASSUME NEW k \in Colours PROVE Cardinality(Taking(k)) = 0 /\ ~Departing(k)
  <2>1. Taking(k) = {} /\ Waiting(k) = {} /\ sem[Bridge(k)] \in Nat
    BY <1>1, ColourFacts DEF Taking, Waiting, Good, Types
  <2>2. Released(k)
    BY DEF Batches
  <2>3. Cardinality(Taking(k)) = 0 /\ Cardinality(Waiting(k)) = 0
    BY <2>1, SetFacts
  <2>4. sem[Bridge(k)] = 0
    BY <2>1, <2>2, <2>3 DEF Released
  <2> QED
    BY <1>1, <2>3, <2>4 DEF Departing
<1>3. ASSUME NEW k \in Colours, ~AllPassed(k) PROVE Coming(k)
  <2>1. PICK c \in Cars : Colour(c) = k /\ pc[c] \notin PassedAt
    BY <1>3 DEF AllPassed
  <2>2. pc[c] \in Places /\ pc[c] \notin UnpassedAt \cup TakenAt \cup {"on"}
    BY <1>1 DEF Good, Types, CarTypes, Crosses
  <2>3. pc[c] \in Early \cup (HolderAt \ TakenAt)
    BY <2>1, <2>2 DEF Places
  <2> QED
    BY <2>1, <2>3 DEF Coming
<1> QED
  BY <1>1, <1>2, <1>3

LEMMA TeamFacts == Proper => \A k \in Colours : \E c \in Cars : Colour(c) = k
BY ColourFacts DEF Proper, Team, Colours

\* Nobody has got further than the decision of the first turn.
Unstarted ==
    /\ count = 0 /\ slots_left = 0 /\ step2 = 0
    /\ \A c \in Cars : pc[c] \in Early \cup DecidingAt \cup {"ceded"}
    /\ \A c \in Cars : pc[c] = "ceded" => turn # TurnOf(Colour(c))
    /\ \A k \in Colours : Open(k) /\ sem[Bridge(k)] = 0

LEMMA EarlyFlow == Proper /\ Unstarted => Flow
<1> SUFFICES ASSUME Proper, Unstarted PROVE Flow
  OBVIOUS
<1> USE DEF Unstarted
<1>1. \A c \in Cars : /\ pc[c] \notin PassedAt \cup TakenAt \cup UnpassedAt \cup SettlingAt
                      /\ pc[c] \notin {"on", "hand", "alone", "toss", "keep", "full"}
                      /\ ~Crosses(c) /\ ~HandsOver(c)
                      /\ pc[c] \in Early \cup (HolderAt \ TakenAt)
  BY DEF Crosses, HandsOver, Early, DecidingAt, HolderAt, GateAt, SlotsAt, TakenAt, UnpassedAt,
    CountedAt, SettlingAt, GoneAt, PassedAt
<1>2. ASSUME NEW k \in Colours PROVE Flows(k)
  <2>1. ~Departing(k) /\ ~AllPassed(k) /\ Coming(k)
    BY <1>1, TeamFacts DEF Departing, AllPassed, Coming
  <2>2. Cardinality(Taking(k)) = 0
    <3>1. Taking(k) = {}
      BY <1>1, ColourFacts DEF Taking
    <3> QED
      BY <3>1, SetFacts
  <2>3. Live(k) /\ Useful(k) /\ Emptying(k) /\ Batch(k)
    BY <2>1 DEF Live, Useful, Emptying, Batch
  <2>4. Exact(k) /\ Room(k)
    BY <2>1, <2>2, SemBridgeAssumption DEF Exact, Room
  <2> QED
    BY <2>3, <2>4 DEF Flows
<1>3. ASSUME NEW c \in Cars PROVE Follows(c)
  <2>1. pc[c] \in {"ceded", "gated", "sent"} => pc[c] = "ceded"
    BY DEF Early, DecidingAt
  <2> QED
    BY <1>1, <2>1 DEF Follows, Called, Reset
<1> QED
  BY <1>2, <1>3 DEF Flow, Fresh

LEMMA EarlyFlowNext == Proper /\ Unstarted' => Flow'
<1>1. (Proper /\ Unstarted)' => Flow'
  BY EarlyFlow, PTL
<1> QED
  BY <1>1 DEF Proper

\* What the flow depends on.
LEMMA SameFlow ==
    ASSUME Flow, UNCHANGED <<pc, todo, turn, step2, slots_left, count>>,
           \A s \in Semaphores \ {"main_sem"} : sem'[s] = sem[s]
    PROVE  Flow'
<1>1. /\ sem'["general_sem"] = sem["general_sem"]
      /\ \A k \in Colours : sem'[k] = sem[k] /\ sem'[Bridge(k)] = sem[Bridge(k)]
  BY ColourFacts
<1>2. ASSUME NEW k \in Colours
      PROVE  (Open(k)' <=> Open(k)) /\ (Departing(k)' <=> Departing(k))
  BY <1>1 DEF Open, Token, Raises, Departing, Crosses
<1>3. /\ \A k \in Colours : /\ Taking(k)' = Taking(k) /\ Waiting(k)' = Waiting(k)
                            /\ Uncounted(k)' = Uncounted(k)
                            /\ AllPassed(k)' <=> AllPassed(k)
                            /\ Coming(k)' <=> Coming(k)
                            /\ LastOnes(k)' <=> LastOnes(k)
      /\ \A d \in Cars : HandsOver(d)' <=> HandsOver(d)
  BY DEF Taking, Waiting, Uncounted, AllPassed, Coming, LastOnes, HandsOver
<1>4. ASSUME NEW k \in Colours PROVE Flows(k)'
  <2>1. Live(k) /\ Useful(k) /\ Exact(k) /\ Room(k) /\ Emptying(k) /\ Batch(k)
    BY DEF Flow, Flows
  <2>2. Live(k)' /\ Useful(k)'
    BY <1>2, <1>3, <2>1 DEF Live, Useful
  <2>3. Exact(k)' /\ Room(k)'
    BY <1>2, <1>3, <2>1 DEF Exact, Room
  <2>4. Emptying(k)' /\ Batch(k)'
    BY <1>1, <1>2, <1>3, <2>1 DEF Emptying, Batch, Full, Releasing
  <2> QED
    BY <2>2, <2>3, <2>4 DEF Flows
<1>5. ASSUME NEW d \in Cars PROVE Follows(d)'
  <2>1. Called(d) /\ Reset(d) /\ pc[d] # "full" /\ Other(Colour(d)) \in Colours
    BY ColourFacts DEF Flow, Follows
  <2> QED
    BY <1>1, <1>2, <1>3, <2>1 DEF Follows, Called, Calls, Reset
<1>6. Fresh'
  BY DEF Flow, Fresh
<1> QED
  BY <1>4, <1>5, <1>6 DEF Flow

-----------------------------------------------------------------------------
(* The steps of the cars. *)

\* The cars to be counted after a move.
LEMMA MovesUncounted ==
    ASSUME CarTypes, NEW c \in Cars, NEW q, NEW list, Moves(c, q, list), NEW k \in Colours
    PROVE  LET n == Cardinality(Uncounted(k)) IN
           /\ n \in Nat /\ n' \in Nat
           /\ Colour(c) # k \/ (pc[c] \in UncountedAt <=> q \in UncountedAt) => n' = n
           /\ Colour(c) = k /\ pc[c] \in UncountedAt /\ q \notin UncountedAt => n' = n - 1
<1>1. /\ pc'[c] = q
      /\ \A d \in Cars : d # c => pc'[d] = pc[d]
      /\ Team(k) \subseteq Cars
      /\ c \in Team(k) <=> Colour(c) = k
  BY MovesFacts, ColourFacts
<1>2. Uncounted(k)' = IF Colour(c) = k /\ q \in UncountedAt
                      THEN Uncounted(k) \cup {c} ELSE Uncounted(k) \ {c}
  BY <1>1 DEF Uncounted
<1>3. c \in Uncounted(k) <=> Colour(c) = k /\ pc[c] \in UncountedAt
  BY <1>1 DEF Uncounted
<1>4. IsFiniteSet(Uncounted(k)) /\ Cardinality(Uncounted(k)) \in Nat
  <2>1. Uncounted(k) \subseteq Cars
    BY <1>1 DEF Uncounted
  <2> QED
    BY <2>1, SetFacts, FS_Subset, FS_CardinalityType
<1>5. LET n == Cardinality(Uncounted(k)) IN
      /\ n' \in Nat
      /\ (c \in Uncounted(k) <=> (Colour(c) = k /\ q \in UncountedAt)) => n' = n
      /\ c \in Uncounted(k) /\ ~(Colour(c) = k /\ q \in UncountedAt) => n' = n - 1
  BY <1>2, <1>4, SetMoves
<1> QED
  BY <1>3, <1>4, <1>5

\* The car stays with those that have the same part in the flow.
SamePart(c, q) ==
    LET p == pc[c] IN
    \/ /\ {p, q} \subseteq Early \cup (HolderAt \ TakenAt)
       /\ p \in HolderAt <=> q \in HolderAt
       /\ q \in Early \cup DecidingAt => p \in Early \cup DecidingAt
       /\ q # "full"
       /\ q \in {"ceded", "gated", "sent"} => turn # TurnOf(Colour(c))
    \/ /\ {p, q} \subseteq {"pass", "passing", "count", "counting"}
       /\ p \in PassedAt => q \in PassedAt
    \/ /\ {p, q} \subseteq {"passAlone", "passingAlone", "settle"}
       /\ p \in PassedAt => q \in PassedAt
    \/ {p, q} \subseteq GoneAt
    \/ p = "hand" /\ turn = TurnOf(Colour(c)) /\ q = "stop"

LEMMA SamePartFlow ==
    ASSUME Good, Flow, NEW c \in Cars, NEW q, NEW list, Moves(c, q, list), SamePart(c, q),
           todo[c] = <<>>, list \in {<<>>, <<"main_sem">>},
           UNCHANGED <<turn, step2, slots_left, count>>,
           \A s \in Semaphores \ {"main_sem"} : sem'[s] = sem[s]
    PROVE  Flow'
<1> DEFINE p == pc[c]
           k == Colour(c)
<1>1. k \in Colours /\ CarTypes /\ p \in Places
  BY ColourFacts DEF Good, Types, CarTypes
<1>2. /\ pc'[c] = q /\ todo'[c] = list
      /\ \A d \in Cars : d # c => pc'[d] = pc[d]
      /\ \A d \in Cars : d # c => todo'[d] = todo[d]
  BY <1>1, MovesFacts
<1>3. /\ p \in UnpassedAt \cup CountedAt <=> q \in UnpassedAt \cup CountedAt
      /\ p \in TakenAt \cup {"on"} <=> q \in TakenAt \cup {"on"}
      /\ p \in UncountedAt <=> q \in UncountedAt
      /\ p \in TakenAt <=> q \in TakenAt
      /\ p # "on" /\ q # "on" /\ q # "alone" /\ q # "full"
      /\ q \notin SettlingAt \cup {"hand"} /\ p \notin SettlingAt
      /\ p \in HolderAt <=> q \in HolderAt
      /\ p \in PassedAt => q \in PassedAt
      /\ q \in PassedAt => p \in PassedAt \/ q \in CountedAt
      /\ p \in Early \cup (HolderAt \ TakenAt) => q \in Early \cup (HolderAt \ TakenAt)
      /\ p \in PassedAt \cup UnpassedAt \cup {"on"} => q \in PassedAt \cup UnpassedAt \cup {"on"}
      /\ q \in Early \cup DecidingAt => p \in Early \cup DecidingAt
      /\ q \in {"ceded", "gated", "sent"} => turn # TurnOf(k)
      /\ p = "hand" => turn = TurnOf(k)
      /\ q \in UnpassedAt => p \in UnpassedAt
  BY DEF SamePart, Early, DecidingAt, HolderAt, GateAt, SlotsAt, TakenAt, UnpassedAt,
    CountedAt, SettlingAt, GoneAt, PassedAt, UncountedAt
<1>4. list # <<>> => FinalOf(list) = "main_sem"
  <2>1. FinalOf(<<"main_sem">>) = "main_sem"
    BY ColourFacts, ListFacts
  <2> QED
    BY <2>1
<1>5. /\ sem'["general_sem"] = sem["general_sem"]
      /\ \A j \in Colours : sem'[j] = sem[j] /\ sem'[Bridge(j)] = sem[Bridge(j)]
  BY ColourFacts
<1>6. \A j \in Colours : Open(j)' <=> Open(j)
  <2>1. ASSUME NEW j \in Colours, NEW d \in Cars PROVE Token(d, j)' <=> Token(d, j)
    <3>1. j # "main_sem"
      BY ColourFacts
    <3>2. Token(c, j)' <=> Token(c, j)
      BY <1>1, <1>3, <1>4, <3>1, MovesTokens DEF Token, Raises
    <3> QED
      BY <1>1, <3>2, MovesTokens
  <2> QED
    BY <1>5, <2>1 DEF Open
<1>7. \A d \in Cars : Crosses(d)' <=> Crosses(d)
  BY <1>1, <1>3, MovesSame DEF Crosses
<1>8. \A j \in Colours : Departing(j)' <=> Departing(j)
  BY <1>5, <1>7 DEF Departing
<1>9. \A d \in Cars : HandsOver(d)' <=> HandsOver(d)
  BY <1>2, <1>3 DEF HandsOver
<1>10. \A j \in Colours : /\ Cardinality(Waiting(j))' = Cardinality(Waiting(j))
                          /\ Cardinality(Taking(j))' = Cardinality(Taking(j))
                          /\ Cardinality(Uncounted(j))' = Cardinality(Uncounted(j))
  BY <1>1, <1>3, MovesSets, MovesUncounted
<1>11. \A j \in Colours : /\ AllPassed(j) => AllPassed(j)'
                          /\ AllPassed(j)' => AllPassed(j) \/ Departing(j)'
                          /\ Coming(j) => Coming(j)'
                          /\ LastOnes(j) => LastOnes(j)'
                          /\ (\A d \in Cars : Colour(d) = j => pc'[d] \notin TakenAt) =>
                               \A d \in Cars : Colour(d) = j => pc[d] \notin TakenAt
  <2>1. q \in PassedAt => p \in PassedAt \/ Crosses(c)'
    BY <1>2, <1>3 DEF Crosses
  <2>2. \A j \in Colours : AllPassed(j)' => AllPassed(j) \/ Departing(j)'
    BY <1>2, <2>1 DEF AllPassed, Departing
  <2> QED
    BY <1>2, <1>3, <2>2 DEF AllPassed, Coming, LastOnes
<1>12. \A d \in Cars : \A j \in Colours : Releasing(d, j) => Releasing(d, j)'
  BY <1>2, <1>5, <1>10 DEF Releasing
<1>13. ASSUME NEW j \in Colours PROVE Flows(j)'
  <2>1. Live(j) /\ Useful(j) /\ Exact(j) /\ Room(j) /\ Emptying(j) /\ Batch(j)
    BY DEF Flow, Flows
  <2>2. Live(j)'
    BY <1>6, <1>8, <1>9, <2>1 DEF Live
  <2>3. Useful(j)'
    BY <1>8, <1>9, <1>11, <2>1 DEF Useful
  <2>4. Exact(j)' /\ Room(j)'
    BY <1>6, <1>10, <1>11, <2>1 DEF Exact, Room
  <2>5. Emptying(j)'
    BY <1>5, <1>8, <1>10, <1>12, <2>1 DEF Emptying
  <2>6. Batch(j)'
    BY <1>8, <1>10, <1>11, <2>1 DEF Batch, Full
  <2> QED
    BY <2>2, <2>3, <2>4, <2>5, <2>6 DEF Flows
<1>14. ASSUME NEW d \in Cars PROVE Follows(d)'
  <2>1. Called(d) /\ Reset(d) /\ pc[d] # "full"
    BY DEF Flow, Follows
  <2>2. \A e \in Cars : Calls(e) => Calls(e)'
    BY <1>2 DEF Calls
  <2>3. Called(d)'
    BY <1>2, <1>3, <1>5, <1>9, <2>1, <2>2 DEF Called
  <2>4. Reset(d)'
    <3>1. Other(Colour(d)) \in Colours
      BY ColourFacts
    <3>2. d = c => pc'[d] \notin {"alone", "toss", "keep", "hand"}
      BY <1>2, <1>3 DEF SettlingAt
    <3> QED
      BY <1>2, <1>8, <2>1, <3>1, <3>2 DEF Reset
  <2> QED
    BY <1>2, <1>3, <2>1, <2>3, <2>4 DEF Follows
<1>15. Fresh'
  BY <1>2, <1>3 DEF Flow, Fresh
<1> QED
  BY <1>13, <1>14, <1>15 DEF Flow

\* The steps of that kind.
LEMMA SamePartStep ==
    ASSUME Good, Flow, NEW c \in Cars,
           \/ First(c) \/ SetStep(c) \/ Compare(c) \/ Gate(c) \/ Loop(c)
           \/ LoadLeft(c) \/ StoreLeft(c) \/ LoadCount(c) \/ LoadStop(c) \/ StoreStop(c) \/ Last(c)
    PROVE  Flow'
<1>1. /\ UNCHANGED <<sem, turn, step2, slots_left, count>>
  BY DEF First, SetStep, Compare, Gate, Loop, LoadLeft, StoreLeft, LoadCount, LoadStop,
    StoreStop, Last, GoRaising, own, turnVars, bridgeVars
<1>2. CASE Last(c)
  <2>1. PICK list \in {<<>>, <<"main_sem">>} : Moves(c, "done", list)
    BY <1>2 DEF Last, GoRaising, GoTo, Moves
  <2>2. pc[c] = "last" /\ todo[c] = <<>>
    BY <1>2 DEF Last, At
  <2>3. SamePart(c, "done")
    BY <2>2 DEF SamePart, GoneAt
  <2> QED
    BY <1>1, <2>1, <2>2, <2>3, SamePartFlow
<1>3. CASE ~Last(c)
  <2>1. PICK p, q :
          /\ At(c, p) /\ GoTo(c, q) /\ todo' = todo
          /\ \/ p = "first" /\ q \in {"setStep", "gate"}
             \/ p = "setStep" /\ q = "decide"
             \/ p = "compare" /\ q \in {"gate", "cede"}
             \/ p = "gate" /\ q \in {"loop", "gated"} /\ (q = "gated" => ~MyTurn(c))
             \/ p = "loop" /\ q \in {"slots", "sent"} /\ (q = "sent" => ~MyTurn(c))
             \/ p = "pass" /\ q = "passing"
             \/ p = "passAlone" /\ q = "passingAlone"
             \/ p = "passing" /\ q = "count"
             \/ p = "passingAlone" /\ q = "settle"
             \/ p = "count" /\ q = "counting"
             \/ p = "stop" /\ q = "stopping"
             \/ p = "stopping" /\ q = "last"
    <3>1. CASE First(c) \/ SetStep(c) \/ Compare(c) \/ Gate(c) \/ Loop(c)
      <4>1. PICK p, q :
              /\ At(c, p) /\ GoTo(c, q)
              /\ \/ p = "first" /\ q \in {"setStep", "gate"}
                 \/ p = "setStep" /\ q = "decide"
                 \/ p = "compare" /\ q \in {"gate", "cede"}
                 \/ p = "gate" /\ q \in {"loop", "gated"} /\ (q = "gated" => ~MyTurn(c))
                 \/ p = "loop" /\ q \in {"slots", "sent"} /\ (q = "sent" => ~MyTurn(c))
        <5>1. CASE First(c)
          BY <5>1 DEF First
        <5>2. CASE SetStep(c)
          BY <5>2 DEF SetStep
        <5>3. CASE Compare(c)
          BY <5>3 DEF Compare
        <5>4. CASE Gate(c)
          BY <5>4 DEF Gate
        <5>5. CASE Loop(c)
          BY <5>5 DEF Loop
        <5> QED
          BY <3>1, <5>1, <5>2, <5>3, <5>4, <5>5
      <4>2. todo' = todo
        BY <3>1 DEF First, SetStep, Compare, Gate, Loop, own
      <4> QED
        BY <4>1, <4>2
    <3>2. CASE LoadLeft(c) \/ StoreLeft(c)
      BY <3>2 DEF LoadLeft, StoreLeft, own
    <3>3. CASE LoadCount(c) \/ LoadStop(c) \/ StoreStop(c)
      BY <3>3 DEF LoadCount, LoadStop, StoreStop, own
    <3> QED
      BY <1>3, <3>1, <3>2, <3>3
  <2>2. Moves(c, q, <<>>) /\ pc[c] = p /\ todo[c] = <<>>
    BY <2>1, GoToMoves
  <2>3. SamePart(c, q)
    BY <2>1, <2>2 DEF SamePart, MyTurn, Early, DecidingAt, HolderAt, GateAt, SlotsAt, TakenAt,
      PassedAt, CountedAt, SettlingAt, GoneAt
  <2> QED
    BY <1>1, <2>2, <2>3, SamePartFlow
<1> QED
  BY <1>2, <1>3

\* main creates a car.
LEMMA CreateFlow ==
    ASSUME Good, Flow, NEW c \in Cars, Create(c)
    PROVE  Flow'
<1>1. /\ pc[c] = "none" /\ todo[c] = <<>> /\ todo' = todo
      /\ UNCHANGED <<sem, turn, step2, slots_left, count>>
  BY DEF Create, Uncreated, own, turnVars, Good, Types, CarTypes, ShapeOf
<1>2. Moves(c, "arrive", <<>>)
  BY <1>1 DEF Create, GoTo, Moves, Good, Types, CarTypes
<1>3. SamePart(c, "arrive")
  BY <1>1 DEF SamePart, Early, HolderAt, DecidingAt, GateAt, SlotsAt, TakenAt
<1> QED
  BY <1>1, <1>2, <1>3, SamePartFlow

\* The first turn is tossed, or ceded to the other colour.
LEMMA DecideFlow ==
    ASSUME Good, Proper, Flow, NEW c \in Cars, Decide(c) \/ Cede(c)
    PROVE  Flow'
<1>1. PICK q, list : /\ Moves(c, q, list) /\ todo[c] = <<>>
                     /\ \/ pc[c] = "decide" /\ q = "compare" /\ list = <<>>
                        \/ /\ pc[c] = "cede" /\ q = "ceded" /\ list = <<"wait_sem">>
                           /\ turn' = TurnOf(Other(Colour(c)))
  <2>1. CASE Decide(c)
    BY <2>1, GoToMoves DEF Decide, own
  <2>2. CASE Cede(c)
    BY <2>2 DEF Cede, GoRaising, GoTo, Moves, At
  <2> QED
    BY <2>1, <2>2
<1>2. UNCHANGED <<sem, step2, slots_left, count>>
  BY DEF Decide, Cede, GoRaising, own, bridgeVars
<1>3. CarTypes /\ pc[c] \in DecidingAt
  BY <1>1 DEF Good, Types, DecidingAt
<1>4. /\ pc'[c] = q /\ todo'[c] = list
      /\ \A d \in Cars : d # c => pc'[d] = pc[d]
      /\ \A d \in Cars : d # c => todo'[d] = todo[d]
  BY <1>1, <1>3, MovesFacts
<1>5. \A d \in Cars : (d # c => pc[d] \in Early) /\ pc[d] \in Early \cup DecidingAt
  BY <1>3 DEF Good, Started
<1>6. count = 0 /\ slots_left = 0 /\ step2 = 0
  BY <1>5 DEF Flow, Fresh, Good, Started
<1>7. /\ \A d \in Cars : pc'[d] \in Early \cup DecidingAt \cup {"ceded"}
      /\ \A d \in Cars : pc'[d] = "ceded" => turn' # TurnOf(Colour(d))
  BY <1>1, <1>4, <1>5, ColourFacts DEF Early, DecidingAt
<1>8. \A d \in Cars : ~Crosses(d) /\ ~HandsOver(d) /\ pc[d] # "on"
  BY <1>5 DEF Crosses, HandsOver, Early, DecidingAt, UnpassedAt, CountedAt, SettlingAt
<1>9. ASSUME NEW k \in Colours PROVE Open(k)' /\ sem'[Bridge(k)] = 0
  <2>1. sem[Bridge(k)] = 0
    <3>1. Waiting(k) = {} /\ sem[Bridge(k)] \in Nat
      BY <1>8, ColourFacts DEF Waiting, Good, Types
    <3>2. Cardinality(Waiting(k)) = 0
      BY <3>1, SetFacts
    <3>3. Released(k)
      BY <1>3 DEF Good, Over, Batches, DecidingAt, PassedAt, CountedAt, SettlingAt, GoneAt
    <3> QED
      BY <3>1, <3>2, <3>3 DEF Released
  <2>2. Open(k)
    BY <1>6, <1>8, <2>1 DEF Flow, Flows, Live, Departing
  <2>3. \A d \in Cars : Token(d, k) => Token(d, k)'
    <3>1. Token(c, k) => Token(c, k)'
      BY <1>1, <1>3, MovesTokens DEF Token, Raises, HolderAt, DecidingAt, GateAt
    <3> QED
      BY <1>1, <1>3, <3>1, MovesTokens
  <2> QED
    BY <1>2, <2>1, <2>2, <2>3 DEF Open
<1>10. Unstarted'
  BY <1>2, <1>6, <1>7, <1>9 DEF Unstarted
<1> QED
  BY <1>10, EarlyFlowNext

\* The car that drives onto the bridge is the only one of its colour with the token.
LEMMA EntererFacts ==
    ASSUME Good, NEW c \in Cars, pc[c] \in SlotsAt \cup TakenAt
    PROVE  LET k == Colour(c) IN
           /\ Batches /\ turn = TurnOf(k) /\ Open(k) /\ ~Departing(k) /\ sem[Bridge(k)] = 0
           /\ \A d \in Cars : d # c => ~Token(d, k)
           /\ \A d \in Cars : pc[d] \in TakenAt => d = c
           /\ \A d \in Cars : Colour(d) = k => ~Crosses(d)
<1> DEFINE k == Colour(c)
<1>1. Batches
  BY DEF Good, Over, SlotsAt, TakenAt, PassedAt, CountedAt, SettlingAt, GoneAt
<1>2. pc[c] \in HolderAt /\ k \in Colours
  BY ColourFacts DEF HolderAt
<1>3. turn = TurnOf(k) /\ Open(k) /\ Token(c, k)
  BY <1>1, <1>2 DEF Batches, OwnTurn, Within, Open, Token
<1>4. /\ sem[Bridge(k)] = 0
      /\ \A d \in Cars : d # c => ~Token(d, k)
      /\ \A d \in Cars : Colour(d) = k => ~Crosses(d)
  BY <1>1, <1>2, HolderFacts
<1>5. ASSUME NEW d \in Cars, pc[d] \in TakenAt PROVE d = c
  <2>1. turn = TurnOf(Colour(d))
    BY <1>1, <1>5 DEF Batches, OwnTurn, Within
  <2>2. Colour(d) = k
    BY <1>2, <1>3, <2>1, ColourFacts
  <2>3. Token(d, k)
    BY <1>5, <2>2 DEF Token, HolderAt
  <2> QED
    BY <1>4, <2>3
<1> QED
  BY <1>1, <1>3, <1>4, <1>5 DEF Departing

\* It takes a slot, or waits on the bridge and passes the token on.
LEMMA EnterFlow ==
    ASSUME Good, Flow, Good', Batches', NEW c \in Cars, NEW q, NEW list, Moves(c, q, list),
           todo[c] = <<>>, pc[c] \in SlotsAt \cup TakenAt,
           \/ pc[c] \in SlotsAt /\ q \in TakenAt /\ list = <<>>
           \/ pc[c] \in TakenAt /\ q = "on" /\ list = <<Colour(c)>>,
           UNCHANGED <<sem, turn, step2, count>>,
           Exact(Colour(c))', Room(Colour(c))', q = "alone" => slots_left' = 1
    PROVE  Flow'
<1> DEFINE k == Colour(c)
<1>1. /\ k \in Colours /\ k \in Semaphores /\ CarTypes /\ Batches /\ turn = TurnOf(k)
      /\ Open(k) /\ ~Departing(k)
      /\ \A d \in Cars : pc[d] \in TakenAt => d = c
  BY ColourFacts, EntererFacts DEF Good, Types
<1>2. /\ pc'[c] = q /\ todo'[c] = list
      /\ \A d \in Cars : d # c => pc'[d] = pc[d]
      /\ \A d \in Cars : d # c => todo'[d] = todo[d]
  BY <1>1, MovesFacts
<1>3. /\ {pc[c], q} \cap (UnpassedAt \cup CountedAt \cup SettlingAt \cup PassedAt) = {}
      /\ {pc[c], q} \cap (Early \cup DecidingAt \cup {"hand", "ceded", "gated", "sent"}) = {}
      /\ pc[c] \in HolderAt /\ q # "full"
  BY DEF Early, DecidingAt, HolderAt, GateAt, SlotsAt, TakenAt, UnpassedAt, CountedAt,
    SettlingAt, GoneAt, PassedAt
<1>4. \A j \in Colours : Open(j)' <=> Open(j)
  <2>1. ASSUME NEW j \in Colours, NEW d \in Cars PROVE Token(d, j)' <=> Token(d, j)
    <3>1. Token(c, j) <=> j = k
      BY <1>3 DEF Token, Raises
    <3>2. list # <<>> => FinalOf(list) = k
      BY <1>1, ListFacts
    <3>3. q \in HolderAt \/ (list # <<>> /\ FinalOf(list) = k)
      BY <1>1, ListFacts DEF HolderAt
    <3>4. Token(c, j)' <=> j = k
      BY <1>1, <3>2, <3>3, MovesTokens
    <3> QED
      BY <1>1, <3>1, <3>4, MovesTokens
  <2> QED
    BY <2>1 DEF Open
<1>5. \A d \in Cars : Crosses(d)' <=> Crosses(d)
  BY <1>1, <1>3, MovesSame DEF Crosses
<1>6. \A j \in Colours : Departing(j)' <=> Departing(j)
  BY <1>5 DEF Departing
<1>7. \A d \in Cars : HandsOver(d)' <=> HandsOver(d)
  BY <1>2, <1>3 DEF HandsOver
<1>8. \A j \in Colours : Live(j)'
  BY <1>4, <1>6, <1>7 DEF Flow, Flows, Live
<1>9. Flows(k)'
  <2>1. ~AllPassed(k)'
    BY <1>2, <1>3 DEF AllPassed
  <2> QED
    BY <1>1, <1>6, <1>8, <2>1 DEF Flows, Useful, Emptying, Batch
<1>10. ASSUME NEW j \in Colours PROVE Flows(j)'
  <2>1. j # k => turn' # TurnOf(j)
    BY <1>1, ColourFacts
  <2> QED
    BY <1>8, <1>9, <2>1, OtherFlows
<1>11. ASSUME NEW d \in Cars PROVE Follows(d)'
  <2>1. Called(d) /\ Reset(d) /\ pc[d] # "full"
    BY DEF Flow, Follows
  <2>2. \A e \in Cars : Calls(e) => Calls(e)'
    BY <1>2 DEF Calls
  <2>3. Called(d)'
    BY <1>2, <1>3, <1>7, <2>1, <2>2 DEF Called
  <2>4. Reset(d)'
    <3>1. Other(Colour(d)) \in Colours
      BY ColourFacts
    <3>2. pc'[d] = "alone" => slots_left' = 1
      BY <1>1, <1>2 DEF TakenAt
    <3>3. d = c => pc'[d] \notin {"toss", "keep", "hand"}
      BY <1>2, <1>3 DEF SettlingAt
    <3> QED
      BY <1>2, <1>6, <2>1, <3>1, <3>2, <3>3 DEF Reset
  <2> QED
    BY <1>2, <1>3, <2>1, <2>3, <2>4 DEF Follows
<1>12. Fresh'
  BY <1>2, <1>3 DEF Fresh
<1> QED
  BY <1>10, <1>11, <1>12 DEF Flow

\* There is a slot for the car that looks for one.
LEMMA TakeSlotFlow ==
    ASSUME Good, Flow, Good', Batches', NEW c \in Cars, TakeSlot(c)
    PROVE  Flow'
<1> DEFINE k == Colour(c)
<1>1. pc[c] = "slots" /\ todo[c] = <<>> /\ pc[c] \in SlotsAt /\ k \in Colours
        /\ slots_left \in 0..slots /\ slots \in Nat \ {0}
  BY ColourFacts, SemBridgeAssumption DEF TakeSlot, At, SlotsAt, Good, Types
<1>2. /\ turn = TurnOf(k) /\ Open(k) /\ Batches
      /\ \A d \in Cars : pc[d] \in TakenAt => d = c
  BY <1>1, EntererFacts
<1>3. slots_left < slots /\ slots_left = Cardinality(Taking(k)) /\ count = 0
  BY <1>1, <1>2 DEF Flow, Flows, Room, Exact, TakenAt
<1>4. PICK q \in TakenAt : Moves(c, q, <<>>) /\ (q = "alone" => slots_left = 0)
  <2>1. PICK q \in TakenAt : GoTo(c, q) /\ At(c, "slots") /\ (q = "alone" => slots_left = 0)
    BY <1>1, <1>3 DEF TakeSlot, TakenAt
  <2> QED
    BY <2>1, GoToMoves DEF TakeSlot, own
<1>5. /\ slots_left' = slots_left + 1
      /\ UNCHANGED <<sem, turn, step2, count>>
  BY <1>1, <1>3 DEF TakeSlot, own, turnVars
<1>6. Exact(k)'
  <2>1. Cardinality(Taking(k))' = Cardinality(Taking(k)) + 1
    BY <1>1, <1>4, MovesSets DEF TakenAt, Good, Types
  <2> QED
    BY <1>3, <1>5, <2>1 DEF Exact
<1>7. Room(k)'
  <2>1. pc'[c] \in TakenAt
    BY <1>4, MovesFacts DEF Good, Types
  <2> QED
    BY <2>1 DEF Room
<1>8. q = "alone" => slots_left' = 1
  BY <1>1, <1>4, <1>5
<1> QED
  BY <1>1, <1>4, <1>5, <1>6, <1>7, <1>8, EnterFlow

\* The cars that have taken a slot, and those that have not passed.
LEMMA TakingFacts ==
    ASSUME Good, NEW c \in Cars, pc[c] \in TakenAt
    PROVE  LET k == Colour(c)
               w == Cardinality(Waiting(k))
               t == Cardinality(Taking(k)) IN
           /\ t = w + 1 /\ w \in Nat /\ t <= left[k] /\ left[k] \in Nat
           /\ t < left[k] => Coming(k)
           /\ t = left[k] /\ ~Creating =>
                \A d \in Cars : Colour(d) = k => pc[d] \in PassedAt \cup {pc[c], "on"}
<1> DEFINE k == Colour(c)
<1>1. k \in Colours /\ \A d \in Cars : d \in Team(k) <=> Colour(d) = k
  BY ColourFacts
<1>2. /\ \A d \in Cars : pc[d] \in TakenAt => d = c
      /\ \A d \in Cars : Colour(d) = k => ~Crosses(d)
  BY EntererFacts
<1>3. Taking(k) = Waiting(k) \cup {c} /\ c \notin Waiting(k)
  BY <1>1, <1>2, ColourFacts DEF Taking, Waiting, TakenAt
<1>4. Cardinality(Taking(k)) = Cardinality(Waiting(k)) + 1 /\ Cardinality(Waiting(k)) \in Nat
  BY <1>1, <1>3, SetFacts, FS_AddElement
<1>5. Taking(k) \subseteq Unpassed(k) /\ left[k] = Cardinality(Unpassed(k))
        /\ IsFiniteSet(Unpassed(k)) /\ Cardinality(Unpassed(k)) \in Nat
  BY <1>1, SetFacts DEF Taking, Unpassed, TakenAt, PassedAt, CountedAt, SettlingAt, GoneAt,
    Good, Counting
<1>6. /\ Cardinality(Taking(k)) <= Cardinality(Unpassed(k))
      /\ Cardinality(Taking(k)) = Cardinality(Unpassed(k)) => Taking(k) = Unpassed(k)
  BY <1>5, FS_Subset
<1>7. ASSUME Taking(k) # Unpassed(k) PROVE Coming(k)
  <2>1. PICK d \in Unpassed(k) : d \notin Taking(k)
    BY <1>5, <1>7
  <2>2. d \in Cars /\ Colour(d) = k /\ pc[d] \notin PassedAt \cup TakenAt \cup {"on"}
    BY <1>1, <2>1, ColourFacts DEF Unpassed, Taking
  <2>3. pc[d] \in Places /\ pc[d] \notin UnpassedAt
    BY <1>2, <2>2 DEF Crosses, Good, Types, CarTypes
  <2>4. pc[d] \in Early \cup (HolderAt \ TakenAt)
    BY <2>2, <2>3 DEF Places
  <2> QED
    BY <2>2, <2>4 DEF Coming
<1>8. ASSUME Taking(k) = Unpassed(k), ~Creating, NEW d \in Cars, Colour(d) = k
      PROVE  pc[d] \in PassedAt \cup {pc[c], "on"}
  <2>1. d \in Team(k) /\ pc[d] # "none"
    BY <1>1, <1>8 DEF Good, Counting
  <2> QED
    BY <1>2, <1>8, <2>1 DEF Taking, Unpassed
<1>9. Cardinality(Taking(k)) < left[k] => Taking(k) # Unpassed(k)
  BY <1>5
<1> QED
  BY <1>4, <1>5, <1>6, <1>7, <1>8, <1>9

\* It waits, if the batch takes more cars and there are more.
LEMMA WaitFlow ==
    ASSUME Good, Flow, Good', Batches', NEW c \in Cars, pc[c] \in TakenAt, todo[c] = <<>>,
           Moves(c, "on", <<Colour(c)>>), slots_left < slots, slots_left < left[Colour(c)],
           UNCHANGED <<sem, turn, step2, slots_left, count>>
    PROVE  Flow'
<1> DEFINE k == Colour(c)
<1>1. k \in Colours /\ CarTypes /\ turn = TurnOf(k) /\ Open(k)
  BY ColourFacts, EntererFacts DEF Good, Types
<1>2. slots_left = Cardinality(Taking(k)) /\ count = 0
  BY <1>1 DEF Flow, Flows, Exact
<1>3. Coming(k)'
  <2>1. PICK d \in Cars : Colour(d) = k /\ pc[d] \in Early \cup (HolderAt \ TakenAt)
    BY <1>2, TakingFacts DEF Coming
  <2>2. d # c
    BY <2>1 DEF Early, TakenAt
  <2>3. pc'[d] = pc[d]
    BY <1>1, <2>2, MovesFacts
  <2> QED
    BY <2>1, <2>3 DEF Coming
<1>4. Exact(k)'
  <2>1. Cardinality(Taking(k))' = Cardinality(Taking(k))
    BY <1>1, MovesSets
  <2> QED
    BY <1>2, <2>1 DEF Exact
<1>5. Room(k)'
  BY <1>3 DEF Room
<1> QED
  BY <1>4, <1>5, EnterFlow

\* It completes the batch, which then leaves.
LEMMA LeaveFlow ==
    ASSUME Good, Flow, Good', Batches', NEW c \in Cars, NEW q, NEW list,
           pc[c] \in TakenAt, todo[c] = <<>>, Moves(c, q, list),
           q \in {"pass", "passAlone"}, list \in Seq(Semaphores), Len(list) = slots_left - 1,
           list # <<>> => FinalOf(list) = Bridge(Colour(c)),
           \/ q = "pass" /\ slots_left = slots
           \/ slots_left = left[Colour(c)] /\ ~Creating,
           UNCHANGED <<sem, turn, step2, slots_left, count>>
    PROVE  Flow'
<1> DEFINE k == Colour(c)
           o == Other(k)
           w == Cardinality(Waiting(k))
<1>1. /\ k \in Colours /\ o \in Colours /\ o # k /\ CarTypes /\ Batches /\ turn = TurnOf(k)
      /\ Open(k) /\ sem[Bridge(k)] = 0
      /\ \A d \in Cars : pc[d] \in TakenAt => d = c
      /\ \A d \in Cars : Colour(d) = k => ~Crosses(d)
      /\ \A j \in Colours : j = k \/ j = o
  BY ColourFacts, EntererFacts DEF Good, Types
<1>2. /\ pc'[c] = q /\ todo'[c] = list
      /\ \A d \in Cars : d # c => pc'[d] = pc[d]
      /\ \A d \in Cars : d # c => todo'[d] = todo[d]
  BY <1>1, MovesFacts
<1>3. /\ slots_left = Cardinality(Taking(k)) /\ count = 0
      /\ slots_left = w + 1 /\ w \in Nat /\ Len(list) = w
  <2>1. slots_left = Cardinality(Taking(k)) /\ count = 0
    BY <1>1 DEF Flow, Flows, Exact
  <2> QED
    BY <2>1, TakingFacts
<1>4. /\ q \in UnpassedAt /\ q \notin HolderAt \cup CountedAt \cup SettlingAt \cup PassedAt
      /\ q \notin Early \cup DecidingAt \cup TakenAt \cup {"hand", "on", "alone", "full", "keep"}
      /\ pc[c] \notin UnpassedAt \cup CountedAt \cup SettlingAt \cup PassedAt \cup {"hand", "on"}
  BY DEF Early, DecidingAt, HolderAt, GateAt, SlotsAt, TakenAt, UnpassedAt, CountedAt,
    SettlingAt, GoneAt, PassedAt
<1>5. Open(o)' <=> Open(o)
  <2>1. ~Token(c, o) /\ ~Token(c, o)'
    <3>1. Bridge(k) # o
      BY <1>1, ColourFacts
    <3> QED
      BY <1>1, <1>4, <3>1, MovesTokens DEF Token, Raises
  <2>2. \A d \in Cars : Token(d, o)' <=> Token(d, o)
    BY <1>1, <2>1, MovesTokens
  <2> QED
    BY <2>2 DEF Open
<1>6. /\ \A d \in Cars : d # c => (Crosses(d)' <=> Crosses(d))
      /\ Crosses(c)' /\ ~Crosses(c)
  BY <1>1, <1>4, MovesSame DEF Crosses
<1>7. /\ Departing(k)' /\ (Departing(o)' <=> Departing(o))
      /\ \A j \in Colours : Departing(j) => Departing(j)'
  BY <1>1, <1>6 DEF Departing
<1>8. ~Open(k)'
  BY <1>1, <1>7, DepartingNext DEF Leaving
<1>9. \A d \in Cars : HandsOver(d)' <=> HandsOver(d)
  BY <1>2, <1>4 DEF HandsOver
<1>10. Live(k)' /\ Live(o)'
  BY <1>1, <1>5, <1>7, <1>9 DEF Flow, Flows, Live
<1>11. Emptying(k)'
  <2>1. Cardinality(Waiting(k))' = w
    BY <1>1, <1>4, MovesSets
  <2>2. CASE list = <<>>
    BY <1>1, <1>3, <2>1, <2>2 DEF Emptying
  <2>3. CASE list # <<>>
    <3>1. Releasing(c, k)'
      BY <1>1, <1>2, <1>3, <1>4, <2>1, <2>3 DEF Releasing
    <3> QED
      BY <3>1 DEF Emptying
  <2> QED
    BY <2>2, <2>3
<1>12. Batch(k)'
  <2>1. CASE slots_left = left[k] /\ ~Creating
    <3>1. \A d \in Cars : Colour(d) = k => pc[d] \in PassedAt \cup {pc[c], "on"}
      BY <1>3, <2>1, TakingFacts
    <3>2. \A d \in Cars : Colour(d) = k /\ d # c => pc[d] \in PassedAt \cup {"on"}
      BY <1>1, <3>1
    <3> QED
      BY <1>2, <1>4, <3>2 DEF Batch, LastOnes
  <2>2. CASE q = "pass" /\ slots_left = slots
    <3>1. Uncounted(k)' = Waiting(k) \cup {c} /\ c \notin Waiting(k)
      <4>1. \A d \in Cars : Colour(d) = k /\ d # c => (pc[d] \in UncountedAt <=> pc[d] = "on")
        BY <1>1 DEF Crosses, UncountedAt, UnpassedAt, CountedAt
      <4>2. pc'[c] \in UncountedAt
        BY <1>2, <2>2 DEF UncountedAt
      <4> QED
        BY <1>1, <1>2, <1>4, <4>1, <4>2, ColourFacts DEF Uncounted, Waiting
    <3>2. Cardinality(Waiting(k) \cup {c}) = w + 1
      <4>1. IsFiniteSet(Waiting(k))
        BY <1>1, SetFacts
      <4> QED
        BY <3>1, <4>1, FS_AddElement
    <3> QED
      BY <1>3, <2>2, <3>1, <3>2, SemBridgeAssumption DEF Batch, Full
  <2> QED
    BY <2>1, <2>2
<1>13. Flows(k)'
  BY <1>7, <1>8, <1>10, <1>11, <1>12 DEF Flows, Useful, Exact, Room
<1>14. \A j \in Colours : Flows(j)'
  <2>1. turn' # TurnOf(o)
    BY <1>1, ColourFacts
  <2> QED
    BY <1>1, <1>10, <1>13, <2>1, OtherFlows
<1>15. ASSUME NEW d \in Cars PROVE Follows(d)'
  <2>1. Called(d) /\ Reset(d) /\ pc[d] # "full"
    BY DEF Flow, Follows
  <2>2. \A e \in Cars : Calls(e) => Calls(e)'
    BY <1>2 DEF Calls
  <2>3. Called(d)'
    BY <1>2, <1>9, <2>1, <2>2 DEF Called
  <2>4. Reset(d)'
    <3>1. Other(Colour(d)) \in Colours
      BY ColourFacts
    <3>2. pc'[d] # "alone"
      BY <1>1, <1>2, <1>4 DEF TakenAt
    <3>3. d = c => pc'[d] \notin {"toss", "keep", "hand"}
      BY <1>2
    <3> QED
      BY <1>2, <1>7, <2>1, <3>1, <3>2, <3>3 DEF Reset
  <2> QED
    BY <1>2, <1>4, <2>1, <2>3, <2>4 DEF Follows
<1>16. Fresh'
  BY <1>2, <1>4 DEF Fresh
<1> QED
  BY <1>3, <1>14, <1>15, <1>16 DEF Flow

LEMMA AloneFlow ==
    ASSUME Good, Proper, Flow, Good', Batches', NEW c \in Cars, Alone(c), ~raced'
    PROVE  Flow'
<1> DEFINE k == Colour(c)
<1>1. /\ pc[c] = "alone" /\ pc[c] \in TakenAt /\ todo[c] = <<>> /\ ~Creating /\ slots_left = 1
      /\ UNCHANGED <<sem, turn, step2, slots_left, count>>
  BY DEF Alone, GoRaising, turnVars, bridgeVars, At, Notes, TakenAt, Flow, Follows, Reset
<1>2. left[k] \in Nat /\ left[k] >= 1
  BY <1>1, LeftFacts, ColourFacts DEF TakenAt, PassedAt, CountedAt, SettlingAt, GoneAt
<1>3. CASE left[k] = 1
  <2>1. Moves(c, "passAlone", <<>>)
    BY <1>3 DEF Alone, GoRaising, GoTo, Moves
  <2>2. <<>> \in Seq(Semaphores) /\ Len(<<>>) = slots_left - 1
    BY <1>1, ListFacts
  <2> QED
    BY <1>1, <1>3, <2>1, <2>2, LeaveFlow
<1>4. CASE left[k] # 1
  <2>1. Moves(c, "on", <<k>>)
    BY <1>4 DEF Alone, GoRaising, GoTo, Moves
  <2>2. slots_left < left[k] /\ slots_left < slots
    BY <1>1, <1>2, <1>4, SemBridgeAssumption DEF Proper
  <2> QED
    BY <1>1, <2>1, <2>2, WaitFlow
<1> QED
  BY <1>3, <1>4

LEMMA AmongFlow ==
    ASSUME Good, Proper, Flow, Good', Batches', NEW c \in Cars, Among(c), ~raced'
    PROVE  Flow'
<1> DEFINE k == Colour(c)
<1>1. /\ pc[c] = "among" /\ pc[c] \in TakenAt /\ todo[c] = <<>> /\ ~Creating
      /\ k \in Colours /\ slots_left \in 0..slots /\ slots \in Nat
      /\ UNCHANGED <<sem, turn, step2, slots_left, count>>
  BY ColourFacts, SemBridgeAssumption
    DEF Among, GoRaising, turnVars, bridgeVars, At, Notes, TakenAt, Good, Types
<1>2. slots_left = Cardinality(Taking(k))
  BY <1>1, EntererFacts DEF Flow, Flows, Exact
<1>3. slots_left >= 1 /\ slots_left <= left[k] /\ left[k] \in Nat
  BY <1>1, <1>2, TakingFacts
<1>4. CASE Completes(k)
  <2>1. \E q \in {"pass", "passAlone"} :
          /\ Moves(c, q, Releases(k))
          /\ (q = "pass" /\ slots_left = slots) \/ slots_left = left[k]
    <3>1. CASE left[k] < slots
      BY <1>4, <3>1 DEF Among, GoRaising, GoTo, Moves, Completes
    <3>2. CASE ~(left[k] < slots)
      BY <1>4, <3>2 DEF Among, GoRaising, GoTo, Moves, Completes
    <3> QED
      BY <3>1, <3>2
  <2>2. /\ Releases(k) \in Seq(Semaphores) /\ Len(Releases(k)) = slots_left - 1
        /\ Releases(k) # <<>> => FinalOf(Releases(k)) = Bridge(k)
    <3>1. slots_left \in Nat
      BY <1>1
    <3> QED
      BY <1>1, <1>3, <3>1, ReleasesFacts
  <2> QED
    BY <1>1, <2>1, <2>2, LeaveFlow
<1>5. CASE ~Completes(k)
  <2>1. Moves(c, "on", <<k>>)
    BY <1>5 DEF Among, GoRaising, GoTo, Moves
  <2>2. slots_left < left[k] /\ slots_left < slots
    BY <1>1, <1>3, <1>5 DEF Completes
  <2> QED
    BY <1>1, <2>1, <2>2, WaitFlow
<1> QED
  BY <1>4, <1>5

-----------------------------------------------------------------------------
(* The settlement. *)

\* A car that is counted, or has been, leaves others that are not.
LEMMA CountedFlow ==
    ASSUME Good, Flow, Good', Batches', Batches, NEW c \in Cars, NEW q, Moves(c, q, <<>>),
           todo[c] = <<>>, pc[c] \in {"counting", "settle"}, q \in {"settle", "stop"},
           UNCHANGED <<sem, turn, step2, slots_left>>, count' \in Int,
           Departing(Colour(c))', Batch(Colour(c))'
    PROVE  Flow'
<1> DEFINE k == Colour(c)
           o == Other(k)
<1>1. /\ k \in Colours /\ o \in Colours /\ o # k /\ CarTypes /\ turn = TurnOf(k)
      /\ Departing(k) /\ turn # TurnOf(o)
      /\ \A j \in Colours : j = k \/ j = o
      /\ \A d \in Cars : pc[d] \notin SettlingAt
  <2>1. Crosses(c) /\ Within(c)
    BY DEF Crosses, Within, CountedAt
  <2> QED
    BY <2>1, ColourFacts DEF Batches, OwnTurn, Settled, Good, Types, Departing
<1>2. /\ pc'[c] = q /\ todo'[c] = <<>>
      /\ \A d \in Cars : d # c => pc'[d] = pc[d]
      /\ \A d \in Cars : todo'[d] = todo[d]
  BY <1>1, MovesFacts
<1>3. /\ q \in PassedAt /\ pc[c] \in PassedAt
      /\ {pc[c], q} \cap (HolderAt \cup Early \cup DecidingAt \cup UnpassedAt \cup TakenAt) = {}
      /\ {pc[c], q} \cap (SettlingAt \cup {"hand", "on", "alone", "full"}) = {}
  BY DEF Early, DecidingAt, HolderAt, GateAt, SlotsAt, TakenAt, UnpassedAt, CountedAt,
    SettlingAt, GoneAt, PassedAt
<1>4. \A j \in Colours : Open(j)' <=> Open(j)
  <2>1. \A j \in Colours : ~Token(c, j) /\ ~Token(c, j)'
    BY <1>1, <1>3, MovesTokens DEF Token, Raises
  <2>2. \A d \in Cars, j \in Colours : Token(d, j)' <=> Token(d, j)
    BY <1>1, <2>1, MovesTokens
  <2> QED
    BY <2>2 DEF Open
<1>5. \A j \in Colours : Departing(j) => Departing(j)'
  <2>1. \A d \in Cars : d # c => (Crosses(d)' <=> Crosses(d))
    BY <1>1, MovesSame
  <2>2. Departing(o) => Departing(o)'
    BY <1>1, <2>1 DEF Departing
  <2> QED
    BY <1>1, <2>2
<1>6. \A d \in Cars : HandsOver(d)' <=> HandsOver(d)
  BY <1>2, <1>3 DEF HandsOver
<1>7. \A j \in Colours : Live(j)'
  BY <1>4, <1>5, <1>6 DEF Flow, Flows, Live
<1>8. Emptying(k)'
  <2>1. Cardinality(Waiting(k))' = Cardinality(Waiting(k))
    BY <1>1, <1>3, MovesSets
  <2>2. \A d \in Cars : Releasing(d, k) => Releasing(d, k)'
    BY <1>2, <1>3, <2>1 DEF Releasing
  <2> QED
    BY <1>1, <2>1, <2>2 DEF Flow, Flows, Emptying
<1>9. Flows(k)'
  <2>1. ~Open(k)'
    BY <1>1, DepartingNext DEF Leaving
  <2> QED
    BY <1>1, <1>7, <1>8, <2>1 DEF Flows, Useful, Exact, Room
<1>10. \A j \in Colours : Flows(j)'
  BY <1>1, <1>7, <1>9, OtherFlows
<1>11. ASSUME NEW d \in Cars PROVE Follows(d)'
  <2>1. Called(d) /\ Reset(d) /\ pc[d] # "full"
    BY DEF Flow, Follows
  <2>2. Called(d)'
    BY <1>2, <1>6, <2>1 DEF Called, Calls
  <2>3. Reset(d)'
    <3>1. Other(Colour(d)) = k \/ turn = TurnOf(Colour(d))
      BY <1>1, ColourFacts
    <3>2. d = c => pc'[d] \notin {"alone", "toss", "keep", "hand"}
      BY <1>2
    <3> QED
      BY <1>1, <1>2, <2>1, <3>1, <3>2 DEF Reset, SettlingAt
  <2> QED
    BY <1>2, <1>3, <2>1, <2>2, <2>3 DEF Follows
<1>12. Fresh'
  BY <1>2, <1>3 DEF Fresh
<1> QED
  BY <1>10, <1>11, <1>12 DEF Flow

LEMMA StoreCountFlow ==
    ASSUME Good, Flow, Good', Batches', Batches, NEW c \in Cars, StoreCount(c), ~raced'
    PROVE  Flow'
<1> DEFINE k == Colour(c)
<1>1. /\ pc[c] = "counting" /\ todo[c] = <<>> /\ Moves(c, "settle", <<>>) /\ load[c] = count
      /\ UNCHANGED <<sem, turn, step2, slots_left>> /\ count' = load[c] + 1
  BY GoToMoves DEF StoreCount, Notes, At, own, turnVars
<1>2. /\ k \in Colours /\ CarTypes /\ count \in Int
  BY ColourFacts DEF Good, Types, Flow
<1>3. Crosses(c) /\ Crosses(c)' /\ Departing(k) /\ Departing(k)'
  <2>1. Crosses(c) /\ Crosses(c)'
    BY <1>1, <1>2, MovesSame DEF Crosses, CountedAt
  <2> QED
    BY <2>1 DEF Departing
<1>4. Batch(k)'
  <2>1. CASE Full(k)
    BY <1>1, <1>2, <2>1, MovesUncounted, SemBridgeAssumption DEF Batch, Full, UncountedAt
  <2>2. CASE LastOnes(k)
    <3>1. "settle" \in PassedAt
      BY DEF PassedAt, CountedAt
    <3> QED
      BY <1>1, <1>2, <2>2, <3>1, MovesFacts DEF Batch, LastOnes
  <2> QED
    BY <1>2, <1>3, <2>1, <2>2 DEF Flow, Flows, Batch
<1> QED
  BY <1>1, <1>2, <1>3, <1>4, CountedFlow

\* red_left and blue_left are up as long as there are cars of that colour.
LEMMA UnpassedFacts == Good => \A k \in Colours : left[k] # 0 => ~AllPassed(k)
<1> SUFFICES ASSUME Good, NEW k \in Colours, AllPassed(k) PROVE left[k] = 0
  OBVIOUS
<1>1. left[k] = Cardinality(Unpassed(k)) /\ (Unpassed(k) = {} => left[k] = 0)
  BY SetFacts DEF Good, Counting
<1>2. Unpassed(k) = {}
  BY ColourFacts DEF AllPassed, Unpassed
<1> QED
  BY <1>1, <1>2

\* What a car that settles leaves as it is.
LEMMA SettlesViews ==
    ASSUME Types, NEW c \in Cars, NEW q, NEW list, SettlesTo(c, q, list), UNCHANGED sem,
           \A d \in Cars : d # c => ~Settles(d)
    PROVE  /\ pc'[c] = q /\ todo'[c] = list
           /\ \A d \in Cars : d # c => pc'[d] = pc[d] /\ todo'[d] = todo[d]
           /\ \A d \in Cars : d # c => ~HandsOver(d) /\ ~HandsOver(d)'
           /\ \A j \in Colours : Open(j)' <=> Open(j) \/ Gives(list, j)
           /\ \A d \in Cars : d # c => (Crosses(d)' <=> Crosses(d))
           /\ \A j \in Colours : AllPassed(j)' <=> AllPassed(j)
           /\ q \notin CountedAt \cup UnpassedAt \cup TakenAt \cup HolderAt
           /\ q \notin Early \cup DecidingAt
           /\ q \notin {"on", "ceded", "gated", "sent", "full", "alone"} /\ q \in PassedAt
<1>1. CarTypes /\ Moves(c, q, list) /\ todo[c] = <<>>
  BY DEF Types, SettlesTo
<1>2. /\ pc'[c] = q /\ todo'[c] = list
      /\ \A d \in Cars : d # c => pc'[d] = pc[d] /\ todo'[d] = todo[d]
  BY <1>1, MovesFacts
<1>3. /\ q \notin CountedAt \cup UnpassedAt \cup TakenAt \cup HolderAt \cup Early \cup DecidingAt
      /\ q \notin {"on", "ceded", "gated", "sent", "full", "alone"}
      /\ q \in PassedAt /\ pc[c] \in PassedAt /\ pc[c] \notin HolderAt
  BY DEF SettlesTo, Early, DecidingAt, HolderAt, GateAt, SlotsAt, TakenAt, UnpassedAt,
    CountedAt, SettlingAt, GoneAt, PassedAt
<1>4. \A d \in Cars : d # c => ~HandsOver(d) /\ ~HandsOver(d)'
  BY <1>2 DEF HandsOver, Settles
<1>5. \A j \in Colours : Open(j)' <=> Open(j) \/ Gives(list, j)
  <2>1. \A j \in Colours : ~Token(c, j) /\ (Token(c, j)' <=> Gives(list, j))
    BY <1>1, <1>3, MovesTokens DEF Token, Raises, Gives
  <2>2. \A d \in Cars, j \in Colours : d # c => (Token(d, j)' <=> Token(d, j))
    BY <1>1, MovesTokens
  <2>3. \A j \in Colours : (\E d \in Cars : Token(d, j)') <=>
                             (\E d \in Cars : Token(d, j)) \/ Gives(list, j)
    BY <2>1, <2>2
  <2> QED
    BY <2>3 DEF Open
<1>6. \A d \in Cars : d # c => (Crosses(d)' <=> Crosses(d))
  BY <1>1, MovesSame
<1>7. \A j \in Colours : AllPassed(j)' <=> AllPassed(j)
  BY <1>2, <1>3 DEF AllPassed
<1> QED
  BY <1>2, <1>3, <1>4, <1>5, <1>6, <1>7

LEMMA BareNext ==
    (Good /\ Batches /\ \A c \in Cars : ~Within(c))' =>
      (\A k \in Colours : /\ Cardinality(Taking(k)) = 0 /\ ~Departing(k)
                          /\ AllPassed(k) \/ Coming(k))'
<1>1. Good /\ Batches /\ (\A c \in Cars : ~Within(c)) =>
        \A k \in Colours : /\ Cardinality(Taking(k)) = 0 /\ ~Departing(k)
                           /\ AllPassed(k) \/ Coming(k)
  BY BareFacts
<1> QED
  BY <1>1, PTL

\* Nobody is on the bridge: the car still has the turn to give, or gives it with the token.
LEMMA BareFlow ==
    ASSUME Good', Batches', \A d \in Cars : ~Within(d)', NEW j \in Colours, Live(j)',
           turn' = TurnOf(j) => ~AllPassed(j)' \/ \E d \in Cars : HandsOver(d)',
           turn' = TurnOf(j) /\ Open(j)' => slots_left' = 0 /\ count' = 0
    PROVE  Flows(j)'
<1>1. Cardinality(Taking(j))' = 0 /\ ~Departing(j)' /\ (AllPassed(j) \/ Coming(j))'
  BY BareNext
<1>2. Useful(j)' /\ Exact(j)' /\ Emptying(j)' /\ Batch(j)'
  BY <1>1 DEF Useful, Exact, Emptying, Batch
<1>3. Room(j)'
  BY <1>1, SemBridgeAssumption DEF Room
<1> QED
  BY <1>2, <1>3 DEF Flows

LEMMA BareSettles ==
    ASSUME Good, Flow, Good', Batches', NEW c \in Cars, NEW q, NEW list, SettlesTo(c, q, list),
           \A d \in Cars : d # c => ~Settles(d), \A d \in Cars : ~Within(d)',
           step2 = 0 => Open(Other(Colour(c))),
           UNCHANGED <<sem, step2>>, turn' \in {0, 1}, count' \in Int,
           \A j \in Colours : turn' = TurnOf(j) /\ Open(j)' => slots_left' = 0 /\ count' = 0,
           q \in {"toss", "keep"} => count' = 0,
           q = "hand" /\ turn' # TurnOf(Colour(c)) => count' = 0,
           \/ HandsOver(c)'
           \/ \E j \in Colours : /\ turn' = TurnOf(j) /\ ~AllPassed(j) /\ Gives(list, j)
                                 /\ ~Open(j) \/ Calls(c)'
                                 /\ step2 = 0 => j = Colour(c)
    PROVE  Flow'
<1> DEFINE k == Colour(c)
           o == Other(k)
<1>1. /\ k \in Colours /\ o \in Colours /\ Types /\ step2 \in {0, 1}
      /\ \A j \in Colours : j = k \/ j = o
      /\ \A i, j \in Colours : TurnOf(i) = TurnOf(j) => i = j
  BY ColourFacts DEF Good, Types
<1>2. /\ pc'[c] = q /\ todo'[c] = list
      /\ \A d \in Cars : d # c => pc'[d] = pc[d] /\ todo'[d] = todo[d]
      /\ \A j \in Colours : Open(j)' <=> Open(j) \/ Gives(list, j)
      /\ \A j \in Colours : AllPassed(j)' <=> AllPassed(j)
      /\ q \notin Early \cup DecidingAt \cup {"ceded", "gated", "sent", "full", "alone"}
  BY <1>1, SettlesViews
<1>3. ASSUME NEW j \in Colours PROVE Live(j)'
  <2>1. step2 = 0 => (j = o => Open(j)')
    BY <1>1, <1>2
  <2>2. CASE HandsOver(c)'
    BY <1>1, <2>1, <2>2 DEF Live
  <2>3. ASSUME NEW i \in Colours, turn' = TurnOf(i), Gives(list, i), step2 = 0 => i = k
        PROVE  Live(j)'
    <3>1. Open(i)'
      BY <1>2, <2>3
    <3> QED
      BY <1>1, <2>1, <2>3, <3>1 DEF Live
  <2> QED
    BY <2>2, <2>3
<1>4. \A j \in Colours : turn' = TurnOf(j) => ~AllPassed(j)' \/ \E d \in Cars : HandsOver(d)'
  BY <1>1, <1>2
<1>5. \A j \in Colours : Flows(j)'
  BY <1>3, <1>4, BareFlow
<1>6. ASSUME NEW d \in Cars PROVE Follows(d)'
  <2>1. d # c => Called(d) /\ Reset(d) /\ pc[d] # "full" /\ pc[d] \notin {"toss", "keep", "hand"}
    BY DEF Flow, Follows, Settles, SettlingAt
  <2>2. Called(d)'
    <3> SUFFICES ASSUME pc'[d] \in {"ceded", "gated", "sent"}, turn' = TurnOf(Colour(d))
                 PROVE  \E e \in Cars : Calls(e)' \/ HandsOver(e)'
      BY DEF Called
    <3>1. d # c /\ pc[d] \in HolderAt /\ Colour(d) \in Colours
      BY <1>2, ColourFacts DEF HolderAt, GateAt
    <3>2. Open(Colour(d))
      BY <3>1 DEF Open, Token
    <3> QED
      BY <1>1, <3>1, <3>2
  <2>3. Reset(d)'
    <3>1. CASE d = c
      BY <1>2, <3>1 DEF Reset
    <3>2. CASE d # c
      <4>1. pc'[d] # "alone"
        BY DEF Within, TakenAt
      <4> QED
        BY <1>2, <2>1, <3>2, <4>1 DEF Reset
    <3> QED
      BY <3>1, <3>2
  <2> QED
    BY <1>2, <2>1, <2>2, <2>3 DEF Follows
<1>7. Fresh'
  BY <1>2 DEF Fresh
<1> QED
  BY <1>5, <1>6, <1>7 DEF Flow

\* The batch goes on leaving, or nobody is left on the bridge.
LEMMA SettleFlow ==
    ASSUME Good, Flow, Good', Batches', Batches, NEW c \in Cars, Settle(c), ~raced'
    PROVE  Flow'
<1> DEFINE k == Colour(c)
           o == Other(k)
<1>1. /\ pc[c] = "settle" /\ todo[c] = <<>> /\ Types /\ CarTypes /\ k \in Colours /\ o \in Colours
      /\ o # k /\ \A j \in Colours : j = k \/ j = o
      /\ UNCHANGED <<sem, turn, step2, slots_left, count>> /\ count \in Int
  BY ColourFacts DEF Settle, At, Good, Types, own, turnVars, bridgeVars, Flow
<1>2. Crosses(c) /\ Within(c) /\ Departing(k)
  BY <1>1 DEF Crosses, Within, CountedAt, Departing
<1>3. turn = TurnOf(k) /\ turn # TurnOf(o) /\ ~Open(k) /\ ~Departing(o)
  BY <1>1, <1>2, DepartingFacts, ColourFacts DEF Leaving
<1>4. \A d \in Cars : pc[d] \notin SettlingAt
  BY <1>2 DEF Batches, Settled
<1>5. CASE ~Emptied(k)
  <2>1. Moves(c, "stop", <<>>)
    BY <1>5, GoToMoves DEF Settle, own
  <2>2. /\ \A d \in Cars : d # c => pc'[d] = pc[d]
        /\ \A d \in Cars : d # c => (Crosses(d)' <=> Crosses(d))
        /\ pc'[c] = "stop"
    BY <1>1, <2>1, MovesFacts, MovesSame
  <2>3. ASSUME NEW d \in Cars, Colour(d) = k, Crosses(d), d # c PROVE Departing(k)'
    BY <2>2, <2>3 DEF Departing
  <2>4. ASSUME NEW d \in Cars, Colour(d) = k, pc[d] = "on" PROVE Departing(k)'
    <3>1. Cardinality(Waiting(k)) \in Nat /\ Cardinality(Waiting(k)) # 0
      BY <1>1, <2>4, SetFacts, ColourFacts DEF Waiting
    <3>2. CASE sem[Bridge(k)] = Cardinality(Waiting(k))
      BY <1>1, <3>1, <3>2 DEF Departing
    <3>3. ASSUME NEW e \in Cars, Releasing(e, k) PROVE Departing(k)'
      <4>1. Colour(e) = k /\ Crosses(e) /\ e # c
        BY <1>1, <3>3 DEF Releasing, Crosses, UnpassedAt
      <4> QED
        BY <2>3, <4>1
    <3> QED
      BY <1>1, <1>2, <3>2, <3>3 DEF Flow, Flows, Emptying
  <2>5. Full(k) \/ LastOnes(k)
    BY <1>1, <1>2 DEF Flow, Flows, Batch
  <2>6. Departing(k)'
    <3>1. CASE Full(k)
      <4>1. Cardinality(Uncounted(k)) # 0
        BY <1>1, <1>5, <3>1 DEF Full, Emptied
      <4>2. Uncounted(k) # {}
        BY <4>1, FS_EmptySet
      <4>3. PICK d \in Uncounted(k) : TRUE
        BY <4>2
      <4>4. d \in Cars /\ Colour(d) = k /\ pc[d] \in UncountedAt
        BY <1>1, <4>3, ColourFacts DEF Uncounted
      <4>5. pc[d] = "on" \/ (Crosses(d) /\ d # c)
        BY <1>1, <4>4 DEF UncountedAt, Crosses, UnpassedAt, CountedAt
      <4> QED
        BY <2>3, <2>4, <4>4, <4>5
    <3>2. CASE LastOnes(k)
      <4>1. ~AllPassed(k)
        BY <1>1, <1>5, UnpassedFacts DEF Emptied
      <4>2. PICK d \in Cars : Colour(d) = k /\ pc[d] \notin PassedAt
        BY <4>1 DEF AllPassed
      <4>3. pc[d] \in UnpassedAt \cup {"on"}
        BY <3>2, <4>2 DEF LastOnes
      <4>4. pc[d] = "on" \/ (Crosses(d) /\ d # c)
        BY <1>1, <4>3 DEF Crosses, UnpassedAt
      <4> QED
        BY <2>3, <2>4, <4>2, <4>4
    <3> QED
      BY <2>5, <3>1, <3>2
  <2>7. Batch(k)'
    <3>1. Full(k) => Full(k)'
      <4>1. Cardinality(Uncounted(k))' = Cardinality(Uncounted(k))
        BY <1>1, <2>1, MovesUncounted DEF UncountedAt
      <4> QED
        BY <1>1, <4>1 DEF Full
    <3>2. LastOnes(k) => LastOnes(k)'
      BY <2>2 DEF LastOnes, PassedAt, GoneAt
    <3> QED
      BY <2>5, <3>1, <3>2 DEF Batch
  <2> QED
    BY <1>1, <2>1, <2>6, <2>7, CountedFlow
<1>6. CASE Emptied(k)
  <2>1. Moves(c, "empty", <<>>)
    BY <1>6, GoToMoves DEF Settle, own
  <2>2. \A d \in Cars : d # c => pc[d] \notin Crossing /\ ~(pc[d] = "stop" /\ todo[d] # <<>>)
    BY <1>6 DEF Settle, Notes
  <2>3. \A d \in Cars : d # c => ~Settles(d) /\ ~Crosses(d) /\ pc[d] # "on"
    BY <2>2 DEF Crossing, Settles, Crosses, SettlingAt, UnpassedAt, CountedAt
  <2>4. SettlesTo(c, "empty", <<>>)
    BY <1>1, <2>1, ListFacts DEF SettlesTo, SettlingAt
  <2>5. /\ pc'[c] = "empty" /\ HandsOver(c)'
        /\ \A j \in Colours : Open(j)' <=> Open(j)
    BY <1>1, <2>3, <2>4, SettlesViews DEF Gives, HandsOver, SettlingAt
  <2>6. \A d \in Cars : ~Within(d)'
    BY <2>5 DEF Batches, Settled, SettlingAt
  <2>7. step2 = 0 => Open(o)
    <3>1. \A d \in Cars : ~HandsOver(d)
      BY <1>1, <2>3 DEF HandsOver, Settles, SettlingAt
    <3> QED
      BY <1>1, <1>3, <3>1 DEF Flow, Flows, Live
  <2>8. \A j \in Colours : ~(turn' = TurnOf(j) /\ Open(j)')
    BY <1>1, <1>3, <2>5
  <2>9. turn' \in {0, 1}
    BY <1>1, <1>3, ColourFacts
  <2> QED
    BY <1>1, <2>3, <2>4, <2>5, <2>6, <2>7, <2>8, <2>9, BareSettles
<1> QED
  BY <1>5, <1>6

\* While a car settles nobody is within, so that the other colour still has its first token.
LEMMA SettlerFacts ==
    ASSUME Good, Flow, Batches, NEW c \in Cars, todo[c] = <<>>,
           \/ pc[c] \in SettlingAt
           \/ pc[c] = "hand" /\ turn = TurnOf(Other(Colour(c))) /\ \A d \in Cars : ~Within(d)
    PROVE  LET k == Colour(c) IN
           /\ \A d \in Cars : ~Within(d)
           /\ \A d \in Cars : d # c => ~Settles(d)
           /\ ~Open(k) /\ (step2 = 0 => Open(Other(k)))
           /\ pc[c] # "empty" => slots_left = 0 \/ (step2 = 0 /\ AllPassed(k))
           /\ pc[c] # "empty" => count = 0
<1> DEFINE k == Colour(c)
           o == Other(k)
<1>1. /\ k \in Colours /\ o \in Colours /\ o # k /\ Settled(c) /\ Reset(c) /\ Live(o)
      /\ turn \in {0, 1} => turn = TurnOf(k) \/ turn = TurnOf(o)
      /\ TurnOf(k) # TurnOf(o)
  BY ColourFacts DEF Batches, Flow, Flows, Follows
<1>2. \A d \in Cars : ~Within(d)
  BY <1>1 DEF Settled
<1>3. Settles(c) /\ \A d \in Cars : d # c => ~Settles(d)
  BY DEF Good, OneSettles, Settles
<1>4. Quiet(k)
  BY <1>1 DEF Settled, SettlingAt
<1>5. ~Departing(o)
  BY <1>1, <1>2, BareFacts
<1>6. step2 = 0 => Open(o)
  <2>1. \A d \in Cars : HandsOver(d) => d = c
    BY <1>3 DEF HandsOver, Settles
  <2> QED
    BY <1>1, <1>5, <2>1 DEF Live
<1>7. pc[c] # "empty" => slots_left = 0 \/ (step2 = 0 /\ AllPassed(k))
  <2>1. CASE pc[c] \in SettlingAt
    BY <1>1, <2>1 DEF Settled, SettlingAt
  <2>2. CASE pc[c] = "hand" /\ turn = TurnOf(o)
    BY <1>1, <2>2 DEF Settled
  <2> QED
    BY <2>1, <2>2
<1>8. pc[c] # "empty" => count = 0
  <2>1. CASE pc[c] \in SettlingAt
    BY <1>1, <2>1 DEF Reset, SettlingAt
  <2>2. CASE pc[c] = "hand" /\ turn = TurnOf(o)
    BY <1>1, <1>5, <2>2 DEF Reset
  <2> QED
    BY <2>1, <2>2
<1> QED
  BY <1>2, <1>3, <1>4, <1>6, <1>7, <1>8 DEF Quiet

\* slots_left and count are reset, the turn is tossed, and kept or not.
LEMMA EmptyFlow ==
    ASSUME Good, Flow, Good', Batches', Batches, NEW c \in Cars, Empty(c)
    PROVE  Flow'
<1>1. /\ pc[c] = "empty" /\ todo[c] = <<>> /\ Types /\ SettlesTo(c, "toss", <<>>)
      /\ UNCHANGED <<sem, turn, step2>> /\ slots_left' = 0 /\ count' = 0
  BY GoToMoves, ListFacts DEF Empty, At, Good, Types, own, turnVars, SettlesTo, SettlingAt
<1>2. /\ \A d \in Cars : ~Within(d)
      /\ \A d \in Cars : d # c => ~Settles(d)
      /\ step2 = 0 => Open(Other(Colour(c)))
  BY <1>1, SettlerFacts DEF SettlingAt
<1>3. \A d \in Cars : ~Within(d)'
  BY <1>1, <1>2, MovesSame DEF SettlesTo, Types, SlotsAt, TakenAt, UnpassedAt, CountedAt
<1>4. HandsOver(c)'
  BY <1>1, <1>2, SettlesViews DEF HandsOver, SettlingAt
<1>5. turn' \in {0, 1}
  BY <1>1 DEF Good, Types, Started, Early, DecidingAt
<1> QED
  BY <1>1, <1>2, <1>3, <1>4, <1>5, BareSettles

LEMMA TossFlow ==
    ASSUME Good, Flow, Good', Batches', Batches, NEW c \in Cars, Toss(c)
    PROVE  Flow'
<1>1. /\ pc[c] = "toss" /\ todo[c] = <<>> /\ Types /\ SettlesTo(c, "keep", <<>>)
      /\ UNCHANGED <<sem, step2, slots_left, count>> /\ turn' \in {0, 1}
  BY GoToMoves, ListFacts DEF Toss, At, Good, Types, own, bridgeVars, SettlesTo, SettlingAt
<1>2. /\ \A d \in Cars : ~Within(d)
      /\ \A d \in Cars : d # c => ~Settles(d)
      /\ step2 = 0 => Open(Other(Colour(c)))
      /\ count = 0
  BY <1>1, SettlerFacts DEF SettlingAt
<1>3. slots_left = 0
  BY <1>1 DEF Batches, Settled
<1>4. \A d \in Cars : ~Within(d)'
  BY <1>1, <1>2, MovesSame DEF SettlesTo, Types, SlotsAt, TakenAt, UnpassedAt, CountedAt
<1>5. HandsOver(c)'
  BY <1>1, <1>2, SettlesViews DEF HandsOver, SettlingAt
<1> QED
  BY <1>1, <1>2, <1>3, <1>4, <1>5, BareSettles

LEMMA KeepFlow ==
    ASSUME Good, Flow, Good', Batches', Batches, NEW c \in Cars, Keep(c)
    PROVE  Flow'
<1> DEFINE k == Colour(c)
           o == Other(k)
<1>1. /\ pc[c] = "keep" /\ todo[c] = <<>> /\ Types /\ k \in Colours /\ o \in Colours
      /\ k \in Semaphores /\ "general_sem" \in Semaphores /\ TurnOf(k) # TurnOf(o)
      /\ UNCHANGED <<sem, step2, slots_left, count>>
      /\ turn \in {0, 1} /\ TurnOf(k) \in {0, 1} /\ TurnOf(o) \in {0, 1}
      /\ turn = TurnOf(k) \/ turn = TurnOf(o)
  BY ColourFacts DEF Keep, GoRaising, At, Good, Types, bridgeVars, Started, Early, DecidingAt
<1>2. PICK list : /\ Moves(c, "hand", list) /\ list \in Seq(Semaphores)
                  /\ \/ turn' = TurnOf(o)
                     \/ turn = TurnOf(k) /\ left[k] # 0 /\ list = <<k>> /\ turn' = turn
  BY <1>1, ListFacts DEF Keep, GoRaising, GoTo, Moves, MyTurn
<1>3. SettlesTo(c, "hand", list)
  BY <1>1, <1>2 DEF SettlesTo, SettlingAt
<1>4. /\ \A d \in Cars : ~Within(d)
      /\ \A d \in Cars : d # c => ~Settles(d)
      /\ ~Open(k) /\ (step2 = 0 => Open(o))
      /\ count = 0
  BY <1>1, SettlerFacts DEF SettlingAt
<1>5. slots_left = 0
  BY <1>1 DEF Batches, Settled
<1>6. \A d \in Cars : ~Within(d)'
  BY <1>1, <1>2, <1>4, MovesSame DEF Types, SlotsAt, TakenAt, UnpassedAt, CountedAt
<1>7. pc'[c] = "hand"
  BY <1>1, <1>3, <1>4, SettlesViews
<1>8. CASE turn' = TurnOf(o)
  <2>1. HandsOver(c)'
    BY <1>1, <1>7, <1>8 DEF HandsOver
  <2> QED
    BY <1>1, <1>3, <1>4, <1>5, <1>6, <1>8, <2>1, BareSettles
<1>9. CASE turn = TurnOf(k) /\ left[k] # 0 /\ list = <<k>> /\ turn' = turn
  <2>1. Gives(list, k)
    BY <1>1, <1>9, ListFacts DEF Gives
  <2>2. ~AllPassed(k)
    BY <1>1, <1>9, UnpassedFacts
  <2>3. \E j \in Colours : /\ turn' = TurnOf(j) /\ ~AllPassed(j) /\ Gives(list, j)
                           /\ ~Open(j) \/ Calls(c)'
                           /\ step2 = 0 => j = k
    BY <1>1, <1>4, <1>9, <2>1, <2>2
  <2> QED
    BY <1>1, <1>3, <1>4, <1>5, <1>6, <1>9, <2>3, BareSettles
<1> QED
  BY <1>2, <1>8, <1>9

\* The turn is given with general_sem for the first time; the other colour may be driving.
LEMMA HandFirst ==
    ASSUME Good, Flow, Good', Batches', NEW c \in Cars, pc[c] = "hand", todo[c] = <<>>,
           Moves(c, "stop", <<"general_sem">>), turn = TurnOf(Other(Colour(c))),
           ~AllPassed(Other(Colour(c))), step2 = 0, step2' = 1,
           UNCHANGED <<sem, turn, slots_left, count>>
    PROVE  Flow'
<1> DEFINE k == Colour(c)
           o == Other(k)
<1>1. /\ k \in Colours /\ o \in Colours /\ k # o /\ CarTypes /\ Types
      /\ \A j \in Colours : j = k \/ j = o
      /\ turn # TurnOf(k)
  BY ColourFacts DEF Good, Types
<1>2. SettlesTo(c, "stop", <<"general_sem">>)
  BY ListFacts, ColourFacts DEF SettlesTo
<1>3. \A d \in Cars : d # c => ~Settles(d)
  BY DEF Good, OneSettles, Settles
<1>4. /\ pc'[c] = "stop" /\ todo'[c] = <<"general_sem">>
      /\ \A d \in Cars : d # c => pc'[d] = pc[d] /\ todo'[d] = todo[d]
      /\ \A d \in Cars : d # c => ~HandsOver(d)
      /\ Open(o)' <=> Open(o)
      /\ \A d \in Cars : d # c => (Crosses(d)' <=> Crosses(d))
      /\ AllPassed(o)' <=> AllPassed(o)
      /\ "stop" \in PassedAt /\ "stop" \notin Early \cup DecidingAt \cup TakenAt \cup UnpassedAt
  <2>1. ~Gives(<<"general_sem">>, o)
    BY <1>1, ListFacts, ColourFacts DEF Gives
  <2> QED
    BY <1>1, <1>2, <1>3, <2>1, SettlesViews
<1>5. Departing(o)' <=> Departing(o)
  BY <1>1, <1>4 DEF Departing
<1>6. Live(k)' /\ Live(o)'
  <2>1. Open(o) \/ Departing(o)
    BY <1>1, <1>4 DEF Flow, Flows, Live
  <2> QED
    BY <1>1, <1>4, <1>5, <2>1 DEF Live
<1>7. /\ Cardinality(Waiting(o))' = Cardinality(Waiting(o))
      /\ Cardinality(Taking(o))' = Cardinality(Taking(o))
      /\ Cardinality(Uncounted(o))' = Cardinality(Uncounted(o))
  BY <1>1, MovesSets, MovesUncounted
<1>8. Flows(o)'
  <2>1. Exact(o) /\ Room(o) /\ Emptying(o) /\ Batch(o)
    BY <1>1 DEF Flow, Flows
  <2>2. Useful(o)'
    BY <1>4 DEF Useful
  <2>3. Exact(o)'
    BY <1>4, <1>7, <2>1 DEF Exact
  <2>4. Room(o)'
    <3>1. Coming(o) => Coming(o)'
      BY <1>1, <1>4 DEF Coming
    <3>2. (\A d \in Cars : Colour(d) = o => pc'[d] \notin TakenAt) =>
            \A d \in Cars : Colour(d) = o => pc[d] \notin TakenAt
      BY <1>1, <1>4
    <3> QED
      BY <1>4, <2>1, <3>1, <3>2 DEF Room
  <2>5. Emptying(o)'
    <3>1. \A d \in Cars : Releasing(d, o) => Releasing(d, o)'
      BY <1>1, <1>4, <1>7 DEF Releasing
    <3> QED
      BY <1>5, <1>7, <2>1, <3>1 DEF Emptying
  <2>6. Batch(o)'
    <3>1. LastOnes(o) => LastOnes(o)'
      BY <1>1, <1>4 DEF LastOnes
    <3> QED
      BY <1>5, <1>7, <2>1, <3>1 DEF Batch, Full
  <2> QED
    BY <1>6, <2>2, <2>3, <2>4, <2>5, <2>6 DEF Flows
<1>9. \A j \in Colours : Flows(j)'
  BY <1>1, <1>6, <1>8, OtherFlows
<1>10. ASSUME NEW d \in Cars PROVE Follows(d)'
  <2>1. d # c => Reset(d) /\ pc[d] # "full" /\ pc[d] \notin {"toss", "keep", "hand"}
    BY <1>3 DEF Flow, Follows, Settles, SettlingAt
  <2>2. Calls(c)'
    BY <1>4, ListFacts, ColourFacts DEF Calls
  <2> QED
    BY <1>4, <2>1, <2>2 DEF Follows, Called, Reset
<1>11. Fresh'
  BY <1>4 DEF Fresh
<1> QED
  BY <1>9, <1>10, <1>11 DEF Flow

LEMMA HandFlow ==
    ASSUME Good, Flow, Good', Batches', Batches, ~Over, NEW c \in Cars, Hand(c), ~raced'
    PROVE  Flow'
<1> DEFINE k == Colour(c)
           o == Other(k)
<1>1. /\ pc[c] = "hand" /\ todo[c] = <<>> /\ CarTypes /\ Types /\ k \in Colours /\ o \in Colours
      /\ ~Creating /\ step2 \in {0, 1} /\ Other(o) = k
      /\ k \in Semaphores /\ o \in Semaphores /\ "general_sem" \in Semaphores
      /\ TurnOf(k) # TurnOf(o) /\ TurnOf(k) \in {0, 1} /\ TurnOf(o) \in {0, 1}
      /\ \A j \in Colours : j = k \/ j = o
      /\ turn = TurnOf(k) \/ turn = TurnOf(o)
      /\ UNCHANGED <<sem, slots_left, count>>
  BY ColourFacts DEF Hand, GoRaising, Notes, At, Good, Types, bridgeVars, Started, Early,
    DecidingAt
<1>2. CASE turn = TurnOf(k)
  <2>1. Moves(c, "stop", <<>>) /\ UNCHANGED <<turn, step2>>
    BY <1>1, <1>2 DEF Hand, GoRaising, GoTo, Moves
  <2>2. SamePart(c, "stop")
    BY <1>1, <1>2 DEF SamePart
  <2> QED
    BY <1>1, <2>1, <2>2, SamePartFlow
<1>3. CASE turn = TurnOf(o) /\ step2 = 0 /\ left[o] # 0
  <2>1. Moves(c, "stop", <<"general_sem">>) /\ step2' = 1 /\ UNCHANGED turn
    BY <1>1, <1>3 DEF Hand, GoRaising, GoTo, Moves
  <2>2. ~AllPassed(o)
    BY <1>1, <1>3, UnpassedFacts
  <2> QED
    BY <1>1, <1>3, <2>1, <2>2, HandFirst
<1>4. CASE turn = TurnOf(o) /\ (step2 = 1 \/ left[o] = 0)
  <2>1. /\ ~(step2 = 0 /\ AllPassed(k))
        /\ left[o] = 0 => ~AllPassed(k)
    <3>1. left[o] = 0 => AllPassed(o)
      BY <1>1, LeftFacts
    <3>2. ~(AllPassed(k) /\ AllPassed(o))
      BY <1>1, ColourFacts DEF Over, AllPassed
    <3> QED
      BY <1>4, <3>1, <3>2
  <2>2. Settled(c)
    BY DEF Batches
  <2>3. \A d \in Cars : ~Within(d)
    BY <1>1, <1>4, <2>1, <2>2 DEF Settled
  <2>4. /\ \A d \in Cars : d # c => ~Settles(d)
        /\ ~Open(k) /\ (step2 = 0 => Open(o)) /\ count = 0
    BY <1>1, <1>4, <2>3, SettlerFacts
  <2>5. slots_left = 0
    BY <1>1, <1>4, <2>1, <2>2 DEF Settled
  <2>6. PICK list \in Seq(Semaphores), j \in Colours :
          /\ Moves(c, "stop", list) /\ Gives(list, j)
          /\ UNCHANGED step2 /\ turn' = TurnOf(j) /\ ~AllPassed(j)
          /\ \/ j = k
             \/ step2 = 1 /\ Head(list) = "general_sem" /\ list # <<>>
    <3>1. CASE left[o] = 0
      <4>1. Moves(c, "stop", <<k>>) /\ UNCHANGED step2 /\ turn' = TurnOf(k)
        BY <1>1, <1>4, <3>1 DEF Hand, GoRaising, GoTo, Moves
      <4>2. <<k>> \in Seq(Semaphores) /\ Gives(<<k>>, k)
        BY <1>1, ListFacts DEF Gives
      <4> QED
        BY <1>1, <2>1, <3>1, <4>1, <4>2
    <3>2. CASE left[o] # 0 /\ step2 = 1
      <4>1. Moves(c, "stop", <<"general_sem", o>>) /\ UNCHANGED step2 /\ turn' = TurnOf(o)
        BY <1>1, <1>4, <3>2 DEF Hand, GoRaising, GoTo, Moves
      <4>2. /\ <<"general_sem", o>> \in Seq(Semaphores) /\ Gives(<<"general_sem", o>>, o)
            /\ <<"general_sem", o>> # <<>> /\ Head(<<"general_sem", o>>) = "general_sem"
        BY <1>1, ListFacts DEF Gives
      <4>3. ~AllPassed(o)
        BY <1>1, <3>2, UnpassedFacts
      <4> QED
        BY <1>1, <3>2, <4>1, <4>2, <4>3
    <3> QED
      BY <1>4, <3>1, <3>2
  <2>7. SettlesTo(c, "stop", list)
    BY <1>1, <2>6 DEF SettlesTo
  <2>8. \A d \in Cars : ~Within(d)'
    BY <1>1, <2>3, <2>6, MovesSame DEF SlotsAt, TakenAt, UnpassedAt, CountedAt
  <2>9. todo'[c] = list
    BY <1>1, <2>6, MovesFacts
  <2>10. \E i \in Colours : /\ turn' = TurnOf(i) /\ ~AllPassed(i) /\ Gives(list, i)
                            /\ ~Open(i) \/ Calls(c)'
                            /\ step2 = 0 => i = k
    <3>1. ~Open(j) \/ Calls(c)'
      BY <2>4, <2>6, <2>9 DEF Calls
    <3> QED
      BY <2>6, <3>1
  <2>11. turn' \in {0, 1} /\ count' \in Int /\ count' = 0 /\ slots_left' = 0
    BY <1>1, <2>4, <2>5, <2>6
  <2> QED
    BY <1>1, <2>4, <2>6, <2>7, <2>8, <2>10, <2>11, BareSettles
<1> QED
  BY <1>1, <1>2, <1>3, <1>4

-----------------------------------------------------------------------------
(* The semaphores. *)

\* A semaphore that a car finds up has been raised, and one that it raises is not lost.
LEMMA StrikesFlow ==
    ASSUME Good, Batches, Flow, NEW c \in Cars, Strikes(c), UNCHANGED count,
           LET h == Head(todo[c]) IN
             \/ sem' = [sem EXCEPT ![h] = @ + 1]
             \/ sem' = sem /\ sem[h] = 1 /\ h # Bridge(Colour(c))
    PROVE  Flow'
<1> DEFINE h == Head(todo[c])
           list == todo[c]
<1>1. /\ CarTypes /\ Colour(c) \in Colours /\ list # <<>> /\ h \in Semaphores
      /\ list \in Seq(Semaphores)
      /\ UNCHANGED <<pc, turn, step2, slots_left, count>>
      /\ \A s \in Semaphores : sem[s] \in Nat
  BY ColourFacts, RaiserFacts DEF Good, Types, Strikes
<1>2. /\ \A s \in Semaphores : s # h => sem'[s] = sem[s]
      /\ sem'[h] = sem[h] + 1 \/ (sem'[h] = sem[h] /\ sem[h] = 1 /\ h # Bridge(Colour(c)))
  BY <1>1 DEF Good, Types
<1>3. /\ \A s \in Semaphores : sem'[s] \in Nat /\ sem'[s] >= sem[s]
      /\ sem'[h] > 0
  BY <1>1, <1>2
<1>4. /\ todo'[c] = Tail(list) /\ \A d \in Cars : d # c => todo'[d] = todo[d]
      /\ Len(list) \in Nat \ {0} /\ Len(Tail(list)) = Len(list) - 1
      /\ Tail(list) # <<>> => FinalOf(Tail(list)) = FinalOf(list)
      /\ Tail(list) = <<>> => FinalOf(list) = h
  BY <1>1, StrikesFacts, TailFacts
<1>5. ASSUME NEW j \in Colours PROVE Open(j)' <=> Open(j)
  <2>1. j \in Semaphores /\ Baton(j)
    BY ColourFacts DEF Batches
  <2>2. \A d \in Cars : d # c => (Token(d, j)' <=> Token(d, j))
    BY <1>1, <1>4 DEF Token, Raises
  <2>3. Token(c, j)' => Token(c, j)
    BY <1>1, StrikesFacts
  <2>4. Token(c, j) => Token(c, j)' \/ sem'[j] > 0
    BY <1>1, <1>3, <1>4 DEF Token, Raises
  <2>5. j = h => Token(c, j)
    <3> SUFFICES ASSUME j = h PROVE Raises(c, j)
      BY DEF Token
    <3>1. Tail(list) = <<>>
      BY <1>1, RaiserFacts, ColourFacts
    <3> QED
      BY <1>1, <1>4, <3>1 DEF Raises
  <2>6. sem'[j] > 0 => sem[j] > 0 \/ j = h
    BY <1>2, <2>1
  <2>7. sem[j] > 0 => sem'[j] > 0
    BY <1>1, <1>3, <2>1
  <2> QED
    BY <2>2, <2>3, <2>4, <2>5, <2>6, <2>7 DEF Open
<1>6. \A d \in Cars : Crosses(d)' <=> Crosses(d)
  BY <1>1, StrikesFacts
<1>7. ASSUME NEW j \in Colours, h = Bridge(j)
      PROVE  /\ Colour(c) = j /\ Crosses(c) /\ pc[c] \in UnpassedAt
             /\ sem'[h] = sem[h] + 1
  BY <1>1, <1>2, <1>7, RaiserFacts, ColourFacts DEF Crosses, UnpassedAt
<1>8. ASSUME NEW j \in Colours PROVE Departing(j)' <=> Departing(j)
  <2>1. Bridge(j) \in Semaphores
    BY ColourFacts
  <2>2. CASE h = Bridge(j)
    BY <1>6, <1>7, <2>2 DEF Departing
  <2>3. CASE h # Bridge(j)
    BY <1>2, <1>6, <2>1, <2>3 DEF Departing
  <2> QED
    BY <2>2, <2>3
<1>9. /\ \A d \in Cars : HandsOver(d)' <=> HandsOver(d)
      /\ \A j \in Colours : /\ Waiting(j)' = Waiting(j) /\ Taking(j)' = Taking(j)
                            /\ Uncounted(j)' = Uncounted(j)
                            /\ AllPassed(j)' <=> AllPassed(j)
                            /\ Coming(j)' <=> Coming(j)
                            /\ LastOnes(j)' <=> LastOnes(j)
  BY <1>1 DEF HandsOver, Waiting, Taking, Uncounted, AllPassed, Coming, LastOnes
<1>10. ASSUME NEW j \in Colours PROVE Emptying(j)'
  <2> SUFFICES ASSUME Departing(j)
               PROVE  \/ sem'[Bridge(j)] = Cardinality(Waiting(j))
                      \/ \E e \in Cars : Releasing(e, j)'
    BY <1>8, <1>9 DEF Emptying
  <2>1. /\ Bridge(j) \in Semaphores /\ Released(j) /\ Cardinality(Waiting(j)) \in Nat
        /\ sem[Bridge(j)] \in Nat
    BY <1>1, ColourFacts, SetFacts DEF Batches
  <2>2. CASE h # Bridge(j)
    <3>1. \A e \in Cars : Releasing(e, j) => e # c
      BY <1>1, <2>2, RaiserFacts DEF Releasing, UnpassedAt
    <3>2. \A e \in Cars : Releasing(e, j) => Releasing(e, j)'
      BY <1>1, <1>2, <1>4, <1>9, <2>1, <2>2, <3>1 DEF Releasing
    <3> QED
      BY <1>2, <2>1, <2>2, <3>2 DEF Flow, Flows, Emptying
  <2>3. CASE h = Bridge(j)
    <3>1. Colour(c) = j /\ pc[c] \in UnpassedAt /\ sem'[Bridge(j)] = sem[Bridge(j)] + 1
      BY <1>7, <2>3
    <3>2. sem[Bridge(j)] + Len(list) <= Cardinality(Waiting(j))
      BY <2>1, <3>1 DEF Released
    <3>3. PICK e \in Cars : Releasing(e, j)
      BY <1>4, <2>1, <3>2 DEF Flow, Flows, Emptying
    <3>4. e = c
      BY <1>1, <2>1, <3>1, <3>3 DEF Released, Releasing
    <3>5. sem'[Bridge(j)] + Len(Tail(list)) = Cardinality(Waiting(j))
      BY <1>4, <2>1, <3>1, <3>3, <3>4 DEF Releasing
    <3>6. CASE Tail(list) = <<>>
      <4>1. Len(Tail(list)) = 0
        BY <3>6, ListFacts
      <4>2. Len(list) = 1
        BY <1>4, <4>1
      <4>3. sem[Bridge(j)] + Len(list) = Cardinality(Waiting(j))
        BY <3>3, <3>4 DEF Releasing
      <4>4. sem'[Bridge(j)] = Cardinality(Waiting(j))
        BY <3>1, <4>2, <4>3
      <4> QED
        BY <4>4
    <3>7. CASE Tail(list) # <<>>
      BY <1>1, <1>4, <1>9, <3>1, <3>5, <3>7 DEF Releasing
    <3> QED
      BY <3>6, <3>7
  <2> QED
    BY <2>2, <2>3
<1>11. ASSUME NEW j \in Colours PROVE Flows(j)'
  <2>1. Live(j) /\ Useful(j) /\ Exact(j) /\ Room(j) /\ Batch(j)
    BY DEF Flow, Flows
  <2>2. Live(j)' /\ Useful(j)' /\ Batch(j)'
    BY <1>1, <1>5, <1>8, <1>9, <2>1 DEF Live, Useful, Batch, Full
  <2>3. Exact(j)' /\ Room(j)'
    BY <1>1, <1>5, <1>9, <2>1 DEF Exact, Room
  <2> QED
    BY <1>10, <2>2, <2>3 DEF Flows
<1>12. ASSUME NEW d \in Cars PROVE Follows(d)'
  <2>1. Called(d) /\ Reset(d) /\ pc[d] # "full" /\ Other(Colour(d)) \in Colours
          /\ "general_sem" \in Semaphores
    BY ColourFacts DEF Flow, Follows
  <2>2. \A e \in Cars : Calls(e) => Calls(e)' \/ sem'["general_sem"] > 0
    BY <1>3, <1>4 DEF Calls
  <2>3. sem["general_sem"] > 0 => sem'["general_sem"] > 0
    BY <1>1, <1>3, <2>1
  <2>4. Called(d)'
    BY <1>1, <1>9, <2>1, <2>2, <2>3 DEF Called
  <2>5. Reset(d)'
    BY <1>1, <1>8, <2>1 DEF Reset
  <2> QED
    BY <1>1, <2>1, <2>4, <2>5 DEF Follows
<1>13. Fresh'
  BY <1>1 DEF Flow, Fresh
<1> QED
  BY <1>1, <1>11, <1>12, <1>13 DEF Flow

LEMMA RaiseFlow ==
    ASSUME Good, Batches, Flow, NEW c \in Cars, GetVal(c) \/ SemOp(c), ~raced'
    PROVE  Flow'
<1> DEFINE h == Head(todo[c])
<1>1. UNCHANGED <<pc, turn, step2, slots_left, count>>
  BY DEF GetVal, SemOp, turnVars, bridgeVars
<1>2. CASE SemOp(c)
  <2>1. Strikes(c) /\ sem' = [sem EXCEPT ![h] = @ + 1]
    BY <1>2 DEF SemOp, Strikes, turnVars, bridgeVars
  <2> QED
    BY <1>1, <2>1, StrikesFlow
<1>3. CASE GetVal(c) /\ sem[h] = 1 /\ main # "return"
  <2>1. Strikes(c) /\ sem' = sem /\ h # Bridge(Colour(c))
    BY <1>3 DEF GetVal, Strikes, turnVars, bridgeVars, ends, Notes
  <2> QED
    BY <1>1, <1>3, <2>1, StrikesFlow
<1>4. CASE GetVal(c) /\ ~(sem[h] = 1 /\ main # "return")
  <2>1. UNCHANGED <<pc, todo, sem, turn, step2, slots_left, count>>
    BY <1>1, <1>4 DEF GetVal
  <2> QED
    BY <2>1, SameFlow
<1> QED
  BY <1>2, <1>3, <1>4

\* A car gets the token of its colour, or is called with general_sem.
LEMMA DownEarly ==
    ASSUME Good, Batches, Flow, NEW c \in Cars, NEW p, NEW q, NEW s, Downs(c, p, q, s),
           p \notin {"full", "on"}, UNCHANGED count
    PROVE  Flow'
<1> DEFINE k == Colour(c)
<1>1. /\ k \in Colours /\ k \in Semaphores /\ CarTypes /\ Moves(c, q, <<>>) /\ todo[c] = <<>>
      /\ pc[c] = p /\ UNCHANGED <<turn, step2, slots_left, count>>
  BY ColourFacts DEF Downs, Good, Types
<1>2. /\ pc'[c] = q
      /\ \A d \in Cars : d # c => pc'[d] = pc[d]
      /\ \A d \in Cars : todo'[d] = todo[d]
  BY <1>1, MovesFacts
<1>3. /\ {p, q} \cap (UnpassedAt \cup CountedAt \cup SettlingAt \cup PassedAt) = {}
      /\ {p, q} \cap (TakenAt \cup UncountedAt) = {}
      /\ {p, q} \cap {"hand", "on", "alone", "full", "toss", "keep"} = {}
      /\ {p, q} \subseteq Early \cup (HolderAt \ TakenAt)
      /\ q \in Early \cup DecidingAt => p \in Early \cup DecidingAt
      /\ q \notin {"ceded", "gated", "sent"} /\ q \in HolderAt
      /\ p \notin PassedAt \cup UnpassedAt \cup {"on"}
  BY DEF Downs, Early, DecidingAt, HolderAt, GateAt, SlotsAt, TakenAt, UnpassedAt, CountedAt,
    SettlingAt, GoneAt, PassedAt, UncountedAt
<1>4. /\ \A j \in Colours : j \in Semaphores /\ Bridge(j) \in Semaphores
      /\ \A j \in Colours : Bridge(j) # s
      /\ \A r \in Semaphores : r # s => sem'[r] = sem[r]
      /\ sem[s] > 0 /\ s \in Semaphores
  BY <1>1, ColourFacts DEF Downs, Good, Types
<1>5. \A j \in Colours : sem'[Bridge(j)] = sem[Bridge(j)]
  BY <1>4
<1>6. ASSUME NEW j \in Colours PROVE Open(j)' <=> Open(j)
  <2>1. \A d \in Cars : d # c => (Token(d, j)' <=> Token(d, j))
    BY <1>1, MovesTokens
  <2>2. Token(c, j)' <=> j = k
    BY <1>1, <1>3, MovesTokens
  <2>3. CASE p = "arrive"
    <3>1. s = k
      BY <2>3 DEF Downs
    <3>2. CASE j = k
      BY <1>4, <2>2, <3>1, <3>2 DEF Open
    <3>3. CASE j # k
      <4>1. sem'[j] = sem[j]
        BY <1>4, <3>1, <3>3
      <4>2. ~Token(c, j)
        BY <1>1, <3>3 DEF Token, Raises
      <4> QED
        BY <2>1, <2>2, <3>3, <4>1, <4>2 DEF Open
    <3> QED
      BY <3>2, <3>3
  <2>4. CASE p # "arrive"
    <3>1. s = "general_sem" /\ p \in HolderAt
      BY <2>4 DEF Downs, HolderAt, GateAt
    <3>2. sem'[j] = sem[j]
      BY <1>4, <3>1, ColourFacts
    <3>3. Token(c, j) <=> j = k
      BY <1>1, <3>1 DEF Token, Raises
    <3> QED
      BY <2>1, <2>2, <3>2, <3>3 DEF Open
  <2> QED
    BY <2>3, <2>4
<1>7. \A d \in Cars : Crosses(d)' <=> Crosses(d)
  BY <1>1, <1>3, MovesSame DEF Crosses
<1>8. \A j \in Colours : Departing(j)' <=> Departing(j)
  BY <1>5, <1>7 DEF Departing
<1>9. \A d \in Cars : HandsOver(d)' <=> HandsOver(d)
  BY <1>1, <1>2, <1>3 DEF HandsOver
<1>10. \A j \in Colours : /\ Cardinality(Waiting(j))' = Cardinality(Waiting(j))
                          /\ Cardinality(Taking(j))' = Cardinality(Taking(j))
                          /\ Cardinality(Uncounted(j))' = Cardinality(Uncounted(j))
  BY <1>1, <1>3, MovesSets, MovesUncounted
<1>11. \A j \in Colours : /\ AllPassed(j)' <=> AllPassed(j)
                          /\ Coming(j) => Coming(j)'
                          /\ LastOnes(j) => LastOnes(j)'
                          /\ (\A d \in Cars : Colour(d) = j => pc'[d] \notin TakenAt) =>
                               \A d \in Cars : Colour(d) = j => pc[d] \notin TakenAt
  BY <1>1, <1>2, <1>3 DEF AllPassed, Coming, LastOnes
<1>12. \A d \in Cars : \A j \in Colours : Releasing(d, j) => Releasing(d, j)'
  BY <1>1, <1>2, <1>3, <1>5, <1>10 DEF Releasing
<1>13. ASSUME NEW j \in Colours PROVE Flows(j)'
  <2>1. Live(j) /\ Useful(j) /\ Exact(j) /\ Room(j) /\ Emptying(j) /\ Batch(j)
    BY DEF Flow, Flows
  <2>2. Live(j)' /\ Useful(j)'
    BY <1>1, <1>6, <1>8, <1>9, <1>11, <2>1 DEF Live, Useful
  <2>3. Exact(j)' /\ Room(j)'
    BY <1>1, <1>6, <1>10, <1>11, <2>1 DEF Exact, Room
  <2>4. Emptying(j)' /\ Batch(j)'
    BY <1>1, <1>5, <1>8, <1>10, <1>11, <1>12, <2>1 DEF Emptying, Batch, Full
  <2> QED
    BY <2>2, <2>3, <2>4 DEF Flows
<1>14. ASSUME NEW d \in Cars PROVE Follows(d)'
  <2>1. Called(d) /\ Reset(d) /\ pc[d] # "full" /\ Other(Colour(d)) \in Colours
    BY ColourFacts DEF Flow, Follows
  <2>2. Called(d)'
    <3> SUFFICES ASSUME pc'[d] \in {"ceded", "gated", "sent"}, turn' = TurnOf(Colour(d))
                 PROVE  \/ sem'["general_sem"] > 0
                        \/ \E e \in Cars : Calls(e)' \/ HandsOver(e)'
      BY DEF Called
    <3>1. d # c /\ pc[d] \in {"ceded", "gated", "sent"} /\ turn = TurnOf(Colour(d))
      BY <1>1, <1>2, <1>3
    <3>2. s # "general_sem"
      <4> SUFFICES ASSUME s = "general_sem" PROVE FALSE
        OBVIOUS
      <4>1. p \in {"ceded", "gated", "sent"}
        BY <1>1, ColourFacts DEF Downs
      <4>2. turn = TurnOf(k)
        BY <1>1, <1>4, <4>1, SentFacts
      <4>3. Colour(d) = k
        BY <1>1, <3>1, <4>2, ColourFacts
      <4>4. Token(c, k) /\ Token(d, k)
        BY <1>1, <3>1, <4>1, <4>3 DEF Token, HolderAt, GateAt
      <4> QED
        BY <1>1, <3>1, <4>4 DEF Batches, Baton
    <3>3. sem'["general_sem"] = sem["general_sem"]
      BY <1>4, <3>2, ColourFacts
    <3> QED
      BY <1>2, <1>9, <2>1, <3>1, <3>3 DEF Called, Calls
  <2>3. Reset(d)'
    <3>1. d = c => pc'[d] \notin {"alone", "toss", "keep", "hand"}
      BY <1>2, <1>3
    <3> QED
      BY <1>1, <1>2, <1>8, <2>1, <3>1 DEF Reset
  <2>4. pc'[d] # "full"
    BY <1>2, <1>3, <2>1
  <2> QED
    BY <2>2, <2>3, <2>4 DEF Follows
<1>15. Fresh'
  BY <1>1, <1>2, <1>3 DEF Flow, Fresh
<1> QED
  BY <1>1, <1>13, <1>14, <1>15 DEF Flow

\* A car that has been released leaves the bridge.
LEMMA DownOn ==
    ASSUME Good, Batches, Flow, Good', Batches', NEW c \in Cars, NEW q, NEW s,
           Downs(c, "on", q, s), UNCHANGED count
    PROVE  Flow'
<1> DEFINE k == Colour(c)
           o == Other(k)
<1>1. /\ k \in Colours /\ o \in Colours /\ o # k /\ CarTypes /\ Moves(c, "pass", <<>>)
      /\ todo[c] = <<>> /\ pc[c] = "on" /\ q = "pass" /\ s = Bridge(k)
      /\ UNCHANGED <<turn, step2, slots_left, count>>
      /\ \A j \in Colours : j = k \/ j = o
  BY ColourFacts DEF Downs, Good, Types
<1>2. /\ pc'[c] = "pass"
      /\ \A d \in Cars : d # c => pc'[d] = pc[d]
      /\ \A d \in Cars : todo'[d] = todo[d]
  BY <1>1, MovesFacts
<1>3. /\ {"pass", "on"} \cap (HolderAt \cup Early \cup DecidingAt \cup TakenAt \cup PassedAt) = {}
      /\ {"pass", "on"} \cap (SettlingAt \cup CountedAt) = {}
      /\ "pass" \in UnpassedAt /\ {"pass", "on"} \subseteq UncountedAt /\ "on" \notin UnpassedAt
  BY DEF Early, DecidingAt, HolderAt, GateAt, SlotsAt, TakenAt, UnpassedAt, CountedAt,
    SettlingAt, GoneAt, PassedAt, UncountedAt
<1>4. /\ \A r \in Semaphores : r # s => sem'[r] = sem[r]
      /\ sem'[Bridge(k)] = sem[Bridge(k)] - 1 /\ sem[Bridge(k)] > 0 /\ sem[Bridge(k)] \in Nat
      /\ \A j \in Colours : sem'[j] = sem[j]
      /\ sem'["general_sem"] = sem["general_sem"]
      /\ sem'[Bridge(o)] = sem[Bridge(o)]
  <2>1. /\ \A r \in Semaphores : r # s => sem'[r] = sem[r]
        /\ sem'[s] = sem[s] - 1 /\ sem[s] > 0 /\ s \in Semaphores /\ sem[s] \in Nat
    BY DEF Downs, Good, Types
  <2> QED
    BY <1>1, <2>1, ColourFacts
<1>5. \A j \in Colours : Open(j)' <=> Open(j)
  <2>1. \A j \in Colours : ~Token(c, j) /\ ~Token(c, j)'
    BY <1>1, <1>3, MovesTokens DEF Token, Raises
  <2>2. \A d \in Cars, j \in Colours : Token(d, j)' <=> Token(d, j)
    BY <1>1, <2>1, MovesTokens
  <2> QED
    BY <1>4, <2>2 DEF Open
<1>6. /\ \A d \in Cars : d # c => (Crosses(d)' <=> Crosses(d))
      /\ Crosses(c)'
  BY <1>1, <1>3, MovesSame
<1>7. /\ Departing(k) /\ Departing(k)'
      /\ Departing(o)' <=> Departing(o)
  BY <1>1, <1>4, <1>6 DEF Departing
<1>8. turn = TurnOf(k) /\ turn # TurnOf(o) /\ ~Open(k)'
  BY <1>1, <1>5, <1>7, DepartingFacts, ColourFacts DEF Leaving
<1>9. \A d \in Cars : HandsOver(d)' <=> HandsOver(d)
  BY <1>1, <1>2, <1>3 DEF HandsOver
<1>10. \A j \in Colours : Live(j)'
  BY <1>1, <1>5, <1>7, <1>9 DEF Flow, Flows, Live
<1>11. Emptying(k)'
  <2>1. /\ Cardinality(Waiting(k))' = Cardinality(Waiting(k)) - 1
        /\ Cardinality(Waiting(k)) \in Nat
    BY <1>1, MovesSets
  <2>2. CASE sem[Bridge(k)] = Cardinality(Waiting(k))
    BY <1>4, <2>1, <2>2 DEF Emptying
  <2>3. ASSUME NEW e \in Cars, Releasing(e, k) PROVE Emptying(k)'
    <3>1. /\ e # c /\ Len(todo[e]) \in Nat
          /\ sem[Bridge(k)] + Len(todo[e]) = Cardinality(Waiting(k))
      BY <1>1, <1>3, <2>3 DEF Releasing, CarTypes
    <3>2. sem'[Bridge(k)] + Len(todo[e]) = Cardinality(Waiting(k))'
      BY <1>4, <2>1, <3>1
    <3>3. Releasing(e, k)'
      BY <1>2, <2>3, <3>1, <3>2 DEF Releasing
    <3> QED
      BY <3>3 DEF Emptying
  <2> QED
    BY <1>1, <1>7, <2>2, <2>3 DEF Flow, Flows, Emptying
<1>12. Batch(k)'
  <2>1. Cardinality(Uncounted(k))' = Cardinality(Uncounted(k))
    BY <1>1, <1>3, MovesUncounted
  <2>2. LastOnes(k) => LastOnes(k)'
    BY <1>2, <1>3 DEF LastOnes
  <2> QED
    BY <1>1, <1>7, <2>1, <2>2 DEF Flow, Flows, Batch, Full
<1>13. Flows(k)'
  BY <1>1, <1>7, <1>8, <1>10, <1>11, <1>12 DEF Flows, Useful, Exact, Room
<1>14. \A j \in Colours : Flows(j)'
  BY <1>1, <1>8, <1>10, <1>13, OtherFlows
<1>15. ASSUME NEW d \in Cars PROVE Follows(d)'
  <2>1. Called(d) /\ Reset(d) /\ pc[d] # "full" /\ Other(Colour(d)) \in Colours
    BY ColourFacts DEF Flow, Follows
  <2>2. Called(d)'
    BY <1>1, <1>2, <1>4, <1>9, <2>1 DEF Called, Calls
  <2>3. Reset(d)'
    BY <1>1, <1>2, <1>7, <2>1 DEF Reset
  <2> QED
    BY <1>2, <2>1, <2>2, <2>3 DEF Follows
<1>16. Fresh'
  BY <1>2, <1>3 DEF Fresh
<1> QED
  BY <1>1, <1>14, <1>15, <1>16 DEF Flow

LEMMA DownFlow ==
    ASSUME Good, Batches, Flow, Good', Batches', NEW c \in Cars, Down(c)
    PROVE  Flow'
<1>1. PICK p, q, s : Downs(c, p, q, s)
  BY DownDowns
<1>2. UNCHANGED count
  BY DEF Down, bridgeVars
<1>3. p # "full"
  BY <1>1 DEF Downs, Flow, Follows
<1>4. CASE p = "on"
  BY <1>1, <1>2, <1>4, DownOn
<1>5. CASE p \notin {"full", "on"}
  BY <1>1, <1>2, <1>5, DownEarly
<1> QED
  BY <1>3, <1>4, <1>5

-----------------------------------------------------------------------------
(* The second invariant. *)

LEMMA CarStepFlow ==
    ASSUME Good, Batches, ~Over, Proper, Flow, Good', Batches', ~raced',
           NEW c \in Cars, CarStep(c)
    PROVE  Flow'
<1>1. CASE GetVal(c) \/ SemOp(c) \/ Down(c)
  BY <1>1, RaiseFlow, DownFlow
<1>2. CASE First(c) \/ SetStep(c) \/ Decide(c) \/ Compare(c) \/ Cede(c) \/ Gate(c) \/ Loop(c)
  BY <1>2, SamePartStep, DecideFlow
<1>3. CASE TakeSlot(c) \/ Alone(c) \/ Among(c)
  BY <1>3, TakeSlotFlow, AloneFlow, AmongFlow
<1>4. CASE LoadLeft(c) \/ StoreLeft(c) \/ LoadCount(c) \/ StoreCount(c)
  BY <1>4, SamePartStep, StoreCountFlow
<1>5. CASE Settle(c) \/ Empty(c) \/ Toss(c) \/ Keep(c) \/ Hand(c)
  BY <1>5, SettleFlow, EmptyFlow, TossFlow, KeepFlow, HandFlow
<1>6. CASE LoadStop(c) \/ StoreStop(c) \/ Last(c)
  BY <1>6, SamePartStep
<1> QED
  BY <1>1, <1>2, <1>3, <1>4, <1>5, <1>6 DEF CarStep

LEMMA MainStepFlow ==
    ASSUME Good, Flow, MainStep
    PROVE  Flow'
<1>1. CASE LoadNew \/ Finish \/ Destroy \/ Return
  <2>1. UNCHANGED <<pc, todo, turn, step2, slots_left, count>>
    BY <1>1 DEF LoadNew, Finish, Destroy, Return, own, turnVars, bridgeVars
  <2>2. \A s \in Semaphores \ {"main_sem"} : sem'[s] = sem[s]
    BY <1>1 DEF LoadNew, Finish, Destroy, Return, Good, Types
  <2> QED
    BY <2>1, <2>2, SameFlow
<1>2. CASE \E c \in Cars : Create(c)
  BY <1>2, CreateFlow
<1> QED
  BY <1>1, <1>2 DEF MainStep

\* A car that has passed does not come back.
LEMMA OverStep == Good /\ Over /\ [Next]_vars => Over'
<1> SUFFICES ASSUME Good, Over, [Next]_vars PROVE Over'
  OBVIOUS
<1>1. ASSUME NEW c \in Cars, CarStep(c)
      PROVE  pc' = pc \/ \E q \in PassedAt : GoTo(c, q)
  <2> USE DEF GoRaising, GoTo, At, PassedAt, CountedAt, SettlingAt, GoneAt
  <2>1. pc[c] \in PassedAt
    BY DEF Over
  <2>2. CASE GetVal(c) \/ SemOp(c) \/ Down(c)
    BY <2>1, <2>2 DEF GetVal, SemOp, Down, Waits
  <2>3. CASE First(c) \/ SetStep(c) \/ Decide(c) \/ Compare(c) \/ Cede(c) \/ Gate(c) \/ Loop(c)
    BY <2>1, <2>3 DEF First, SetStep, Decide, Compare, Cede, Gate, Loop
  <2>4. CASE TakeSlot(c) \/ Alone(c) \/ Among(c)
    BY <2>1, <2>4 DEF TakeSlot, Alone, Among
  <2>5. CASE LoadLeft(c) \/ StoreLeft(c) \/ LoadCount(c) \/ StoreCount(c)
    BY <2>1, <2>5 DEF LoadLeft, StoreLeft, LoadCount, StoreCount
  <2>6. CASE Settle(c) \/ Empty(c) \/ Toss(c) \/ Keep(c) \/ Hand(c)
    <3>1. CASE Settle(c) \/ Empty(c) \/ Toss(c)
      BY <3>1 DEF Settle, Empty, Toss
    <3>2. CASE Keep(c)
      BY <3>2 DEF Keep
    <3>3. CASE Hand(c)
      BY <3>3 DEF Hand
    <3> QED
      BY <2>6, <3>1, <3>2, <3>3
  <2>7. CASE LoadStop(c) \/ StoreStop(c) \/ Last(c)
    BY <2>7 DEF LoadStop, StoreStop, Last
  <2> QED
    BY <1>1, <2>2, <2>3, <2>4, <2>5, <2>6, <2>7 DEF CarStep
<1>2. CASE \E c \in Cars : CarStep(c)
  BY <1>1, <1>2 DEF GoTo, Over, Good, Types, CarTypes
<1>3. CASE MainStep
  <2>1. \A c \in Cars : ~Create(c)
    BY DEF Create, Uncreated, Over, PassedAt, CountedAt, SettlingAt, GoneAt
  <2> QED
    BY <1>3, <2>1 DEF MainStep, LoadNew, Finish, Destroy, Return, Over
<1>4. CASE UNCHANGED vars
  BY <1>4 DEF vars, Over
<1> QED
  BY <1>2, <1>3, <1>4 DEF Next

\* main is released when all the cars have ended.
LEMMA EndsStep ==
    ASSUME Good, Proper, Ends, [Next]_vars
    PROVE  Ends'
<1> SUFFICES ASSUME \A d \in Cars : pc'[d] = "done"
             PROVE  \/ sem'["main_sem"] > 0
                    \/ main' \in {"destroy", "return", "returned", "failed"}
                    \/ \E d \in Cars : todo'[d] # <<>>
  BY DEF Ends
<1>1. CarTypes /\ \A s \in Semaphores : sem[s] \in Nat
  BY DEF Good, Types
<1>2. ASSUME NEW c \in Cars, NEW q, GoTo(c, q) PROVE q = "done"
  BY <1>1, <1>2 DEF GoTo, CarTypes
<1>3. ASSUME NEW c \in Cars, GetVal(c) \/ SemOp(c)
      PROVE  sem'["main_sem"] > 0 \/ UNCHANGED <<todo, sem, main>>
  <2> DEFINE h == Head(todo[c])
  <2>1. pc' = pc /\ todo[c] # <<>>
    BY <1>3 DEF GetVal, SemOp
  <2>2. h = "main_sem" /\ h \in Semaphores /\ sem[h] \in Nat
    BY <1>1, <2>1, RaiserFacts
  <2>3. CASE SemOp(c)
    BY <2>2, <2>3 DEF SemOp, Good, Types
  <2>4. CASE GetVal(c)
    BY <2>2, <2>4 DEF GetVal, ends
  <2> QED
    BY <1>3, <2>3, <2>4
<1>4. ASSUME NEW c \in Cars, Last(c) PROVE todo'[c] # <<>>
  <2>1. /\ pc[c] = "last"
        /\ Moves(c, "done", IF stop = Cardinality(Cars) THEN <<"main_sem">> ELSE <<>>)
    BY <1>4 DEF Last, At, GoRaising, GoTo, Moves
  <2>2. \A d \in Cars : d # c => pc[d] = "done"
    BY <1>1, <2>1, MovesFacts
  <2>3. Ended = Cars
    BY <2>1, <2>2 DEF Ended
  <2>4. stop = Cardinality(Cars)
    BY <2>3 DEF Good, Ending
  <2> QED
    BY <1>1, <2>1, <2>4, MovesFacts
<1>5. ASSUME NEW c \in Cars, CarStep(c), ~(GetVal(c) \/ SemOp(c) \/ Last(c)) PROVE FALSE
  <2> USE <1>2 DEF GoRaising
  <2>1. CASE Down(c)
    BY <2>1 DEF Down, Onwards, Waits
  <2>2. CASE First(c) \/ SetStep(c) \/ Decide(c) \/ Compare(c) \/ Cede(c) \/ Gate(c) \/ Loop(c)
    BY <2>2 DEF First, SetStep, Decide, Compare, Cede, Gate, Loop
  <2>3. CASE TakeSlot(c) \/ Alone(c) \/ Among(c)
    BY <2>3 DEF TakeSlot, Alone, Among
  <2>4. CASE LoadLeft(c) \/ StoreLeft(c) \/ LoadCount(c) \/ StoreCount(c)
    BY <2>4 DEF LoadLeft, StoreLeft, LoadCount, StoreCount
  <2>5. CASE Settle(c) \/ Empty(c) \/ Toss(c) \/ Keep(c) \/ Hand(c)
    BY <2>5 DEF Settle, Empty, Toss, Keep, Hand
  <2>6. CASE LoadStop(c) \/ StoreStop(c)
    BY <2>6 DEF LoadStop, StoreStop
  <2> QED
    BY <1>5, <2>1, <2>2, <2>3, <2>4, <2>5, <2>6 DEF CarStep
<1>6. CASE \E c \in Cars : CarStep(c)
  <2>1. PICK c \in Cars : CarStep(c)
    BY <1>6
  <2>2. CASE GetVal(c) \/ SemOp(c)
    <3>1. pc' = pc
      BY <2>2 DEF GetVal, SemOp
    <3> QED
      BY <1>3, <2>2, <3>1 DEF Ends
  <2> QED
    BY <1>4, <1>5, <2>1, <2>2
<1>7. CASE MainStep
  <2>1. CASE LoadNew
    <3>1. PICK c \in Cars : TRUE
      BY DEF Proper, Cars
    <3>2. pc[c] = "done" /\ Creating
      BY <2>1, <3>1 DEF LoadNew, Creating
    <3> QED
      BY <3>1, <3>2 DEF Good, Counting, HolderAt, DecidingAt, GateAt, SlotsAt, TakenAt
  <2>2. CASE \E c \in Cars : Create(c)
    BY <1>2, <2>2 DEF Create
  <2>3. CASE Finish \/ Destroy \/ Return
    BY <2>3 DEF Finish, Destroy, Return
  <2> QED
    BY <1>7, <2>1, <2>2, <2>3 DEF MainStep
<1>8. CASE UNCHANGED vars
  BY <1>8 DEF vars, Ends
<1> QED
  BY <1>6, <1>7, <1>8 DEF Next

LEMMA InitFlowInv == Init => FlowInv
<1> SUFFICES ASSUME Init, Proper PROVE Ends /\ Flow
  BY DEF FlowInv
<1>1. \A c \in Cars : pc[c] = "none"
  BY DEF Init
<1>2. Ends
  <2>1. \E c \in Cars : TRUE
    BY DEF Proper, Cars
  <2> QED
    BY <1>1, <2>1 DEF Ends
<1>3. \A k \in Colours : Open(k) /\ sem[Bridge(k)] = 0
  BY ColourFacts DEF Init, Open
<1>4. Unstarted
  BY <1>1, <1>3 DEF Init, Unstarted, Early
<1> QED
  BY <1>2, <1>4, EarlyFlow

LEMMA FlowInvStep == IInv /\ IInv' /\ FlowInv /\ [Next]_vars => FlowInv'
<1> SUFFICES ASSUME IInv, IInv', FlowInv, [Next]_vars, ~raced', Proper
             PROVE  Ends' /\ (Over' \/ Flow')
  BY DEF FlowInv, Proper
<1>1. ~raced /\ Good /\ Good' /\ Ends /\ (Over \/ Flow)
  BY RacedStep DEF IInv, FlowInv
<1>2. Ends'
  BY <1>1, EndsStep
<1>3. ASSUME ~Over' PROVE Flow'
  <2>1. ~Over /\ Flow /\ Batches /\ Batches'
    BY <1>1, <1>3, OverStep DEF Good
  <2>2. CASE \E c \in Cars : CarStep(c)
    BY <1>1, <2>1, <2>2, CarStepFlow
  <2>3. CASE MainStep
    BY <1>1, <2>1, <2>3, MainStepFlow
  <2>4. CASE UNCHANGED vars
    BY <2>1, <2>4, SameFlow DEF vars
  <2> QED
    BY <2>2, <2>3, <2>4 DEF Next
<1> QED
  BY <1>2, <1>3

\* The second invariant: until a race happens the token, the turn and the cars that
\* wait are not lost, if the bridge takes two cars and both colours have some.
THEOREM Flowing == Spec => []FlowInv
<1> QED
  BY InitFlowInv, FlowInvStep, Invariant, PTL DEF Spec

\* In such a state some thread can go on.
LEMMA NotStuck ==
    ASSUME Good, Proper, Ends, Over \/ Flow, Stuck
    PROVE  FALSE
<1>1. /\ \A c \in Cars : todo[c] = <<>>
      /\ \A c \in Cars : pc[c] = "done" \/ (pc[c] \in Waits /\ sem[Awaits(c)] = 0)
      /\ main = "wait" /\ sem["main_sem"] = 0
  BY DEF Stuck
<1>2. ~Over
  <2> SUFFICES ASSUME Over PROVE FALSE
    OBVIOUS
  <2>1. \A c \in Cars : pc[c] = "done"
    BY <1>1 DEF Over, Waits, PassedAt, CountedAt, SettlingAt, GoneAt
  <2> QED
    BY <1>1, <2>1 DEF Ends
<1>3. Batches /\ Flow
  BY <1>2 DEF Good
<1>4. /\ \A c \in Cars : pc[c] \notin SettlingAt \cup DecidingAt \cup UnpassedAt \cup CountedAt
      /\ \A c \in Cars : pc[c] \notin TakenAt \cup {"hand", "full", "none", "first"}
      /\ \A c \in Cars : ~HandsOver(c) /\ ~Calls(c) /\ ~Crosses(c)
  <2>1. \A c \in Cars : pc[c] \in Waits \cup {"done"} /\ pc[c] # "full"
    BY <1>1, <1>3 DEF Flow, Follows
  <2>2. \A c \in Cars : /\ pc[c] \notin SettlingAt \cup DecidingAt \cup UnpassedAt \cup CountedAt
                        /\ pc[c] \notin TakenAt \cup {"hand", "full", "none", "first"}
    BY <2>1 DEF Waits, SettlingAt, DecidingAt, UnpassedAt, CountedAt, TakenAt
  <2> QED
    BY <1>1, <2>2 DEF HandsOver, Calls, Crosses
<1>5. ASSUME NEW k \in Colours PROVE ~Departing(k)
  <2>1. Released(k) /\ sem[Bridge(k)] \in Nat
    BY <1>3, ColourFacts DEF Batches, Good, Types
  <2>2. CASE sem[Bridge(k)] > 0
    <3>1. Waiting(k) # {}
      BY <2>1, <2>2, SetFacts DEF Released
    <3>2. PICK c \in Cars : Colour(c) = k /\ pc[c] = "on"
      BY <3>1, ColourFacts DEF Waiting
    <3>3. Awaits(c) = Bridge(k)
      BY <3>2 DEF Awaits
    <3> QED
      BY <1>1, <2>2, <3>2, <3>3
  <2> QED
    BY <1>4, <2>1, <2>2 DEF Departing
\* A token is in its semaphore, or with a car that waits for general_sem.
<1>6. ASSUME NEW k \in Colours, Open(k)
      PROVE  sem[k] > 0
        \/ \E c \in Cars : Colour(c) = k /\ pc[c] \in {"ceded", "gated", "sent"}
  <2>1. \A c \in Cars : Token(c, k) => Colour(c) = k /\ pc[c] \in {"ceded", "gated", "sent"}
    <3> SUFFICES ASSUME NEW c \in Cars, Colour(c) = k, pc[c] \in HolderAt
                 PROVE  pc[c] \in {"ceded", "gated", "sent"}
      BY <1>1 DEF Token, Raises
    <3>1. pc[c] \in Waits \/ pc[c] = "done"
      BY <1>1
    <3> QED
      BY <1>4, <3>1 DEF Waits, HolderAt, DecidingAt, GateAt, SlotsAt, TakenAt
  <2> QED
    BY <1>6, <2>1 DEF Open
<1>7. ASSUME NEW c \in Cars, pc[c] = "arrive" PROVE sem[Colour(c)] = 0
  BY <1>1, <1>7 DEF Awaits
<1>8. CASE \A c \in Cars : pc[c] = "arrive"
  <2>1. PICK c \in Cars : Colour(c) = "red"
    BY TeamFacts DEF Colours
  <2>2. step2 = 0
    BY <1>8 DEF Good, Started, Early
  <2>3. Open("red")
    BY <1>3, <1>4, <1>5, <2>2 DEF Flow, Flows, Live, Colours
  <2>4. sem["red"] > 0
    BY <1>6, <1>8, <2>3 DEF Colours
  <2> QED
    BY <1>7, <1>8, <2>1, <2>4
<1>9. CASE \E c \in Cars : pc[c] # "arrive"
  <2>1. turn \in {0, 1}
    <3>1. step > 0
      BY <1>4, <1>9 DEF Good, Started, Early, DecidingAt
    <3> QED
      BY <1>4, <3>1 DEF Good, Started
  <2>2. PICK k \in Colours : turn = TurnOf(k)
    BY <2>1 DEF Colours, TurnOf
  <2>3. Live(k) /\ Useful(k) /\ Room(k)
    BY <1>3 DEF Flow, Flows
  <2>4. Open(k) /\ ~AllPassed(k)
    BY <1>4, <1>5, <2>2, <2>3 DEF Live, Useful
  <2>5. ASSUME NEW c \in Cars, Colour(c) = k, pc[c] \in {"ceded", "gated", "sent"} PROVE FALSE
    <3>1. sem["general_sem"] > 0
      BY <1>3, <1>4, <2>2, <2>5 DEF Flow, Follows, Called
    <3>2. Awaits(c) = "general_sem"
      BY <2>5 DEF Awaits
    <3> QED
      BY <1>1, <2>5, <3>1, <3>2
  <2>6. sem[k] > 0
    BY <1>6, <2>4, <2>5
  <2>7. PICK c \in Cars : Colour(c) = k /\ pc[c] \in Early \cup (HolderAt \ TakenAt)
    BY <1>4, <2>2, <2>3, <2>4 DEF Room, Coming
  <2>8. pc[c] = "arrive" \/ pc[c] \in {"ceded", "gated", "sent"}
    <3>1. pc[c] \in Waits \/ pc[c] = "done"
      BY <1>1
    <3> QED
      BY <1>4, <2>7, <3>1 DEF Waits, Early, HolderAt, DecidingAt, GateAt, SlotsAt, TakenAt
  <2> QED
    BY <1>7, <2>5, <2>6, <2>7, <2>8
<1> QED
  BY <1>8, <1>9

\* Nothing but the races stops the program, whatever the tosses are, if the bridge
\* takes two cars and both colours have some (bridge.c:122-163): as long as none has
\* happened, some thread can go on or main has ended.
THEOREM StuckOnlyIfRacedHolds == Spec => []StuckOnlyIfRaced
<1>1. IInv /\ FlowInv => StuckOnlyIfRaced
  BY NotStuck DEF IInv, FlowInv, Proper, StuckOnlyIfRaced
<1> QED
  BY <1>1, Invariant, Flowing, PTL
=============================================================================
