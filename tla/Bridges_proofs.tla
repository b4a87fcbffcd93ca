-------------------------- MODULE Bridges_proofs --------------------------
(***************************************************************************)
(* Proofs about the bridges with conditional critical regions and with     *)
(* monitors, for every number of cars and slots.  About CCRBridge: type    *)
(* correctness, the four safety invariants, the alternation of the turns   *)
(* and the implementation of NarrowBridge.  About MonitorBridge, in the    *)
(* second part: type correctness, mutual exclusion of the directions, the  *)
(* limit of a batch, the bookkeeping of the queues and the implementation  *)
(* of NarrowBridge.                                                        *)
(***************************************************************************)
EXTENDS CCRBridge, FiniteSetTheorems, TLAPS

\* One colour has the turn.
OneTurn == \A k \in Colours : turn[k] = 1 <=> turn[Other(k)] # 1

\* What a region relies on: the car inside has the turn; the cars of the batch
\* have it too, and have been through their enter function; the batch has room
\* until a car enters, and a batch that fills the bridge is gone before the
\* lock is released.
RegionInv ==
    /\ \A c \in Cars : pc[c] = "inside" => turn[Colour(c)] = 1
    /\ \A c \in Cars : pc[c] = "entered" => c \in batch /\ lastSide = Colour(c)
    /\ \A c \in batch : turn[Colour(c)] = 1 /\ pc[c] \in {"entered", "done"}
    /\ (\A c \in Cars : pc[c] # "entered") => cars_on_bridge < Slots

\* The colour that crossed last has the turn again only if the other colour has
\* no car to go.
TurnPasses ==
    \A k \in Colours :
        batch = {} /\ lastSide = k /\ turn[k] = 1 => left[Other(k)] = 0

\* The counters and the region are invariant together: the count of a batch
\* stays below Slots because the region empties it, and left stays in Nat
\* because it counts the cars to go.
IInv == TypeOK /\ OneTurn /\ RegionInv /\ CountersExact /\ TurnPasses

-----------------------------------------------------------------------------
(* The two colours. *)

LEMMA ColourFacts ==
    /\ \A k \in Colours : Other(k) \in Colours /\ Other(k) # k /\ Other(Other(k)) = k
    /\ \A k, j \in Colours : j = k \/ j = Other(k)
    /\ \A c \in Cars : Colour(c) \in Colours
    /\ \A c \in Cars, k \in Colours : c \in Team(k) <=> Colour(c) = k
    /\ \A k \in Colours : Team(k) \subseteq Cars /\ IsFiniteSet(Team(k))
    /\ NoCar \notin Cars
BY CCRAssumption DEF Colours, Other, Colour, Team, Cars

LEMMA CarsFinite == IsFiniteSet(Cars)
BY CCRAssumption, FS_Union DEF Cars

\* The cars to go of a colour are a finite set.
LEMMA ToGoFinite == ASSUME NEW k \in Colours
                    PROVE  IsFiniteSet(ToGo(k))
<1>1. ToGo(k) \subseteq Team(k)
  BY DEF ToGo
<1> QED
  BY <1>1, ColourFacts, FS_Subset

\* Moving cars between the places before the bridge does not change who is to go.
LEMMA SameToGo ==
    ASSUME NEW k \in Colours,
           \A c \in Cars : pc[c] \in {"start", "waiting", "woken", "inside"}
                            <=> pc'[c] \in {"start", "waiting", "woken", "inside"}
    PROVE  ToGo(k)' = ToGo(k)
BY ColourFacts DEF ToGo, Team

\* What a signal does: it only wakes cars that wait.
LEMMA SignalWakes ==
    ASSUME NEW W \in Signal(Waiting)
    PROVE  /\ W \subseteq Waiting
           /\ Waiting # {} => W # {}
BY DEF Signal

-----------------------------------------------------------------------------
LEMMA InitIInv == Init => IInv
<1> SUFFICES ASSUME Init PROVE IInv
  OBVIOUS
<1> USE ColourFacts
<1>1. \A k \in Colours : ToGo(k) = Team(k)
  BY DEF Init, ToGo
<1>2. \A k \in Colours : Cardinality(Team(k)) \in Nat
  BY FS_CardinalityType
<1>3. TypeOK
  BY <1>2, CCRAssumption DEF Init, TypeOK, PCs, Colours
<1>4. OneTurn
  BY DEF Init, OneTurn, Colours, Other
<1>5. RegionInv
  BY CCRAssumption DEF Init, RegionInv
<1>6. CountersExact
  BY <1>1, FS_EmptySet DEF Init, CountersExact
<1>7. TurnPasses
  BY DEF Init, TurnPasses, Colours
<1> QED
  BY <1>3, <1>4, <1>5, <1>6, <1>7 DEF IInv

\* Taking or refusing the region, with or without a signal, preserves IInv.
LEMMA LockStep ==
    ASSUME IInv, NEW c \in Cars, NEW W \in SUBSET Waiting,
           pc[c] \in {"start", "woken"}, lock = NoCar,
           IF turn[Colour(c)] = 1 THEN GoTo(c, "inside", W) /\ lock' = c
                                  ELSE GoTo(c, "waiting", W) /\ lock' = lock,
           UNCHANGED <<bridgeVars, spurious>>
    PROVE  IInv'
<1> USE ColourFacts
<1> USE DEF IInv, bridgeVars
<1>1. \A x \in Cars : pc[x] \in {"start", "waiting", "woken", "inside"}
                       <=> pc'[x] \in {"start", "waiting", "woken", "inside"}
  BY DEF GoTo, Waiting
<1>2. TypeOK'
  BY DEF TypeOK, GoTo, PCs, Waiting
<1>3. OneTurn'
  BY DEF OneTurn
<1>4. RegionInv'
  BY DEF RegionInv, TypeOK, GoTo, Waiting
<1>5. CountersExact'
  BY <1>1, SameToGo DEF CountersExact
<1>6. TurnPasses'
  BY DEF TurnPasses
<1> QED
  BY <1>2, <1>3, <1>4, <1>5, <1>6

LEMMA ArriveStep == ASSUME IInv, NEW c \in Cars, Arrive(c)
                    PROVE  IInv'
BY LockStep DEF Arrive

LEMMA RecheckStep == ASSUME IInv, NEW c \in Cars, Recheck(c)
                     PROVE  IInv'
BY LockStep, SignalWakes DEF Recheck

\* Who holds the lock is the only car in the region.
LEMMA OneInside ==
    ASSUME TypeOK, NEW c \in Cars, pc[c] \in {"inside", "entered"}
    PROVE  \A d \in Cars \ {c} : pc[d] \notin {"inside", "entered"}
BY DEF TypeOK

\* A car inside the region always finds room, has the turn, and is one of the
\* cars to go: its enter function counts it, and leaves the turn as it is.
LEMMA EnterCounts ==
    ASSUME IInv, NEW c \in Cars, EnterBridge(c)
    PROVE  LET k == Colour(c) IN
           /\ c \notin batch
           /\ cars_on_bridge < Slots
           /\ turn[k] = 1 /\ turn' = turn
           /\ cars_on_bridge' = cars_on_bridge + 1
           /\ left' = [left EXCEPT ![k] = @ - 1]
           /\ batch' = batch \cup {c}
           /\ lastSide' = k
<1> USE ColourFacts DEF IInv
<1>1. pc[c] = "inside"
  BY DEF EnterBridge
<1>2. c \notin batch
  BY <1>1 DEF RegionInv
<1>3. cars_on_bridge < Slots
  BY <1>1, OneInside DEF RegionInv
<1>4. Room
  BY <1>3 DEF Room
<1>5. turn[Colour(c)] = 1
  BY <1>1 DEF RegionInv
<1>6. Turn(Colour(c)) = turn
  BY <1>5 DEF Turn, TypeOK, OneTurn
<1> QED
  BY <1>2, <1>3, <1>4, <1>5, <1>6 DEF EnterBridge

LEMMA EnterStep == ASSUME IInv, NEW c \in Cars, EnterBridge(c)
                   PROVE  IInv'
<1> DEFINE k == Colour(c)
<1> USE ColourFacts DEF IInv
<1> k \in Colours
  OBVIOUS
<1>1. pc[c] = "inside" /\ pc' = [pc EXCEPT ![c] = "entered"]
  BY DEF EnterBridge, GoTo, TypeOK
<1>2. /\ c \notin batch
      /\ cars_on_bridge < Slots
      /\ turn[k] = 1 /\ turn' = turn
      /\ cars_on_bridge' = cars_on_bridge + 1
      /\ left' = [left EXCEPT ![k] = @ - 1]
      /\ batch' = batch \cup {c}
      /\ lastSide' = k
      /\ lock' = lock /\ spurious' = spurious
  BY EnterCounts DEF EnterBridge
<1>3. CountersExact'
  <2>1. IsFiniteSet(batch)
    BY CarsFinite, FS_Subset DEF TypeOK
  <2>2. cars_on_bridge' = Cardinality(batch')
    BY <1>2, <2>1, FS_AddElement DEF CountersExact, TypeOK
  <2>3. ASSUME NEW j \in Colours PROVE left'[j] = Cardinality(ToGo(j)')
    <3>1. CASE j = k
      <4>1. c \in ToGo(k) /\ ToGo(k)' = ToGo(k) \ {c}
        BY <1>1 DEF ToGo, TypeOK
      <4>2. Cardinality(ToGo(k)') = Cardinality(ToGo(k)) - 1
        BY <4>1, ToGoFinite, FS_RemoveElement
      <4> QED
        BY <1>2, <3>1, <4>2 DEF CountersExact, TypeOK
    <3>2. CASE j # k
      <4>1. ToGo(j)' = ToGo(j)
        BY <1>1, <3>2 DEF ToGo, TypeOK
      <4> QED
        BY <1>2, <3>2, <4>1 DEF CountersExact, TypeOK
    <3> QED
      BY <3>1, <3>2
  <2> QED
    BY <2>2, <2>3 DEF CountersExact
<1>4. left' \in [Colours -> Nat]
  <2>1. \A j \in Colours : Cardinality(ToGo(j)') \in Nat
    <3>1. ASSUME NEW j \in Colours PROVE IsFiniteSet(ToGo(j)')
      BY FS_Subset DEF ToGo
    <3> QED
      BY <3>1, FS_CardinalityType
  <2> QED
    BY <1>2, <1>3, <2>1 DEF CountersExact, TypeOK
<1>5. TypeOK'
  BY <1>1, <1>2, <1>4, CCRAssumption DEF TypeOK, PCs
<1>6. OneTurn'
  BY <1>2 DEF OneTurn
<1>7. RegionInv'
  <2>1. \A d \in Cars : pc'[d] = "inside" => FALSE
    BY <1>1, OneInside DEF TypeOK
  <2>2. \A d \in Cars : pc'[d] = "entered" => d = c
    BY <1>1, OneInside DEF TypeOK
  <2>3. \A d \in batch' : turn'[Colour(d)] = 1 /\ pc'[d] \in {"entered", "done"}
    BY <1>1, <1>2 DEF RegionInv, TypeOK
  <2>4. pc'[c] = "entered"
    BY <1>1 DEF TypeOK
  <2> QED
    BY <1>2, <2>1, <2>2, <2>3, <2>4 DEF RegionInv
<1>8. TurnPasses'
  BY <1>2 DEF TurnPasses
<1> QED
  BY <1>3, <1>5, <1>6, <1>7, <1>8

LEMMA ExitStep == ASSUME IInv, NEW c \in Cars, ExitBridge(c)
                  PROVE  IInv'
<1> DEFINE k == Colour(c)
<1> USE ColourFacts DEF IInv
<1> k \in Colours
  OBVIOUS
<1>1. PICK W \in Signal(Waiting) : pc[c] = "entered" /\ GoTo(c, "done", W)
  BY DEF ExitBridge
<1>2. \A d \in Cars : pc'[d] = IF d = c THEN "done" ELSE IF d \in W THEN "woken" ELSE pc[d]
  BY <1>1 DEF GoTo
<1>3. W \subseteq Waiting
  BY <1>1, SignalWakes
<1>4. /\ left' = left /\ lastSide' = lastSide /\ spurious' = spurious /\ lock' = NoCar
      /\ c \in batch /\ lastSide = k /\ turn[k] = 1
  BY <1>1 DEF ExitBridge, RegionInv
<1>5. \A d \in Cars \ {c} : pc[d] \notin {"inside", "entered"}
  BY <1>1, OneInside
<1>6. \A d \in Cars : pc'[d] \notin {"inside", "entered"}
  BY <1>2, <1>3, <1>5 DEF Waiting
<1>7. pc' \in [Cars -> PCs]
  BY <1>1, <1>2 DEF GoTo, TypeOK, PCs
<1>8. \A j \in Colours : ToGo(j)' = ToGo(j)
  <2>1. \A d \in Cars : pc[d] \in {"start", "waiting", "woken", "inside"}
                         <=> pc'[d] \in {"start", "waiting", "woken", "inside"}
    BY <1>1, <1>2, <1>3 DEF Waiting
  <2> QED
    BY <2>1, SameToGo
<1>9. \A d \in batch : pc'[d] = "done"
  BY <1>1, <1>2, <1>3, <1>5 DEF RegionInv, Waiting, TypeOK
<1>10. CASE Empties(k)
  <2>1. cars_on_bridge' = 0 /\ batch' = {} /\ turn' = NextTurn(k)
    BY <1>10 DEF ExitBridge
  <2>2. turn' \in [Colours -> {0, 1}] /\ OneTurn'
    BY <2>1 DEF NextTurn, Turn, OneTurn, TypeOK
  <2>3. TypeOK'
    BY <1>4, <1>6, <1>7, <2>1, <2>2, CCRAssumption DEF TypeOK
  <2>4. RegionInv'
    BY <1>6, <2>1, CCRAssumption DEF RegionInv
  <2>5. CountersExact'
    BY <1>4, <1>8, <2>1, FS_EmptySet DEF CountersExact
  <2>6. TurnPasses'
    BY <1>4, <2>1 DEF TurnPasses, NextTurn, Turn, OneTurn, TypeOK
  <2> QED
    BY <2>2, <2>3, <2>4, <2>5, <2>6
<1>11. CASE ~Empties(k)
  <2>1. cars_on_bridge' = cars_on_bridge /\ batch' = batch /\ turn' = turn
    BY <1>11 DEF ExitBridge
  <2>2. TypeOK'
    BY <1>4, <1>6, <1>7, <2>1 DEF TypeOK
  <2>3. RegionInv'
    <3>1. cars_on_bridge < Slots
      BY <1>11, CCRAssumption DEF Empties, TypeOK
    <3> QED
      BY <1>6, <1>9, <2>1, <3>1 DEF RegionInv
  <2>4. CountersExact'
    BY <1>4, <1>8, <2>1 DEF CountersExact
  <2>5. OneTurn' /\ TurnPasses'
    BY <1>4, <2>1 DEF OneTurn, TurnPasses
  <2> QED
    BY <2>2, <2>3, <2>4, <2>5
<1> QED
  BY <1>10, <1>11

LEMMA SpuriousStep == ASSUME IInv, NEW c \in Cars, SpuriousWakeup(c)
                      PROVE  IInv'
<1> USE ColourFacts DEF IInv, bridgeVars
<1>1. TypeOK'
  BY CCRAssumption DEF SpuriousWakeup, TypeOK, PCs
<1>2. \A k \in Colours : ToGo(k)' = ToGo(k)
  <2>1. \A x \in Cars : pc[x] \in {"start", "waiting", "woken", "inside"}
                         <=> pc'[x] \in {"start", "waiting", "woken", "inside"}
    BY DEF SpuriousWakeup, TypeOK
  <2> QED
    BY <2>1, SameToGo
<1>3. CountersExact'
  BY <1>2 DEF SpuriousWakeup, CountersExact
<1>4. RegionInv'
  BY DEF SpuriousWakeup, RegionInv, TypeOK
<1>5. OneTurn' /\ TurnPasses'
  BY DEF SpuriousWakeup, OneTurn, TurnPasses
<1> QED
  BY <1>1, <1>3, <1>4, <1>5

LEMMA StutterStep == ASSUME IInv, UNCHANGED vars
                     PROVE  IInv'
BY DEF vars, IInv, TypeOK, OneTurn, RegionInv, CountersExact, TurnPasses, ToGo

\* IInv is an inductive invariant.
THEOREM Inductive == Spec => []IInv
<1>1. IInv /\ [Next]_vars => IInv'
  <2> SUFFICES ASSUME IInv, [Next]_vars PROVE IInv'
    OBVIOUS
  <2>1. ASSUME NEW c \in Cars, CarStep(c) PROVE IInv'
    BY <2>1, ArriveStep, RecheckStep, EnterStep, ExitStep DEF CarStep
  <2>2. ASSUME NEW c \in Cars, SpuriousWakeup(c) PROVE IInv'
    BY <2>2, SpuriousStep
  <2>3. CASE UNCHANGED vars
    BY <2>3, StutterStep
  <2> QED
    BY <2>1, <2>2, <2>3 DEF Next
<1> QED
  BY InitIInv, <1>1, PTL DEF Spec

-----------------------------------------------------------------------------
(* Theorems. *)

\* The variables keep their types, and the lock is held by the car in the region.
THEOREM TypeCorrect == Spec => []TypeOK
BY Inductive, PTL DEF IInv

\* The counters are exact: no car is refused by the bridge.
THEOREM CountersCorrect == Spec => []CountersExact
BY Inductive, PTL DEF IInv

\* The wakeup is never lost while a car waits whose turn it is.
THEOREM WakeupKept == Spec => []NoLostWakeup
<1>1. Init => NoLostWakeup
  BY DEF Init, NoLostWakeup, Waiting
<1>2. IInv /\ NoLostWakeup /\ [Next]_vars => NoLostWakeup'
  <2> SUFFICES ASSUME IInv, NoLostWakeup, [Next]_vars,
                      NEW w \in Cars, pc'[w] = "waiting", turn'[Colour(w)] = 1
               PROVE  \E d \in Cars : pc'[d] \in {"woken", "inside", "entered"}
    BY DEF NoLostWakeup, Waiting
  <2> USE DEF IInv
  <2>1. ASSUME NEW c \in Cars, Arrive(c)
        PROVE  \E d \in Cars : pc'[d] \in {"woken", "inside", "entered"}
    <3>1. CASE turn[Colour(c)] = 1
      BY <2>1, <3>1 DEF Arrive, GoTo
    <3>2. CASE turn[Colour(c)] # 1
      <4>1. w # c /\ pc[w] = "waiting" /\ turn[Colour(w)] = 1
        BY <2>1, <3>2 DEF Arrive, GoTo, bridgeVars
      <4>2. PICK d \in Cars : pc[d] \in {"woken", "inside", "entered"}
        BY <4>1 DEF NoLostWakeup, Waiting
      <4>3. pc'[d] = pc[d]
        BY <2>1, <3>2, <4>2 DEF Arrive, GoTo
      <4> QED
        BY <4>2, <4>3
    <3> QED
      BY <3>1, <3>2
  <2>2. ASSUME NEW c \in Cars, Recheck(c)
        PROVE  \E d \in Cars : pc'[d] \in {"woken", "inside", "entered"}
    <3>1. CASE turn[Colour(c)] = 1
      BY <2>2, <3>1 DEF Recheck, GoTo
    <3>2. CASE turn[Colour(c)] # 1
      <4>1. PICK W \in Signal(Waiting) : GoTo(c, "waiting", W)
        BY <2>2, <3>2 DEF Recheck
      <4>2. turn' = turn /\ pc[c] = "woken"
        BY <2>2 DEF Recheck, bridgeVars
      <4>3. w # c /\ pc[w] = "waiting"
        BY <3>2, <4>1, <4>2 DEF GoTo
      <4>4. PICK d \in W : pc[d] = "waiting" /\ d \in Cars
        BY <4>1, <4>3, SignalWakes DEF Waiting
      <4>5. pc'[d] = "woken"
        BY <4>1, <4>2, <4>4 DEF GoTo
      <4> QED
        BY <4>4, <4>5
    <3> QED
      BY <3>1, <3>2
  <2>3. ASSUME NEW c \in Cars, EnterBridge(c)
        PROVE  \E d \in Cars : pc'[d] \in {"woken", "inside", "entered"}
    BY <2>3 DEF EnterBridge, GoTo
  <2>4. ASSUME NEW c \in Cars, ExitBridge(c)
        PROVE  \E d \in Cars : pc'[d] \in {"woken", "inside", "entered"}
    <3>1. PICK W \in Signal(Waiting) : GoTo(c, "done", W) /\ pc[c] = "entered"
      BY <2>4 DEF ExitBridge
    <3>2. pc[w] = "waiting"
      BY <3>1 DEF GoTo
    <3>3. PICK d \in W : pc[d] = "waiting" /\ d \in Cars
      BY <3>1, <3>2, SignalWakes DEF Waiting
    <3>4. pc'[d] = "woken"
      BY <3>1, <3>3 DEF GoTo
    <3> QED
      BY <3>3, <3>4
  <2>5. ASSUME NEW c \in Cars, SpuriousWakeup(c)
        PROVE  \E d \in Cars : pc'[d] \in {"woken", "inside", "entered"}
    BY <2>5 DEF SpuriousWakeup, TypeOK
  <2>6. CASE UNCHANGED vars
    BY <2>6 DEF vars, NoLostWakeup, Waiting
  <2> QED
    BY <2>1, <2>2, <2>3, <2>4, <2>5, <2>6 DEF Next, CarStep
<1> QED
  BY <1>1, <1>2, Inductive, PTL DEF Spec

\* Between two regions the turn is with a colour that has cars to go, if any
\* colour has.
THEOREM TurnCorrect == Spec => []TurnHasCars
<1> USE ColourFacts
<1>1. Init => TurnHasCars
  <2> SUFFICES ASSUME Init, Red # {} PROVE left["red"] # 0
    BY DEF Init, TurnHasCars, Colours
  <2> QED
    BY CCRAssumption, FS_EmptySet DEF Init, Colours, Team
<1>2. IInv /\ TurnHasCars /\ [Next]_vars => TurnHasCars'
  <2> SUFFICES ASSUME IInv, TurnHasCars, [Next]_vars, Red # {}, lock' = NoCar,
                      NEW k \in Colours, turn'[k] = 1, left'[k] = 0
               PROVE  left'[Other(k)] = 0
    BY DEF TurnHasCars
  <2> USE DEF IInv
  <2>1. ASSUME NEW c \in Cars, Arrive(c) \/ Recheck(c) PROVE left'[Other(k)] = 0
    BY <2>1 DEF Arrive, Recheck, TurnHasCars, bridgeVars
  <2>2. ASSUME NEW c \in Cars, EnterBridge(c) PROVE left'[Other(k)] = 0
    BY <2>2 DEF EnterBridge, TypeOK
  <2>3. ASSUME NEW c \in Cars, ExitBridge(c) PROVE left'[Other(k)] = 0
    <3>1. turn[Colour(c)] = 1 /\ left' = left
      BY <2>3 DEF ExitBridge, RegionInv
    <3>2. CASE Empties(Colour(c))
      BY <2>3, <3>1, <3>2 DEF ExitBridge, NextTurn, Turn, OneTurn
    <3>3. CASE ~Empties(Colour(c))
      BY <2>3, <3>1, <3>3 DEF ExitBridge, Empties, OneTurn
    <3> QED
      BY <3>2, <3>3
  <2>4. ASSUME NEW c \in Cars, SpuriousWakeup(c) PROVE left'[Other(k)] = 0
    BY <2>4 DEF SpuriousWakeup, TurnHasCars, bridgeVars
  <2>5. CASE UNCHANGED vars
    BY <2>5 DEF vars, TurnHasCars
  <2> QED
    BY <2>1, <2>2, <2>3, <2>4, <2>5 DEF Next, CarStep
<1> QED
  BY <1>1, <1>2, Inductive, PTL DEF Spec

\* The colours alternate, as long as both have cars to go.
THEOREM TurnsAlternate == Spec => Alternates
<1>1. IInv /\ [Next]_vars =>
        [\A k \in Colours :
          batch = {} /\ lastSide = k /\ batch' # {} /\ batch' \subseteq Team(k)
              => left[Other(k)] = 0]_vars
  <2> SUFFICES ASSUME IInv, Next, NEW k \in Colours,
                      batch = {}, lastSide = k, batch' # {}, batch' \subseteq Team(k)
               PROVE  left[Other(k)] = 0
    OBVIOUS
  <2>1. PICK c \in Cars : EnterBridge(c)
    BY DEF Next, CarStep, Arrive, Recheck, ExitBridge, SpuriousWakeup, bridgeVars
  <2>2. turn[Colour(c)] = 1 /\ Colour(c) = k
    BY <2>1, EnterCounts, ColourFacts
  <2> QED
    BY <2>2 DEF IInv, TurnPasses
<1> QED
  BY <1>1, Inductive, PTL DEF Spec, Alternates

-----------------------------------------------------------------------------
(* The program implements the abstract bridge. *)

LEMMA RefineInit == Init => Bridge!Init
BY DEF Init, Bridge!Init

LEMMA RefineEnter == ASSUME IInv, NEW c \in Cars, EnterBridge(c)
                     PROVE  Bridge!Enter(c)
<1> USE ColourFacts DEF IInv
<1>1. /\ c \notin batch /\ cars_on_bridge < Slots
      /\ turn[Colour(c)] = 1
      /\ cars_on_bridge' = cars_on_bridge + 1 /\ batch' = batch \cup {c}
  BY EnterCounts
<1>2. pc[c] = "inside" /\ pc' = [pc EXCEPT ![c] = "entered"]
  BY DEF EnterBridge, GoTo, TypeOK
<1>3. \A d \in batch : Colour(d) = Colour(c)
  BY <1>1 DEF RegionInv, OneTurn, TypeOK
<1>4. batch \cup {c} \subseteq Team(Colour(c))
  BY <1>3 DEF TypeOK
<1>5. Bridge!SameSide(batch \cup {c})
  BY <1>4 DEF Bridge!SameSide, Team
<1>6. ({d \in Cars : pc[d] = "done"} \ batch)' = {d \in Cars : pc[d] = "done"} \ batch
  BY <1>1, <1>2 DEF TypeOK
<1> QED
  BY <1>1, <1>2, <1>5, <1>6 DEF Bridge!Enter

LEMMA RefineExit == ASSUME IInv, NEW c \in Cars, ExitBridge(c)
                    PROVE  (\E S \in SUBSET batch : Bridge!Leave(S)) \/ UNCHANGED Bridge!vars
<1> USE DEF IInv
<1>1. PICK W \in Signal(Waiting) : pc[c] = "entered" /\ GoTo(c, "done", W)
  BY DEF ExitBridge
<1>2. \A d \in Cars : pc'[d] = "done" <=> d = c \/ pc[d] = "done"
  BY <1>1, SignalWakes DEF GoTo, Waiting
<1>3. c \in batch
  BY <1>1 DEF RegionInv
<1>4. \A d \in batch : d = c \/ pc[d] = "done"
  BY <1>1, OneInside DEF RegionInv, TypeOK
<1>5. CASE Empties(Colour(c))
  <2>1. batch' = {} /\ cars_on_bridge' = 0
    BY <1>5 DEF ExitBridge
  <2>2. ({d \in Cars : pc[d] = "done"} \ batch)'
          = ({d \in Cars : pc[d] = "done"} \ batch) \cup batch
    BY <1>2, <1>3, <1>4, <2>1 DEF TypeOK
  <2>3. \E S \in SUBSET batch : Bridge!Leave(S)
    BY <1>3, <2>1, <2>2 DEF Bridge!Leave
  <2> QED
    BY <2>3
<1>6. CASE ~Empties(Colour(c))
  <2>1. batch' = batch /\ cars_on_bridge' = cars_on_bridge
    BY <1>6 DEF ExitBridge
  <2>2. ({d \in Cars : pc[d] = "done"} \ batch)' = {d \in Cars : pc[d] = "done"} \ batch
    BY <1>2, <1>3, <2>1
  <2> QED
    BY <2>1, <2>2 DEF Bridge!vars
<1> QED
  BY <1>5, <1>6

\* The waiting protocol is invisible to the abstract bridge.
LEMMA RefineOther ==
    ASSUME IInv,
           NEW c \in Cars, Arrive(c) \/ Recheck(c) \/ SpuriousWakeup(c)
    PROVE  UNCHANGED Bridge!vars
<1>1. batch' = batch /\ cars_on_bridge' = cars_on_bridge
  BY DEF Arrive, Recheck, SpuriousWakeup, bridgeVars
<1>2. \A d \in Cars : pc'[d] = "done" <=> pc[d] = "done"
  BY SignalWakes DEF Arrive, Recheck, SpuriousWakeup, GoTo, Waiting, IInv, TypeOK
<1>3. {d \in Cars : pc[d] = "done"}' = {d \in Cars : pc[d] = "done"}
  BY <1>2
<1> QED
  BY <1>1, <1>3 DEF Bridge!vars

\* bridgeCCR.c implements the abstract bridge: one direction at a time, at most
\* Slots cars between two moments at which the bridge is empty, each car once.
THEOREM Implements == Spec => ImplementsBridge
<1>1. IInv /\ [Next]_vars => [Bridge!Next]_(Bridge!vars)
  <2> SUFFICES ASSUME IInv, [Next]_vars PROVE [Bridge!Next]_(Bridge!vars)
    OBVIOUS
  <2>1. ASSUME NEW c \in Cars, EnterBridge(c) PROVE Bridge!Next
    BY <2>1, RefineEnter DEF Bridge!Next, Bridge!Cars, Cars
  <2>2. ASSUME NEW c \in Cars, ExitBridge(c) PROVE [Bridge!Next]_(Bridge!vars)
    BY <2>2, RefineExit DEF Bridge!Next
  <2>3. ASSUME NEW c \in Cars, Arrive(c) \/ Recheck(c) \/ SpuriousWakeup(c)
        PROVE  UNCHANGED Bridge!vars
    BY <2>3, RefineOther
  <2>4. CASE UNCHANGED vars
    BY <2>4 DEF vars, Bridge!vars
  <2> QED
    BY <2>1, <2>2, <2>3, <2>4 DEF Next, CarStep
<1> QED
  BY RefineInit, <1>1, Inductive, PTL DEF Spec, ImplementsBridge, Bridge!Spec

-----------------------------------------------------------------------------
(* MonitorBridge.  It shares pc, left and spurious with CCRBridge; these    *)
(* are its other variables.                                                *)

VARIABLES monitor_lock, step, count, cnt, bridge_empty, carLoad, creating, mainLoad, main

Mon == INSTANCE MonitorBridge

LEMMA MonSameCardinality == \A S : Mon!Cardinality(S) = Cardinality(S)
BY Zenon DEF Mon!Cardinality, Cardinality

\* The cars that reds or blues counts: a car that is leaving has already been
\* counted down.
MonCounted(k) == {c \in Mon!Team(k) : pc[c] \in {"bridge", "crossing"}}

\* Who is leaving holds the lock, and who holds it between two steps is leaving.
MonLockInv == \A c \in Mon!Cars : monitor_lock = c <=> pc[c] = "leaving"

\* The thread main is about to create does not exist yet.
MonCreatingInv == creating # NoCar => pc[creating] = "none"

\* reds and blues count cars; step_r and step_b count at least the cars on the
\* bridge, and nothing once it is empty.
MonCountInv ==
    \A k \in Mon!Colours : /\ count[k] = Cardinality(MonCounted(k))
                           /\ Cardinality(Mon!OnBridge(k)) <= step[k]
                           /\ Mon!OnBridge(k) = {} => step[k] = 0

\* OneDirection is not inductive by itself: a car enters because count is 0 for
\* the other colour, which says that the bridge is empty of that colour only
\* because count is exact and nobody holds the lock in an exit function.
MonIInv == Mon!TypeOK /\ MonLockInv /\ MonCreatingInv /\ MonCountInv /\ Mon!OneDirection

-----------------------------------------------------------------------------
(* The two colours. *)

LEMMA MonColourFacts ==
    /\ \A k \in Mon!Colours : Mon!Other(k) \in Mon!Colours /\ Mon!Other(k) # k
        /\ Mon!Other(Mon!Other(k)) = k
    /\ \A k, j \in Mon!Colours : j = k \/ j = Mon!Other(k)
    /\ \A c \in Mon!Cars : Mon!Colour(c) \in Mon!Colours
    /\ \A c \in Mon!Cars, k \in Mon!Colours : c \in Mon!Team(k) <=> Mon!Colour(c) = k
    /\ \A k \in Mon!Colours : Mon!Team(k) \subseteq Mon!Cars /\ IsFiniteSet(Mon!Team(k))
    /\ NoCar \notin Mon!Cars
    /\ Slots \in Nat \ {0}
BY CCRAssumption DEF Mon!Colours, Mon!Other, Mon!Colour, Mon!Team, Mon!Cars

\* Every set of cars of one colour is finite, and has a cardinality.
LEMMA MonTeamSubsets ==
    ASSUME NEW k \in Mon!Colours, NEW S \in SUBSET Mon!Team(k)
    PROVE  IsFiniteSet(S) /\ Cardinality(S) \in Nat
BY MonColourFacts, FS_Subset, FS_CardinalityType

\* The cars counted are on the bridge.
LEMMA MonCountedOnBridge ==
    ASSUME NEW k \in Mon!Colours
    PROVE  /\ MonCounted(k) \subseteq Mon!OnBridge(k) /\ Mon!OnBridge(k) \subseteq Mon!Team(k)
           /\ IsFiniteSet(MonCounted(k)) /\ IsFiniteSet(Mon!OnBridge(k))
           /\ Cardinality(MonCounted(k)) \in Nat /\ Cardinality(Mon!OnBridge(k)) \in Nat
           /\ Cardinality(MonCounted(k)) <= Cardinality(Mon!OnBridge(k))
<1>1. MonCounted(k) \subseteq Mon!OnBridge(k) /\ Mon!OnBridge(k) \subseteq Mon!Team(k)
  BY DEF MonCounted, Mon!OnBridge
<1>2. IsFiniteSet(Mon!OnBridge(k)) /\ Cardinality(Mon!OnBridge(k)) \in Nat
  BY <1>1, MonTeamSubsets
<1>3. IsFiniteSet(MonCounted(k)) /\ Cardinality(MonCounted(k)) \in Nat
  BY <1>1, MonTeamSubsets
<1>4. Cardinality(MonCounted(k)) <= Cardinality(Mon!OnBridge(k))
  BY <1>1, <1>2, FS_Subset
<1> QED
  BY <1>1, <1>2, <1>3, <1>4

-----------------------------------------------------------------------------
(* Moving and waking cars. *)

\* The cars that wait on one of the condition variables.
MonSleeping == {c \in Mon!Cars : pc[c] \in {"queued", "bridge"}}

LEMMA MonSignalSleeping ==
    /\ \A V \in Mon!Signal(Mon!OnBridgeQueue) : V \subseteq MonSleeping
    /\ \A k \in Mon!Colours : \A V \in Mon!Signal(Mon!Queued(k)) : V \subseteq MonSleeping
    /\ \A k \in Mon!Colours : \A W : Mon!CallNext(k, W) => W \subseteq MonSleeping
BY MonColourFacts DEF Mon!Signal, Mon!OnBridgeQueue, Mon!Queued, Mon!CallNext, MonSleeping

LEMMA MonCallNextType ==
    ASSUME Mon!TypeOK, NEW k \in Mon!Colours, NEW W, Mon!CallNext(k, W)
    PROVE  cnt' \in [Mon!Colours -> Nat]
BY DEF Mon!CallNext, Mon!TypeOK

\* Waking a car keeps it on the bridge, or off it.
LEMMA MonMoves ==
    ASSUME Mon!TypeOK, NEW c \in Mon!Cars, NEW p \in Mon!PCs, NEW W \in SUBSET MonSleeping,
           pc[c] \notin {"queued", "bridge"}, Mon!GoTo(c, p, W)
    PROVE  /\ pc' \in [Mon!Cars -> Mon!PCs]
           /\ pc'[c] = p
           /\ \A x \in Mon!Cars \ {c} :
                 /\ pc'[x] \in {"bridge", "crossing"} <=> pc[x] \in {"bridge", "crossing"}
                 /\ \A q \in {"leaving", "done", "none"} : pc'[x] = q <=> pc[x] = q
                 /\ pc'[x] = "queued" <=> pc[x] = "queued" /\ x \notin W
BY DEF Mon!TypeOK, Mon!GoTo, Mon!Resume, MonSleeping, Mon!PCs

\* The cars on the bridge are those pc says.
LEMMA MonSameBridge ==
    ASSUME NEW k \in Mon!Colours,
           \A x \in Mon!Team(k) :
              /\ pc'[x] \in {"bridge", "crossing"} <=> pc[x] \in {"bridge", "crossing"}
              /\ pc'[x] = "leaving" <=> pc[x] = "leaving"
    PROVE  MonCounted(k)' = MonCounted(k) /\ Mon!OnBridge(k)' = Mon!OnBridge(k)
BY DEF MonCounted, Mon!OnBridge, Mon!Team

-----------------------------------------------------------------------------
LEMMA MonInitIInv == Mon!Init => MonIInv
<1> SUFFICES ASSUME Mon!Init PROVE MonIInv
  OBVIOUS
<1> USE MonColourFacts
<1>1. Mon!TypeOK
  BY CCRAssumption DEF Mon!Init, Mon!TypeOK, Mon!PCs
<1>2. MonLockInv /\ MonCreatingInv
  BY DEF Mon!Init, MonLockInv, MonCreatingInv
<1>3. \A k \in Mon!Colours : MonCounted(k) = {} /\ Mon!OnBridge(k) = {}
  BY DEF Mon!Init, MonCounted, Mon!OnBridge
<1>4. MonCountInv
  BY <1>3, FS_EmptySet DEF Mon!Init, MonCountInv
<1>5. Mon!OneDirection
  BY <1>3 DEF Mon!OneDirection, Mon!Colours
<1> QED
  BY <1>1, <1>2, <1>4, <1>5 DEF MonIInv

\* A step that moves no car to the bridge or away from it preserves the rest of
\* the invariant.
LEMMA MonOffBridgeStep ==
    ASSUME MonIInv, Mon!TypeOK', MonCreatingInv',
           UNCHANGED <<monitor_lock, step, count>>,
           \A x \in Mon!Cars :
              /\ pc'[x] \in {"bridge", "crossing"} <=> pc[x] \in {"bridge", "crossing"}
              /\ pc'[x] = "leaving" <=> pc[x] = "leaving"
    PROVE  MonIInv'
<1> USE MonColourFacts DEF MonIInv
<1>1. \A k \in Mon!Colours : MonCounted(k)' = MonCounted(k) /\ Mon!OnBridge(k)' = Mon!OnBridge(k)
  BY MonSameBridge
<1>2. MonLockInv'
  BY DEF MonLockInv
<1>3. MonCountInv'
  BY <1>1 DEF MonCountInv
<1>4. Mon!OneDirection'
  BY <1>1 DEF Mon!OneDirection, Mon!Colours
<1> QED
  BY <1>2, <1>3, <1>4

LEMMA MonQueueStep == ASSUME MonIInv, NEW c \in Mon!Cars, Mon!Queue(c)
                      PROVE  MonIInv'
<1> USE MonColourFacts DEF MonIInv, Mon!mainVars
<1>1. /\ pc' \in [Mon!Cars -> Mon!PCs] /\ pc'[c] = "queued" /\ pc[c] \in {"start", "retry"}
      /\ \A x \in Mon!Cars \ {c} : pc'[x] = pc[x]
  BY DEF Mon!Queue, Mon!Locks, Mon!GoTo, Mon!TypeOK, Mon!PCs
<1>2. Mon!TypeOK'
  BY <1>1 DEF Mon!Queue, Mon!TypeOK
<1>3. MonCreatingInv'
  BY <1>1 DEF Mon!Queue, MonCreatingInv, Mon!TypeOK
<1> QED
  BY <1>1, <1>2, <1>3, MonOffBridgeStep DEF Mon!Queue

-----------------------------------------------------------------------------
(* Boarding. *)

\* A car boards a bridge without cars of the other colour, and below the limit.
LEMMA MonBoardRoom ==
    ASSUME MonIInv, NEW c \in Mon!Cars, Mon!Board(c)
    PROVE  LET k == Mon!Colour(c) IN
           /\ Mon!OnBridge(Mon!Other(k)) = {} /\ step[Mon!Other(k)] = 0
           /\ step[k] < Slots
<1> DEFINE k == Mon!Colour(c)
           j == Mon!Other(k)
<1> USE MonColourFacts DEF MonIInv
<1> k \in Mon!Colours /\ j \in Mon!Colours
  OBVIOUS
<1>1. monitor_lock = NoCar /\ ~(count[j] > 0) /\ step[k] # Slots
  BY DEF Mon!Board, Mon!Locks, Mon!MustQueue
<1>2. count[j] = 0
  BY <1>1 DEF Mon!TypeOK
<1>3. MonCounted(j) = {}
  BY <1>2, MonCountedOnBridge, FS_EmptySet DEF MonCountInv
<1>4. Mon!OnBridge(j) = {}
  BY <1>1, <1>3 DEF MonCounted, Mon!OnBridge, MonLockInv
<1>5. step[j] = 0
  BY <1>4 DEF MonCountInv
<1>6. step[k] < Slots
  BY <1>1 DEF Mon!TypeOK
<1> QED
  BY <1>4, <1>5, <1>6

\* What boarding does to the cars on the bridge.
LEMMA MonBoardMoves ==
    ASSUME MonIInv, NEW c \in Mon!Cars, Mon!Board(c),
           NEW p \in {"bridge", "crossing"}, NEW W \in SUBSET MonSleeping, Mon!GoTo(c, p, W)
    PROVE  LET k == Mon!Colour(c) IN
           /\ c \notin Mon!OnBridge(k)
           /\ MonCounted(k)' = MonCounted(k) \cup {c}
           /\ Mon!OnBridge(k)' = Mon!OnBridge(k) \cup {c}
           /\ MonCounted(Mon!Other(k))' = MonCounted(Mon!Other(k))
           /\ Mon!OnBridge(Mon!Other(k))' = Mon!OnBridge(Mon!Other(k))
<1> USE MonColourFacts DEF MonIInv
<1>1. pc[c] \in {"start", "retry"}
  BY DEF Mon!Board, Mon!Locks
<1>2. /\ pc'[c] = p
      /\ \A x \in Mon!Cars \ {c} :
           /\ pc'[x] \in {"bridge", "crossing"} <=> pc[x] \in {"bridge", "crossing"}
           /\ pc'[x] = "leaving" <=> pc[x] = "leaving"
  BY <1>1, MonMoves DEF Mon!PCs
<1> QED
  BY <1>1, <1>2 DEF MonCounted, Mon!OnBridge, Mon!Team

LEMMA MonBoardStep ==
    ASSUME MonIInv, NEW c \in Mon!Cars, Mon!Board(c), cnt' \in [Mon!Colours -> Nat],
           NEW p \in {"bridge", "crossing"}, NEW W \in SUBSET MonSleeping, Mon!GoTo(c, p, W)
    PROVE  MonIInv'
<1> DEFINE k == Mon!Colour(c)
           j == Mon!Other(k)
<1> USE MonColourFacts DEF MonIInv, Mon!mainVars
<1> k \in Mon!Colours /\ j \in Mon!Colours /\ k # j /\ (\A i \in Mon!Colours : i = k \/ i = j)
  OBVIOUS
<1>1. pc[c] \in {"start", "retry"}
        /\ UNCHANGED <<monitor_lock, left, carLoad, spurious, Mon!mainVars>>
  BY DEF Mon!Board, Mon!Locks
<1>2. /\ step' = [step EXCEPT ![k] = @ + 1]
      /\ count' = [count EXCEPT ![k] = @ + 1]
      /\ bridge_empty' \in {0, 1}
  BY DEF Mon!Board, Mon!TypeOK
<1>3. Mon!OnBridge(j) = {} /\ step[k] < Slots
  BY MonBoardRoom
<1>4. /\ c \notin Mon!OnBridge(k) /\ c \notin MonCounted(k)
      /\ MonCounted(k)' = MonCounted(k) \cup {c} /\ Mon!OnBridge(k)' = Mon!OnBridge(k) \cup {c}
      /\ MonCounted(j)' = MonCounted(j) /\ Mon!OnBridge(j)' = Mon!OnBridge(j)
  BY MonBoardMoves, MonCountedOnBridge
<1>5. /\ Cardinality(MonCounted(k)') = Cardinality(MonCounted(k)) + 1
      /\ Cardinality(Mon!OnBridge(k)') = Cardinality(Mon!OnBridge(k)) + 1
  BY <1>4, MonCountedOnBridge, FS_AddElement
<1>6. MonCountInv'
  <2>1. count'[k] = Cardinality(MonCounted(k)') /\ count'[j] = Cardinality(MonCounted(j)')
    BY <1>2, <1>4, <1>5 DEF MonCountInv, Mon!TypeOK
  <2>2. Cardinality(Mon!OnBridge(k)') <= step'[k] /\ Mon!OnBridge(k)' # {}
    BY <1>2, <1>4, <1>5, MonCountedOnBridge DEF MonCountInv, Mon!TypeOK
  <2>3. Cardinality(Mon!OnBridge(j)') <= step'[j] /\ (Mon!OnBridge(j)' = {} => step'[j] = 0)
    BY <1>2, <1>4 DEF MonCountInv, Mon!TypeOK
  <2> QED
    BY <2>1, <2>2, <2>3 DEF MonCountInv
<1>7. step' \in [Mon!Colours -> 0..Slots] /\ count' \in [Mon!Colours -> 0..Slots]
  BY <1>2, <1>3, <1>4, <1>5, MonCountedOnBridge DEF MonCountInv, Mon!TypeOK
<1>8. /\ pc' \in [Mon!Cars -> Mon!PCs]
      /\ pc'[c] = p
      /\ \A x \in Mon!Cars \ {c} : \A q \in {"leaving", "done", "none"} : pc'[x] = q <=> pc[x] = q
  BY <1>1, MonMoves DEF Mon!PCs
<1>9. Mon!TypeOK'
  BY <1>1, <1>2, <1>7, <1>8 DEF Mon!TypeOK
<1>10. MonLockInv' /\ MonCreatingInv'
  BY <1>1, <1>8 DEF MonLockInv, MonCreatingInv, Mon!TypeOK
<1>11. Mon!OneDirection'
  BY <1>3, <1>4 DEF Mon!OneDirection, Mon!Colours
<1> QED
  BY <1>6, <1>9, <1>10, <1>11

LEMMA MonBoardLastSlotStep == ASSUME MonIInv, NEW c \in Mon!Cars, Mon!BoardLastSlot(c)
                              PROVE  MonIInv'
BY MonBoardStep DEF Mon!BoardLastSlot, MonIInv, Mon!TypeOK

LEMMA MonBoardLastCarStep == ASSUME MonIInv, NEW c \in Mon!Cars, Mon!BoardLastCar(c)
                             PROVE  MonIInv'
<1>1. PICK W \in SUBSET Mon!Cars, V \in Mon!Signal(Mon!OnBridgeQueue) :
         Mon!CallNext(Mon!Colour(c), W) /\ Mon!GoTo(c, "crossing", W \cup V)
  BY DEF Mon!BoardLastCar
<1>2. W \cup V \subseteq MonSleeping /\ cnt' \in [Mon!Colours -> Nat]
  BY <1>1, MonSignalSleeping, MonCallNextType, MonColourFacts DEF MonIInv
<1> QED
  BY <1>1, <1>2, MonBoardStep DEF Mon!BoardLastCar

LEMMA MonBoardAndWaitStep == ASSUME MonIInv, NEW c \in Mon!Cars, Mon!BoardAndWait(c)
                             PROVE  MonIInv'
<1>1. PICK W \in SUBSET Mon!Cars : Mon!CallNext(Mon!Colour(c), W) /\ Mon!GoTo(c, "bridge", W)
  BY DEF Mon!BoardAndWait
<1>2. W \subseteq MonSleeping /\ cnt' \in [Mon!Colours -> Nat]
  BY <1>1, MonSignalSleeping, MonCallNextType, MonColourFacts DEF MonIInv
<1> QED
  BY <1>1, <1>2, MonBoardStep DEF Mon!BoardAndWait

-----------------------------------------------------------------------------
(* Leaving. *)

LEMMA MonStartExitStep == ASSUME MonIInv, NEW c \in Mon!Cars, Mon!StartExit(c)
                          PROVE  MonIInv'
<1> DEFINE k == Mon!Colour(c)
           j == Mon!Other(k)
<1> USE MonColourFacts DEF MonIInv, Mon!mainVars
<1> k \in Mon!Colours /\ j \in Mon!Colours /\ k # j /\ (\A i \in Mon!Colours : i = k \/ i = j)
  OBVIOUS
<1>1. pc[c] = "crossing" /\ monitor_lock = NoCar /\ monitor_lock' = c
  BY DEF Mon!StartExit, Mon!Locks
<1>2. /\ pc' \in [Mon!Cars -> Mon!PCs] /\ pc'[c] = "leaving"
      /\ \A x \in Mon!Cars \ {c} : pc'[x] = pc[x]
  BY <1>1 DEF Mon!StartExit, Mon!GoTo, Mon!TypeOK, Mon!PCs
<1>3. /\ c \in MonCounted(k)
      /\ MonCounted(k)' = MonCounted(k) \ {c} /\ Mon!OnBridge(k)' = Mon!OnBridge(k)
      /\ MonCounted(j)' = MonCounted(j) /\ Mon!OnBridge(j)' = Mon!OnBridge(j)
  BY <1>1, <1>2 DEF MonCounted, Mon!OnBridge, Mon!Team
<1>4. Cardinality(MonCounted(k)') = Cardinality(MonCounted(k)) - 1
  <2>1. IsFiniteSet(MonCounted(k))
    BY MonCountedOnBridge
  <2>2. c \in MonCounted(k) /\ MonCounted(k)' = MonCounted(k) \ {c}
    BY <1>3
  <2> QED
    BY ONLY <2>1, <2>2, FS_RemoveElement
<1>5. count' = [count EXCEPT ![k] = @ - 1] /\ step' = step
  BY DEF Mon!StartExit
<1>6. count[k] # 0
  BY <1>3, MonCountedOnBridge, FS_EmptySet DEF MonCountInv
<1>7. Mon!TypeOK'
  BY <1>2, <1>5, <1>6 DEF Mon!StartExit, Mon!TypeOK
<1>8. MonLockInv' /\ MonCreatingInv'
  BY <1>1, <1>2 DEF Mon!StartExit, MonLockInv, MonCreatingInv, Mon!TypeOK
<1>9. MonCountInv'
  <2>1. count'[k] = Cardinality(MonCounted(k)') /\ count'[j] = Cardinality(MonCounted(j)')
    BY <1>3, <1>4, <1>5 DEF MonCountInv, Mon!TypeOK
  <2> QED
    BY <1>3, <1>5, <2>1 DEF MonCountInv
<1>10. Mon!OneDirection'
  BY <1>3 DEF Mon!OneDirection, Mon!Colours
<1> QED
  BY <1>7, <1>8, <1>9, <1>10

\* What leaving does to the cars on the bridge; main may have loaded left before.
LEMMA MonLeaveMoves ==
    ASSUME MonIInv, NEW c \in Mon!Cars, Mon!StoreLeft(c), NEW W \in SUBSET MonSleeping,
           Mon!GoTo(c, "done", W)
    PROVE  LET k == Mon!Colour(c) IN
           /\ c \in Mon!OnBridge(k) /\ c \notin MonCounted(k)
           /\ Mon!OnBridge(k) = MonCounted(k) \cup {c}
           /\ Mon!OnBridge(Mon!Other(k)) = {} /\ step[Mon!Other(k)] = 0
           /\ MonCounted(k)' = MonCounted(k)
           /\ Mon!OnBridge(k)' = Mon!OnBridge(k) \ {c}
           /\ MonCounted(Mon!Other(k))' = MonCounted(Mon!Other(k))
           /\ Mon!OnBridge(Mon!Other(k))' = Mon!OnBridge(Mon!Other(k))
<1> DEFINE k == Mon!Colour(c)
           j == Mon!Other(k)
<1> USE MonColourFacts DEF MonIInv
<1> k \in Mon!Colours /\ j \in Mon!Colours
  OBVIOUS
<1>1. pc[c] = "leaving"
  BY DEF Mon!StoreLeft
<1>2. /\ pc'[c] = "done"
      /\ \A x \in Mon!Cars \ {c} :
           /\ pc'[x] \in {"bridge", "crossing"} <=> pc[x] \in {"bridge", "crossing"}
           /\ pc'[x] = "leaving" <=> pc[x] = "leaving"
  BY <1>1, MonMoves DEF Mon!PCs
<1>3. \A x \in Mon!Cars \ {c} : pc[x] # "leaving"
  BY <1>1 DEF MonLockInv, Mon!TypeOK
<1>4. c \in Mon!OnBridge(k) /\ c \notin MonCounted(k) /\ Mon!OnBridge(k) = MonCounted(k) \cup {c}
  BY <1>1, <1>3 DEF Mon!OnBridge, MonCounted
<1>5. Mon!OnBridge(j) = {}
  BY <1>4 DEF Mon!OneDirection, Mon!Colours
<1>6. step[j] = 0
  BY <1>5 DEF MonCountInv
<1>7. /\ MonCounted(k)' = MonCounted(k) /\ Mon!OnBridge(k)' = Mon!OnBridge(k) \ {c}
      /\ MonCounted(j)' = MonCounted(j) /\ Mon!OnBridge(j)' = Mon!OnBridge(j)
  BY <1>1, <1>2 DEF Mon!OnBridge, MonCounted, Mon!Team
<1> QED
  BY <1>4, <1>5, <1>6, <1>7

LEMMA MonLeaveStep ==
    ASSUME MonIInv, NEW c \in Mon!Cars, Mon!StoreLeft(c),
           NEW W \in SUBSET MonSleeping, Mon!GoTo(c, "done", W),
           cnt' \in [Mon!Colours -> Nat], bridge_empty' \in {0, 1},
           step' = IF count[Mon!Colour(c)] = 0 THEN [step EXCEPT ![Mon!Colour(c)] = 0] ELSE step
    PROVE  MonIInv'
<1> DEFINE k == Mon!Colour(c)
           j == Mon!Other(k)
<1> USE MonColourFacts DEF MonIInv, Mon!mainVars
<1> k \in Mon!Colours /\ j \in Mon!Colours /\ k # j /\ (\A i \in Mon!Colours : i = k \/ i = j)
  OBVIOUS
<1>1. /\ pc[c] = "leaving" /\ monitor_lock' = NoCar /\ count' = count /\ spurious' = spurious
      /\ left' \in [Mon!Colours -> Int] /\ carLoad' \in Int
      /\ UNCHANGED Mon!mainVars
  BY DEF Mon!StoreLeft, Mon!TypeOK
<1>2. /\ pc' \in [Mon!Cars -> Mon!PCs] /\ pc'[c] = "done"
      /\ \A x \in Mon!Cars \ {c} : \A q \in {"leaving", "done", "none"} : pc'[x] = q <=> pc[x] = q
  BY <1>1, MonMoves DEF Mon!PCs
<1>3. /\ c \in Mon!OnBridge(k) /\ c \notin MonCounted(k) /\ Mon!OnBridge(k) = MonCounted(k) \cup {c}
      /\ Mon!OnBridge(j) = {} /\ step[j] = 0
      /\ MonCounted(k)' = MonCounted(k) /\ Mon!OnBridge(k)' = Mon!OnBridge(k) \ {c}
      /\ MonCounted(j)' = MonCounted(j) /\ Mon!OnBridge(j)' = Mon!OnBridge(j)
  BY MonLeaveMoves
<1>4. Cardinality(Mon!OnBridge(k)') = Cardinality(Mon!OnBridge(k)) - 1
  <2>1. IsFiniteSet(Mon!OnBridge(k))
    BY MonCountedOnBridge
  <2>2. c \in Mon!OnBridge(k) /\ Mon!OnBridge(k)' = Mon!OnBridge(k) \ {c}
    BY <1>3
  <2> QED
    BY ONLY <2>1, <2>2, FS_RemoveElement
<1>5. MonCounted(k) = {} <=> count[k] = 0
  BY MonCountedOnBridge, FS_EmptySet DEF MonCountInv
<1>6. step' \in [Mon!Colours -> 0..Slots]
  BY DEF Mon!TypeOK
<1>7. Mon!TypeOK'
  BY <1>1, <1>2, <1>6 DEF Mon!TypeOK
<1>8. MonLockInv' /\ MonCreatingInv'
  BY <1>1, <1>2 DEF MonLockInv, MonCreatingInv, Mon!TypeOK
<1>9. MonCountInv'
  <2>1. \A i \in Mon!Colours : count'[i] = Cardinality(MonCounted(i)')
    BY <1>1, <1>3 DEF MonCountInv
  <2>2. Cardinality(Mon!OnBridge(j)') <= step'[j] /\ (Mon!OnBridge(j)' = {} => step'[j] = 0)
    BY <1>3 DEF MonCountInv, Mon!TypeOK
  <2>3. CASE count[k] = 0
    <3>1. Mon!OnBridge(k)' = {} /\ step'[k] = 0
      BY <1>3, <1>5, <2>3 DEF Mon!TypeOK
    <3>2. Cardinality(Mon!OnBridge(k)') <= step'[k]
      BY <3>1, FS_EmptySet
    <3> QED
      BY <2>1, <2>2, <3>1, <3>2 DEF MonCountInv
  <2>4. CASE count[k] # 0
    <3>1. Mon!OnBridge(k)' # {} /\ step' = step
      BY <1>3, <1>5, <2>4
    <3>2. Cardinality(Mon!OnBridge(k)') <= step'[k]
      BY <1>4, <3>1, MonCountedOnBridge DEF MonCountInv, Mon!TypeOK
    <3> QED
      BY <2>1, <2>2, <3>1, <3>2 DEF MonCountInv
  <2> QED
    BY <2>3, <2>4
<1>10. Mon!OneDirection'
  BY <1>3 DEF Mon!OneDirection, Mon!Colours
<1> QED
  BY <1>7, <1>8, <1>9, <1>10

LEMMA MonExitFollowedStep == ASSUME MonIInv, NEW c \in Mon!Cars, Mon!ExitFollowed(c)
                             PROVE  MonIInv'
<1>1. PICK V \in Mon!Signal(Mon!OnBridgeQueue) : Mon!GoTo(c, "done", V)
  BY DEF Mon!ExitFollowed
<1>2. count[Mon!Colour(c)] # 0 /\ Mon!StoreLeft(c) /\ UNCHANGED <<step, cnt, bridge_empty>>
  BY MonColourFacts DEF Mon!ExitFollowed, MonIInv, Mon!TypeOK
<1>3. cnt' \in [Mon!Colours -> Nat] /\ bridge_empty' \in {0, 1}
  BY <1>2 DEF MonIInv, Mon!TypeOK
<1> QED
  BY <1>1, <1>2, <1>3, MonSignalSleeping, MonLeaveStep

LEMMA MonExitLastStep == ASSUME MonIInv, NEW c \in Mon!Cars, Mon!ExitLast(c)
                         PROVE  MonIInv'
<1>1. PICK W \in SUBSET Mon!Cars, V \in Mon!Signal(Mon!Queued(Mon!Colour(c))) :
         Mon!CallNext(Mon!Other(Mon!Colour(c)), W) /\ Mon!GoTo(c, "done", W \cup V)
  BY DEF Mon!ExitLast
<1>2. W \cup V \subseteq MonSleeping /\ cnt' \in [Mon!Colours -> Nat]
  BY <1>1, MonSignalSleeping, MonCallNextType, MonColourFacts DEF MonIInv
<1>3. /\ Mon!StoreLeft(c) /\ count[Mon!Colour(c)] = 0 /\ bridge_empty' = 0
      /\ step' = [step EXCEPT ![Mon!Colour(c)] = 0]
  BY DEF Mon!ExitLast
<1> QED
  BY <1>1, <1>2, <1>3, MonLeaveStep

-----------------------------------------------------------------------------
(* main, and spurious wakeups. *)

LEMMA MonMainInvStep == ASSUME MonIInv, Mon!MainStep
                        PROVE  MonIInv'
<1> USE MonColourFacts DEF MonIInv
<1>1. ASSUME NEW c \in Mon!Cars, Mon!LoadLeft(c) PROVE MonIInv'
  <2>1. Mon!TypeOK' /\ MonCreatingInv'
    BY <1>1 DEF Mon!LoadLeft, Mon!TypeOK, MonCreatingInv
  <2> QED
    BY <1>1, <2>1, MonOffBridgeStep DEF Mon!LoadLeft
<1>2. ASSUME Mon!CreateCar PROVE MonIInv'
  <2>1. Mon!TypeOK' /\ MonCreatingInv'
    BY <1>2 DEF Mon!CreateCar, Mon!TypeOK, MonCreatingInv, Mon!PCs
  <2>2. pc[creating] = "none" /\ pc' = [pc EXCEPT ![creating] = "start"]
    BY <1>2 DEF Mon!CreateCar, MonCreatingInv
  <2> QED
    BY <1>2, <2>1, <2>2, MonOffBridgeStep DEF Mon!CreateCar, Mon!TypeOK
<1>3. ASSUME Mon!Return PROVE MonIInv'
  <2>1. Mon!TypeOK' /\ MonCreatingInv'
    BY <1>3 DEF Mon!Return, Mon!TypeOK, MonCreatingInv
  <2> QED
    BY <1>3, <2>1, MonOffBridgeStep DEF Mon!Return
<1> QED
  BY <1>1, <1>2, <1>3 DEF Mon!MainStep

LEMMA MonSpuriousStep == ASSUME MonIInv, NEW c \in Mon!Cars, Mon!SpuriousWakeup(c)
                         PROVE  MonIInv'
<1> USE MonColourFacts DEF MonIInv, Mon!mainVars
<1>1. Mon!TypeOK' /\ MonCreatingInv'
  BY CCRAssumption DEF Mon!SpuriousWakeup, Mon!TypeOK, MonCreatingInv, Mon!Resume, Mon!PCs
<1>2. \A x \in Mon!Cars :
         /\ pc'[x] \in {"bridge", "crossing"} <=> pc[x] \in {"bridge", "crossing"}
         /\ pc'[x] = "leaving" <=> pc[x] = "leaving"
  BY DEF Mon!SpuriousWakeup, Mon!TypeOK, Mon!Resume
<1> QED
  BY <1>1, <1>2, MonOffBridgeStep DEF Mon!SpuriousWakeup

LEMMA MonStutterStep == ASSUME MonIInv, UNCHANGED Mon!vars
                        PROVE  MonIInv'
BY DEF Mon!vars, MonIInv, Mon!TypeOK, MonLockInv, MonCreatingInv, MonCountInv, Mon!OneDirection,
  MonCounted, Mon!OnBridge

\* MonIInv is an inductive invariant.
THEOREM MonInductive == Mon!Spec => []MonIInv
<1>1. MonIInv /\ [Mon!Next]_(Mon!vars) => MonIInv'
  <2> SUFFICES ASSUME MonIInv, [Mon!Next]_(Mon!vars) PROVE MonIInv'
    OBVIOUS
  <2>1. ASSUME NEW c \in Mon!Cars, Mon!CarStep(c) PROVE MonIInv'
    BY <2>1, MonQueueStep, MonBoardLastSlotStep, MonBoardLastCarStep, MonBoardAndWaitStep,
       MonStartExitStep, MonExitFollowedStep, MonExitLastStep DEF Mon!CarStep
  <2>2. ASSUME NEW c \in Mon!Cars, Mon!SpuriousWakeup(c) PROVE MonIInv'
    BY <2>2, MonSpuriousStep
  <2>3. CASE Mon!MainStep
    BY <2>3, MonMainInvStep
  <2>4. CASE UNCHANGED Mon!vars
    BY <2>4, MonStutterStep
  <2> QED
    BY <2>1, <2>2, <2>3, <2>4 DEF Mon!Next
<1> QED
  BY MonInitIInv, <1>1, PTL DEF Mon!Spec

-----------------------------------------------------------------------------
(* Theorems. *)

\* The variables keep their types; in particular the counters of the bridge
\* never leave 0..Slots.
THEOREM MonTypeCorrect == Mon!Spec => []Mon!TypeOK
BY MonInductive, PTL DEF MonIInv

\* Cars of both colours are never on the bridge together.
THEOREM MonOneDirectionHolds == Mon!Spec => []Mon!OneDirection
BY MonInductive, PTL DEF MonIInv

\* The bridge never carries more than Slots cars.
THEOREM MonBatchFitsHolds == Mon!Spec => []Mon!BatchFits
<1>1. MonIInv => Mon!BatchFits
  <2> SUFFICES ASSUME MonIInv, NEW k \in Mon!Colours PROVE Cardinality(Mon!OnBridge(k)) <= Slots
    BY MonSameCardinality DEF Mon!BatchFits
  <2>1. step[k] \in 0..Slots /\ Cardinality(Mon!OnBridge(k)) <= step[k]
    BY DEF MonIInv, Mon!TypeOK, MonCountInv
  <2> QED
    BY <2>1, MonCountedOnBridge, MonColourFacts
<1> QED
  BY <1>1, MonInductive, PTL

-----------------------------------------------------------------------------
(* red_cnt and blue_cnt. *)

LEMMA MonQueuedFinite == ASSUME NEW k \in Mon!Colours
                         PROVE  /\ IsFiniteSet(Mon!Queued(k)) /\ Cardinality(Mon!Queued(k)) \in Nat
                                /\ Mon!Queued(k) \subseteq Mon!Team(k)
<1>1. Mon!Queued(k) \subseteq Mon!Team(k)
  BY DEF Mon!Queued
<1> QED
  BY <1>1, MonTeamSubsets

\* Nobody joins the queue and its counter stays: it still covers the queue.
LEMMA MonQueueShrinks ==
    ASSUME Mon!TypeOK, Mon!QueueCounted, NEW k \in Mon!Colours,
           cnt'[k] = cnt[k], Mon!Queued(k)' \subseteq Mon!Queued(k)
    PROVE  Cardinality(Mon!Queued(k)') <= cnt'[k]
<1>1. /\ Cardinality(Mon!Queued(k)') \in Nat
      /\ Cardinality(Mon!Queued(k)') <= Cardinality(Mon!Queued(k))
  BY MonQueuedFinite, FS_Subset, FS_CardinalityType
<1>2. Cardinality(Mon!Queued(k)) <= cnt[k] /\ cnt[k] \in Nat
  BY MonSameCardinality DEF Mon!QueueCounted, Mon!TypeOK
<1> QED
  BY <1>1, <1>2, MonQueuedFinite

\* A car is called, if one waits, whenever the counter goes down.
LEMMA MonCallNextCounts ==
    ASSUME Mon!TypeOK, Mon!QueueCounted, NEW k \in Mon!Colours, NEW W,
           Mon!CallNext(k, W), Mon!Queued(k)' \subseteq Mon!Queued(k) \ W
    PROVE  Cardinality(Mon!Queued(k)') <= cnt'[k]
<1>1. CASE cnt[k] > 0 /\ Mon!Queued(k) = {}
  <2>1. Mon!Queued(k)' = {} /\ cnt'[k] = cnt[k] - 1 /\ cnt[k] \in Nat
    BY <1>1 DEF Mon!CallNext, Mon!TypeOK
  <2>2. Cardinality(Mon!Queued(k)') = 0
    BY <2>1, FS_EmptySet
  <2> QED
    BY <1>1, <2>1, <2>2
<1>2. CASE cnt[k] > 0 /\ Mon!Queued(k) # {}
  <2>1. PICK c \in Mon!Queued(k) : W = {c}
    BY <1>2 DEF Mon!CallNext, Mon!Signal
  <2>2. cnt'[k] = cnt[k] - 1 /\ cnt[k] \in Nat
    BY <1>2 DEF Mon!CallNext, Mon!TypeOK
  <2> DEFINE rest == Mon!Queued(k) \ {c}
  <2>3. Cardinality(rest) = Cardinality(Mon!Queued(k)) - 1 /\ IsFiniteSet(rest)
    BY <2>1, MonQueuedFinite, FS_RemoveElement
  <2>4. Mon!Queued(k)' \subseteq rest
    BY <2>1
  <2>5. Cardinality(Mon!Queued(k)') <= Cardinality(rest) /\ Cardinality(Mon!Queued(k)') \in Nat
    BY <2>3, <2>4, FS_Subset, FS_CardinalityType
  <2>6. Cardinality(Mon!Queued(k)) <= cnt[k] /\ Cardinality(Mon!Queued(k)) \in Nat
    BY MonSameCardinality, MonQueuedFinite DEF Mon!QueueCounted
  <2> QED
    BY <2>2, <2>3, <2>5, <2>6
<1>3. CASE ~(cnt[k] > 0)
  BY <1>3, MonQueueShrinks DEF Mon!CallNext
<1> QED
  BY <1>1, <1>2, <1>3

\* The cars of W, and only they, leave the queues in a step of car c.
LEMMA MonQueuesLose ==
    ASSUME Mon!TypeOK, NEW c \in Mon!Cars, NEW p \in Mon!PCs \ {"queued"},
           NEW W \in SUBSET MonSleeping,
           pc[c] \notin {"queued", "bridge"}, Mon!GoTo(c, p, W), NEW k \in Mon!Colours
    PROVE  Mon!Queued(k)' = Mon!Queued(k) \ W
<1>1. \A x \in Mon!Cars \ {c} : pc'[x] = "queued" <=> pc[x] = "queued" /\ x \notin W
  BY MonMoves
<1>2. pc'[c] # "queued" /\ pc[c] # "queued"
  BY MonMoves
<1> QED
  BY <1>1, <1>2, MonColourFacts DEF Mon!Queued, Mon!Team

\* red_cnt and blue_cnt never suppress the signal a queued car needs.
THEOREM MonQueueCountedHolds == Mon!Spec => []Mon!QueueCounted
<1> USE MonColourFacts
<1>1. Mon!Init => Mon!QueueCounted
  <2> SUFFICES ASSUME Mon!Init, NEW k \in Mon!Colours PROVE Cardinality(Mon!Queued(k)) <= cnt[k]
    BY MonSameCardinality DEF Mon!QueueCounted
  <2>1. Mon!Queued(k) = {} /\ cnt[k] = 0
    BY DEF Mon!Init, Mon!Queued
  <2> QED
    BY <2>1, FS_EmptySet
<1>2. MonIInv /\ Mon!QueueCounted /\ [Mon!Next]_(Mon!vars) => Mon!QueueCounted'
  <2> SUFFICES ASSUME MonIInv, Mon!QueueCounted, [Mon!Next]_(Mon!vars), NEW k \in Mon!Colours
               PROVE  Cardinality(Mon!Queued(k)') <= cnt'[k]
    BY MonSameCardinality DEF Mon!QueueCounted
  <2> USE DEF MonIInv
  <2>1. ASSUME NEW c \in Mon!Cars, Mon!Queue(c) PROVE Cardinality(Mon!Queued(k)') <= cnt'[k]
    <3>1. /\ pc[c] \in {"start", "retry"} /\ pc'[c] = "queued"
          /\ \A x \in Mon!Cars \ {c} : pc'[x] = pc[x]
      BY <2>1 DEF Mon!Queue, Mon!Locks, Mon!GoTo
    <3>2. CASE k = Mon!Colour(c)
      <4>1. c \notin Mon!Queued(k) /\ Mon!Queued(k)' = Mon!Queued(k) \cup {c}
        BY <3>1, <3>2 DEF Mon!Queued, Mon!Team
      <4>2. Cardinality(Mon!Queued(k)') = Cardinality(Mon!Queued(k)) + 1
        BY <4>1, MonQueuedFinite, FS_AddElement
      <4>3. cnt'[k] = cnt[k] + 1 /\ cnt[k] \in Nat /\ Cardinality(Mon!Queued(k)) <= cnt[k]
        BY MonSameCardinality, <2>1, <3>2 DEF Mon!Queue, Mon!TypeOK, Mon!QueueCounted
      <4> QED
        BY <4>2, <4>3, MonQueuedFinite
    <3>3. CASE k # Mon!Colour(c)
      <4>1. Mon!Queued(k)' = Mon!Queued(k)
        BY <3>1, <3>3 DEF Mon!Queued, Mon!Team
      <4>2. cnt'[k] = cnt[k]
        BY <2>1, <3>3 DEF Mon!Queue, Mon!TypeOK
      <4> QED
        BY <4>1, <4>2, MonQueueShrinks
    <3> QED
      BY <3>2, <3>3
  <2>2. ASSUME NEW c \in Mon!Cars, Mon!BoardLastSlot(c) PROVE Cardinality(Mon!Queued(k)') <= cnt'[k]
    <3>1. pc[c] \in {"start", "retry"} /\ Mon!GoTo(c, "crossing", {}) /\ cnt' = cnt
      BY <2>2 DEF Mon!BoardLastSlot, Mon!Board, Mon!Locks
    <3>2. Mon!Queued(k)' = Mon!Queued(k) \ {}
      BY <3>1, MonQueuesLose DEF Mon!PCs
    <3> QED
      BY <3>1, <3>2, MonQueueShrinks
  <2>3. ASSUME NEW c \in Mon!Cars, NEW p \in Mon!PCs \ {"queued"}, NEW j \in Mon!Colours,
               NEW X \in SUBSET MonSleeping, NEW W \in SUBSET X,
               pc[c] \notin {"queued", "bridge"}, Mon!CallNext(j, W), Mon!GoTo(c, p, X)
        PROVE  Cardinality(Mon!Queued(k)') <= cnt'[k]
    <3>1. Mon!Queued(k)' = Mon!Queued(k) \ X
      BY <2>3, MonQueuesLose
    <3>2. CASE k = j
      BY <2>3, <3>1, <3>2, MonCallNextCounts
    <3>3. CASE k # j
      <4>1. cnt'[k] = cnt[k]
        BY <2>3, <3>3 DEF Mon!CallNext, Mon!TypeOK
      <4> QED
        BY <3>1, <4>1, MonQueueShrinks
    <3> QED
      BY <3>2, <3>3
  <2>4. ASSUME NEW c \in Mon!Cars, Mon!BoardLastCar(c) PROVE Cardinality(Mon!Queued(k)') <= cnt'[k]
    <3>1. PICK W \in SUBSET Mon!Cars, V \in Mon!Signal(Mon!OnBridgeQueue) :
             Mon!CallNext(Mon!Colour(c), W) /\ Mon!GoTo(c, "crossing", W \cup V)
      BY <2>4 DEF Mon!BoardLastCar
    <3>2. pc[c] \in {"start", "retry"}
      BY <2>4 DEF Mon!BoardLastCar, Mon!Board, Mon!Locks
    <3>3. W \cup V \in SUBSET MonSleeping /\ W \in SUBSET (W \cup V)
      BY <3>1, MonSignalSleeping
    <3> QED
      BY <2>3, <3>1, <3>2, <3>3 DEF Mon!PCs
  <2>5. ASSUME NEW c \in Mon!Cars, Mon!BoardAndWait(c) PROVE Cardinality(Mon!Queued(k)') <= cnt'[k]
    <3>1. PICK W \in SUBSET Mon!Cars : Mon!CallNext(Mon!Colour(c), W) /\ Mon!GoTo(c, "bridge", W)
      BY <2>5 DEF Mon!BoardAndWait
    <3>2. pc[c] \in {"start", "retry"}
      BY <2>5 DEF Mon!BoardAndWait, Mon!Board, Mon!Locks
    <3>3. W \in SUBSET MonSleeping /\ W \in SUBSET W
      BY <3>1, MonSignalSleeping
    <3> QED
      BY <2>3, <3>1, <3>2, <3>3 DEF Mon!PCs
  <2>6. ASSUME NEW c \in Mon!Cars, Mon!StartExit(c) PROVE Cardinality(Mon!Queued(k)') <= cnt'[k]
    <3>1. pc[c] = "crossing" /\ Mon!GoTo(c, "leaving", {}) /\ cnt' = cnt
      BY <2>6 DEF Mon!StartExit, Mon!Locks
    <3>2. Mon!Queued(k)' = Mon!Queued(k) \ {}
      BY <3>1, MonQueuesLose DEF Mon!PCs
    <3> QED
      BY <3>1, <3>2, MonQueueShrinks
  <2>7. ASSUME NEW c \in Mon!Cars, Mon!ExitFollowed(c) PROVE Cardinality(Mon!Queued(k)') <= cnt'[k]
    <3>1. PICK V \in Mon!Signal(Mon!OnBridgeQueue) : Mon!GoTo(c, "done", V)
      BY <2>7 DEF Mon!ExitFollowed
    <3>2. pc[c] = "leaving" /\ cnt' = cnt
      BY <2>7 DEF Mon!ExitFollowed, Mon!StoreLeft
    <3>3. Mon!Queued(k)' = Mon!Queued(k) \ V
      BY <3>1, <3>2, MonSignalSleeping, MonQueuesLose DEF Mon!PCs
    <3> QED
      BY <3>2, <3>3, MonQueueShrinks
  <2>8. ASSUME NEW c \in Mon!Cars, Mon!ExitLast(c) PROVE Cardinality(Mon!Queued(k)') <= cnt'[k]
    <3>1. PICK W \in SUBSET Mon!Cars, V \in Mon!Signal(Mon!Queued(Mon!Colour(c))) :
             Mon!CallNext(Mon!Other(Mon!Colour(c)), W) /\ Mon!GoTo(c, "done", W \cup V)
      BY <2>8 DEF Mon!ExitLast
    <3>2. pc[c] = "leaving"
      BY <2>8 DEF Mon!ExitLast, Mon!StoreLeft
    <3>3. W \cup V \in SUBSET MonSleeping /\ W \in SUBSET (W \cup V)
      BY <3>1, MonSignalSleeping
    <3> QED
      BY <2>3, <3>1, <3>2, <3>3 DEF Mon!PCs
  <2>9. ASSUME Mon!MainStep \/ \E c \in Mon!Cars : Mon!SpuriousWakeup(c)
        PROVE  Cardinality(Mon!Queued(k)') <= cnt'[k]
    <3>1. cnt' = cnt
      BY <2>9 DEF Mon!MainStep, Mon!LoadLeft, Mon!CreateCar, Mon!Return, Mon!SpuriousWakeup
    <3>2. Mon!Queued(k)' \subseteq Mon!Queued(k)
      BY <2>9 DEF Mon!MainStep, Mon!LoadLeft, Mon!CreateCar, Mon!Return, Mon!SpuriousWakeup,
                  Mon!Queued,
        Mon!Team,
                  Mon!TypeOK, Mon!Resume
    <3> QED
      BY <3>1, <3>2, MonQueueShrinks
  <2>10. CASE UNCHANGED Mon!vars
    <3>1. cnt' = cnt /\ Mon!Queued(k)' = Mon!Queued(k)
      BY <2>10 DEF Mon!vars, Mon!Queued
    <3> QED
      BY <3>1, MonQueueShrinks
  <2> QED
    BY <2>1, <2>2, <2>4, <2>5, <2>6, <2>7, <2>8, <2>9, <2>10 DEF Mon!Next, Mon!CarStep
<1> QED
  BY <1>1, <1>2, MonInductive, PTL DEF Mon!Spec

-----------------------------------------------------------------------------
(* The program implements the abstract bridge. *)

LEMMA MonRefineInit == Mon!Init => Mon!Bridge!Init
BY DEF Mon!Init, Mon!Bridge!Init, Mon!OnBridge, Mon!Team, Mon!Cars, Mon!Colours

\* The bridge is a set of cars of both colours.
LEMMA MonBothSides ==
    ASSUME NEW k \in Mon!Colours
    PROVE  /\ Mon!OnBridge("red") \cup Mon!OnBridge("blue")
                = Mon!OnBridge(k) \cup Mon!OnBridge(Mon!Other(k))
           /\ (Mon!OnBridge("red") \cup Mon!OnBridge("blue"))'
                 = Mon!OnBridge(k)' \cup Mon!OnBridge(Mon!Other(k))'
BY DEF Mon!Colours, Mon!Other

LEMMA MonBothSteps ==
    ASSUME Mon!TypeOK, Mon!TypeOK', NEW k \in Mon!Colours
    PROVE  /\ step["red"] + step["blue"] = step[k] + step[Mon!Other(k)]
           /\ (step["red"] + step["blue"])' = step'[k] + step'[Mon!Other(k)]
           /\ step[k] \in Nat /\ step[Mon!Other(k)] \in Nat
BY MonColourFacts DEF Mon!Colours, Mon!Other, Mon!TypeOK

\* A step that moves no car to the bridge or away from it is invisible there.
LEMMA MonRefineOther ==
    ASSUME step' = step,
           \A x \in Mon!Cars :
              /\ pc'[x] \in {"bridge", "crossing", "leaving"}
                    <=> pc[x] \in {"bridge", "crossing", "leaving"}
              /\ pc'[x] = "done" <=> pc[x] = "done"
    PROVE  UNCHANGED Mon!Bridge!vars
<1>1. Mon!OnBridge("red")' = Mon!OnBridge("red") /\ Mon!OnBridge("blue")' = Mon!OnBridge("blue")
  BY DEF Mon!OnBridge, Mon!Team, Mon!Cars
<1>2. {x \in Mon!Cars : pc'[x] = "done"} = {x \in Mon!Cars : pc[x] = "done"}
  OBVIOUS
<1> QED
  BY <1>1, <1>2 DEF Mon!Bridge!vars

LEMMA MonRefineBoard ==
    ASSUME MonIInv, MonIInv', NEW c \in Mon!Cars, Mon!Board(c),
           NEW p \in {"bridge", "crossing"}, NEW W \in SUBSET MonSleeping, Mon!GoTo(c, p, W)
    PROVE  Mon!Bridge!Enter(c)
<1> DEFINE k == Mon!Colour(c)
           j == Mon!Other(k)
           on == Mon!OnBridge("red") \cup Mon!OnBridge("blue")
<1> USE MonColourFacts DEF MonIInv
<1> k \in Mon!Colours /\ j \in Mon!Colours /\ k # j
  OBVIOUS
<1>1. pc[c] \in {"start", "retry"} /\ step' = [step EXCEPT ![k] = @ + 1]
  BY DEF Mon!Board, Mon!Locks
<1>2. Mon!OnBridge(j) = {} /\ step[j] = 0 /\ step[k] < Slots
  BY MonBoardRoom
<1>3. on = Mon!OnBridge(k) /\ on' = on \cup {c}
  BY <1>2, MonBothSides, MonBoardMoves
<1>4. c \notin on /\ pc[c] # "done"
  BY <1>1, <1>3 DEF Mon!OnBridge
<1>5. Mon!Bridge!SameSide(on \cup {c})
  <2>1. on \cup {c} \subseteq Mon!Team(k)
    BY <1>3, MonCountedOnBridge
  <2> QED
    BY <2>1 DEF Mon!Bridge!SameSide, Mon!Team
<1>6. /\ step["red"] + step["blue"] < Slots
      /\ (step["red"] + step["blue"])' = step["red"] + step["blue"] + 1
  BY <1>1, <1>2, MonBothSteps DEF Mon!TypeOK
<1>7. {x \in Mon!Cars : pc[x] = "done"}' = {x \in Mon!Cars : pc[x] = "done"}
  BY <1>1, MonMoves DEF Mon!PCs
<1> QED
  BY <1>3, <1>4, <1>5, <1>6, <1>7 DEF Mon!Bridge!Enter

LEMMA MonRefineLeave ==
    ASSUME MonIInv, MonIInv', NEW c \in Mon!Cars, Mon!StoreLeft(c),
           NEW W \in SUBSET MonSleeping, Mon!GoTo(c, "done", W),
           step' = IF count[Mon!Colour(c)] = 0 THEN [step EXCEPT ![Mon!Colour(c)] = 0] ELSE step
    PROVE  Mon!Bridge!Next
<1> DEFINE k == Mon!Colour(c)
           j == Mon!Other(k)
           on == Mon!OnBridge("red") \cup Mon!OnBridge("blue")
           passed == {x \in Mon!Cars : pc[x] = "done"}
           admitted == step["red"] + step["blue"]
<1> USE MonColourFacts DEF MonIInv
<1> k \in Mon!Colours /\ j \in Mon!Colours /\ k # j
  OBVIOUS
<1>1. /\ c \in Mon!OnBridge(k) /\ c \notin MonCounted(k) /\ Mon!OnBridge(k) = MonCounted(k) \cup {c}
      /\ Mon!OnBridge(j) = {} /\ step[j] = 0
      /\ Mon!OnBridge(k)' = Mon!OnBridge(k) \ {c} /\ Mon!OnBridge(j)' = Mon!OnBridge(j)
  BY MonLeaveMoves
<1>2. on = Mon!OnBridge(k) /\ on' = on \ {c}
  BY <1>1, MonBothSides
<1>3. passed' = passed \cup {c}
  <2>1. pc[c] = "leaving"
    BY DEF Mon!StoreLeft
  <2>2. pc'[c] = "done" /\ \A x \in Mon!Cars \ {c} : pc'[x] = "done" <=> pc[x] = "done"
    BY <2>1, MonMoves DEF Mon!PCs
  <2> QED
    BY <2>2
<1>4. on \subseteq {c} <=> count[k] = 0
  <2>1. MonCounted(k) = {} <=> count[k] = 0
    BY MonCountedOnBridge, FS_EmptySet DEF MonCountInv
  <2> QED
    BY <1>1, <1>2, <2>1
<1>5. admitted' = IF on \subseteq {c} THEN 0 ELSE admitted
  BY <1>1, <1>4, MonBothSteps DEF Mon!TypeOK
<1>6. {c} \in SUBSET on /\ {c} # {}
  BY <1>1, <1>2
<1>7. Mon!Bridge!Leave({c})
  BY <1>2, <1>3, <1>5, <1>6 DEF Mon!Bridge!Leave
<1> QED
  BY <1>6, <1>7 DEF Mon!Bridge!Next

\* Monitors/bridge.c implements the abstract bridge.
THEOREM MonImplements == Mon!Spec => Mon!ImplementsBridge
<1> USE MonColourFacts
<1>1. MonIInv /\ MonIInv' /\ [Mon!Next]_(Mon!vars) => [Mon!Bridge!Next]_(Mon!Bridge!vars)
  <2> SUFFICES ASSUME MonIInv, MonIInv', [Mon!Next]_(Mon!vars)
        PROVE [Mon!Bridge!Next]_(Mon!Bridge!vars)
    OBVIOUS
  <2> USE DEF MonIInv
  <2>1. ASSUME NEW c \in Mon!Cars, Mon!BoardLastSlot(c) PROVE Mon!Bridge!Next
    <3>1. Mon!Bridge!Enter(c)
      BY <2>1, MonRefineBoard DEF Mon!BoardLastSlot
    <3> QED
      BY <3>1 DEF Mon!Bridge!Next, Mon!Bridge!Cars, Mon!Cars
  <2>2. ASSUME NEW c \in Mon!Cars, Mon!BoardLastCar(c) PROVE Mon!Bridge!Next
    <3>1. PICK W \in SUBSET Mon!Cars, V \in Mon!Signal(Mon!OnBridgeQueue) :
             Mon!CallNext(Mon!Colour(c), W) /\ Mon!GoTo(c, "crossing", W \cup V)
      BY <2>2 DEF Mon!BoardLastCar
    <3>2. W \cup V \in SUBSET MonSleeping
      BY <3>1, MonSignalSleeping
    <3>3. Mon!Bridge!Enter(c)
      BY <2>2, <3>1, <3>2, MonRefineBoard DEF Mon!BoardLastCar
    <3> QED
      BY <3>3 DEF Mon!Bridge!Next, Mon!Bridge!Cars, Mon!Cars
  <2>3. ASSUME NEW c \in Mon!Cars, Mon!BoardAndWait(c) PROVE Mon!Bridge!Next
    <3>1. PICK W \in SUBSET Mon!Cars : Mon!CallNext(Mon!Colour(c), W) /\ Mon!GoTo(c, "bridge", W)
      BY <2>3 DEF Mon!BoardAndWait
    <3>2. W \in SUBSET MonSleeping
      BY <3>1, MonSignalSleeping
    <3>3. Mon!Bridge!Enter(c)
      BY <2>3, <3>1, <3>2, MonRefineBoard DEF Mon!BoardAndWait
    <3> QED
      BY <3>3 DEF Mon!Bridge!Next, Mon!Bridge!Cars, Mon!Cars
  <2>4. ASSUME NEW c \in Mon!Cars, Mon!ExitFollowed(c) PROVE Mon!Bridge!Next
    <3>1. PICK V \in Mon!Signal(Mon!OnBridgeQueue) : Mon!GoTo(c, "done", V)
      BY <2>4 DEF Mon!ExitFollowed
    <3>2. Mon!StoreLeft(c) /\ count[Mon!Colour(c)] # 0 /\ step' = step
      BY <2>4 DEF Mon!ExitFollowed, Mon!TypeOK
    <3> QED
      BY <3>1, <3>2, MonSignalSleeping, MonRefineLeave
  <2>5. ASSUME NEW c \in Mon!Cars, Mon!ExitLast(c) PROVE Mon!Bridge!Next
    <3>1. PICK W \in SUBSET Mon!Cars, V \in Mon!Signal(Mon!Queued(Mon!Colour(c))) :
             Mon!CallNext(Mon!Other(Mon!Colour(c)), W) /\ Mon!GoTo(c, "done", W \cup V)
      BY <2>5 DEF Mon!ExitLast
    <3>2. W \cup V \in SUBSET MonSleeping
      BY <3>1, MonSignalSleeping
    <3>3. /\ Mon!StoreLeft(c) /\ count[Mon!Colour(c)] = 0
          /\ step' = [step EXCEPT ![Mon!Colour(c)] = 0]
      BY <2>5 DEF Mon!ExitLast
    <3> QED
      BY <3>1, <3>2, <3>3, MonRefineLeave
  <2>6. ASSUME NEW c \in Mon!Cars, Mon!Queue(c) \/ Mon!StartExit(c) PROVE UNCHANGED Mon!Bridge!vars
    BY <2>6, MonRefineOther DEF Mon!Queue, Mon!StartExit, Mon!Locks, Mon!GoTo, Mon!TypeOK
  <2>7. ASSUME Mon!MainStep \/ \E c \in Mon!Cars : Mon!SpuriousWakeup(c)
          PROVE UNCHANGED Mon!Bridge!vars
    <3>1. /\ step' = step
          /\ \A x \in Mon!Cars :
                /\ pc'[x] \in {"bridge", "crossing", "leaving"}
                      <=> pc[x] \in {"bridge", "crossing", "leaving"}
                /\ pc'[x] = "done" <=> pc[x] = "done"
      BY <2>7 DEF Mon!MainStep, Mon!LoadLeft, Mon!CreateCar, Mon!Return, Mon!SpuriousWakeup,
                  Mon!Resume,
                  Mon!TypeOK, MonCreatingInv
    <3> QED
      BY <3>1, MonRefineOther
  <2>8. CASE UNCHANGED Mon!vars
    BY <2>8, MonRefineOther DEF Mon!vars
  <2> QED
    BY <2>1, <2>2, <2>3, <2>4, <2>5, <2>6, <2>7, <2>8 DEF Mon!Next, Mon!CarStep
<1> QED
  BY MonRefineInit, <1>1, MonInductive, PTL DEF Mon!Spec, Mon!ImplementsBridge, Mon!Bridge!Spec
=============================================================================
