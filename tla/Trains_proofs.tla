--------------------------- MODULE Trains_proofs ---------------------------
(***************************************************************************)
(* Proofs about the roller-coasters with conditional critical regions and  *)
(* with monitors, for any number of passengers, seats and spurious         *)
(* wakeups.  About CCRTrain: type correctness, that no wakeup is lost in   *)
(* the region, that nothing but the assignments outside the region stops   *)
(* the program, and the implementation of RollerCoaster.  About            *)
(* MonitorTrain, in the second part: type correctness, that a full train   *)
(* is never overlooked, and the implementation of RollerCoaster.           *)
(***************************************************************************)
EXTENDS CCRTrain, FiniteSetTheorems, TLAPS

AboardPCs == {"ride", "rideWait", "rideWoken"}
RodePCs == {"off", "resetting", "resetFinish", "leaving", "counting", "done"}
WokenPCs == {"boardWoken", "rideWoken", "woken"}
ResettingPCs == {"off", "resetting", "resetFinish"}

\* The seats taken since the train was last emptied.
boarded == CASE Aboard = {} -> 0
             [] Aboard # {} /\ finish = 1 -> seats
             [] OTHER -> seats - free_seats

\* free_seats is exact: it is only changed in the region.
SeatInv == free_seats = seats - Cardinality(Aboard)

\* When main joins it has created every passenger.
CreatedInv == main \in {"join", "returned"} => \A p \in Clients : pc[p] # "none"

\* What step and finish mean, as long as nothing odd has happened: they are set
\* in a full train, and reset in an empty one by a passenger who has left it.
PhaseInv ==
    odd \/ /\ step = 1 /\ pc[Train] # "arrived" => finish = 1
           /\ pc[Train] \in {"riding", "arrived"} => free_seats = 0
           /\ pc[Train] = "arrived" => step = 1
           /\ finish = 1 /\ step = 0 => free_seats = seats
           /\ finish = 1 /\ free_seats = seats => \E p \in Clients : pc[p] \in ResettingPCs

IInv == TypeOK /\ SeatInv /\ CreatedInv /\ PhaseInv

-----------------------------------------------------------------------------
(* Sets of threads. *)

LEMMA SetFacts ==
    /\ IsFiniteSet(Aboard) /\ Cardinality(Aboard) \in Nat
    /\ IsFiniteSet(Rode) /\ Cardinality(Rode) \in Nat
    /\ IsFiniteSet(Waiting)
    /\ Cardinality(Aboard) = 0 <=> Aboard = {}
<1>1. IsFiniteSet(Clients) /\ IsFiniteSet(Threads)
  BY CCRTrainAssumption, FS_AddElement DEF Threads
<1>2. Aboard \subseteq Clients /\ Rode \subseteq Clients /\ Waiting \subseteq Threads
  BY DEF Aboard, Rode, Waiting
<1>3. IsFiniteSet(Aboard) /\ IsFiniteSet(Rode) /\ IsFiniteSet(Waiting)
  BY <1>1, <1>2, FS_Subset
<1> QED
  BY <1>3, FS_CardinalityType, FS_EmptySet

LEMMA SignalFacts ==
    ASSUME NEW n \in Nat, NEW W \in Signals(n)
    PROVE  /\ W \subseteq Waiting
           /\ n = 0 => W = {}
           /\ n # 0 /\ Waiting # {} => W # {}
<1>1. W \subseteq Waiting /\ (Cardinality(W) = n \/ (W = Waiting /\ Cardinality(W) < n))
  BY DEF Signals
<1>2. IsFiniteSet(W) /\ Cardinality(W) \in Nat /\ (Cardinality(W) = 0 <=> W = {})
  BY <1>1, SetFacts, FS_Subset, FS_CardinalityType, FS_EmptySet
<1> QED
  BY <1>1, <1>2

\* A thread moves, others are woken.
LEMMA Moved ==
    ASSUME TypeOK, NEW t \in Threads, NEW q, NEW W \in SUBSET Waiting, GoTo(t, q, W)
    PROVE  /\ pc'[t] = q
           /\ \A x \in Threads \ {t} :
                 \/ pc'[x] = pc[x] /\ x \notin W
                 \/ pc[x] = "boardWait" /\ pc'[x] = "boardWoken" /\ x \in W
                 \/ pc[x] = "rideWait" /\ pc'[x] = "rideWoken" /\ x \in W
                 \/ pc[x] = "wait" /\ pc'[x] = "woken" /\ x \in W
           /\ q \in PassengerPCs \cup TrainPCs => pc' \in [Threads -> PassengerPCs \cup TrainPCs]
BY DEF GoTo, Woken, Waiting, Waits, PassengerPCs, TrainPCs, InRegion, TypeOK

\* Types are kept by such a move.
LEMMA MovedType ==
    ASSUME TypeOK, NEW t \in Threads, NEW q, NEW W \in SUBSET Waiting, GoTo(t, q, W),
           IF t = Train THEN q \in TrainPCs ELSE q \in PassengerPCs
    PROVE  /\ pc' \in [Threads -> PassengerPCs \cup TrainPCs]
           /\ \A p \in Clients : pc'[p] \in PassengerPCs
           /\ pc'[Train] \in TrainPCs
<1>1. Train \notin Clients /\ Threads = Clients \cup {Train}
  BY CCRTrainAssumption DEF Threads
<1>2. pc' \in [Threads -> PassengerPCs \cup TrainPCs]
  BY Moved
<1>3. \A x \in Threads \ {t} : /\ pc[x] \in PassengerPCs
                                   => pc'[x] \in PassengerPCs \/ pc'[x] = "woken"
                               /\ x \in Clients => pc[x] # "wait"
                               /\ pc[x] \in TrainPCs
                                   => pc'[x] \in TrainPCs \/ pc'[x] \in {"boardWoken", "rideWoken"}
                               /\ x = Train => pc[x] \notin {"boardWait", "rideWait"}
  BY Moved, <1>1 DEF TypeOK, PassengerPCs, TrainPCs, InRegion
<1> QED
  BY <1>1, <1>2, <1>3, Moved DEF TypeOK, PassengerPCs, TrainPCs, InRegion

\* The passengers aboard, and those who have ridden, after such a move.
LEMMA SetsMoved ==
    ASSUME TypeOK, NEW t \in Threads, NEW q, NEW W \in SUBSET Waiting, GoTo(t, q, W)
    PROVE  /\ Aboard' = IF t \in Clients /\ q \in AboardPCs THEN Aboard \cup {t} ELSE Aboard \ {t}
           /\ Rode' = IF t \in Clients /\ q \in RodePCs THEN Rode \cup {t} ELSE Rode \ {t}
<1>1. pc'[t] = q /\ Clients \subseteq Threads
  BY Moved DEF Threads
<1>2. \A x \in Clients \ {t} : /\ pc'[x] \in AboardPCs <=> pc[x] \in AboardPCs
                               /\ pc'[x] \in RodePCs <=> pc[x] \in RodePCs
  BY Moved DEF AboardPCs, RodePCs, Threads
<1> QED
  BY <1>1, <1>2 DEF Aboard, Rode, AboardPCs, RodePCs

\* A passenger at the end of the ride stays there when others move.
LEMMA ResettingStay ==
    ASSUME TypeOK, NEW t \in Threads, NEW q, NEW W \in SUBSET Waiting, GoTo(t, q, W),
           NEW p \in Clients, pc[p] \in ResettingPCs, p # t
    PROVE  pc'[p] \in ResettingPCs
BY Moved DEF ResettingPCs, Threads

\* A step that leaves the seats, step and finish alone.
LEMMA QuietStep ==
    ASSUME IInv, NEW t \in Threads, NEW q, NEW W \in SUBSET Waiting, GoTo(t, q, W),
           IF t = Train
           THEN q \in TrainPCs \ {"riding", "arrived"} /\ pc[t] # "arrived"
           ELSE /\ q \in PassengerPCs \ {"none"}
                /\ pc[t] \in AboardPCs <=> q \in AboardPCs
                /\ pc[t] \in RodePCs <=> q \in RodePCs
                /\ pc[t] \in ResettingPCs => q \in ResettingPCs \/ free_seats # seats,
           UNCHANGED <<free_seats, step, finish, main, odd>>,
           passengers' \in Int, load' \in [Clients -> Int], mainLoad' \in Int,
           spurious' \in 0..MaxSpurious
    PROVE  UNCHANGED <<Aboard, Rode, boarded>> /\ IInv'
<1> USE DEF IInv
<1>1. Train \notin Clients /\ Threads = Clients \cup {Train}
  BY CCRTrainAssumption DEF Threads
<1>2. Aboard' = Aboard /\ Rode' = Rode
  BY <1>1, SetsMoved DEF Aboard, Rode, AboardPCs, RodePCs
<1>3. boarded' = boarded /\ SeatInv'
  BY <1>2 DEF boarded, SeatInv
<1>4. TypeOK'
  <2>1. IF t = Train THEN q \in TrainPCs ELSE q \in PassengerPCs
    OBVIOUS
  <2> QED
    BY <2>1, MovedType DEF TypeOK
<1>5. CreatedInv'
  <2> SUFFICES ASSUME main' \in {"join", "returned"}, NEW p \in Clients
               PROVE  pc'[p] # "none"
    BY DEF CreatedInv
  <2>1. pc[p] # "none" /\ p \in Threads
    BY <1>1 DEF CreatedInv
  <2> QED
    BY <1>1, <2>1, Moved
<1>6. PhaseInv'
  <2> SUFFICES ASSUME ~odd PROVE PhaseInv'
    BY DEF PhaseInv
  <2>1. pc'[Train] \in {"riding", "arrived"} => pc'[Train] = pc[Train]
    BY <1>1, Moved DEF TypeOK, TrainPCs, InRegion
  <2>2. pc[Train] = "arrived" => pc'[Train] = "arrived"
    BY <1>1, Moved DEF TypeOK, TrainPCs, InRegion
  <2>3. finish' = 1 /\ free_seats' = seats => \E p \in Clients : pc'[p] \in ResettingPCs
    <3> SUFFICES ASSUME finish = 1, free_seats = seats
                 PROVE  \E p \in Clients : pc'[p] \in ResettingPCs
      OBVIOUS
    <3>1. PICK p \in Clients : pc[p] \in ResettingPCs
      BY DEF PhaseInv
    <3> QED
      BY <1>1, <3>1, ResettingStay, Moved
  <2> QED
    BY <2>1, <2>2, <2>3 DEF PhaseInv
<1> QED
  BY <1>2, <1>3, <1>4, <1>5, <1>6

LEMMA InitIInv == Init => IInv
<1> SUFFICES ASSUME Init PROVE IInv
  OBVIOUS
<1>1. Train \notin Clients /\ Threads = Clients \cup {Train} /\ seats \in Nat \ {0}
  BY CCRTrainAssumption DEF Threads
<1>2. Aboard = {}
  BY <1>1 DEF Init, Aboard, Threads
<1>3. TypeOK
  <2>1. Cardinality(Clients) \in Int
    BY CCRTrainAssumption, FS_CardinalityType
  <2>2. /\ pc \in [Threads -> PassengerPCs \cup TrainPCs]
        /\ \A p \in Clients : pc[p] \in PassengerPCs
        /\ pc[Train] \in TrainPCs
    BY <1>1 DEF Init, PassengerPCs, TrainPCs
  <2>3. free_seats \in 0..seats /\ spurious \in 0..MaxSpurious /\ load \in [Clients -> Int]
    BY <1>1, CCRTrainAssumption DEF Init
  <2>4. passengers \in Int /\ step \in {0, 1} /\ finish \in {0, 1} /\ mainLoad \in Int
    BY <2>1 DEF Init
  <2>5. main \in {"reset", "load", "store", "join", "returned"} /\ odd \in BOOLEAN
    BY DEF Init
  <2> QED
    BY <2>2, <2>3, <2>4, <2>5 DEF TypeOK
<1> QED
  BY <1>1, <1>2, <1>3, FS_EmptySet DEF Init, IInv, SeatInv, CreatedInv, PhaseInv

\* Whoever finds the condition false waits.
LEMMA AwaitStep ==
    ASSUME IInv, NEW t \in Threads, NEW q, Await(t, q),
           \/ t \in Clients /\ pc[t] \in {"board", "boardWoken"} /\ q = "boardWait"
           \/ t \in Clients /\ pc[t] \in {"ride", "rideWoken"} /\ q = "rideWait"
           \/ t = Train /\ pc[t] \in {"lock", "woken"} /\ q = "wait"
    PROVE  UNCHANGED <<Aboard, Rode, boarded>> /\ IInv'
<1>1. PICK W \in Signals(PassedOn(t)) : GoTo(t, q, W)
  BY DEF Await
<1>2. W \subseteq Waiting
  BY <1>1, SignalFacts DEF PassedOn
<1>3. IF t = Train
      THEN q \in TrainPCs \ {"riding", "arrived"} /\ pc[t] # "arrived"
      ELSE /\ q \in PassengerPCs \ {"none"}
           /\ pc[t] \in AboardPCs <=> q \in AboardPCs
           /\ pc[t] \in RodePCs <=> q \in RodePCs
           /\ pc[t] \in ResettingPCs => q \in ResettingPCs \/ free_seats # seats
  BY CCRTrainAssumption DEF TrainPCs, PassengerPCs, InRegion, AboardPCs, RodePCs, ResettingPCs
<1> QED
  BY <1>1, <1>2, <1>3, QuietStep DEF Await, mainVars, history, IInv, TypeOK

\* A passenger boards.
LEMMA BoardStep ==
    ASSUME IInv, NEW p \in Clients, Board(p)
    PROVE  /\ p \notin Aboard \cup Rode /\ Aboard' = Aboard \cup {p} /\ Rode' = Rode
           /\ boarded < seats /\ boarded' = boarded + 1
           /\ IInv'
<1> USE DEF IInv
<1>1. PICK W \in Signals(PassedOn(p) + 1) : GoTo(p, "ride", W)
  BY DEF Board
<1>2. p \in Threads /\ p # Train /\ W \subseteq Waiting /\ seats \in Nat \ {0}
  BY <1>1, SignalFacts, CCRTrainAssumption DEF PassedOn, Threads
<1>3. Aboard' = Aboard \cup {p} /\ Rode' = Rode \ {p} /\ p \notin Aboard \cup Rode
  BY <1>1, <1>2, SetsMoved DEF AboardPCs, RodePCs, Board, Aboard, Rode
<1>4. Cardinality(Aboard') = Cardinality(Aboard) + 1 /\ Aboard' # {}
  BY <1>3, SetFacts, FS_AddElement
<1>5. free_seats' = free_seats - 1 /\ free_seats > 0 /\ finish = 0 /\ finish' = 0 /\ step' = step
  BY DEF Board, MayBoard
<1>6. SeatInv'
  BY <1>2, <1>4, <1>5, SetFacts DEF SeatInv, TypeOK
<1>7. boarded < seats /\ boarded' = boarded + 1
  <2>1. boarded = seats - free_seats
    BY <1>5, SetFacts, <1>2 DEF boarded, SeatInv
  <2>2. boarded' = seats - free_seats'
    BY <1>4, <1>5 DEF boarded
  <2> QED
    BY <2>1, <2>2, <1>2, <1>5 DEF TypeOK
<1>8. TypeOK'
  BY <1>1, <1>2, <1>5, MovedType DEF TypeOK, Board, mainVars, history, PassengerPCs
<1>9. CreatedInv'
  <2> SUFFICES ASSUME main' \in {"join", "returned"}, NEW c \in Clients
               PROVE  pc'[c] # "none"
    BY DEF CreatedInv
  <2>1. pc[c] # "none" /\ c \in Threads
    BY DEF CreatedInv, Threads, Board, mainVars
  <2> QED
    BY <1>1, <1>2, <2>1, Moved
<1>10. PhaseInv'
  <2>1. pc'[Train] \notin {"riding", "arrived"} /\ pc[Train] \notin {"riding", "arrived"}
    <3>1. pc[Train] \notin {"riding", "arrived"}
      BY DEF Board, Free, InRegion
    <3> QED
      BY <3>1, <1>1, <1>2, Moved DEF Threads
  <2> QED
    BY <2>1, <1>5 DEF PhaseInv, Board, history
<1> QED
  BY <1>3, <1>6, <1>7, <1>8, <1>9, <1>10

\* A passenger leaves the train; boarded starts again when the train is empty.
LEMMA LeaveStep ==
    ASSUME IInv, NEW p \in Clients, Leave(p)
    PROVE  /\ p \in Aboard /\ p \notin Rode /\ Aboard' = Aboard \ {p} /\ Rode' = Rode \cup {p}
           /\ odd' = odd
           /\ odd \/ (boarded = seats /\ boarded' = IF Aboard' = {} THEN 0 ELSE boarded)
           /\ IInv'
<1> USE DEF IInv
<1>1. PICK W \in Signals(PassedOn(p) + 1) : GoTo(p, "off", W)
  BY DEF Leave
<1>2. p \in Threads /\ p # Train /\ W \subseteq Waiting /\ seats \in Nat \ {0}
  BY <1>1, SignalFacts, CCRTrainAssumption DEF PassedOn, Threads
<1>3. Aboard' = Aboard \ {p} /\ Rode' = Rode \cup {p} /\ p \in Aboard /\ p \notin Rode
  BY <1>1, <1>2, SetsMoved DEF AboardPCs, RodePCs, Leave, Aboard, Rode
<1>4. Cardinality(Aboard') = Cardinality(Aboard) - 1 /\ Cardinality(Aboard) > 0
  <2>1. Cardinality(Aboard \ {p}) = Cardinality(Aboard) - 1
    BY <1>3, SetFacts, FS_RemoveElement
  <2>2. Cardinality(Aboard) # 0 /\ Cardinality(Aboard) \in Nat
    BY <1>3, SetFacts
  <2> QED
    BY <1>3, <2>1, <2>2
<1>5. /\ free_seats' = free_seats + 1 /\ step = 1 /\ odd' = odd
      /\ UNCHANGED <<step, finish, main>>
  BY DEF Leave, MayLeave, mainVars, history
<1>6. SeatInv' /\ free_seats < seats
  BY <1>2, <1>4, <1>5, SetFacts DEF SeatInv
<1>7. pc[Train] \notin InRegion /\ pc'[Train] \notin InRegion
  <2>1. pc[Train] \notin InRegion
    BY DEF Leave, Free
  <2> QED
    BY <2>1, <1>1, <1>2, Moved DEF Threads, InRegion
<1>8. odd \/ (boarded = seats /\ boarded' = IF Aboard' = {} THEN 0 ELSE boarded)
  <2> SUFFICES ASSUME ~odd PROVE boarded = seats /\ boarded' = IF Aboard' = {} THEN 0 ELSE boarded
    OBVIOUS
  <2>1. finish = 1 /\ finish' = 1
    BY <1>5, <1>7 DEF PhaseInv, InRegion
  <2> QED
    BY <2>1, <1>3 DEF boarded
<1>9. TypeOK'
  BY <1>1, <1>2, <1>5, <1>6, MovedType DEF TypeOK, Leave, mainVars, history, PassengerPCs
<1>10. CreatedInv'
  <2> SUFFICES ASSUME main' \in {"join", "returned"}, NEW c \in Clients
               PROVE  pc'[c] # "none"
    BY DEF CreatedInv
  <2>1. pc[c] # "none" /\ c \in Threads
    BY <1>5 DEF CreatedInv, Threads
  <2> QED
    BY <1>1, <1>2, <2>1, Moved
<1>11. PhaseInv'
  <2>1. pc'[p] \in ResettingPCs
    BY <1>1, <1>2, Moved DEF ResettingPCs
  <2> QED
    BY <1>5, <1>7, <2>1 DEF PhaseInv, InRegion
<1> QED
  BY <1>3, <1>5, <1>6, <1>8, <1>9, <1>10, <1>11

\* The steps outside the region, and those of the train that leave step, finish
\* and the seats alone.
LEMMA ClientQuietStep ==
    ASSUME IInv, NEW p \in Clients,
           \/ TestEmpty(p) \/ LoadLeft(p) \/ StoreLeft(p) \/ AwaitBoard(p) \/ AwaitLeave(p)
    PROVE  UNCHANGED <<Aboard, Rode, boarded, odd>> /\ IInv'
<1> USE DEF IInv
<1>1. p \in Threads /\ p # Train /\ {} \in SUBSET Waiting
  BY CCRTrainAssumption DEF Threads
<1>2. CASE AwaitBoard(p) \/ AwaitLeave(p)
  BY <1>2, AwaitStep, <1>1 DEF AwaitBoard, AwaitLeave, Await, history
<1>3. CASE TestEmpty(p)
  <2> DEFINE q == IF free_seats = seats THEN "resetting" ELSE "leaving"
  <2>1. /\ q \in PassengerPCs \ {"none"}
        /\ pc[p] \in AboardPCs <=> q \in AboardPCs
        /\ pc[p] \in RodePCs <=> q \in RodePCs
        /\ pc[p] \in ResettingPCs => q \in ResettingPCs \/ free_seats # seats
    BY <1>3 DEF TestEmpty, PassengerPCs, AboardPCs, RodePCs, ResettingPCs
  <2>2. GoTo(p, q, {})
    BY <1>3 DEF TestEmpty
  <2> HIDE DEF q
  <2> QED
    BY <1>1, <1>3, <2>1, <2>2, QuietStep DEF TestEmpty, TypeOK, mainVars, history
<1>4. CASE LoadLeft(p)
  <2>1. load' \in [Clients -> Int] /\ GoTo(p, "counting", {}) /\ pc[p] = "leaving"
    BY <1>4 DEF LoadLeft, TypeOK
  <2> QED
    BY <1>1, <1>4, <2>1, QuietStep
       DEF LoadLeft, TypeOK, mainVars, history, PassengerPCs, AboardPCs, RodePCs, ResettingPCs
<1>5. CASE StoreLeft(p)
  <2>1. load' \in [Clients -> Int] /\ passengers' \in Int /\ GoTo(p, "done", {})
        /\ pc[p] = "counting"
    BY <1>5 DEF StoreLeft, TypeOK
  <2> QED
    BY <1>1, <1>5, <2>1, QuietStep
       DEF StoreLeft, TypeOK, mainVars, history, PassengerPCs, AboardPCs, RodePCs, ResettingPCs
<1> QED
  BY <1>2, <1>3, <1>4, <1>5

LEMMA TrainQuietStep ==
    ASSUME IInv, TestPassengers \/ AwaitRide \/ StartRide \/ NobodyLeft
    PROVE  UNCHANGED <<Aboard, Rode, boarded, odd>> /\ IInv'
<1> USE DEF IInv
<1>1. Train \in Threads /\ {} \in SUBSET Waiting
  BY DEF Threads
<1>2. CASE AwaitRide
  BY <1>2, AwaitStep, <1>1 DEF AwaitRide, Await, history
<1>3. CASE TestPassengers
  <2> DEFINE q == IF passengers > 0 THEN "lock" ELSE "done"
  <2>1. q \in TrainPCs \ {"riding", "arrived"} /\ pc[Train] # "arrived" /\ GoTo(Train, q, {})
    BY <1>3 DEF TestPassengers, TrainPCs, InRegion
  <2> HIDE DEF q
  <2> QED
    BY <1>1, <1>3, <2>1, QuietStep DEF TestPassengers, TypeOK, mainVars, history
<1>4. CASE StartRide
  <2>1. PICK W \in Signals(PassedOn(Train)) : GoTo(Train, "check", W)
    BY <1>4 DEF StartRide
  <2>2. W \in SUBSET Waiting /\ pc[Train] # "arrived"
    BY <1>4, <2>1, SignalFacts DEF StartRide, PassedOn
  <2> QED
    BY <1>1, <1>4, <2>1, <2>2, QuietStep
       DEF StartRide, TypeOK, mainVars, history, TrainPCs, InRegion
<1>5. CASE NobodyLeft
  <2>1. PICK W \in Signals(1) : GoTo(Train, "loop", W)
    BY <1>5 DEF NobodyLeft
  <2>2. W \in SUBSET Waiting /\ pc[Train] # "arrived"
    BY <1>5, <2>1, SignalFacts DEF NobodyLeft
  <2> QED
    BY <1>1, <1>5, <2>1, <2>2, QuietStep
       DEF NobodyLeft, TypeOK, mainVars, history, TrainPCs, InRegion
<1> QED
  BY <1>2, <1>3, <1>4, <1>5

LEMMA SpuriousStep ==
    ASSUME IInv, NEW t \in Threads, SpuriousWakeup(t)
    PROVE  UNCHANGED <<Aboard, Rode, boarded, odd>> /\ IInv'
<1> USE DEF IInv
<1>1. GoTo(t, Woken(pc[t]), {}) /\ {} \in SUBSET Waiting
  BY DEF SpuriousWakeup, GoTo, TypeOK
<1>2. spurious' \in 0..MaxSpurious
  BY CCRTrainAssumption DEF SpuriousWakeup, TypeOK
<1>3. IF t = Train
      THEN pc[t] = "wait" /\ Woken(pc[t]) = "woken"
      ELSE \/ pc[t] = "boardWait" /\ Woken(pc[t]) = "boardWoken"
           \/ pc[t] = "rideWait" /\ Woken(pc[t]) = "rideWoken"
  <2>1. pc[t] \in Waits
    BY DEF SpuriousWakeup, Waiting
  <2>2. t # Train => pc[t] \in PassengerPCs
    BY DEF TypeOK, Threads
  <2>3. t = Train => pc[t] \in TrainPCs
    BY DEF TypeOK
  <2> QED
    BY <2>1, <2>2, <2>3 DEF Waits, PassengerPCs, TrainPCs, InRegion, Woken
<1> HIDE DEF IInv
<1> DEFINE q == Woken(pc[t])
<1>4. IF t = Train
      THEN q \in TrainPCs \ {"riding", "arrived"} /\ pc[t] # "arrived"
      ELSE /\ q \in PassengerPCs \ {"none"}
           /\ pc[t] \in AboardPCs <=> q \in AboardPCs
           /\ pc[t] \in RodePCs <=> q \in RodePCs
           /\ pc[t] \in ResettingPCs => q \in ResettingPCs \/ free_seats # seats
  BY <1>3 DEF TrainPCs, PassengerPCs, InRegion, AboardPCs, RodePCs, ResettingPCs
<1>5. UNCHANGED <<free_seats, step, finish, main, odd>> /\ passengers' \in Int
      /\ load' \in [Clients -> Int] /\ mainLoad' \in Int
  BY DEF SpuriousWakeup, mainVars, IInv, TypeOK
<1>6. GoTo(t, q, {})
  BY <1>1
<1> HIDE DEF q
<1> QED
  BY <1>1, <1>2, <1>4, <1>5, <1>6, QuietStep

\* A step that leaves the seats alone: what does not depend on step and finish.
LEMMA StayStep ==
    ASSUME IInv, NEW t \in Threads, NEW q, NEW W \in SUBSET Waiting, GoTo(t, q, W),
           IF t = Train
           THEN q \in TrainPCs
           ELSE /\ q \in PassengerPCs \ {"none"}
                /\ pc[t] \in AboardPCs <=> q \in AboardPCs
                /\ pc[t] \in RodePCs <=> q \in RodePCs,
           UNCHANGED <<free_seats, passengers, load, mainVars, spurious>>,
           step' \in {0, 1}, finish' \in {0, 1}, odd' \in BOOLEAN
    PROVE  Aboard' = Aboard /\ Rode' = Rode /\ TypeOK' /\ SeatInv' /\ CreatedInv'
<1> USE DEF IInv
<1>1. Train \notin Clients /\ Threads = Clients \cup {Train}
  BY CCRTrainAssumption DEF Threads
<1>2. Aboard' = Aboard /\ Rode' = Rode
  BY <1>1, SetsMoved DEF Aboard, Rode, AboardPCs, RodePCs
<1>3. SeatInv'
  BY <1>2 DEF SeatInv
<1>4. TypeOK'
  <2>1. IF t = Train THEN q \in TrainPCs ELSE q \in PassengerPCs
    OBVIOUS
  <2> QED
    BY <2>1, MovedType DEF TypeOK, mainVars
<1>5. CreatedInv'
  <2> SUFFICES ASSUME main' \in {"join", "returned"}, NEW p \in Clients
               PROVE  pc'[p] # "none"
    BY DEF CreatedInv
  <2>1. pc[p] # "none" /\ p \in Threads
    BY <1>1 DEF CreatedInv, mainVars
  <2> QED
    BY <1>1, <2>1, Moved
<1> QED
  BY <1>2, <1>3, <1>4, <1>5

\* step is reset; unless this is odd, the train is empty or step was 0.
LEMMA ResetStepStep ==
    ASSUME IInv, NEW p \in Clients, ResetStep(p)
    PROVE  UNCHANGED <<Aboard, Rode, boarded>> /\ IInv'
<1> USE DEF IInv
<1>1. p \in Threads /\ p # Train /\ Train \in Threads /\ {} \in SUBSET Waiting
      /\ seats \in Nat \ {0}
  BY CCRTrainAssumption DEF Threads
<1>2. /\ pc[p] = "resetting" /\ step' = 0 /\ GoTo(p, "resetFinish", {})
      /\ UNCHANGED <<free_seats, passengers, finish, load, mainVars, spurious>>
      /\ odd' \in BOOLEAN
  BY DEF ResetStep, TypeOK
<1>3. Aboard' = Aboard /\ Rode' = Rode /\ TypeOK' /\ SeatInv' /\ CreatedInv'
  BY <1>1, <1>2, StayStep DEF TypeOK, PassengerPCs, AboardPCs, RodePCs
<1>4. boarded' = boarded
  BY <1>2, <1>3 DEF boarded
<1>5. PhaseInv'
  <2> SUFFICES ASSUME ~odd' PROVE PhaseInv'
    BY DEF PhaseInv
  <2>1. ~odd /\ (step = 0 \/ free_seats = seats)
    BY DEF ResetStep, TypeOK
  <2>2. pc'[Train] = pc[Train] /\ pc'[p] \in ResettingPCs
    BY <1>1, <1>2, Moved DEF ResettingPCs
  <2>3. pc[Train] # "arrived"
    BY <1>1, <2>1 DEF PhaseInv
  <2> QED
    BY <1>2, <2>1, <2>2, <2>3 DEF PhaseInv
<1> QED
  BY <1>3, <1>4, <1>5

\* finish is reset; unless this is odd, the train is empty or finish was 0.
LEMMA ResetFinishStep ==
    ASSUME IInv, NEW p \in Clients, ResetFinish(p)
    PROVE  /\ UNCHANGED <<Aboard, Rode>> /\ IInv'
           /\ odd' \/ boarded' = boarded
<1> USE DEF IInv
<1>1. p \in Threads /\ p # Train /\ Train \in Threads /\ {} \in SUBSET Waiting
      /\ seats \in Nat \ {0}
  BY CCRTrainAssumption DEF Threads
<1>2. /\ pc[p] = "resetFinish" /\ finish' = 0 /\ GoTo(p, "leaving", {})
      /\ UNCHANGED <<free_seats, passengers, step, load, mainVars, spurious>>
      /\ odd' \in BOOLEAN
  BY DEF ResetFinish, TypeOK
<1>3. Aboard' = Aboard /\ Rode' = Rode /\ TypeOK' /\ SeatInv' /\ CreatedInv'
  BY <1>1, <1>2, StayStep DEF TypeOK, PassengerPCs, AboardPCs, RodePCs
<1>4. odd' \/ (~odd /\ (finish = 0 \/ (free_seats = seats /\ step = 0)))
  BY DEF ResetFinish, TypeOK
<1>5. odd' \/ boarded' = boarded
  <2> SUFFICES ASSUME ~odd', Aboard # {} PROVE finish = 0
    BY <1>2, <1>3 DEF boarded, TypeOK
  <2>1. free_seats # seats
    BY SetFacts, <1>1 DEF SeatInv
  <2> QED
    BY <1>4, <2>1
<1>6. PhaseInv'
  <2> SUFFICES ASSUME ~odd' PROVE PhaseInv'
    BY DEF PhaseInv
  <2>1. pc'[Train] = pc[Train]
    BY <1>1, <1>2, Moved
  <2> QED
    BY <1>2, <1>4, <2>1 DEF PhaseInv
<1> QED
  BY <1>3, <1>5, <1>6

\* The train rides, sets step, sets finish.
LEMMA RideStep ==
    ASSUME IInv, Ride \/ SetStep \/ SetFinish
    PROVE  /\ UNCHANGED <<Aboard, Rode>> /\ IInv'
           /\ odd' \/ boarded' = boarded
<1> USE DEF IInv
<1>1. Train \in Threads /\ {} \in SUBSET Waiting /\ seats \in Nat \ {0}
  BY CCRTrainAssumption DEF Threads
<1>2. CASE Ride
  <2>1. GoTo(Train, "riding", {}) /\ odd' \in BOOLEAN /\ pc[Train] = "check"
    BY <1>2 DEF Ride, TypeOK
  <2>2. Aboard' = Aboard /\ Rode' = Rode /\ TypeOK' /\ SeatInv' /\ CreatedInv'
    BY <1>1, <1>2, <2>1, StayStep DEF Ride, TypeOK, TrainPCs, InRegion
  <2>3. boarded' = boarded
    BY <1>2, <2>2 DEF Ride, boarded
  <2>4. PhaseInv'
    <3> SUFFICES ASSUME ~odd' PROVE PhaseInv'
      BY DEF PhaseInv
    <3>1. ~odd /\ free_seats = 0
      BY <1>2 DEF Ride, TypeOK
    <3>2. pc'[Train] = "riding"
      BY <1>1, <2>1, Moved
    <3> QED
      BY <1>1, <1>2, <2>1, <3>1, <3>2 DEF Ride, PhaseInv
  <2> QED
    BY <2>2, <2>3, <2>4
<1>3. CASE SetStep
  <2>1. GoTo(Train, "arrived", {}) /\ odd' = odd /\ pc[Train] = "riding" /\ step' = 1
    BY <1>3 DEF SetStep, history
  <2>2. Aboard' = Aboard /\ Rode' = Rode /\ TypeOK' /\ SeatInv' /\ CreatedInv'
    BY <1>1, <1>3, <2>1, StayStep DEF SetStep, TypeOK, TrainPCs, InRegion, history
  <2>3. boarded' = boarded
    BY <1>3, <2>2 DEF SetStep, boarded
  <2>4. PhaseInv'
    <3>1. pc'[Train] = "arrived"
      BY <1>1, <2>1, Moved
    <3> QED
      BY <1>1, <1>3, <2>1, <3>1 DEF SetStep, PhaseInv
  <2> QED
    BY <2>2, <2>3, <2>4
<1>4. CASE SetFinish
  <2>1. PICK W \in Signals(1) : GoTo(Train, "loop", W)
    BY <1>4 DEF SetFinish
  <2>2. W \in SUBSET Waiting /\ pc[Train] = "arrived" /\ finish' = 1 /\ odd' = odd
    BY <1>4, <2>1, SignalFacts DEF SetFinish, history
  <2>3. Aboard' = Aboard /\ Rode' = Rode /\ TypeOK' /\ SeatInv' /\ CreatedInv'
    BY <1>1, <1>4, <2>1, <2>2, StayStep DEF SetFinish, TypeOK, TrainPCs, history
  <2>4. odd \/ (free_seats = 0 /\ step = 1)
    BY <2>2 DEF PhaseInv
  <2>5. odd' \/ boarded' = boarded
    <3> SUFFICES ASSUME ~odd, Aboard # {} PROVE boarded' = boarded
      BY <2>2, <2>3 DEF boarded
    <3>1. free_seats = 0 /\ free_seats' = 0
      BY <1>4, <2>4 DEF SetFinish
    <3>2. boarded' = seats
      BY <2>2, <2>3 DEF boarded
    <3>3. boarded = seats
      BY <3>1, <1>1 DEF boarded
    <3> QED
      BY <3>2, <3>3
  <2>6. PhaseInv'
    <3>1. pc'[Train] = "loop"
      BY <1>1, <2>1, <2>2, Moved
    <3> QED
      BY <1>1, <1>4, <2>2, <2>4, <3>1 DEF SetFinish, PhaseInv
  <2> QED
    BY <2>3, <2>5, <2>6
<1> QED
  BY <1>2, <1>3, <1>4

\* main counts and creates the passengers.
LEMMA MainSteps ==
    ASSUME IInv, MainStep
    PROVE  UNCHANGED <<Aboard, Rode, boarded, odd>> /\ IInv'
<1> USE DEF IInv
<1>1. Train \notin Clients /\ Threads = Clients \cup {Train}
  BY CCRTrainAssumption DEF Threads
<1>2. CASE Reset
  <2>1. CreatedInv'
    BY <1>2 DEF Reset, NextCreation, CreatedInv
  <2>2. TypeOK'
    BY <1>2 DEF Reset, NextCreation, TypeOK, history
  <2> QED
    BY <1>2, <2>1, <2>2 DEF Reset, Aboard, Rode, boarded, SeatInv, PhaseInv, history
<1>3. CASE LoadPassengers \/ Return
  <2>1. CreatedInv'
    BY <1>3 DEF LoadPassengers, Return, CreatedInv
  <2>2. TypeOK'
    BY <1>3 DEF LoadPassengers, Return, TypeOK, history
  <2> QED
    BY <1>3, <2>1, <2>2 DEF LoadPassengers, Return, Aboard, Rode, boarded, SeatInv, PhaseInv,
                            history
<1>4. ASSUME NEW p \in Clients, CreatePassenger(p)
      PROVE  UNCHANGED <<Aboard, Rode, boarded, odd>> /\ IInv'
  <2>1. GoTo(p, "board", {}) /\ {} \in SUBSET Waiting /\ pc[p] = "none" /\ p \in Threads
        /\ UNCHANGED <<free_seats, step, finish, load, odd, spurious>>
    BY <1>1, <1>4 DEF CreatePassenger, history
  <2>2. Aboard' = Aboard /\ Rode' = Rode
    BY <2>1, SetsMoved DEF Aboard, Rode, AboardPCs, RodePCs
  <2>3. TypeOK'
    <3>1. /\ pc' \in [Threads -> PassengerPCs \cup TrainPCs]
          /\ \A c \in Clients : pc'[c] \in PassengerPCs
          /\ pc'[Train] \in TrainPCs
      BY <1>1, <2>1, MovedType DEF PassengerPCs
    <3>2. passengers' \in Int /\ mainLoad' \in Int
          /\ main' \in {"reset", "load", "store", "join", "returned"}
      BY <1>4 DEF CreatePassenger, NextCreation, TypeOK
    <3> QED
      BY <2>1, <3>1, <3>2 DEF TypeOK
  <2>4. CreatedInv'
    <3> SUFFICES ASSUME main' \in {"join", "returned"}, NEW c \in Clients
                 PROVE  pc'[c] # "none"
      BY DEF CreatedInv
    <3>1. {x \in Clients : pc[x] = "none"} \subseteq {p}
      BY <1>4 DEF CreatePassenger, NextCreation
    <3> QED
      BY <1>1, <2>1, <3>1, Moved
  <2>5. boarded' = boarded /\ SeatInv'
    BY <2>1, <2>2 DEF boarded, SeatInv
  <2>6. PhaseInv'
    <3>1. pc'[Train] = pc[Train]
      BY <1>1, <2>1, Moved
    <3>2. \A x \in Clients : pc[x] \in ResettingPCs => pc'[x] \in ResettingPCs
      BY <1>1, <2>1, ResettingStay DEF ResettingPCs
    <3> QED
      BY <2>1, <3>1, <3>2 DEF PhaseInv
  <2> QED
    BY <2>1, <2>2, <2>3, <2>4, <2>5, <2>6
<1> QED
  BY <1>2, <1>3, <1>4 DEF MainStep

-----------------------------------------------------------------------------
(* The invariant, and the roller-coaster. *)

\* What a step does to the abstract state, if it is neither a passenger who boards
\* nor one who leaves.
LEMMA OtherStep ==
    ASSUME IInv, [Next]_vars, \A p \in Clients : ~Board(p) /\ ~Leave(p)
    PROVE  /\ UNCHANGED <<Aboard, Rode>> /\ IInv'
           /\ odd' \/ boarded' = boarded
<1>1. ASSUME NEW p \in Clients, TestEmpty(p) \/ LoadLeft(p) \/ StoreLeft(p) \/ AwaitBoard(p)
                                \/ AwaitLeave(p)
      PROVE  UNCHANGED <<Aboard, Rode, boarded>> /\ IInv'
  BY <1>1, ClientQuietStep
<1>2. ASSUME NEW p \in Clients, ResetStep(p) PROVE UNCHANGED <<Aboard, Rode, boarded>> /\ IInv'
  BY <1>2, ResetStepStep
<1>3. ASSUME NEW p \in Clients, ResetFinish(p)
      PROVE  UNCHANGED <<Aboard, Rode>> /\ IInv' /\ (odd' \/ boarded' = boarded)
  BY <1>3, ResetFinishStep
<1>4. ASSUME TrainStep
      PROVE  UNCHANGED <<Aboard, Rode>> /\ IInv' /\ (odd' \/ boarded' = boarded)
  BY <1>4, TrainQuietStep, RideStep DEF TrainStep
<1>5. ASSUME MainStep PROVE UNCHANGED <<Aboard, Rode, boarded>> /\ IInv'
  BY <1>5, MainSteps
<1>6. ASSUME NEW t \in Threads, SpuriousWakeup(t)
      PROVE  UNCHANGED <<Aboard, Rode, boarded>> /\ IInv'
  BY <1>6, SpuriousStep
<1>7. ASSUME UNCHANGED vars PROVE UNCHANGED <<Aboard, Rode, boarded>> /\ IInv'
  <2>1. Aboard' = Aboard /\ Rode' = Rode /\ boarded' = boarded
    BY <1>7 DEF vars, mainVars, history, Aboard, Rode, boarded
  <2>2. TypeOK'
    BY <1>7 DEF vars, mainVars, history, TypeOK, IInv
  <2> QED
    BY <1>7, <2>1, <2>2 DEF vars, mainVars, history, IInv, SeatInv, CreatedInv, PhaseInv
<1> QED
  BY <1>1, <1>2, <1>3, <1>4, <1>5, <1>6, <1>7 DEF Next, PassengerStep

LEMMA InvStep == IInv /\ [Next]_vars => IInv'
BY BoardStep, LeaveStep, OtherStep

\* The invariant: the types; free_seats is exact; main joins created threads; and
\* what step and finish mean while nothing odd has happened.
THEOREM Inductive == Spec => []IInv
BY InitIInv, InvStep, PTL DEF Spec

\* Types, and with them the bounds of free_seats in 0..seats.
THEOREM TypeCorrect == Spec => []TypeOK
BY Inductive, PTL DEF IInv

LEMMA RefineInit == Init => Coaster!Init
<1> SUFFICES ASSUME Init PROVE Coaster!Init
  OBVIOUS
<1>1. Aboard = {} /\ Rode = {}
  BY CCRTrainAssumption DEF Init, Aboard, Rode, Threads
<1> QED
  BY <1>1 DEF Coaster!Init, boarded

\* Until a reset hits an occupied train, or the train leaves with an empty seat,
\* at most seats passengers board between two moments with an empty train, and
\* nobody rides twice (trainCCR.c:55-76).
THEOREM Implements == Spec => ImplementsCoaster
<1>1. IInv /\ [Next]_vars => [odd' \/ Coaster!Next \/ UNCHANGED Coaster!vars]_vars
  <2> SUFFICES ASSUME IInv, [Next]_vars
               PROVE  odd' \/ Coaster!Next \/ UNCHANGED Coaster!vars
    OBVIOUS
  <2>1. ASSUME NEW p \in Clients, Board(p) PROVE Coaster!Next
    <3>1. Coaster!Board(p)
      BY <2>1, BoardStep DEF Coaster!Board, boarded
    <3> QED
      BY <3>1 DEF Coaster!Next
  <2>2. ASSUME NEW p \in Clients, Leave(p) PROVE odd' \/ Coaster!Next
    <3>1. odd' \/ Coaster!Leave(p)
      BY <2>2, LeaveStep DEF Coaster!Leave, boarded
    <3> QED
      BY <2>2, <3>1, LeaveStep DEF Coaster!Next
  <2>3. ASSUME \A p \in Clients : ~Board(p) /\ ~Leave(p)
        PROVE  odd' \/ UNCHANGED Coaster!vars
    BY <2>3, OtherStep DEF Coaster!vars, boarded
  <2> QED
    BY <2>1, <2>2, <2>3
<1> QED
  BY RefineInit, <1>1, Inductive, PTL DEF Spec, ImplementsCoaster

-----------------------------------------------------------------------------
(* No wakeup is lost. *)

\* After a signal nobody else waits, or somebody has been woken.
LEMMA Notify ==
    ASSUME IInv, NEW t \in Threads, NEW q, NEW n \in Nat \ {0}, NEW W \in Signals(n),
           GoTo(t, q, W), pc[t] \notin Waits,
           NEW x \in Threads \ {t}, pc'[x] \in Waits
    PROVE  WakeupUnderWay'
<1>1. W \in SUBSET Waiting
  BY SignalFacts
<1>2. x \in Waiting
  BY <1>1, Moved DEF IInv, Waiting, Waits
<1>3. PICK y \in W : y \in Waiting
  BY <1>1, <1>2, SignalFacts
<1>4. y \in Threads \ {t}
  BY <1>3 DEF Waiting
<1>5. pc'[y] \in {"boardWoken", "rideWoken", "woken"}
  BY <1>1, <1>3, <1>4, Moved DEF IInv
<1> QED
  BY <1>4, <1>5 DEF WakeupUnderWay

\* A wakeup stays under way when a thread moves that has none.
LEMMA KeepWakeup ==
    ASSUME IInv, NEW t \in Threads, NEW q, NEW W \in SUBSET Waiting, GoTo(t, q, W),
           pc[t] \notin WokenPCs, t = Train => pc[t] \notin InRegion, WakeupUnderWay
    PROVE  WakeupUnderWay'
<1>1. CASE ~Free
  <2>1. pc'[Train] \in InRegion
    BY <1>1, Moved DEF IInv, Free, InRegion, Threads
  <2> QED
    BY <2>1 DEF WakeupUnderWay, Free
<1>2. CASE Free
  <2>1. PICK x \in Threads : pc[x] \in WokenPCs
    BY <1>2 DEF WakeupUnderWay, WokenPCs
  <2>2. x # t /\ pc'[x] \in WokenPCs
    BY <2>1, Moved DEF IInv, WokenPCs
  <2> QED
    BY <2>2 DEF WakeupUnderWay, WokenPCs
<1> QED
  BY <1>1, <1>2

\* A thread who would sleep on: a passenger whose ride is over, or the train.
LateRider == MayLeave /\ \E p \in Clients : pc[p] = "rideWait"
LateTrain == ~odd /\ free_seats = 0 /\ finish = 0 /\ pc[Train] = "wait"

LEMMA NoLostIff == NoLostWakeup <=> (LateRider \/ LateTrain => WakeupUnderWay)
BY DEF NoLostWakeup, LateRider, LateTrain

\* A thread that moves with a signal, and does not become one who would sleep on.
LEMMA SignalStep ==
    ASSUME IInv, NEW t \in Threads, NEW q, NEW n \in Nat \ {0}, NEW W \in Signals(n),
           GoTo(t, q, W), pc[t] \notin Waits,
           q = "rideWait" => ~MayLeave', q = "wait" => ~LateTrain'
    PROVE  NoLostWakeup'
<1>1. W \in SUBSET Waiting /\ Train \in Threads /\ Clients \subseteq Threads
  BY SignalFacts DEF Threads
<1>2. ASSUME LateRider' PROVE WakeupUnderWay'
  <2>1. PICK p \in Clients : pc'[p] = "rideWait"
    BY <1>2 DEF LateRider
  <2>2. p # t
    BY <1>1, <1>2, <2>1, Moved DEF IInv, LateRider
  <2> QED
    BY <1>1, <2>1, <2>2, Notify DEF Waits
<1>3. ASSUME LateTrain' PROVE WakeupUnderWay'
  <2>1. pc'[Train] = "wait"
    BY <1>3 DEF LateTrain
  <2>2. Train # t
    BY <1>1, <1>3, <2>1, Moved DEF IInv
  <2> QED
    BY <1>1, <2>1, <2>2, Notify DEF Waits
<1> QED
  BY <1>2, <1>3 DEF NoLostWakeup, LateRider, LateTrain

\* A thread that moves without a wakeup or a signal, and makes no one late.
LEMMA SilentStep ==
    ASSUME IInv, NoLostWakeup, NEW t \in Threads, NEW q, GoTo(t, q, {}),
           pc[t] \notin WokenPCs, t = Train => pc[t] \notin InRegion,
           q = "rideWait" => ~MayLeave', q = "wait" => ~LateTrain',
           MayLeave' => MayLeave,
           ~odd' /\ free_seats' = 0 /\ finish' = 0 => ~odd /\ free_seats = 0 /\ finish = 0
    PROVE  NoLostWakeup'
<1>1. {} \in SUBSET Waiting /\ Train \in Threads /\ Clients \subseteq Threads
  BY DEF Threads
<1>2. LateRider' => LateRider
  <2> SUFFICES ASSUME LateRider' PROVE LateRider
    OBVIOUS
  <2>1. PICK p \in Clients : pc'[p] = "rideWait"
    BY DEF LateRider
  <2>2. p # t
    BY <1>1, <2>1, Moved DEF IInv, LateRider
  <2>3. pc[p] = "rideWait"
    BY <1>1, <2>1, <2>2, Moved DEF IInv
  <2> QED
    BY <2>3 DEF LateRider
<1>3. LateTrain' => LateTrain
  <2> SUFFICES ASSUME LateTrain' PROVE LateTrain
    OBVIOUS
  <2>1. pc'[Train] = "wait"
    BY DEF LateTrain
  <2>2. Train # t
    BY <1>1, <2>1, Moved DEF IInv
  <2>3. pc[Train] = "wait"
    BY <1>1, <2>1, <2>2, Moved DEF IInv
  <2> QED
    BY <2>3 DEF LateTrain
<1>4. WakeupUnderWay => WakeupUnderWay'
  BY <1>1, KeepWakeup
<1>5. LateRider' \/ LateTrain' => WakeupUnderWay'
  BY <1>2, <1>3, <1>4 DEF NoLostWakeup, LateRider, LateTrain
<1> QED
  BY <1>5 DEF NoLostWakeup, LateRider, LateTrain

\* Whoever waits passes the signal on, if it was woken.
LEMMA AwaitWakeup ==
    ASSUME IInv, NoLostWakeup, NEW t \in Threads, NEW q, Await(t, q),
           pc[t] \notin Waits,
           q = "rideWait" => ~MayLeave, q = "wait" => ~(free_seats = 0 /\ finish = 0)
    PROVE  NoLostWakeup'
<1>1. PICK W \in Signals(PassedOn(t)) : GoTo(t, q, W)
  BY DEF Await
<1>2. UNCHANGED <<free_seats, step, finish, odd>> /\ Free
  BY DEF Await, history
<1>3. (q = "rideWait" => ~MayLeave') /\ (q = "wait" => ~LateTrain')
  BY <1>2 DEF MayLeave, LateTrain
<1>4. CASE PassedOn(t) = 1
  BY <1>1, <1>3, <1>4, SignalStep
<1>5. CASE PassedOn(t) = 0
  <2>1. W = {} /\ pc[t] \notin WokenPCs
    BY <1>1, <1>5, SignalFacts DEF PassedOn, WokenPCs
  <2>2. t = Train => pc[t] \notin InRegion
    BY <1>2 DEF Free
  <2>3. MayLeave' => MayLeave
    BY <1>2 DEF MayLeave
  <2> QED
    BY <1>1, <1>2, <1>3, <2>1, <2>2, <2>3, SilentStep
<1> QED
  BY <1>4, <1>5 DEF PassedOn

LEMMA ClientWakeup ==
    ASSUME IInv, IInv', NoLostWakeup, NEW p \in Clients, PassengerStep(p)
    PROVE  NoLostWakeup'
<1> USE DEF Waits, WokenPCs
<1>1. p \in Threads /\ p # Train
  BY CCRTrainAssumption DEF Threads
<1>2. CASE AwaitBoard(p) \/ AwaitLeave(p)
  BY <1>1, <1>2, AwaitWakeup DEF AwaitBoard, AwaitLeave
<1>3. CASE Board(p) \/ Leave(p)
  <2>1. PICK q \in {"ride", "off"}, W \in Signals(PassedOn(p) + 1) : GoTo(p, q, W)
    BY <1>3 DEF Board, Leave
  <2>2. PassedOn(p) + 1 \in Nat \ {0} /\ pc[p] \notin Waits
    BY <1>3 DEF PassedOn, Board, Leave
  <2> DEFINE n == PassedOn(p) + 1
  <2>3. n \in Nat \ {0} /\ W \in Signals(n)
    BY <2>1, <2>2
  <2> HIDE DEF n
  <2> QED
    BY <1>1, <2>1, <2>2, <2>3, SignalStep
<1>4. CASE TestEmpty(p) \/ LoadLeft(p) \/ StoreLeft(p)
  <2>1. PICK q \in {"resetting", "leaving", "counting", "done"} : GoTo(p, q, {})
    BY <1>4 DEF TestEmpty, LoadLeft, StoreLeft
  <2>2. UNCHANGED <<free_seats, step, finish, odd>> /\ pc[p] \notin WokenPCs
    BY <1>4 DEF TestEmpty, LoadLeft, StoreLeft, history
  <2>3. MayLeave' => MayLeave
    BY <2>2 DEF MayLeave
  <2> QED
    BY <1>1, <2>1, <2>2, <2>3, SilentStep
<1>5. CASE ResetStep(p)
  <2>1. ~MayLeave' /\ GoTo(p, "resetFinish", {}) /\ pc[p] \notin WokenPCs
    BY <1>5 DEF ResetStep, MayLeave
  <2>2. UNCHANGED <<free_seats, finish>> /\ (~odd' => ~odd)
    BY <1>5 DEF ResetStep, IInv, TypeOK
  <2> QED
    BY <1>1, <2>1, <2>2, SilentStep
<1>6. CASE ResetFinish(p)
  <2>1. GoTo(p, "leaving", {}) /\ pc[p] \notin WokenPCs /\ free_seats' = free_seats
    BY <1>6 DEF ResetFinish
  <2>2. MayLeave' => MayLeave
    BY <1>6 DEF ResetFinish, MayLeave
  <2>3. ~odd' /\ free_seats' = 0 => ~odd /\ finish = 0
    <3>1. ~odd' => ~odd /\ (finish # 1 \/ free_seats = seats)
      BY <1>6 DEF ResetFinish, IInv, TypeOK
    <3>2. finish \in {0, 1} /\ seats # 0
      BY CCRTrainAssumption DEF IInv, TypeOK
    <3> QED
      BY <2>1, <3>1, <3>2
  <2> QED
    BY <1>1, <2>1, <2>2, <2>3, SilentStep
<1> QED
  BY <1>2, <1>3, <1>4, <1>5, <1>6 DEF PassengerStep

LEMMA TrainWakeup ==
    ASSUME IInv, NoLostWakeup, TrainStep
    PROVE  NoLostWakeup'
<1> USE DEF Waits, WokenPCs
<1>1. Train \in Threads /\ {} \in SUBSET Waiting
  BY DEF Threads
<1>2. CASE AwaitRide
  BY <1>1, <1>2, AwaitWakeup DEF AwaitRide, MayRide
<1>3. CASE NobodyLeft \/ SetFinish
  <2>1. PICK W \in Signals(1) : GoTo(Train, "loop", W)
    BY <1>3 DEF NobodyLeft, SetFinish
  <2>2. pc[Train] \notin Waits
    BY <1>3 DEF NobodyLeft, SetFinish
  <2> QED
    BY <1>1, <2>1, <2>2, SignalStep
<1>4. CASE StartRide \/ Ride \/ SetStep
  <2>1. pc'[Train] \in InRegion
    <3>1. PICK q \in InRegion, W \in SUBSET Waiting : GoTo(Train, q, W)
      <4>1. ASSUME StartRide PROVE \E W \in SUBSET Waiting : GoTo(Train, "check", W)
        BY <4>1, SignalFacts DEF StartRide, PassedOn
      <4> QED
        BY <1>1, <1>4, <4>1 DEF Ride, SetStep, InRegion
    <3> QED
      BY <1>1, <3>1, Moved DEF IInv
  <2> QED
    BY <2>1 DEF NoLostWakeup, WakeupUnderWay, Free
<1>5. CASE TestPassengers
  <2>1. PICK q \in {"lock", "done"} : GoTo(Train, q, {})
    BY <1>5 DEF TestPassengers
  <2>2. UNCHANGED <<free_seats, step, finish, odd>> /\ pc[Train] = "loop"
    BY <1>5 DEF TestPassengers, history
  <2>3. (MayLeave' => MayLeave) /\ pc[Train] \notin WokenPCs /\ pc[Train] \notin InRegion
    BY <2>2 DEF MayLeave, InRegion
  <2> QED
    BY <1>1, <2>1, <2>2, <2>3, SilentStep
<1> QED
  BY <1>2, <1>3, <1>4, <1>5 DEF TrainStep

LEMMA MainWakeup ==
    ASSUME IInv, NoLostWakeup, MainStep
    PROVE  NoLostWakeup'
<1>1. CASE Reset \/ LoadPassengers \/ Return
  <2>1. UNCHANGED <<pc, free_seats, step, finish, odd>>
    BY <1>1 DEF Reset, LoadPassengers, Return, history
  <2> QED
    BY <2>1 DEF NoLostWakeup, MayLeave, WakeupUnderWay, Free
<1>2. ASSUME NEW p \in Clients, CreatePassenger(p) PROVE NoLostWakeup'
  <2>1. /\ GoTo(p, "board", {}) /\ pc[p] \notin WokenPCs /\ p \in Threads /\ p # Train
        /\ UNCHANGED <<free_seats, step, finish, odd>>
    BY <1>2, CCRTrainAssumption DEF CreatePassenger, history, WokenPCs, Threads
  <2>2. MayLeave' => MayLeave
    BY <2>1 DEF MayLeave
  <2> QED
    BY <2>1, <2>2, SilentStep
<1> QED
  BY <1>1, <1>2 DEF MainStep

LEMMA InitWakeup == Init => NoLostWakeup
<1> SUFFICES ASSUME Init PROVE NoLostWakeup
  OBVIOUS
<1>1. ~MayLeave
  BY DEF Init, MayLeave
<1>2. pc[Train] # "wait"
  BY DEF Init, Threads
<1> QED
  BY <1>1, <1>2 DEF NoLostWakeup

\* No passenger whose ride is over sleeps on, nor does a full train before its ride:
\* a woken thread passes the signal on before it waits again (CCR.h:13-14).
THEOREM WakeupKept == Spec => []NoLostWakeup
<1>1. IInv /\ IInv' /\ NoLostWakeup /\ [Next]_vars => NoLostWakeup'
  <2> SUFFICES ASSUME IInv, IInv', NoLostWakeup, [Next]_vars PROVE NoLostWakeup'
    OBVIOUS
  <2>1. ASSUME NEW t \in Threads, SpuriousWakeup(t) PROVE NoLostWakeup'
    <3>1. pc'[t] \in {"boardWoken", "rideWoken", "woken"}
      BY <2>1 DEF SpuriousWakeup, IInv, TypeOK, Woken
    <3> QED
      BY <3>1 DEF NoLostWakeup, WakeupUnderWay
  <2>2. ASSUME UNCHANGED vars PROVE NoLostWakeup'
    BY <2>2 DEF vars, history, NoLostWakeup, MayLeave, WakeupUnderWay, Free
  <2> QED
    BY <2>1, <2>2, ClientWakeup, TrainWakeup, MainWakeup DEF Next
<1> QED
  BY InitWakeup, Inductive, <1>1, PTL DEF Spec

-----------------------------------------------------------------------------
(* What can stop the program. *)

\* Everybody who has boarded belongs to a full train, or to the one being filled.
Trains == odd \/ \E k \in Nat : Cardinality(Rode) + Cardinality(Aboard) = boarded + k * seats

LEMMA InitTrains == Init => Trains
<1> SUFFICES ASSUME Init PROVE Trains
  OBVIOUS
<1>1. Aboard = {} /\ Rode = {} /\ boarded = 0
  BY CCRTrainAssumption DEF Init, Aboard, Rode, Threads, boarded
<1>2. Cardinality(Rode) + Cardinality(Aboard) = boarded + 0 * seats
  BY <1>1, FS_EmptySet, CCRTrainAssumption
<1> QED
  BY <1>2 DEF Trains

LEMMA TrainsStep == IInv /\ Trains /\ [Next]_vars => Trains'
<1> SUFFICES ASSUME IInv, Trains, [Next]_vars, ~odd' PROVE Trains'
  BY DEF Trains
<1>1. ~odd
  BY DEF IInv, TypeOK, Next, PassengerStep, TrainStep, MainStep, vars, history, Await,
         AwaitBoard, Board, AwaitLeave, Leave, TestEmpty, ResetStep, ResetFinish, LoadLeft,
         StoreLeft, TestPassengers, AwaitRide, StartRide, NobodyLeft, Ride, SetStep, SetFinish,
         Reset, LoadPassengers, CreatePassenger, Return, SpuriousWakeup
<1>2. PICK k \in Nat : Cardinality(Rode) + Cardinality(Aboard) = boarded + k * seats
  BY <1>1 DEF Trains
<1>3. Cardinality(Rode) \in Nat /\ Cardinality(Aboard) \in Nat /\ seats \in Nat
  BY SetFacts, CCRTrainAssumption
<1>4. boarded \in Int
  BY <1>3 DEF boarded, IInv, TypeOK
<1>5. k * seats \in Nat /\ (k + 1) * seats = k * seats + seats
  BY <1>3
<1>6. ASSUME NEW p \in Clients, Board(p) PROVE Trains'
  <2>1. Cardinality(Aboard') = Cardinality(Aboard) + 1
    BY <1>6, BoardStep, SetFacts, FS_AddElement
  <2>2. Cardinality(Rode') + Cardinality(Aboard') = boarded' + k * seats
    BY <1>2, <1>3, <1>4, <1>5, <1>6, <2>1, BoardStep
  <2> QED
    BY <2>2 DEF Trains
<1>7. ASSUME NEW p \in Clients, Leave(p) PROVE Trains'
  <2>1. Cardinality(Aboard') = Cardinality(Aboard) - 1
    BY <1>7, LeaveStep, SetFacts, FS_RemoveElement
  <2>2. Cardinality(Rode') = Cardinality(Rode) + 1
    BY <1>7, LeaveStep, SetFacts, FS_AddElement
  <2>3. boarded = seats /\ (boarded' = boarded \/ boarded' = 0)
    BY <1>1, <1>7, LeaveStep
  <2>4. CASE boarded' = boarded
    <3>1. Cardinality(Rode') + Cardinality(Aboard') = boarded' + k * seats
      BY <1>2, <1>3, <1>4, <1>5, <2>1, <2>2, <2>4
    <3> QED
      BY <3>1 DEF Trains
  <2>5. CASE boarded' = 0
    <3>1. Cardinality(Rode') + Cardinality(Aboard') = boarded' + (k + 1) * seats
      BY <1>2, <1>3, <1>4, <1>5, <2>1, <2>2, <2>3, <2>5
    <3>2. k + 1 \in Nat
      OBVIOUS
    <3> QED
      BY <3>1, <3>2 DEF Trains
  <2> QED
    BY <2>3, <2>4, <2>5
<1>8. ASSUME \A p \in Clients : ~Board(p) /\ ~Leave(p) PROVE Trains'
  <2>1. Cardinality(Rode') + Cardinality(Aboard') = boarded' + k * seats
    BY <1>2, <1>8, OtherStep
  <2> QED
    BY <2>1 DEF Trains
<1> QED
  BY <1>6, <1>7, <1>8

LEMMA NoMultiple ==
    ASSUME NEW s \in Nat \ {0}, NEW a \in 1..(s - 1), NEW k \in Nat, NEW c \in Nat, c = a + k * s
    PROVE  c % s # 0
<1> SUFFICES ASSUME c % s = 0 PROVE FALSE
  OBVIOUS
<1>1. PICK q \in Int : c = q * s
  <2>1. c = s * (c \div s) + (c % s) /\ c \div s \in Int
    OBVIOUS
  <2> QED
    BY <2>1
<1>2. a = (q - k) * s /\ q - k \in Int
  BY <1>1
<1>3. CASE q - k <= 0
  <2>1. (q - k) * s <= 0
    BY <1>3
  <2> QED
    BY <1>2, <2>1
<1>4. CASE q - k >= 1
  <2>1. (q - k) * s >= s
    BY <1>4
  <2> QED
    BY <1>2, <2>1
<1> QED
  BY <1>2, <1>3, <1>4

LEMMA StuckStops ==
    ASSUME IInv, NoLostWakeup, Trains, Stuck, Cardinality(Clients) % seats = 0,
           ~odd, ~ResetUnnoticed, ~LastUnnoticed, ~Drifted, ~LeftEarly
    PROVE  FALSE
<1>1. Train \notin Clients /\ Threads = Clients \cup {Train} /\ seats \in Nat \ {0}
      /\ IsFiniteSet(Clients) /\ Cardinality(Clients) \in Nat
  BY CCRTrainAssumption, FS_CardinalityType DEF Threads
<1>2. \A p \in Clients : pc[p] \in {"boardWait", "rideWait", "done"}
  BY <1>1 DEF Stuck, Waits, IInv, TypeOK, PassengerPCs
<1>3. pc[Train] \in {"wait", "done"}
  BY <1>1 DEF Stuck, Waits, IInv, TypeOK, TrainPCs, InRegion
<1>4. ~WakeupUnderWay
  BY <1>1, <1>2, <1>3 DEF WakeupUnderWay, Free, InRegion
<1>5. pc[Train] = "wait"
  <2> SUFFICES ASSUME pc[Train] = "done" PROVE FALSE
    BY <1>3
  <2>1. \A p \in Clients : pc[p] = "done"
    BY <1>2 DEF LeftEarly, Rode
  <2> QED
    BY <1>1, <2>1 DEF Stuck
<1>6. \E p \in Clients : pc[p] # "done"
  <2> SUFFICES ASSUME \A p \in Clients : pc[p] = "done" PROVE FALSE
    OBVIOUS
  <2>1. {p \in Clients : pc[p] \notin {"none", "done"}} = {}
    OBVIOUS
  <2>2. passengers = 0
    BY <2>1, FS_EmptySet DEF Drifted
  <2> QED
    BY <1>5, <2>2 DEF LastUnnoticed
<1>7. Aboard = {p \in Clients : pc[p] = "rideWait"}
  BY <1>2 DEF Aboard
<1>8. CASE finish = 1
  <2>1. step = 1 => free_seats = seats
    <3> SUFFICES ASSUME step = 1 PROVE Aboard = {}
      BY <1>1, SetFacts DEF SeatInv, IInv
    <3>1. MayLeave
      BY <1>8 DEF MayLeave
    <3> QED
      BY <3>1, <1>4, <1>7 DEF NoLostWakeup
  <2>2. free_seats = seats
    BY <1>8, <2>1 DEF IInv, PhaseInv, TypeOK
  <2>3. PICK p \in Clients : pc[p] \in ResettingPCs
    BY <1>8, <2>2 DEF IInv, PhaseInv
  <2> QED
    BY <1>2, <2>3 DEF ResettingPCs
<1>9. CASE finish = 0
  <2>1. free_seats # 0
    BY <1>4, <1>5, <1>9 DEF NoLostWakeup
  <2>2. \A p \in Clients : pc[p] # "boardWait"
    BY <1>9, <2>1 DEF ResetUnnoticed, MayBoard, IInv, TypeOK
  <2>3. Aboard # {} /\ Aboard \cup Rode = Clients /\ Aboard \cap Rode = {}
    BY <1>2, <1>6, <1>7, <2>2 DEF Rode
  <2>4. boarded = Cardinality(Aboard) /\ Cardinality(Aboard) \in 1..(seats - 1)
    BY <1>1, <1>9, <2>1, <2>3, SetFacts DEF boarded, SeatInv, IInv, TypeOK
  <2>5. Cardinality(Clients) = Cardinality(Rode) + Cardinality(Aboard)
    <3>1. Cardinality(Aboard \cup Rode) = Cardinality(Aboard) + Cardinality(Rode)
                                          - Cardinality(Aboard \cap Rode)
      BY SetFacts, FS_Union
    <3>2. Cardinality(Aboard \cap Rode) = 0
      BY <2>3, FS_EmptySet
    <3>3. Cardinality(Aboard \cup Rode) = Cardinality(Clients)
      BY <2>3
    <3>4. Cardinality(Aboard) \in Nat /\ Cardinality(Rode) \in Nat
      BY SetFacts
    <3> QED
      BY <3>1, <3>2, <3>3, <3>4
  <2>6. PICK k \in Nat : Cardinality(Clients) = Cardinality(Aboard) + k * seats
    BY <2>4, <2>5 DEF Trains
  <2> QED
    BY <1>1, <2>4, <2>6, NoMultiple
<1> QED
  BY <1>8, <1>9 DEF IInv, TypeOK

\* If the passengers fill a number of trains, main waits for ever only because of
\* what is done outside the region (trainCCR.c:70-75, 101-103): an odd reset, a reset
\* or a last passenger nobody is told of, a wrong count, a train that left early.
THEOREM StuckOnlyByHolds == Spec => []StuckOnlyBy
<1>1. IInv /\ NoLostWakeup /\ Trains => StuckOnlyBy
  BY StuckStops DEF StuckOnlyBy
<1> QED
  BY InitTrains, TrainsStep, Inductive, WakeupKept, <1>1, PTL DEF Spec

-----------------------------------------------------------------------------
(* MonitorTrain.  These are the variables it does not share with CCRTrain;  *)
(* a lock that is free is held by Train, which is no passenger.             *)

VARIABLES train, monitor_lock, count

Mon == INSTANCE MonitorTrain WITH NoOne <- Train

LEMMA MonSameCardinality == \A S : Mon!Cardinality(S) = Cardinality(S)
BY Zenon DEF Mon!Cardinality, Cardinality

MonAboardPCs == {"seated", "last", "lastWoken", "riding", "counting"}

\* The seats taken since the train was last emptied.
MonBoarded == IF free_seats > 0 THEN seats - free_seats ELSE seats

\* free_seats, while it is positive, accounts for who sits and who has left.
MonSeatInv == Cardinality(Mon!Aboard) + count = MonBoarded

\* While a passenger tests passengers, the train is empty or has lost one of
\* its passengers: it is not full.
MonTestingInv == \A p \in Clients : pc[p] = "testing" => count > 0 \/ Mon!Aboard = {}

\* A full train keeps step at 3, so that the train does not go to sleep.
MonNoticeInv == Cardinality(Mon!Seated) = seats => step = 3 /\ train # "waiting"

MonIInv == Mon!TypeOK /\ MonSeatInv /\ MonTestingInv /\ MonNoticeInv

-----------------------------------------------------------------------------
(* The sets of passengers. *)

\* Aboard and Seated are finite, and Seated is a part of Aboard.
LEMMA MonSetFacts ==
    /\ IsFiniteSet(Mon!Aboard) /\ Cardinality(Mon!Aboard) \in Nat
    /\ IsFiniteSet(Mon!Seated) /\ Cardinality(Mon!Seated) \in Nat
    /\ Mon!Seated \subseteq Mon!Aboard
    /\ Cardinality(Mon!Seated) <= Cardinality(Mon!Aboard)
<1>1. Mon!Seated \subseteq Mon!Aboard /\ Mon!Aboard \subseteq Clients
  BY DEF Mon!Seated, Mon!Aboard, Mon!At
<1>2. IsFiniteSet(Mon!Aboard)
  BY <1>1, CCRTrainAssumption, FS_Subset
<1>3. IsFiniteSet(Mon!Seated) /\ Cardinality(Mon!Seated) <= Cardinality(Mon!Aboard)
  BY <1>1, <1>2, FS_Subset
<1> QED
  BY <1>1, <1>2, <1>3, FS_CardinalityType

\* One who is aboard and does not wait keeps the train from being full.
LEMMA MonNotAllSeated ==
    ASSUME NEW p \in Mon!Aboard, p \notin Mon!Seated
    PROVE  Cardinality(Mon!Seated) + 1 <= Cardinality(Mon!Aboard)
<1>1. Mon!Seated \subseteq Mon!Aboard \ {p}
  BY MonSetFacts
<1>2. IsFiniteSet(Mon!Aboard \ {p}) /\ Cardinality(Mon!Aboard \ {p}) = Cardinality(Mon!Aboard) - 1
  BY MonSetFacts, FS_RemoveElement
<1>3. Cardinality(Mon!Seated) <= Cardinality(Mon!Aboard \ {p})
  BY <1>1, <1>2, FS_Subset
<1> QED
  BY <1>2, <1>3, MonSetFacts

\* Moving passengers aboard, or passengers who are not aboard, keeps Aboard.
LEMMA MonSameAboard ==
    ASSUME \A c \in Clients : pc[c] \in MonAboardPCs <=> pc'[c] \in MonAboardPCs
    PROVE  Mon!Aboard' = Mon!Aboard
BY DEF Mon!Aboard, MonAboardPCs

LEMMA MonSignalsWake ==
    ASSUME NEW n \in Nat, NEW W, NEW V \in Mon!Signals(n, W)
    PROVE  V \subseteq W
BY DEF Mon!Signals

-----------------------------------------------------------------------------
LEMMA MonInitIInv == Mon!Init => MonIInv
<1> SUFFICES ASSUME Mon!Init PROVE MonIInv
  OBVIOUS
<1>1. Mon!Aboard = {} /\ Mon!Seated = {}
  BY DEF Mon!Init, Mon!Aboard, Mon!Seated, Mon!At
<1>2. Cardinality(Clients) \in Nat
  BY CCRTrainAssumption, FS_CardinalityType
<1>3. Mon!TypeOK
  BY MonSameCardinality, <1>2, CCRTrainAssumption DEF Mon!Init, Mon!TypeOK, Mon!PCs
<1>4. MonSeatInv
  BY <1>1, FS_EmptySet, CCRTrainAssumption DEF Mon!Init, MonSeatInv, MonBoarded
<1>5. MonTestingInv /\ MonNoticeInv
  BY <1>1, FS_EmptySet, CCRTrainAssumption DEF Mon!Init, MonTestingInv, MonNoticeInv
<1> QED
  BY <1>3, <1>4, <1>5 DEF MonIInv

\* A passenger who boards.
LEMMA MonBoardStep ==
    ASSUME MonIInv, NEW p \in Clients, Mon!TakeSeat(p) \/ Mon!TakeLastSeat(p)
    PROVE  /\ p \notin Mon!Aboard /\ Mon!Aboard' = Mon!Aboard \cup {p}
           /\ MonBoarded < seats /\ MonBoarded' = MonBoarded + 1
           /\ MonIInv'
<1> USE DEF MonIInv
<1>1. /\ pc[p] \in {"start", "retry"} /\ monitor_lock = Train
      /\ \E q \in {"seated", "last"} : pc' = [pc EXCEPT ![p] = q]
      /\ free_seats' = free_seats - 1 /\ free_seats' >= 0
      /\ UNCHANGED <<monitor_lock, passengers, count, load, main, mainLoad, spurious>>
  <2>1. CASE Mon!TakeSeat(p)
    <3>1. pc' = [pc EXCEPT ![p] = "seated"]
      BY <2>1 DEF Mon!TakeSeat, Mon!GoTo, Mon!TypeOK
    <3> QED
      BY <2>1, <3>1, CCRTrainAssumption DEF Mon!TakeSeat, Mon!TypeOK, Mon!mainVars
  <2>2. CASE Mon!TakeLastSeat(p)
    <3>1. pc' = [pc EXCEPT ![p] = "last"]
      BY <2>2 DEF Mon!TakeLastSeat, Mon!GoTo, Mon!TypeOK
    <3> QED
      BY <2>2, <3>1, CCRTrainAssumption DEF Mon!TakeLastSeat, Mon!TypeOK, Mon!mainVars
  <2> QED
    BY <2>1, <2>2
<1>2. p \notin Mon!Aboard /\ Mon!Aboard' = Mon!Aboard \cup {p}
  BY <1>1 DEF Mon!Aboard, Mon!TypeOK
<1>3. Cardinality(Mon!Aboard') = Cardinality(Mon!Aboard) + 1
  BY <1>2, MonSetFacts, FS_AddElement
<1>4. MonBoarded < seats /\ MonBoarded' = MonBoarded + 1
  BY <1>1, CCRTrainAssumption DEF MonBoarded, Mon!TypeOK
<1>5. Mon!TypeOK'
  <2>1. free_seats' \in Int /\ free_seats' <= seats
    BY <1>1, CCRTrainAssumption DEF Mon!TypeOK
  <2>2. step' \in 0..3 /\ train' \in {"loop", "lock", "waiting", "woken", "done"}
    BY DEF Mon!TypeOK, Mon!TakeSeat, Mon!TakeLastSeat, Mon!SignalRide
  <2>3. pc' \in [Clients -> Mon!PCs]
    BY <1>1 DEF Mon!TypeOK, Mon!PCs
  <2>4. \A q \in Clients : monitor_lock' = q <=> pc'[q] \in {"counting", "testing"}
    BY <1>1, CCRTrainAssumption DEF Mon!TypeOK
  <2> QED
    BY <1>1, <2>1, <2>2, <2>3, <2>4 DEF Mon!TypeOK
<1>6. MonSeatInv'
  BY <1>1, <1>3, <1>4, MonSetFacts, CCRTrainAssumption DEF MonSeatInv, MonBoarded, Mon!TypeOK
<1>7. MonTestingInv'
  BY <1>1, CCRTrainAssumption DEF MonTestingInv, Mon!TypeOK
<1>8. MonNoticeInv'
  <2>1. CASE Mon!TakeLastSeat(p)
    BY <2>1 DEF Mon!TakeLastSeat, Mon!SignalRide, MonNoticeInv
  <2>2. CASE Mon!TakeSeat(p)
    <3>1. free_seats' > 0 /\ count' >= 0
      BY <2>2, <1>1 DEF Mon!TakeSeat, Mon!TypeOK
    <3>2. Cardinality(Mon!Aboard') < seats
      BY <3>1, <1>6, <1>5, MonSetFacts, <1>3, CCRTrainAssumption
         DEF MonSeatInv, MonBoarded, Mon!TypeOK
    <3>3. Cardinality(Mon!Seated') <= Cardinality(Mon!Aboard') /\ Cardinality(Mon!Seated') \in Nat
      <4>1. Mon!Seated' \subseteq Mon!Aboard'
        BY DEF Mon!Seated, Mon!Aboard, Mon!At
      <4>2. IsFiniteSet(Mon!Aboard')
        BY <1>2, MonSetFacts, FS_AddElement
      <4> QED
        BY <4>1, <4>2, FS_Subset, FS_CardinalityType
    <3> QED
      BY <3>2, <3>3, <1>3, MonSetFacts, CCRTrainAssumption DEF MonNoticeInv
  <2> QED
    BY <2>1, <2>2
<1> QED
  BY <1>2, <1>4, <1>5, <1>6, <1>7, <1>8

\* A train has at most seats passengers, and one fewer if some have left.
LEMMA MonAboardBound == ASSUME MonIInv
                        PROVE  Cardinality(Mon!Aboard) + count <= seats
BY MonSetFacts, CCRTrainAssumption DEF MonIInv, MonSeatInv, MonBoarded, Mon!TypeOK

\* A step that moves nobody onto the train or off it.
LEMMA MonQuietStep ==
    ASSUME MonIInv, Mon!TypeOK', MonNoticeInv',
           \A c \in Clients : /\ pc[c] \in MonAboardPCs <=> pc'[c] \in MonAboardPCs
                              /\ pc'[c] = "testing" => pc[c] = "testing",
           count' = count, MonBoarded' = MonBoarded
    PROVE  Mon!Aboard' = Mon!Aboard /\ MonIInv'
<1>1. Mon!Aboard' = Mon!Aboard
  BY MonSameAboard
<1> QED
  BY <1>1 DEF MonIInv, MonSeatInv, MonTestingInv

\* Who waits on the train, when nobody begins to.
LEMMA MonFewerSeated ==
    ASSUME MonIInv, \A c \in Clients : pc'[c] \in {"seated", "last"} => pc[c] \in {"seated", "last"}
    PROVE  /\ Cardinality(Mon!Seated') \in Nat
           /\ Cardinality(Mon!Seated') <= Cardinality(Mon!Seated)
           /\ Cardinality(Mon!Seated') = seats => Cardinality(Mon!Seated) = seats
<1>1. Mon!Seated' \subseteq Mon!Seated
  BY DEF Mon!Seated, Mon!At
<1>2. /\ IsFiniteSet(Mon!Seated') /\ Cardinality(Mon!Seated') <= Cardinality(Mon!Seated)
      /\ Cardinality(Mon!Seated') \in Nat
  BY <1>1, MonSetFacts, FS_Subset, FS_CardinalityType
<1>3. Cardinality(Mon!Seated) <= seats
  BY MonSetFacts, MonAboardBound, CCRTrainAssumption DEF MonIInv, Mon!TypeOK
<1> QED
  BY <1>2, <1>3, MonSetFacts, CCRTrainAssumption

LEMMA MonQueueStep == ASSUME MonIInv, NEW p \in Clients, Mon!Queue(p)
                      PROVE  UNCHANGED <<Mon!Aboard, MonBoarded>> /\ MonIInv'
<1> USE DEF MonIInv
<1>1. pc' = [pc EXCEPT ![p] = "queued"] /\ pc[p] \in {"start", "retry"}
  BY DEF Mon!Queue, Mon!GoTo, Mon!TypeOK
<1>2. Mon!TypeOK'
  BY <1>1, CCRTrainAssumption DEF Mon!Queue, Mon!TypeOK, Mon!PCs, Mon!mainVars
<1>3. MonBoarded' = MonBoarded
  BY DEF Mon!Queue, MonBoarded, Mon!TypeOK
<1>4. MonNoticeInv'
  BY <1>1, MonFewerSeated DEF Mon!Queue, MonNoticeInv, Mon!TypeOK
<1> QED
  BY <1>1, <1>2, <1>3, <1>4, MonQuietStep DEF MonAboardPCs, Mon!Queue, Mon!TypeOK

LEMMA MonLastRodeStep == ASSUME MonIInv, NEW p \in Clients, Mon!LastRode(p)
                         PROVE  UNCHANGED <<Mon!Aboard, MonBoarded>> /\ MonIInv'
<1> USE DEF MonIInv
<1>1. pc' = [pc EXCEPT ![p] = "riding"] /\ pc[p] = "lastWoken"
  BY DEF Mon!LastRode, Mon!GoTo, Mon!TypeOK
<1>2. Mon!TypeOK'
  BY <1>1, CCRTrainAssumption DEF Mon!LastRode, Mon!TypeOK, Mon!PCs, Mon!mainVars
<1>3. MonBoarded' = MonBoarded
  BY DEF Mon!LastRode, MonBoarded
<1>4. Cardinality(Mon!Seated) < seats
  <2>1. p \in Mon!Aboard /\ p \notin Mon!Seated
    BY <1>1 DEF Mon!Aboard, Mon!Seated, Mon!At
  <2> QED
    BY <2>1, MonNotAllSeated, MonAboardBound, MonSetFacts, CCRTrainAssumption DEF Mon!TypeOK
<1>5. MonNoticeInv'
  BY <1>1, <1>4, MonFewerSeated, MonSetFacts, CCRTrainAssumption DEF MonNoticeInv, Mon!TypeOK
<1> QED
  BY <1>1, <1>2, <1>3, <1>5, MonQuietStep DEF MonAboardPCs, Mon!LastRode, Mon!TypeOK

LEMMA MonStartExitStep == ASSUME MonIInv, NEW p \in Clients, Mon!StartExit(p)
                          PROVE  UNCHANGED <<Mon!Aboard, MonBoarded>> /\ MonIInv'
<1> USE DEF MonIInv
<1>1. pc' = [pc EXCEPT ![p] = "counting"] /\ pc[p] = "riding"
  BY DEF Mon!StartExit, Mon!GoTo, Mon!TypeOK
<1>2. Mon!TypeOK'
  BY <1>1, CCRTrainAssumption DEF Mon!StartExit, Mon!TypeOK, Mon!PCs, Mon!mainVars
<1>3. MonBoarded' = MonBoarded
  BY DEF Mon!StartExit, MonBoarded
<1>4. MonNoticeInv'
  BY <1>1, MonFewerSeated DEF Mon!StartExit, MonNoticeInv, Mon!TypeOK
<1> QED
  BY <1>1, <1>2, <1>3, <1>4, MonQuietStep DEF MonAboardPCs, Mon!StartExit, Mon!TypeOK

LEMMA MonEndExitStep == ASSUME MonIInv, NEW p \in Clients, Mon!EndExit(p)
                        PROVE  UNCHANGED <<Mon!Aboard, MonBoarded>> /\ MonIInv'
<1> USE DEF MonIInv
<1>1. pc' = [pc EXCEPT ![p] = "done"] /\ pc[p] = "testing"
  BY DEF Mon!EndExit, Mon!GoTo, Mon!TypeOK
<1>2. Mon!TypeOK'
  BY <1>1, CCRTrainAssumption DEF Mon!EndExit, Mon!SignalRide, Mon!TypeOK, Mon!PCs, Mon!mainVars
<1>3. MonBoarded' = MonBoarded
  BY DEF Mon!EndExit, MonBoarded
<1>4. Cardinality(Mon!Seated) < seats
  <2>1. CASE count > 0
    BY <2>1, MonSetFacts, MonAboardBound, CCRTrainAssumption DEF Mon!TypeOK
  <2>2. CASE Mon!Aboard = {}
    BY <2>2, MonSetFacts, FS_EmptySet, CCRTrainAssumption
  <2> QED
    BY <1>1, <2>1, <2>2 DEF MonTestingInv
<1>5. MonNoticeInv'
  BY <1>1, <1>4, MonFewerSeated, MonSetFacts, CCRTrainAssumption DEF MonNoticeInv, Mon!TypeOK
<1> QED
  BY <1>1, <1>2, <1>3, <1>5, MonQuietStep DEF MonAboardPCs, Mon!EndExit, Mon!TypeOK

\* A passenger who leaves: the seats are free again when all have been left.
LEMMA MonLeaveStep ==
    ASSUME MonIInv, NEW p \in Clients, Mon!CountExit(p)
    PROVE  /\ p \in Mon!Aboard /\ Mon!Aboard' = Mon!Aboard \ {p}
           /\ MonBoarded' = IF MonBoarded = seats /\ Mon!Aboard' = {} THEN 0 ELSE MonBoarded
           /\ pc[p] = "counting" /\ pc'[p] = "testing"
           /\ \A c \in Clients \ {p} : pc'[c] = pc[c] \/ (pc[c] = "queued" /\ pc'[c] = "retry")
           /\ MonIInv'
<1> USE DEF MonIInv
<1>1. PICK W \in SUBSET Mon!Queued : pc[p] = "counting" /\ Mon!GoTo(p, "testing", W)
  BY MonSignalsWake, CCRTrainAssumption DEF Mon!CountExit
<1>2. \A c \in Clients \ {p} : pc'[c] = pc[c] \/ (pc[c] = "queued" /\ pc'[c] = "retry")
  BY <1>1 DEF Mon!GoTo, Mon!Resume, Mon!Queued, Mon!At
<1>3. pc'[p] = "testing"
  BY <1>1 DEF Mon!GoTo
<1>4. p \in Mon!Aboard /\ Mon!Aboard' = Mon!Aboard \ {p}
  BY <1>1, <1>2, <1>3 DEF Mon!Aboard
<1>5. Cardinality(Mon!Aboard') = Cardinality(Mon!Aboard) - 1 /\ Cardinality(Mon!Aboard') \in Nat
  BY <1>4, MonSetFacts, FS_RemoveElement, FS_CardinalityType
<1>6. IsFiniteSet(Mon!Aboard') /\ (Cardinality(Mon!Aboard') = 0 <=> Mon!Aboard' = {})
  BY <1>4, MonSetFacts, FS_RemoveElement, FS_EmptySet
<1>7. MonSeatInv' /\ MonBoarded' = IF MonBoarded = seats /\ Mon!Aboard' = {} THEN 0 ELSE MonBoarded
  <2>1. CASE Mon!Emptied
    <3>1. MonBoarded = seats /\ Cardinality(Mon!Aboard') = 0
      <4>1. Cardinality(Mon!Aboard') + seats = MonBoarded
        BY <2>1, <1>5, MonSetFacts, CCRTrainAssumption DEF Mon!Emptied, MonSeatInv, Mon!TypeOK
      <4>2. MonBoarded \in Int /\ MonBoarded <= seats
        BY CCRTrainAssumption DEF MonBoarded, Mon!TypeOK
      <4>3. \A n \in Nat, b \in Int : n + seats = b /\ b <= seats => b = seats /\ n = 0
        BY CCRTrainAssumption
      <4> QED
        BY <4>1, <4>2, <4>3, <1>5
    <3>2. free_seats' = seats /\ count' = 0
      BY <2>1 DEF Mon!CountExit
    <3> QED
      BY <3>1, <3>2, <1>6, CCRTrainAssumption DEF MonSeatInv, MonBoarded
  <2>2. CASE ~Mon!Emptied
    <3>1. free_seats' = free_seats /\ count' = count + 1
      BY <2>2 DEF Mon!CountExit
    <3>2. ~(MonBoarded = seats /\ Mon!Aboard' = {})
      BY <2>2, <1>5, <1>6, CCRTrainAssumption DEF Mon!Emptied, MonSeatInv, Mon!TypeOK
    <3> QED
      <4>1. MonBoarded' = MonBoarded
        BY <3>1 DEF MonBoarded
      <4>2. Cardinality(Mon!Aboard') + count' = MonBoarded
        BY <3>1, <1>5, MonSetFacts, CCRTrainAssumption DEF MonSeatInv, Mon!TypeOK
      <4> QED
        BY <3>2, <4>1, <4>2 DEF MonSeatInv
  <2> QED
    BY <2>1, <2>2
<1>8. Mon!TypeOK'
  <2>1. pc' \in [Clients -> Mon!PCs]
    BY <1>1 DEF Mon!GoTo, Mon!Resume, Mon!TypeOK, Mon!PCs
  <2>2. \A q \in Clients : monitor_lock' = q <=> pc'[q] \in {"counting", "testing"}
    BY <1>1, <1>2, <1>3 DEF Mon!CountExit, Mon!TypeOK
  <2>3. free_seats' \in Int /\ free_seats' <= seats /\ count' \in 0..(seats - 1) /\ step' \in 0..3
    BY CCRTrainAssumption DEF Mon!CountExit, Mon!Emptied, Mon!TypeOK
  <2> QED
    BY <2>1, <2>2, <2>3, CCRTrainAssumption DEF Mon!CountExit, Mon!TypeOK, Mon!mainVars
<1>9. MonTestingInv'
  <2>1. CASE Mon!Emptied
    <3>1. Cardinality(Mon!Aboard') = 0
      <4>1. Cardinality(Mon!Aboard) <= 1
        BY <2>1, MonAboardBound, MonSetFacts, CCRTrainAssumption DEF Mon!Emptied, Mon!TypeOK
      <4> QED
        BY <4>1, <1>5, MonSetFacts
    <3> QED
      BY <3>1, <1>6 DEF MonTestingInv
  <2>2. CASE ~Mon!Emptied
    BY <2>2 DEF Mon!CountExit, MonTestingInv, Mon!TypeOK
  <2> QED
    BY <2>1, <2>2
<1>10. MonNoticeInv'
  <2>1. p \in Mon!Aboard /\ p \notin Mon!Seated
    BY <1>1 DEF Mon!Aboard, Mon!Seated, Mon!At
  <2>2. Cardinality(Mon!Seated) < seats
    BY <2>1, MonNotAllSeated, MonAboardBound, MonSetFacts, CCRTrainAssumption DEF Mon!TypeOK
  <2> QED
    BY <1>2, <1>3, <2>2, MonFewerSeated, MonSetFacts, CCRTrainAssumption DEF MonNoticeInv
<1> QED
  BY <1>1, <1>2, <1>3, <1>4, <1>7, <1>8, <1>9, <1>10

-----------------------------------------------------------------------------
\* The train only moves those who wait on passenger_cond.
LEMMA MonTrainInvStep == ASSUME MonIInv, Mon!TrainStep
                         PROVE  /\ UNCHANGED <<Mon!Aboard, MonBoarded>> /\ MonIInv'
                                /\ \A c \in Clients : pc'[c] \in {"testing", "done"}
                                                       <=> pc[c] \in {"testing", "done"}
<1> USE DEF MonIInv
<1>1. CASE Mon!TestPassengers \/ Mon!AwaitPassengers \/ Mon!NobodyLeft
  <2>1. UNCHANGED <<pc, monitor_lock, free_seats, passengers, count, step, load, main, mainLoad,
                    spurious>>
    BY <1>1 DEF Mon!TestPassengers, Mon!AwaitPassengers, Mon!NobodyLeft, Mon!mainVars
  <2>2. /\ train' \in {"loop", "lock", "waiting", "done"}
        /\ train' = "waiting" => step # 3
    BY <1>1 DEF Mon!TestPassengers, Mon!AwaitPassengers, Mon!NobodyLeft
  <2>3. Mon!Seated' = Mon!Seated /\ MonBoarded' = MonBoarded
    BY <2>1 DEF Mon!Seated, Mon!At, MonBoarded
  <2>4. MonNoticeInv'
    BY <2>1, <2>2, <2>3 DEF MonNoticeInv
  <2>5. Mon!TypeOK'
    BY <2>1, <2>2 DEF Mon!TypeOK
  <2> QED
    BY <2>1, <2>3, <2>4, <2>5, MonQuietStep
<1>2. CASE Mon!Depart
  <2>1. PICK W \in Mon!Signals(seats, Mon!Seated) : Mon!GoTo(Train, "done", W)
    BY <1>2 DEF Mon!Depart
  <2>2. W = Mon!Seated
    <3>1. W \subseteq Mon!Seated /\ (W = Mon!Seated \/ Cardinality(W) = seats)
      BY MonSameCardinality, <2>1 DEF Mon!Signals
    <3>2. Cardinality(W) <= Cardinality(Mon!Seated)
          /\ (Cardinality(W) = Cardinality(Mon!Seated) => W = Mon!Seated)
      BY <3>1, MonSetFacts, FS_Subset
    <3>3. Cardinality(Mon!Seated) <= seats
      BY MonSetFacts, MonAboardBound, CCRTrainAssumption DEF Mon!TypeOK
    <3> QED
      BY <3>1, <3>2, <3>3, MonSetFacts, CCRTrainAssumption
  <2>3. pc' = [c \in Clients |-> IF c \in Mon!Seated THEN Mon!Resume(pc[c]) ELSE pc[c]]
    BY <2>1, <2>2, CCRTrainAssumption DEF Mon!GoTo
  <2>4. \A c \in Clients : \/ pc[c] = "seated" /\ pc'[c] = "riding"
                           \/ pc[c] = "last" /\ pc'[c] = "lastWoken"
                           \/ pc[c] \notin {"seated", "last"} /\ pc'[c] = pc[c]
    BY <2>3 DEF Mon!Seated, Mon!At, Mon!Resume
  <2>5. Mon!Seated' = {}
    BY <2>4 DEF Mon!Seated, Mon!At
  <2>6. MonNoticeInv'
    BY <2>5, FS_EmptySet, CCRTrainAssumption DEF MonNoticeInv
  <2>7. Mon!TypeOK'
    <3>1. pc' \in [Clients -> Mon!PCs]
      BY <2>3, <2>4 DEF Mon!TypeOK, Mon!PCs
    <3>2. \A q \in Clients : monitor_lock' = q <=> pc'[q] \in {"counting", "testing"}
      BY <1>2, <2>4 DEF Mon!Depart, Mon!TypeOK
    <3> QED
      BY <1>2, <3>1, <3>2 DEF Mon!Depart, Mon!TypeOK, Mon!mainVars
  <2>8. MonBoarded' = MonBoarded
    BY <1>2 DEF Mon!Depart, MonBoarded
  <2>9. \A c \in Clients : /\ pc[c] \in MonAboardPCs <=> pc'[c] \in MonAboardPCs
                           /\ pc'[c] = "testing" => pc[c] = "testing"
    BY <2>4 DEF MonAboardPCs
  <2> QED
    BY <1>2, <2>4, <2>6, <2>7, <2>8, <2>9, MonQuietStep DEF Mon!Depart
<1> QED
  BY <1>1, <1>2 DEF Mon!TrainStep

LEMMA MonMainInvStep == ASSUME MonIInv, Mon!MainStep
                        PROVE  /\ UNCHANGED <<Mon!Aboard, MonBoarded>> /\ MonIInv'
                               /\ \A c \in Clients : pc'[c] \in {"testing", "done"}
                                                      <=> pc[c] \in {"testing", "done"}
<1> USE DEF MonIInv
<1>1. UNCHANGED <<train, monitor_lock, free_seats, count, step, load, spurious>>
  BY DEF Mon!MainStep, Mon!Reset, Mon!LoadPassengers, Mon!CreatePassenger, Mon!Return
<1>2. \/ pc' = pc
      \/ \E p \in Clients : pc[p] = "none" /\ pc' = [pc EXCEPT ![p] = "start"]
  <2>1. ASSUME NEW p \in Clients, Mon!CreatePassenger(p)
        PROVE  pc[p] = "none" /\ pc' = [pc EXCEPT ![p] = "start"]
    BY <2>1 DEF Mon!CreatePassenger, Mon!GoTo, Mon!TypeOK
  <2> QED
    BY <2>1 DEF Mon!MainStep, Mon!Reset, Mon!LoadPassengers, Mon!Return
<1>3. \A c \in Clients : pc'[c] = pc[c] \/ (pc[c] = "none" /\ pc'[c] = "start")
  BY <1>2 DEF Mon!TypeOK
<1>4. pc' \in [Clients -> Mon!PCs]
  BY <1>2 DEF Mon!TypeOK, Mon!PCs
<1>5. /\ passengers' \in Int /\ mainLoad' \in Int
      /\ main' \in {"reset", "load", "store", "join", "returned"}
  BY DEF Mon!MainStep, Mon!Reset, Mon!LoadPassengers, Mon!CreatePassenger, Mon!Return,
         Mon!NextCreation,
    Mon!TypeOK
<1>6. Mon!TypeOK'
  BY <1>1, <1>3, <1>4, <1>5 DEF Mon!TypeOK
<1>7. MonNoticeInv'
  BY <1>1, <1>3, MonFewerSeated DEF MonNoticeInv
<1>8. MonBoarded' = MonBoarded
  BY <1>1 DEF MonBoarded
<1> QED
  BY <1>1, <1>3, <1>6, <1>7, <1>8, MonQuietStep DEF MonAboardPCs

LEMMA MonSpuriousStep ==
    ASSUME MonIInv, Mon!SpuriousRide \/ \E p \in Clients : Mon!SpuriousWakeup(p)
    PROVE  /\ UNCHANGED <<Mon!Aboard, MonBoarded>> /\ MonIInv'
           /\ \A c \in Clients : pc'[c] \in {"testing", "done"} <=> pc[c] \in {"testing", "done"}
<1> USE DEF MonIInv
<1>1. /\ UNCHANGED <<monitor_lock, free_seats, passengers, count, step, load, main, mainLoad>>
      /\ train' = train \/ train' = "woken"
      /\ spurious' \in 0..MaxSpurious
  BY CCRTrainAssumption DEF Mon!SpuriousRide, Mon!SpuriousWakeup, Mon!mainVars, Mon!TypeOK
<1>2. \/ pc' = pc
      \/ \E p \in Clients : /\ pc[p] \in {"queued", "seated", "last"}
                            /\ pc' = [pc EXCEPT ![p] = Mon!Resume(@)]
  BY DEF Mon!SpuriousRide, Mon!SpuriousWakeup
<1>3. \A c \in Clients : \/ pc'[c] = pc[c]
                         \/ pc[c] = "queued" /\ pc'[c] = "retry"
                         \/ pc[c] = "seated" /\ pc'[c] = "riding"
                         \/ pc[c] = "last" /\ pc'[c] = "lastWoken"
  BY <1>2 DEF Mon!Resume, Mon!TypeOK
<1>4. pc' \in [Clients -> Mon!PCs]
  BY <1>2 DEF Mon!Resume, Mon!TypeOK, Mon!PCs
<1>5. Mon!TypeOK'
  BY <1>1, <1>3, <1>4 DEF Mon!TypeOK
<1>6. MonNoticeInv'
  BY <1>1, <1>3, MonFewerSeated DEF MonNoticeInv
<1>7. MonBoarded' = MonBoarded
  BY <1>1 DEF MonBoarded
<1> QED
  BY <1>1, <1>3, <1>5, <1>6, <1>7, MonQuietStep DEF MonAboardPCs

LEMMA MonStutterStep == ASSUME MonIInv, UNCHANGED Mon!vars
                        PROVE  MonIInv' /\ UNCHANGED <<Mon!Aboard, MonBoarded>>
BY DEF Mon!vars, MonIInv, Mon!TypeOK, MonSeatInv, MonTestingInv, MonNoticeInv, MonBoarded,
       Mon!Aboard,
  Mon!Seated, Mon!At

\* MonIInv is an inductive invariant.
THEOREM MonInductive == Mon!Spec => []MonIInv
<1>1. MonIInv /\ [Mon!Next]_(Mon!vars) => MonIInv'
  <2> SUFFICES ASSUME MonIInv, [Mon!Next]_(Mon!vars) PROVE MonIInv'
    OBVIOUS
  <2>1. ASSUME NEW p \in Clients, Mon!PassengerStep(p) PROVE MonIInv'
    BY <2>1, MonBoardStep, MonQueueStep, MonLastRodeStep, MonStartExitStep, MonLeaveStep,
       MonEndExitStep DEF Mon!PassengerStep
  <2>2. CASE Mon!TrainStep
    BY <2>2, MonTrainInvStep
  <2>3. CASE Mon!MainStep
    BY <2>3, MonMainInvStep
  <2>4. CASE Mon!SpuriousRide \/ \E p \in Clients : Mon!SpuriousWakeup(p)
    BY <2>4, MonSpuriousStep
  <2>5. CASE UNCHANGED Mon!vars
    BY <2>5, MonStutterStep
  <2> QED
    BY <2>1, <2>2, <2>3, <2>4, <2>5 DEF Mon!Next
<1> QED
  BY MonInitIInv, <1>1, PTL DEF Mon!Spec

-----------------------------------------------------------------------------
(* Theorems. *)

\* The variables keep their types, and the lock is held by the passenger who is
\* in exit_ride.
THEOREM MonTypeCorrect == Mon!Spec => []Mon!TypeOK
BY MonInductive, PTL DEF MonIInv

\* A train whose passengers all wait for the ride is never asleep.
THEOREM MonFullTrainNoticedHolds == Mon!Spec => []Mon!FullTrainNoticed
<1>1. MonIInv => Mon!FullTrainNoticed
  BY MonSameCardinality DEF MonIInv, MonNoticeInv, Mon!FullTrainNoticed
<1> QED
  BY <1>1, MonInductive, PTL

-----------------------------------------------------------------------------
(* The program implements the abstract roller-coaster. *)

\* Those who have left the train.
MonRode == {p \in Clients : pc[p] \in {"testing", "done"}}

LEMMA MonSameRode ==
    ASSUME \A c \in Clients : pc'[c] \in {"testing", "done"} <=> pc[c] \in {"testing", "done"}
    PROVE  MonRode' = MonRode
BY DEF MonRode

LEMMA MonRefineInit == Mon!Init => Mon!Coaster!Init
<1> SUFFICES ASSUME Mon!Init PROVE Mon!Coaster!Init
  OBVIOUS
<1>1. Mon!Aboard = {} /\ MonRode = {} /\ MonBoarded = 0
  BY CCRTrainAssumption DEF Mon!Init, Mon!Aboard, MonRode, MonBoarded
<1> QED
  BY <1>1 DEF Mon!Coaster!Init, MonRode, MonBoarded

LEMMA MonRefineBoard == ASSUME MonIInv, NEW p \in Clients, Mon!TakeSeat(p) \/ Mon!TakeLastSeat(p)
                        PROVE  Mon!Coaster!Board(p)
<1>1. /\ p \notin Mon!Aboard /\ Mon!Aboard' = Mon!Aboard \cup {p}
      /\ MonBoarded < seats /\ MonBoarded' = MonBoarded + 1
  BY MonBoardStep
<1>2. /\ pc[p] \in {"start", "retry"}
      /\ \E q \in {"seated", "last"} : pc' = [c \in Clients |-> IF c = p THEN q ELSE pc[c]]
  BY DEF Mon!TakeSeat, Mon!TakeLastSeat, Mon!GoTo
<1>3. p \notin MonRode /\ MonRode' = MonRode
  BY <1>2 DEF MonRode
<1> QED
  BY <1>1, <1>3 DEF Mon!Coaster!Board, MonRode, MonBoarded

LEMMA MonRefineLeave == ASSUME MonIInv, NEW p \in Clients, Mon!CountExit(p)
                        PROVE  p \in Mon!Aboard /\ Mon!Coaster!Leave(p)
<1>1. /\ p \in Mon!Aboard /\ Mon!Aboard' = Mon!Aboard \ {p}
      /\ MonBoarded' = IF MonBoarded = seats /\ Mon!Aboard' = {} THEN 0 ELSE MonBoarded
      /\ pc[p] = "counting" /\ pc'[p] = "testing"
      /\ \A c \in Clients \ {p} : pc'[c] = pc[c] \/ (pc[c] = "queued" /\ pc'[c] = "retry")
  BY MonLeaveStep
<1>2. MonRode' = MonRode \cup {p}
  BY <1>1 DEF MonRode
<1> QED
  BY <1>1, <1>2 DEF Mon!Coaster!Leave, MonRode, MonBoarded

\* The other steps of a passenger are not visible to the abstract specification.
LEMMA MonRefineOther ==
    ASSUME MonIInv, NEW p \in Clients, Mon!Queue(p) \/ Mon!LastRode(p) \/ Mon!StartExit(p)
      \/ Mon!EndExit(p)
    PROVE  UNCHANGED <<Mon!Aboard, MonRode, MonBoarded>>
<1>1. UNCHANGED <<Mon!Aboard, MonBoarded>>
  BY MonQueueStep, MonLastRodeStep, MonStartExitStep, MonEndExitStep
<1>2. \A c \in Clients : pc'[c] \in {"testing", "done"} <=> pc[c] \in {"testing", "done"}
  BY DEF Mon!Queue, Mon!LastRode, Mon!StartExit, Mon!EndExit, Mon!GoTo
<1> QED
  BY <1>1, <1>2, MonSameRode

\* The program implements the abstract roller-coaster: nobody boards a full
\* train, or one that some have left and others not, and everybody rides once.
THEOREM MonImplements == Mon!Spec => Mon!ImplementsCoaster
<1>1. MonIInv /\ [Mon!Next]_(Mon!vars) => [Mon!Coaster!Next]_(Mon!Coaster!vars)
  <2> SUFFICES ASSUME MonIInv, [Mon!Next]_(Mon!vars) PROVE [Mon!Coaster!Next]_(Mon!Coaster!vars)
    OBVIOUS
  <2>1. ASSUME NEW p \in Clients, Mon!TakeSeat(p) \/ Mon!TakeLastSeat(p) PROVE Mon!Coaster!Next
    BY <2>1, MonRefineBoard DEF Mon!Coaster!Next
  <2>2. ASSUME NEW p \in Clients, Mon!CountExit(p) PROVE Mon!Coaster!Next
    BY <2>2, MonRefineLeave DEF Mon!Coaster!Next
  <2>3. ASSUME NEW p \in Clients, Mon!Queue(p) \/ Mon!LastRode(p) \/ Mon!StartExit(p)
          \/ Mon!EndExit(p)
        PROVE  UNCHANGED <<Mon!Aboard, MonRode, MonBoarded>>
    BY <2>3, MonRefineOther
  <2>4. ASSUME Mon!TrainStep PROVE UNCHANGED <<Mon!Aboard, MonRode, MonBoarded>>
    BY <2>4, MonTrainInvStep, MonSameRode
  <2>5. ASSUME Mon!MainStep PROVE UNCHANGED <<Mon!Aboard, MonRode, MonBoarded>>
    BY <2>5, MonMainInvStep, MonSameRode
  <2>6. ASSUME Mon!SpuriousRide \/ \E p \in Clients : Mon!SpuriousWakeup(p)
        PROVE UNCHANGED <<Mon!Aboard, MonRode, MonBoarded>>
    BY <2>6, MonSpuriousStep, MonSameRode
  <2>7. ASSUME UNCHANGED Mon!vars PROVE UNCHANGED <<Mon!Aboard, MonRode, MonBoarded>>
    <3>1. MonRode' = MonRode
      BY <2>7 DEF Mon!vars, MonRode
    <3> QED
      BY <2>7, <3>1, MonStutterStep
  <2>8. UNCHANGED <<Mon!Aboard, MonRode, MonBoarded>> => UNCHANGED Mon!Coaster!vars
    BY DEF Mon!Coaster!vars, MonRode, MonBoarded
  <2> QED
    BY <2>1, <2>2, <2>3, <2>4, <2>5, <2>6, <2>7, <2>8 DEF Mon!Next, Mon!PassengerStep
<1> QED
  BY MonRefineInit, <1>1, MonInductive, PTL DEF Mon!Spec, Mon!ImplementsCoaster, Mon!Coaster!Spec
=============================================================================
