-------------------------- MODULE SemTrain_proofs --------------------------
(***************************************************************************)
(* Proofs about SemTrain: as long as no race has happened nobody is left   *)
(* behind in the train, and nothing but the races stops the program, for   *)
(* any number of passengers and seats.                                     *)
(***************************************************************************)
EXTENDS SemTrain, FiniteSetTheorems, TLAPS

CountedPCs == {"counted", "clear", "leaving", "storing", "done"}
RodePCs == CountedPCs \cup {"off", "counting"}
HoldPCs == {"test", "take", "taking", "again", "enqueue", "queued"}
CallerPCs == {"none", "arrive"} \cup HoldPCs
PassengerPCs == CallerPCs \cup {"seated"} \cup RodePCs
TrainPCs == {"loop", "poll", "any", "few", "ask", "called", "ride", "release", "emptying",
             "done"}

\* What a passenger at p has still to raise, and the train.
Raises(p) == CASE p = "seated" -> {<<>>, <<"pass">>}
               [] p = "test" -> {<<>>, <<"train_sem">>}
               [] p = "leaving" -> {<<>>, <<"clear_sem">>}
               [] OTHER -> {<<>>}

Ups(n) == [j \in 1..n |-> "finish_sem"]

TrainRaises(p) == CASE p = "called" -> {<<>>, <<"train_sem">>}
                    [] p = "release" -> {Ups(n) : n \in 0..seats} \cup {<<"full_sem">>}
                    [] p = "done" -> {<<>>, <<"main_sem">>}
                    [] OTHER -> {<<>>}

PlacesOK ==
    /\ pc \in [Threads -> PassengerPCs \cup TrainPCs]
    /\ \A p \in Clients : pc[p] \in PassengerPCs
    /\ pc[Train] \in TrainPCs
    /\ todo \in [Threads -> Seq(Semaphores)]
    /\ \A p \in Clients : todo[p] \in Raises(pc[p])
    /\ todo[Train] \in TrainRaises(pc[Train])

TypeOK ==
    /\ PlacesOK
    /\ raising \in [Threads -> BOOLEAN]
    /\ load \in [Threads -> Int]
    /\ sem \in [Semaphores -> Nat]
    /\ left_seats \in Int /\ passengers \in Int /\ queue \in Nat /\ count \in Int
    /\ main \in {"reset", "load", "store", "wait", "returned"} /\ mainLoad \in Int
    /\ raced \in BOOLEAN

\* A semaphore that two threads have not raised at once is down or up.
BinaryInv == \A s \in Semaphores : sem[s] <= 1

\* pass is up, or one passenger has it.
Holds(p) == pc[p] \in HoldPCs \/ todo[p] = <<"pass">>
PassInv == /\ sem["pass"] = 1 => \A p \in Clients : ~Holds(p)
           /\ sem["pass"] = 0 => \E p \in Clients : Holds(p)
           /\ \A p, q \in Clients : Holds(p) /\ Holds(q) => p = q

\* The passenger who has pass takes one of the free seats.
SeatInv == /\ left_seats \in 0..seats
           /\ \A p \in Clients : pc[p] \in {"take", "taking"} => left_seats < seats

\* A passenger only joins the queue while the train lets the queue go on, and is
\* raised before the train has done with it.
QueueInv ==
    /\ \A p \in Clients : pc[p] = "again" => left_seats = seats \/ pc[Train] = "release"
    /\ \A p \in Clients : pc[p] = "enqueue" => pc[Train] = "release"
    /\ pc[Train] = "release" => load[Train] \in 0..queue
    /\ \A p \in Clients : pc[p] = "queued" =>
         \/ sem["full_sem"] = 1
         \/ pc[Train] = "release" /\ (load[Train] < queue \/ todo[Train] = <<"full_sem">>)

\* The rides: those who have left their seats are, with those for whom finish_sem is
\* up or will be raised, the passengers of the rounds that are complete and, from
\* the ride until clear_sem is raised, of one more.  count is the number of those of
\* this round who have been counted.
InRound == pc[Train] \in {"release", "emptying"}
Clearing(p) == todo[p] = <<"clear_sem">>
Cleared == sem["clear_sem"] = 1 \/ \E p \in Clients : Clearing(p)
Rounds == {seats * k : k \in Nat}
Rode == {p \in Clients : pc[p] \in RodePCs}
Counted == {p \in Clients : pc[p] \in CountedPCs}
ThisRound == IF InRound /\ ~Cleared THEN seats ELSE 0

RoundInv ==
    /\ count \in 0..seats
    /\ Cardinality(Counted) - count \in Rounds
    /\ Cardinality(Rode) + sem["finish_sem"] + Pending =
         Cardinality(Counted) - count + ThisRound
    /\ Cleared => InRound /\ count = 0

\* clear_sem is raised once in a round, by the passenger who finds count = seats.
ClearInv ==
    /\ count = seats => \E p \in Clients : pc[p] \in {"counted", "clear"}
    /\ \A p \in Clients : pc[p] = "clear" => count = seats
    /\ \A p, q \in Clients : Clearing(p) /\ Clearing(q) => p = q
    /\ sem["clear_sem"] = 1 => \A p \in Clients : ~Clearing(p)

\* passengers is the number of those who have been created and have not left.
Present == {p \in Clients : pc[p] \in PassengerPCs \ {"none", "done"}}
PresentInv == /\ main = "reset" => \A p \in Clients : pc[p] = "none"
              /\ main # "reset" => passengers = Cardinality(Present)
              /\ main \in {"wait", "returned"} => \A p \in Clients : pc[p] # "none"

\* A train that waits to be called has been, or somebody will not find a seat.
CallInv == pc[Train] = "called" =>
             \/ sem["train_sem"] = 1 \/ todo[Train] # <<>>
             \/ Cardinality(Callers) + left_seats > seats

\* The train that has ended has raised main_sem.
EndInv == pc[Train] = "done" /\ todo[Train] = <<>> => sem["main_sem"] = 1 \/ main = "returned"

Good == /\ BinaryInv /\ PassInv /\ SeatInv /\ QueueInv /\ SeatsMatch
        /\ RoundInv /\ ClearInv /\ PresentInv /\ CallInv /\ EndInv

IInv == TypeOK /\ (raced \/ Good)

-----------------------------------------------------------------------------
(* Sequences and sets. *)

LEMMA UpsFacts ==
    ASSUME NEW n \in Nat
    PROVE  /\ Ups(n) \in Seq(Semaphores)
           /\ Len(Ups(n)) = n
           /\ DOMAIN Ups(n) = 1..n
           /\ \A j \in 1..n : Ups(n)[j] = "finish_sem"
           /\ Ups(n) = <<>> <=> n = 0
           /\ n > 0 => Head(Ups(n)) = "finish_sem" /\ Tail(Ups(n)) = Ups(n - 1)
           /\ Ups(n) # <<"full_sem">>
<1>1. Ups(n) \in Seq(Semaphores) /\ Len(Ups(n)) = n /\ DOMAIN Ups(n) = 1..n
      /\ \A j \in 1..n : Ups(n)[j] = "finish_sem"
  BY DEF Ups, Semaphores
<1>2. Ups(n) = <<>> <=> n = 0
  BY <1>1
<1>3. n > 0 => Head(Ups(n)) = "finish_sem" /\ Tail(Ups(n)) = Ups(n - 1)
  <2> SUFFICES ASSUME n > 0 PROVE Head(Ups(n)) = "finish_sem" /\ Tail(Ups(n)) = Ups(n - 1)
    OBVIOUS
  <2>1. Head(Ups(n)) = "finish_sem"
    BY <1>1, <1>2
  <2>2. Tail(Ups(n)) \in Seq(Semaphores) /\ Len(Tail(Ups(n))) = n - 1
        /\ \A j \in 1..(n - 1) : Tail(Ups(n))[j] = Ups(n)[j + 1]
    BY <1>1, <1>2
  <2>3. Ups(n - 1) \in Seq(Semaphores) /\ Len(Ups(n - 1)) = n - 1
        /\ \A j \in 1..(n - 1) : Ups(n - 1)[j] = "finish_sem"
    BY DEF Ups, Semaphores
  <2>4. \A j \in 1..(n - 1) : Tail(Ups(n))[j] = Ups(n - 1)[j]
    BY <2>2, <2>3, <1>1
  <2> QED BY <2>1, <2>2, <2>3, <2>4
<1>4. Ups(n) # <<"full_sem">>
  <2> SUFFICES ASSUME Ups(n) = <<"full_sem">> PROVE FALSE
    OBVIOUS
  <2>1. n = 1 /\ Ups(n)[1] = "full_sem"
    BY <1>1
  <2> QED BY <2>1, <1>1
<1> QED BY <1>1, <1>2, <1>3, <1>4

\* How often the train is still to raise finish_sem.
LEMMA PendingFacts ==
    ASSUME NEW s
    PROVE  /\ \A n \in Nat : s = Ups(n) =>
                Cardinality({j \in DOMAIN s : s[j] = "finish_sem"}) = n
           /\ s = <<>> => Cardinality({j \in DOMAIN s : s[j] = "finish_sem"}) = 0
           /\ \A x : s = <<x>> /\ x # "finish_sem" =>
                Cardinality({j \in DOMAIN s : s[j] = "finish_sem"}) = 0
<1>1. ASSUME NEW n \in Nat, s = Ups(n)
      PROVE  Cardinality({j \in DOMAIN s : s[j] = "finish_sem"}) = n
  <2>1. {j \in DOMAIN s : s[j] = "finish_sem"} = 1..n
    BY <1>1, UpsFacts
  <2>2. Cardinality(1..n) = n
    BY FS_Interval
  <2> QED BY <2>1, <2>2
<1>2. ASSUME s = <<>>
      PROVE  Cardinality({j \in DOMAIN s : s[j] = "finish_sem"}) = 0
  <2>1. {j \in DOMAIN s : s[j] = "finish_sem"} = {}
    BY <1>2
  <2> QED BY <2>1, FS_EmptySet
<1>3. ASSUME NEW x, s = <<x>>, x # "finish_sem"
      PROVE  Cardinality({j \in DOMAIN s : s[j] = "finish_sem"}) = 0
  <2>1. {j \in DOMAIN s : s[j] = "finish_sem"} = {}
    BY <1>3
  <2> QED BY <2>1, FS_EmptySet
<1> QED BY <1>1, <1>2, <1>3

\* The passengers at some places, when one of them moves.
LEMMA Moved ==
    ASSUME NEW f, NEW g, NEW P, NEW p \in Clients, \A q \in Clients \ {p} : g[q] = f[q]
    PROVE  Cardinality({q \in Clients : g[q] \in P}) =
             Cardinality({q \in Clients : f[q] \in P})
               + (IF g[p] \in P THEN 1 ELSE 0) - (IF f[p] \in P THEN 1 ELSE 0)
<1> DEFINE F == {q \in Clients : f[q] \in P}
           G == {q \in Clients : g[q] \in P}
<1>1. IsFiniteSet(F) /\ IsFiniteSet(G) /\ Cardinality(F) \in Nat
  BY SemTrainAssumption, FS_Subset, FS_CardinalityType
<1>2. \A q \in Clients : q # p => g[q] = f[q]
  OBVIOUS
<1>3. p \in F <=> f[p] \in P
  OBVIOUS
<1>4. g[p] \in P => G = F \cup {p}
  BY <1>2
<1>5. g[p] \notin P => G = F \ {p}
  BY <1>2
<1> HIDE DEF F, G
<1>6. /\ Cardinality(F \cup {p}) = IF p \in F THEN Cardinality(F) ELSE Cardinality(F) + 1
      /\ Cardinality(F \ {p}) = IF p \in F THEN Cardinality(F) - 1 ELSE Cardinality(F)
  BY <1>1, FS_AddElement, FS_RemoveElement
<1>7. Cardinality(G) = IF g[p] \in P THEN Cardinality(F \cup {p}) ELSE Cardinality(F \ {p})
  BY <1>4, <1>5
<1>8. CASE g[p] \in P
  <2>1. Cardinality(G) = Cardinality(F) + (1 - (IF f[p] \in P THEN 1 ELSE 0))
    BY <1>8, <1>1, <1>3, <1>6, <1>7
  <2> QED BY <2>1, <1>8, <1>1 DEF F, G
<1>9. CASE g[p] \notin P
  <2>1. Cardinality(G) = Cardinality(F) - (IF f[p] \in P THEN 1 ELSE 0)
    BY <1>9, <1>1, <1>3, <1>6, <1>7
  <2> QED BY <2>1, <1>9, <1>1 DEF F, G
<1> QED BY <1>8, <1>9

LEMMA SetFacts ==
    /\ \A P : IsFiniteSet({p \in Clients : pc[p] \in P})
    /\ \A P : Cardinality({p \in Clients : pc[p] \in P}) \in Nat
    /\ \A P : Cardinality({p \in Clients : pc[p] \in P}) = 0
                <=> \A p \in Clients : pc[p] \notin P
<1> SUFFICES ASSUME NEW P
             PROVE  /\ IsFiniteSet({p \in Clients : pc[p] \in P})
                    /\ Cardinality({p \in Clients : pc[p] \in P}) \in Nat
                    /\ Cardinality({p \in Clients : pc[p] \in P}) = 0
                         <=> \A p \in Clients : pc[p] \notin P
  OBVIOUS
<1> DEFINE S == {p \in Clients : pc[p] \in P}
<1>1. IsFiniteSet(S)
  BY SemTrainAssumption, FS_Subset
<1>2. S = {} <=> \A p \in Clients : pc[p] \notin P
  OBVIOUS
<1> HIDE DEF S
<1>3. Cardinality(S) \in Nat /\ (Cardinality(S) = 0 <=> S = {})
  BY <1>1, FS_CardinalityType, FS_EmptySet
<1> QED BY <1>1, <1>2, <1>3 DEF S

-----------------------------------------------------------------------------
(* Type correctness. *)

LEMMA RaisesFacts ==
    ASSUME NEW x
    PROVE  /\ \A w \in Raises(x) : w = <<>> \/ (x = "seated" /\ w = <<"pass">>)
                 \/ (x = "test" /\ w = <<"train_sem">>)
                 \/ (x = "leaving" /\ w = <<"clear_sem">>)
           /\ <<>> \in Raises(x)
           /\ \A w \in Raises(x) : w \in Seq(Semaphores)
           /\ \A w \in Raises(x) : w # <<>> => Tail(w) = <<>>
<1>1. \A w \in Raises(x) : w = <<>> \/ (x = "seated" /\ w = <<"pass">>)
         \/ (x = "test" /\ w = <<"train_sem">>)
         \/ (x = "leaving" /\ w = <<"clear_sem">>)
  BY DEF Raises
<1>2. <<>> \in Raises(x)
  BY DEF Raises
<1>3. \A y : Tail(<<y>>) = <<>>
  OBVIOUS
<1>4. <<>> \in Seq(Semaphores) /\ \A y \in Semaphores : <<y>> \in Seq(Semaphores)
  OBVIOUS
<1>5. {"pass", "train_sem", "clear_sem"} \subseteq Semaphores
  BY DEF Semaphores
<1> QED BY <1>1, <1>2, <1>3, <1>4, <1>5

LEMMA TrainRaisesFacts ==
    ASSUME NEW x
    PROVE  /\ \A w \in TrainRaises(x) :
                \/ w = <<>> /\ x # "release"
                \/ x = "called" /\ w = <<"train_sem">>
                \/ x = "done" /\ w = <<"main_sem">>
                \/ x = "release" /\ w = <<"full_sem">>
                \/ x = "release" /\ \E n \in 0..seats : w = Ups(n)
           /\ <<>> \in TrainRaises(x)
           /\ \A w \in TrainRaises(x) : w \in Seq(Semaphores)
           /\ \A w \in TrainRaises(x) : w # <<>> => Tail(w) \in TrainRaises(x)
<1>1. \A w \in TrainRaises(x) :
        \/ w = <<>> /\ x # "release"
        \/ x = "called" /\ w = <<"train_sem">>
        \/ x = "done" /\ w = <<"main_sem">>
        \/ x = "release" /\ w = <<"full_sem">>
        \/ x = "release" /\ \E n \in 0..seats : w = Ups(n)
  BY DEF TrainRaises
<1>0. seats \in Nat /\ 0 \in 0..seats /\ \A n \in 0..seats : n \in Nat
  BY SemTrainAssumption
<1>2. <<>> \in TrainRaises(x)
  BY <1>0, UpsFacts DEF TrainRaises
<1>3. \A y : Tail(<<y>>) = <<>>
  OBVIOUS
<1>4. <<>> \in Seq(Semaphores) /\ \A y \in Semaphores : <<y>> \in Seq(Semaphores)
  OBVIOUS
<1>5. {"main_sem", "train_sem", "full_sem"} \subseteq Semaphores
  BY DEF Semaphores
<1>6. \A w \in TrainRaises(x) : w \in Seq(Semaphores)
  BY <1>0, <1>1, <1>4, <1>5, UpsFacts
<1>7. ASSUME NEW w \in TrainRaises(x), w # <<>>, NEW n \in 0..seats, w = Ups(n), x = "release"
      PROVE  Tail(w) \in TrainRaises(x)
  <2>1. n > 0 /\ n - 1 \in 0..seats
    BY <1>0, <1>7, UpsFacts
  <2>2. Tail(w) = Ups(n - 1)
    BY <1>0, <1>7, <2>1, UpsFacts
  <2> QED BY <1>7, <2>1, <2>2 DEF TrainRaises
<1>8. \A w \in TrainRaises(x) : w # <<>> => Tail(w) \in TrainRaises(x)
  BY <1>1, <1>2, <1>3, <1>7
<1> QED BY <1>1, <1>2, <1>6, <1>8

LEMMA PassengerMoves ==
    ASSUME PlacesOK, NEW p \in Clients, NEW x \in PassengerPCs, NEW w \in Raises(x),
           pc' = [pc EXCEPT ![p] = x], todo' = [todo EXCEPT ![p] = w]
    PROVE  PlacesOK'
<1>1. p \in Threads /\ Train \in Threads /\ Train # p
  BY SemTrainAssumption DEF Threads
<1>2. w \in Seq(Semaphores)
  BY RaisesFacts
<1>3. /\ pc' \in [Threads -> PassengerPCs \cup TrainPCs]
      /\ todo' \in [Threads -> Seq(Semaphores)]
  BY <1>1, <1>2 DEF PlacesOK
<1>4. /\ pc'[p] = x /\ todo'[p] = w
      /\ pc'[Train] = pc[Train] /\ todo'[Train] = todo[Train]
  BY <1>1 DEF PlacesOK
<1>5. \A q \in Clients : q # p => pc'[q] = pc[q] /\ todo'[q] = todo[q]
  BY <1>1 DEF PlacesOK, Threads
<1> QED BY <1>3, <1>4, <1>5 DEF PlacesOK

LEMMA TrainMoves ==
    ASSUME PlacesOK, NEW x \in TrainPCs, NEW w \in TrainRaises(x),
           pc' = [pc EXCEPT ![Train] = x], todo' = [todo EXCEPT ![Train] = w]
    PROVE  PlacesOK'
<1>1. Train \in Threads /\ Train \notin Clients
  BY SemTrainAssumption DEF Threads
<1>2. w \in Seq(Semaphores)
  BY TrainRaisesFacts
<1>3. /\ pc' \in [Threads -> PassengerPCs \cup TrainPCs]
      /\ todo' \in [Threads -> Seq(Semaphores)]
  BY <1>1, <1>2 DEF PlacesOK
<1>4. pc'[Train] = x /\ todo'[Train] = w
  BY <1>1 DEF PlacesOK
<1>5. \A q \in Clients : pc'[q] = pc[q] /\ todo'[q] = todo[q]
  BY <1>1 DEF PlacesOK, Threads
<1> QED BY <1>3, <1>4, <1>5 DEF PlacesOK

\* A thread has raised the first of its semaphores, or found it up.
LEMMA Tailed ==
    ASSUME PlacesOK, NEW t \in Threads, todo[t] # <<>>, UNCHANGED pc,
           todo' = [todo EXCEPT ![t] = Tail(@)]
    PROVE  PlacesOK'
<1>1. pc' = [pc EXCEPT ![t] = pc[t]] /\ todo' = [todo EXCEPT ![t] = Tail(todo[t])]
  BY DEF PlacesOK
<1>2. CASE t \in Clients
  <2>1. Tail(todo[t]) \in Raises(pc[t])
    BY <1>2, RaisesFacts DEF PlacesOK
  <2> QED BY <1>1, <1>2, <2>1, PassengerMoves DEF PlacesOK
<1>3. CASE t = Train
  <2>1. Tail(todo[t]) \in TrainRaises(pc[t])
    BY <1>3, TrainRaisesFacts DEF PlacesOK
  <2> QED BY <1>1, <1>3, <2>1, TrainMoves DEF PlacesOK
<1> QED BY <1>2, <1>3 DEF Threads
LEMMA QuietMoves ==
    ASSUME PlacesOK, UNCHANGED todo
    PROVE  /\ \A p \in Clients : \A x \in PassengerPCs : todo[p] = <<>> /\ GoTo(p, x) => PlacesOK'
           /\ \A x \in TrainPCs : todo[Train] = <<>> /\ GoTo(Train, x) => PlacesOK'
<1>1. \A p \in Clients : todo[p] = <<>> => todo' = [todo EXCEPT ![p] = <<>>]
  BY DEF PlacesOK
<1>2. todo[Train] = <<>> => todo' = [todo EXCEPT ![Train] = <<>>]
  BY DEF PlacesOK
<1>3. \A x : <<>> \in Raises(x) /\ <<>> \in TrainRaises(x)
  BY RaisesFacts, TrainRaisesFacts
<1>4. ASSUME NEW p \in Clients, NEW x \in PassengerPCs, todo[p] = <<>>, GoTo(p, x)
      PROVE  PlacesOK'
  BY <1>1, <1>3, <1>4, PassengerMoves DEF GoTo
<1>5. ASSUME NEW x \in TrainPCs, todo[Train] = <<>>, GoTo(Train, x)
      PROVE  PlacesOK'
  BY <1>2, <1>3, <1>5, TrainMoves DEF GoTo
<1> QED BY <1>4, <1>5

LEMMA PassengerTypes ==
    ASSUME TypeOK, NEW p \in Clients, PassengerStep(p)
    PROVE  TypeOK'
<1>0. p \in Threads
  BY DEF Threads
<1>1. CASE Test(p)
  <2>1. PlacesOK'
    BY <1>1, QuietMoves DEF Test, At, quiet, own, TypeOK, PassengerPCs, CallerPCs, HoldPCs
  <2> QED BY <1>1, <2>1 DEF Test, quiet, own, mainVars, TypeOK
<1>2. CASE LoadSeats(p)
  <2>1. PlacesOK'
    BY <1>2, QuietMoves DEF LoadSeats, At, quiet, own, TypeOK, PassengerPCs, CallerPCs, HoldPCs
  <2> QED BY <1>0, <1>2, <2>1 DEF LoadSeats, quiet, own, mainVars, TypeOK
<1>3. CASE TakeSeat(p)
  <2>1. PlacesOK'
    BY <1>3, PassengerMoves
    DEF TakeSeat, GoRaising, GoTo, At, TypeOK, PassengerPCs, Raises
  <2> QED BY <1>0, <1>3, <2>1 DEF TakeSeat, GoRaising, mainVars, Notes, TypeOK
<1>4. CASE Again(p)
  <2>1. PlacesOK'
    BY <1>4, PassengerMoves
    DEF Again, GoRaising, GoTo, At, TypeOK, PassengerPCs, CallerPCs, HoldPCs, Raises
  <2> QED BY <1>4, <2>1 DEF Again, GoRaising, mainVars, TypeOK
<1>5. CASE Enqueue(p)
  <2>1. PlacesOK'
    BY <1>5, QuietMoves DEF Enqueue, At, quiet, own, TypeOK, PassengerPCs, CallerPCs, HoldPCs
  <2> QED BY <1>5, <2>1 DEF Enqueue, quiet, own, mainVars, TypeOK
<1>6. CASE LoadCount(p)
  <2>1. PlacesOK'
    BY <1>6, QuietMoves DEF LoadCount, At, quiet, own, TypeOK, PassengerPCs, RodePCs
  <2> QED BY <1>0, <1>6, <2>1 DEF LoadCount, quiet, own, mainVars, TypeOK
<1>7. CASE StoreCount(p)
  <2>1. PlacesOK'
    BY <1>7, QuietMoves
    DEF StoreCount, At, quiet, own, TypeOK, PassengerPCs, RodePCs, CountedPCs
  <2> QED BY <1>0, <1>7, <2>1 DEF StoreCount, quiet, own, mainVars, Notes, TypeOK
<1>8. CASE TestCount(p)
  <2>1. PlacesOK'
    BY <1>8, QuietMoves
    DEF TestCount, At, quiet, own, TypeOK, PassengerPCs, RodePCs, CountedPCs
  <2> QED BY <1>8, <2>1 DEF TestCount, quiet, own, mainVars, TypeOK
<1>9. CASE Clear(p)
  <2>1. PlacesOK'
    BY <1>9, PassengerMoves
    DEF Clear, GoRaising, GoTo, At, TypeOK, PassengerPCs, RodePCs, CountedPCs, Raises
  <2> QED BY <1>9, <2>1 DEF Clear, GoRaising, mainVars, Notes, TypeOK
<1>10. CASE LoadLeft(p)
  <2>1. PlacesOK'
    BY <1>10, QuietMoves DEF LoadLeft, At, quiet, own, TypeOK, PassengerPCs, RodePCs, CountedPCs
  <2> QED BY <1>0, <1>10, <2>1 DEF LoadLeft, quiet, own, mainVars, TypeOK
<1>11. CASE Leave(p)
  <2>1. PlacesOK'
    BY <1>11, QuietMoves DEF Leave, At, quiet, own, TypeOK, PassengerPCs, RodePCs, CountedPCs
  <2> QED BY <1>0, <1>11, <2>1 DEF Leave, quiet, own, mainVars, Notes, TypeOK
<1> QED
  BY <1>1, <1>2, <1>3, <1>4, <1>5, <1>6, <1>7, <1>8, <1>9, <1>10, <1>11 DEF PassengerStep

LEMMA TrainTypes ==
    ASSUME TypeOK, TrainStep
    PROVE  TypeOK'
<1>0. Train \in Threads /\ seats \in Nat
  BY SemTrainAssumption DEF Threads
<1>1. CASE Loop
  <2>1. PlacesOK'
    BY <1>1, TrainMoves DEF Loop, GoRaising, GoTo, At, TypeOK, TrainPCs, TrainRaises
  <2> QED BY <1>1, <2>1 DEF Loop, GoRaising, mainVars, TypeOK
<1>2. CASE Poll
  <2>1. PlacesOK'
    BY <1>2, QuietMoves DEF Poll, PollNext, At, quiet, own, TypeOK, TrainPCs
  <2> QED BY <1>2, <2>1 DEF Poll, quiet, own, mainVars, TypeOK
<1>3. CASE Ask
  <2>1. PlacesOK'
    BY <1>3, TrainMoves DEF Ask, GoRaising, GoTo, At, TypeOK, TrainPCs, TrainRaises
  <2> QED BY <1>3, <2>1 DEF Ask, GoRaising, mainVars, Notes, TypeOK
<1>4. CASE Ride
  <2>1. [j \in 1..seats |-> "finish_sem"] \in TrainRaises("release")
    BY <1>0 DEF TrainRaises, Ups
  <2>2. PlacesOK'
    BY <1>4, <2>1, TrainMoves DEF Ride, GoTo, At, TypeOK, TrainPCs
  <2> QED BY <1>0, <1>4, <2>2 DEF Ride, mainVars, Notes, TypeOK
<1>5. CASE Release
  <2>1. CASE load[Train] < queue
    <3>1. PlacesOK'
      BY <1>5, <2>1, TrainMoves DEF Release, GoTo, TypeOK, TrainPCs, TrainRaises
    <3>2. load' \in [Threads -> Int]
      BY <1>0, <1>5, <2>1 DEF Release, TypeOK
    <3> QED BY <1>5, <2>1, <3>1, <3>2 DEF Release, mainVars, TypeOK
  <2>2. CASE ~(load[Train] < queue)
    <3>1. PlacesOK'
      BY <1>5, <2>2, QuietMoves DEF Release, At, TypeOK, TrainPCs
    <3> QED BY <1>5, <2>2, <3>1 DEF Release, mainVars, Notes, TypeOK
  <2> QED BY <2>1, <2>2
<1> QED BY <1>1, <1>2, <1>3, <1>4, <1>5 DEF TrainStep

LEMMA SemaphoreTypes ==
    ASSUME TypeOK, NEW t \in Threads, GetVal(t) \/ SemOp(t) \/ Down(t)
    PROVE  TypeOK'
<1>1. todo[t] # <<>> => Head(todo[t]) \in Semaphores
  BY DEF TypeOK, PlacesOK
<1>2. CASE GetVal(t)
  <2>1. CASE sem[Head(todo[t])] = 1
    <3>1. PlacesOK'
      BY <1>2, <2>1, Tailed DEF GetVal, TypeOK
    <3> QED BY <1>2, <2>1, <3>1 DEF GetVal, mainVars, Notes, TypeOK
  <2>2. CASE sem[Head(todo[t])] # 1
    <3>1. PlacesOK'
      BY <1>2, <2>2 DEF GetVal, TypeOK, PlacesOK
    <3> QED BY <1>2, <2>2, <3>1 DEF GetVal, mainVars, TypeOK
  <2> QED BY <2>1, <2>2
<1>3. CASE SemOp(t)
  <2>1. PlacesOK'
    BY <1>3, Tailed DEF SemOp, TypeOK
  <2>2. sem' \in [Semaphores -> Nat]
    BY <1>1, <1>3 DEF SemOp, TypeOK
  <2> QED BY <1>3, <2>1, <2>2 DEF SemOp, mainVars, Notes, TypeOK
<1>4. CASE Down(t)
  <2>1. /\ t \in Clients => Onwards(pc[t]) \in PassengerPCs
        /\ t = Train => Onwards(pc[t]) \in TrainPCs
    BY <1>4 DEF Down, Waits, Onwards, TypeOK, PlacesOK, PassengerPCs, CallerPCs, HoldPCs, RodePCs,
                CountedPCs, TrainPCs
  <2>2. PlacesOK'
    BY <1>4, <2>1, QuietMoves DEF Down, At, own, TypeOK, Threads
  <2>3. Awaits(pc[t]) \in Semaphores
    BY DEF Awaits, Semaphores
  <2>4. sem' \in [Semaphores -> Nat]
    BY <1>4, <2>3 DEF Down, TypeOK
  <2> QED BY <1>4, <2>2, <2>4 DEF Down, own, mainVars, TypeOK
<1> QED BY <1>2, <1>3, <1>4

LEMMA MainTypes ==
    ASSUME TypeOK, MainStep
    PROVE  TypeOK'
<1>1. CASE Reset
  BY <1>1 DEF Reset, mainRest, NextCreation, TypeOK, PlacesOK
<1>2. CASE LoadPassengers
  BY <1>2 DEF LoadPassengers, mainRest, TypeOK, PlacesOK
<1>3. ASSUME NEW p \in Clients, Create(p)
      PROVE  TypeOK'
  <2>1. todo[p] = <<>>
    BY <1>3 DEF Create, Uncreated, TypeOK, PlacesOK, Raises
  <2>2. PlacesOK'
    BY <1>3, <2>1, QuietMoves DEF Create, mainRest, TypeOK, PassengerPCs, CallerPCs
  <2> QED BY <1>3, <2>2 DEF Create, mainRest, NextCreation, Notes, TypeOK
<1>4. CASE Finish
  <2>1. sem' \in [Semaphores -> Nat]
    BY <1>4 DEF Finish, TypeOK, Semaphores
  <2>2. PlacesOK'
    BY <1>4 DEF Finish, own, TypeOK, PlacesOK
  <2> QED BY <1>4, <2>1, <2>2 DEF Finish, own, TypeOK
<1> QED BY <1>1, <1>2, <1>3, <1>4 DEF MainStep

LEMMA TypesStep ==
    ASSUME TypeOK, [Next]_vars
    PROVE  TypeOK'
<1>1. CASE UNCHANGED vars
  BY <1>1 DEF vars, TypeOK, PlacesOK
<1> QED
  BY <1>1, PassengerTypes, TrainTypes, SemaphoreTypes, MainTypes DEF Next, ThreadStep
-----------------------------------------------------------------------------
(* What a move changes. *)

\* A passenger moves: the numbers of passengers at some places.
LEMMA CountsMove ==
    ASSUME PlacesOK, NEW p \in Clients, NEW x, GoTo(p, x)
    PROVE  /\ Cardinality(Seated)' = Cardinality(Seated)
                + (IF x = "seated" THEN 1 ELSE 0) - (IF pc[p] = "seated" THEN 1 ELSE 0)
           /\ Cardinality(Rode)' = Cardinality(Rode)
                + (IF x \in RodePCs THEN 1 ELSE 0) - (IF pc[p] \in RodePCs THEN 1 ELSE 0)
           /\ Cardinality(Counted)' = Cardinality(Counted)
                + (IF x \in CountedPCs THEN 1 ELSE 0) - (IF pc[p] \in CountedPCs THEN 1 ELSE 0)
           /\ Cardinality(Present)' = Cardinality(Present)
                + (IF x \in PassengerPCs \ {"none", "done"} THEN 1 ELSE 0)
                - (IF pc[p] \in PassengerPCs \ {"none", "done"} THEN 1 ELSE 0)
           /\ Cardinality(Callers)' = Cardinality(Callers)
                + (IF x \in CallerPCs THEN 1 ELSE 0) - (IF pc[p] \in CallerPCs THEN 1 ELSE 0)
<1>1. \A q \in Clients \ {p} : pc'[q] = pc[q]
  BY DEF GoTo, PlacesOK, Threads
<1>2. pc'[p] = x
  BY DEF GoTo, PlacesOK, Threads
<1>3. \A P : Cardinality({q \in Clients : pc'[q] \in P}) =
               Cardinality({q \in Clients : pc[q] \in P})
                 + (IF x \in P THEN 1 ELSE 0) - (IF pc[p] \in P THEN 1 ELSE 0)
  <2>1. ASSUME NEW P
        PROVE  Cardinality({q \in Clients : pc'[q] \in P}) =
                 Cardinality({q \in Clients : pc[q] \in P})
                   + (IF pc'[p] \in P THEN 1 ELSE 0) - (IF pc[p] \in P THEN 1 ELSE 0)
    BY <1>1, Moved
  <2> QED BY <1>2, <2>1
<1>4. /\ Seated = {q \in Clients : pc[q] \in {"seated"}}
      /\ Seated' = {q \in Clients : pc'[q] \in {"seated"}}
      /\ Callers = {q \in Clients : pc[q] \in CallerPCs}
      /\ Callers' = {q \in Clients : pc'[q] \in CallerPCs}
  BY DEF Seated, Callers, CallerPCs, HoldPCs
<1>5. Cardinality(Seated)' = Cardinality(Seated)
        + (IF x \in {"seated"} THEN 1 ELSE 0) - (IF pc[p] \in {"seated"} THEN 1 ELSE 0)
  BY <1>3, <1>4
<1>6. Cardinality(Callers)' = Cardinality(Callers)
        + (IF x \in CallerPCs THEN 1 ELSE 0) - (IF pc[p] \in CallerPCs THEN 1 ELSE 0)
  BY <1>3, <1>4
<1> QED
  BY <1>3, <1>5, <1>6 DEF Rode, Counted, Present

LEMMA CountsAre ==
    ASSUME PlacesOK
    PROVE  /\ Cardinality(Seated) \in Nat
           /\ Cardinality(Rode) \in Nat
           /\ Cardinality(Counted) \in Nat
           /\ Cardinality(Present) \in Nat
           /\ Cardinality(Callers) \in Nat
           /\ Pending \in Nat
<1>1. Seated = {q \in Clients : pc[q] \in {"seated"}}
  BY DEF Seated
<1>2. Callers = {q \in Clients : pc[q] \in CallerPCs}
  BY DEF Callers, CallerPCs, HoldPCs
<1>3. Pending \in Nat
  <2>1. todo[Train] \in TrainRaises(pc[Train]) /\ seats \in Nat
    BY SemTrainAssumption DEF PlacesOK
  <2> QED BY <2>1, TrainRaisesFacts, PendingFacts DEF Pending
<1> QED BY <1>1, <1>2, <1>3, SetFacts DEF Rode, Counted, Present

\* A step that leaves a passenger in the sets it is counted in changes no count.
LEMMA CountsStay ==
    ASSUME PlacesOK, NEW p \in Clients, NEW x, GoTo(p, x),
           x = "seated" <=> pc[p] = "seated",
           x \in RodePCs <=> pc[p] \in RodePCs,
           x \in CountedPCs <=> pc[p] \in CountedPCs,
           x \in PassengerPCs \ {"none", "done"} <=> pc[p] \in PassengerPCs \ {"none", "done"},
           x \in CallerPCs <=> pc[p] \in CallerPCs
    PROVE  /\ Cardinality(Seated)' = Cardinality(Seated)
           /\ Cardinality(Rode)' = Cardinality(Rode)
           /\ Cardinality(Counted)' = Cardinality(Counted)
           /\ Cardinality(Present)' = Cardinality(Present)
           /\ Cardinality(Callers)' = Cardinality(Callers)
<1>1. Cardinality(Seated)' = Cardinality(Seated)
  BY CountsMove, CountsAre
<1>2. Cardinality(Rode)' = Cardinality(Rode)
  BY CountsMove, CountsAre
<1>3. Cardinality(Counted)' = Cardinality(Counted)
  BY CountsMove, CountsAre
<1>4. Cardinality(Present)' = Cardinality(Present)
  BY CountsMove, CountsAre
<1>5. Cardinality(Callers)' = Cardinality(Callers)
  BY CountsMove, CountsAre
<1> QED BY <1>1, <1>2, <1>3, <1>4, <1>5

\* A passenger moves, and has w to raise: what stays.
LEMMA PassengerFrame ==
    ASSUME PlacesOK, NEW p \in Clients, NEW x, NEW w, GoTo(p, x), todo' = [todo EXCEPT ![p] = w]
    PROVE  /\ pc'[p] = x
           /\ todo'[p] = w
           /\ \A q \in Clients : q # p => pc'[q] = pc[q]
           /\ \A q \in Clients : q # p => todo'[q] = todo[q]
           /\ pc'[Train] = pc[Train]
           /\ todo'[Train] = todo[Train]
           /\ Pending' = Pending
<1>1. p \in Threads /\ Train \in Threads /\ Train # p
  BY SemTrainAssumption DEF Threads
<1>2. pc'[Train] = pc[Train] /\ todo'[Train] = todo[Train]
  BY <1>1 DEF PlacesOK, GoTo
<1> QED BY <1>1, <1>2 DEF PlacesOK, GoTo, Threads, Pending

\* The train moves, and has w to raise.
LEMMA TrainFrame ==
    ASSUME PlacesOK, NEW x, NEW w, GoTo(Train, x), todo' = [todo EXCEPT ![Train] = w]
    PROVE  /\ pc'[Train] = x
           /\ todo'[Train] = w
           /\ \A q \in Clients : pc'[q] = pc[q]
           /\ \A q \in Clients : todo'[q] = todo[q]
           /\ Seated' = Seated /\ Rode' = Rode /\ Counted' = Counted
           /\ Present' = Present /\ Callers' = Callers
<1>1. Train \in Threads /\ Train \notin Clients
  BY SemTrainAssumption DEF Threads
<1>2. pc'[Train] = x /\ todo'[Train] = w
  BY <1>1 DEF PlacesOK, GoTo
<1>3. \A q \in Clients : pc'[q] = pc[q]
  BY <1>1 DEF PlacesOK, GoTo, Threads
<1>4. \A q \in Clients : todo'[q] = todo[q]
  BY <1>1 DEF PlacesOK, GoTo, Threads
<1>5. /\ Seated' = Seated /\ Rode' = Rode /\ Counted' = Counted
      /\ Present' = Present /\ Callers' = Callers
  BY <1>3 DEF Seated, Rode, Counted, Present, Callers
<1> QED BY <1>2, <1>3, <1>4, <1>5

\* A step of a passenger who has left the seat and does not raise anything: what it
\* does not change.
LEMMA RodeStep ==
    ASSUME PlacesOK, Good, ~raced, NEW p \in Clients, NEW x \in RodePCs,
           At(p, pc[p]), pc[p] \in RodePCs, GoTo(p, x),
           UNCHANGED <<quiet, left_seats, queue>>, load'[Train] = load[Train]
    PROVE  /\ BinaryInv' /\ PassInv' /\ SeatInv' /\ QueueInv'
           /\ SeatsMatch' /\ CallInv' /\ EndInv'
           /\ Cleared' <=> Cleared
           /\ InRound' <=> InRound
           /\ \A q \in Clients : Clearing(q)' <=> Clearing(q)
<1>1. todo' = [todo EXCEPT ![p] = <<>>] /\ todo' = todo /\ todo[p] = <<>>
  BY DEF At, quiet, own, PlacesOK
<1>2. /\ pc'[p] = x /\ todo'[p] = <<>>
      /\ \A q \in Clients : q # p => pc'[q] = pc[q]
      /\ \A q \in Clients : q # p => todo'[q] = todo[q]
      /\ pc'[Train] = pc[Train]
      /\ todo'[Train] = todo[Train]
      /\ Pending' = Pending
  BY <1>1, PassengerFrame
<1>3. BinaryInv'
  BY DEF Good, BinaryInv, quiet
<1>4. PassInv'
  <2>1. \A q \in Clients : Holds(q)' <=> Holds(q)
    BY <1>1, <1>2 DEF Holds, RodePCs, CountedPCs, HoldPCs
  <2> QED BY <2>1 DEF Good, PassInv, quiet
<1>5. SeatInv'
  BY <1>2 DEF Good, SeatInv, RodePCs, CountedPCs
<1>6. QueueInv'
  BY <1>2 DEF Good, QueueInv, RodePCs, CountedPCs, quiet
<1>7. /\ Cardinality(Seated)' = Cardinality(Seated)
      /\ Cardinality(Callers)' = Cardinality(Callers)
  BY CountsMove, CountsAre DEF RodePCs, CountedPCs, CallerPCs, HoldPCs
<1>8. SeatsMatch'
  BY <1>2, <1>7 DEF Good, SeatsMatch, quiet
<1>9. CallInv'
  BY <1>2, <1>7 DEF Good, CallInv, quiet
<1>10. EndInv'
  BY <1>2 DEF Good, EndInv, quiet, mainVars
<1>11. /\ \A q \in Clients : Clearing(q)' <=> Clearing(q)
       /\ InRound' <=> InRound
  BY <1>1, <1>2 DEF Clearing, InRound
<1>12. Cleared' <=> Cleared
  BY <1>11 DEF Cleared, quiet
<1> QED BY <1>3, <1>4, <1>5, <1>6, <1>8, <1>9, <1>10, <1>11, <1>12


\* The numbers of passengers on which the round depends, when one who has left the
\* seat moves.
LEMMA RodeCounts ==
    ASSUME PlacesOK, NEW p \in Clients, NEW x \in RodePCs, pc[p] \in RodePCs, todo[p] = <<>>,
           GoTo(p, x), UNCHANGED todo
    PROVE  /\ Cardinality(Rode)' = Cardinality(Rode)
           /\ Cardinality(Counted)' = Cardinality(Counted)
                + (IF x \in CountedPCs THEN 1 ELSE 0) - (IF pc[p] \in CountedPCs THEN 1 ELSE 0)
           /\ Cardinality(Present)' = Cardinality(Present)
                + (IF x # "done" THEN 1 ELSE 0) - (IF pc[p] # "done" THEN 1 ELSE 0)
           /\ Pending' = Pending
           /\ pc'[p] = x
           /\ \A q \in Clients : q # p => pc'[q] = pc[q]
<1>1. todo' = [todo EXCEPT ![p] = <<>>]
  BY DEF PlacesOK
<1>2. /\ Cardinality(Rode)' = Cardinality(Rode)
      /\ Cardinality(Counted)' = Cardinality(Counted)
           + (IF x \in CountedPCs THEN 1 ELSE 0) - (IF pc[p] \in CountedPCs THEN 1 ELSE 0)
  BY CountsMove, CountsAre
<1>3. Cardinality(Present)' = Cardinality(Present)
        + (IF x # "done" THEN 1 ELSE 0) - (IF pc[p] # "done" THEN 1 ELSE 0)
  BY CountsMove, CountsAre DEF RodePCs, CountedPCs, PassengerPCs
<1> QED BY <1>1, <1>2, <1>3, PassengerFrame

LEMMA LoadCountGood ==
    ASSUME TypeOK, Good, ~raced, NEW p \in Clients, LoadCount(p)
    PROVE  Good'
<1>0. /\ At(p, pc[p]) /\ pc[p] \in RodePCs /\ "counting" \in RodePCs /\ GoTo(p, "counting")
      /\ UNCHANGED <<quiet, left_seats, queue>> /\ load'[Train] = load[Train]
      /\ PlacesOK /\ todo[p] = <<>> /\ UNCHANGED todo
  BY SemTrainAssumption DEF LoadCount, At, RodePCs, TypeOK, quiet, own, Threads
<1>1. /\ BinaryInv' /\ PassInv' /\ SeatInv' /\ QueueInv' /\ SeatsMatch' /\ CallInv' /\ EndInv'
      /\ Cleared' <=> Cleared
      /\ InRound' <=> InRound
      /\ \A q \in Clients : Clearing(q)' <=> Clearing(q)
  BY <1>0, RodeStep
<1>2. /\ Cardinality(Rode)' = Cardinality(Rode)
      /\ Cardinality(Counted)' = Cardinality(Counted)
      /\ Cardinality(Present)' = Cardinality(Present)
      /\ Pending' = Pending
      /\ pc'[p] = "counting"
      /\ \A q \in Clients : q # p => pc'[q] = pc[q]
  BY <1>0, RodeCounts, CountsAre DEF LoadCount, At, CountedPCs
<1>3. RoundInv'
  BY <1>1, <1>2 DEF LoadCount, quiet, Good, RoundInv, ThisRound
<1>4. ClearInv'
  BY <1>1, <1>2 DEF LoadCount, At, quiet, Good, ClearInv
<1>5. PresentInv'
  BY <1>1, <1>2 DEF LoadCount, At, quiet, mainVars, Good, PresentInv
<1> QED BY <1>1, <1>3, <1>4, <1>5 DEF Good

LEMMA StoreCountGood ==
    ASSUME TypeOK, Good, ~raced, ~raced', NEW p \in Clients, StoreCount(p)
    PROVE  Good'
<1>0. /\ At(p, pc[p]) /\ pc[p] \in RodePCs /\ "counted" \in RodePCs /\ GoTo(p, "counted")
      /\ UNCHANGED <<quiet, left_seats, queue>> /\ load'[Train] = load[Train]
      /\ PlacesOK /\ todo[p] = <<>> /\ UNCHANGED todo
  BY DEF StoreCount, At, RodePCs, CountedPCs, TypeOK, quiet, own
<1>1. /\ BinaryInv' /\ PassInv' /\ SeatInv' /\ QueueInv' /\ SeatsMatch' /\ CallInv' /\ EndInv'
      /\ Cleared' <=> Cleared
      /\ InRound' <=> InRound
      /\ \A q \in Clients : Clearing(q)' <=> Clearing(q)
  BY <1>0, RodeStep
<1>2. /\ Cardinality(Rode)' = Cardinality(Rode)
      /\ Cardinality(Counted)' = Cardinality(Counted) + 1
      /\ Cardinality(Present)' = Cardinality(Present)
      /\ Pending' = Pending
      /\ pc'[p] = "counted"
      /\ \A q \in Clients : q # p => pc'[q] = pc[q]
  BY <1>0, RodeCounts, CountsAre DEF StoreCount, At, CountedPCs
<1>3. count' = count + 1
  BY DEF StoreCount, Notes
\* This passenger has left the seat and is not counted yet: the round goes on.
<1>4. Cardinality(Counted) < Cardinality(Rode)
  <2>1. Counted \subseteq Rode \ {p}
    BY DEF Counted, Rode, StoreCount, At, RodePCs, CountedPCs
  <2>2. p \in Rode /\ IsFiniteSet(Rode)
    BY <1>0, SetFacts DEF Rode
  <2>3. IsFiniteSet(Rode \ {p}) /\ Cardinality(Rode \ {p}) = Cardinality(Rode) - 1
    BY <2>2, FS_RemoveElement
  <2>4. Cardinality(Counted) <= Cardinality(Rode \ {p})
    BY <2>1, <2>3, FS_Subset
  <2> QED BY <1>0, <2>3, <2>4, CountsAre
<1>5. /\ Cardinality(Rode) \in Nat /\ Cardinality(Counted) \in Nat /\ Pending \in Nat
      /\ sem["finish_sem"] \in Nat /\ seats \in Nat \ {0} /\ count \in 0..seats
  BY <1>0, CountsAre, SemTrainAssumption DEF TypeOK, Semaphores, Good, RoundInv
<1>6. InRound /\ ~Cleared /\ count < seats
  BY <1>4, <1>5 DEF Good, RoundInv, ThisRound
<1>7. RoundInv'
  <2>1. (Cardinality(Counted) - count)' = Cardinality(Counted) - count
    BY <1>2, <1>3, <1>5
  <2> QED BY <1>1, <1>2, <1>3, <1>5, <1>6, <2>1 DEF StoreCount, quiet, Good, RoundInv, ThisRound
<1>8. ClearInv'
  <2>1. \A q \in Clients : pc[q] # "clear"
    BY <1>5, <1>6 DEF Good, ClearInv
  <2> QED BY <1>1, <1>2, <2>1 DEF StoreCount, quiet, Good, ClearInv
<1>9. PresentInv'
  BY <1>1, <1>2 DEF StoreCount, At, quiet, mainVars, Good, PresentInv
<1> QED BY <1>1, <1>7, <1>8, <1>9 DEF Good

LEMMA TestCountGood ==
    ASSUME TypeOK, Good, ~raced, NEW p \in Clients, TestCount(p)
    PROVE  Good'
<1> DEFINE x == IF count = seats THEN "clear" ELSE "leaving"
<1>0. /\ At(p, pc[p]) /\ pc[p] \in RodePCs /\ x \in RodePCs /\ GoTo(p, x)
      /\ UNCHANGED <<quiet, left_seats, queue>> /\ load'[Train] = load[Train]
      /\ PlacesOK /\ todo[p] = <<>> /\ UNCHANGED todo
  BY DEF TestCount, At, RodePCs, CountedPCs, TypeOK, quiet, own
<1>1. /\ BinaryInv' /\ PassInv' /\ SeatInv' /\ QueueInv' /\ SeatsMatch' /\ CallInv' /\ EndInv'
      /\ Cleared' <=> Cleared
      /\ InRound' <=> InRound
      /\ \A q \in Clients : Clearing(q)' <=> Clearing(q)
  BY <1>0, RodeStep
<1>2. /\ Cardinality(Rode)' = Cardinality(Rode)
      /\ Cardinality(Counted)' = Cardinality(Counted)
      /\ Cardinality(Present)' = Cardinality(Present)
      /\ Pending' = Pending
      /\ pc'[p] = x
      /\ \A q \in Clients : q # p => pc'[q] = pc[q]
  BY <1>0, RodeCounts, CountsAre DEF TestCount, At, CountedPCs
<1>3. RoundInv'
  BY <1>1, <1>2 DEF TestCount, quiet, Good, RoundInv, ThisRound
<1>4. ClearInv'
  BY <1>1, <1>2 DEF TestCount, At, quiet, Good, ClearInv
<1>5. PresentInv'
  BY <1>1, <1>2 DEF TestCount, At, quiet, mainVars, Good, PresentInv
<1> QED BY <1>1, <1>3, <1>4, <1>5 DEF Good

LEMMA LoadLeftGood ==
    ASSUME TypeOK, Good, ~raced, NEW p \in Clients, LoadLeft(p)
    PROVE  Good'
<1>0. /\ At(p, pc[p]) /\ pc[p] \in RodePCs /\ "storing" \in RodePCs /\ GoTo(p, "storing")
      /\ UNCHANGED <<quiet, left_seats, queue>> /\ load'[Train] = load[Train]
      /\ PlacesOK /\ todo[p] = <<>> /\ UNCHANGED todo
  BY SemTrainAssumption DEF LoadLeft, At, RodePCs, CountedPCs, TypeOK, quiet, own, Threads
<1>1. /\ BinaryInv' /\ PassInv' /\ SeatInv' /\ QueueInv' /\ SeatsMatch' /\ CallInv' /\ EndInv'
      /\ Cleared' <=> Cleared
      /\ InRound' <=> InRound
      /\ \A q \in Clients : Clearing(q)' <=> Clearing(q)
  BY <1>0, RodeStep
<1>2. /\ Cardinality(Rode)' = Cardinality(Rode)
      /\ Cardinality(Counted)' = Cardinality(Counted)
      /\ Cardinality(Present)' = Cardinality(Present)
      /\ Pending' = Pending
      /\ pc'[p] = "storing"
      /\ \A q \in Clients : q # p => pc'[q] = pc[q]
  BY <1>0, RodeCounts, CountsAre DEF LoadLeft, At, CountedPCs
<1>3. RoundInv'
  BY <1>1, <1>2 DEF LoadLeft, quiet, Good, RoundInv, ThisRound
<1>4. ClearInv'
  BY <1>1, <1>2 DEF LoadLeft, At, quiet, Good, ClearInv
<1>5. PresentInv'
  BY <1>1, <1>2 DEF LoadLeft, At, quiet, mainVars, Good, PresentInv
<1> QED BY <1>1, <1>3, <1>4, <1>5 DEF Good

LEMMA LeaveGood ==
    ASSUME TypeOK, Good, ~raced, ~raced', NEW p \in Clients, Leave(p)
    PROVE  Good'
<1>0. /\ At(p, pc[p]) /\ pc[p] \in RodePCs /\ "done" \in RodePCs /\ GoTo(p, "done")
      /\ UNCHANGED <<quiet, left_seats, queue>> /\ load'[Train] = load[Train]
      /\ PlacesOK /\ todo[p] = <<>> /\ UNCHANGED todo
  BY DEF Leave, At, RodePCs, CountedPCs, TypeOK, quiet, own
<1>1. /\ BinaryInv' /\ PassInv' /\ SeatInv' /\ QueueInv' /\ SeatsMatch' /\ CallInv' /\ EndInv'
      /\ Cleared' <=> Cleared
      /\ InRound' <=> InRound
      /\ \A q \in Clients : Clearing(q)' <=> Clearing(q)
  BY <1>0, RodeStep
<1>2. /\ Cardinality(Rode)' = Cardinality(Rode)
      /\ Cardinality(Counted)' = Cardinality(Counted)
      /\ Cardinality(Present)' = Cardinality(Present) - 1
      /\ Pending' = Pending
      /\ pc'[p] = "done"
      /\ \A q \in Clients : q # p => pc'[q] = pc[q]
  BY <1>0, RodeCounts, CountsAre DEF Leave, At, CountedPCs
<1>3. RoundInv'
  BY <1>1, <1>2 DEF Leave, quiet, Good, RoundInv, ThisRound
<1>4. ClearInv'
  BY <1>1, <1>2 DEF Leave, At, quiet, Good, ClearInv
<1>5. PresentInv'
  BY <1>0, <1>1, <1>2, CountsAre DEF Leave, At, Notes, quiet, mainVars, Good, PresentInv
<1> QED BY <1>1, <1>3, <1>4, <1>5 DEF Good

LEMMA ClearGood ==
    ASSUME TypeOK, Good, ~raced, ~raced', NEW p \in Clients, Clear(p)
    PROVE  Good'
<1>0. /\ pc[p] = "clear" /\ todo[p] = <<>> /\ PlacesOK /\ Running
      /\ GoTo(p, "leaving") /\ todo' = [todo EXCEPT ![p] = <<"clear_sem">>]
      /\ UNCHANGED <<raising, load, sem, main, mainLoad, left_seats, passengers, queue>>
      /\ count' = 0 /\ \A q \in Clients \ {p} : pc[q] # "clear"
  BY DEF Clear, At, GoRaising, mainVars, Notes, TypeOK
<1>1. /\ pc'[p] = "leaving" /\ todo'[p] = <<"clear_sem">>
      /\ \A q \in Clients : q # p => pc'[q] = pc[q]
      /\ \A q \in Clients : q # p => todo'[q] = todo[q]
      /\ pc'[Train] = pc[Train]
      /\ todo'[Train] = todo[Train]
      /\ Pending' = Pending
  BY <1>0, PassengerFrame
<1>2. /\ Cardinality(Seated)' = Cardinality(Seated)
      /\ Cardinality(Rode)' = Cardinality(Rode)
      /\ Cardinality(Counted)' = Cardinality(Counted)
      /\ Cardinality(Present)' = Cardinality(Present)
      /\ Cardinality(Callers)' = Cardinality(Callers)
  <2>1. /\ {"clear", "leaving"} \subseteq RodePCs /\ {"clear", "leaving"} \subseteq CountedPCs
        /\ {"clear", "leaving"} \subseteq PassengerPCs \ {"none", "done"}
        /\ "clear" \notin CallerPCs /\ "leaving" \notin CallerPCs
    BY DEF RodePCs, CountedPCs, CallerPCs, HoldPCs, PassengerPCs
  <2> QED BY <1>0, <2>1, CountsStay
<1>3. /\ Cardinality(Rode) \in Nat /\ Cardinality(Counted) \in Nat /\ Pending \in Nat
      /\ sem["finish_sem"] \in Nat /\ seats \in Nat \ {0}
  BY <1>0, CountsAre, SemTrainAssumption DEF TypeOK, Semaphores
<1>4. Cardinality(Counted) <= Cardinality(Rode)
  <2>1. Counted \subseteq Rode /\ IsFiniteSet(Rode)
    BY SetFacts DEF Counted, Rode, RodePCs
  <2> QED BY <2>1, FS_Subset
<1>5. count = seats /\ ~Cleared /\ InRound
  <2>1. count = seats
    BY <1>0 DEF Good, ClearInv
  <2>2. ~Cleared
    BY <2>1, <1>3 DEF Good, RoundInv
  <2>3. InRound
    BY <2>1, <2>2, <1>3, <1>4 DEF Good, RoundInv, ThisRound
  <2> QED BY <2>1, <2>2, <2>3
<1>6. BinaryInv'
  BY <1>0 DEF Good, BinaryInv
<1>7. PassInv'
  <2>1. \A q \in Clients : Holds(q)' <=> Holds(q)
    BY <1>0, <1>1 DEF Holds, HoldPCs
  <2> QED BY <1>0, <2>1 DEF Good, PassInv
<1>8. SeatInv' /\ QueueInv'
  BY <1>0, <1>1 DEF Good, SeatInv, QueueInv
<1>9. SeatsMatch' /\ CallInv' /\ EndInv'
  BY <1>0, <1>1, <1>2 DEF Good, SeatsMatch, CallInv, EndInv
<1>10. Cleared' /\ InRound'
  BY <1>1, <1>5 DEF Cleared, Clearing, InRound
<1>11. RoundInv'
  <2>1. Cardinality(Counted) \in Rounds
    <3>1. PICK k \in Nat : Cardinality(Counted) - seats = seats * k
      BY <1>5 DEF Good, RoundInv, Rounds
    <3>2. seats * (k + 1) = seats * k + seats
      BY <1>3
    <3>3. Cardinality(Counted) = seats * (k + 1) /\ k + 1 \in Nat
      BY <1>3, <3>1, <3>2
    <3> QED BY <3>3 DEF Rounds
  <2>2. (Cardinality(Counted) - count)' = Cardinality(Counted)
    BY <1>0, <1>2, <1>3
  <2> QED BY <1>0, <1>1, <1>2, <1>3, <1>5, <1>10, <2>1, <2>2 DEF Good, RoundInv, ThisRound
<1>12. ClearInv'
  <2>1. \A q \in Clients : ~Clearing(q)
    BY <1>5 DEF Cleared
  <2>2. \A q \in Clients : q # p => ~Clearing(q)'
    BY <1>1, <2>1 DEF Clearing
  <2>3. sem["clear_sem"] # 1
    BY <1>5 DEF Cleared
  <2>4. \A q \in Clients : pc'[q] # "clear"
    BY <1>0, <1>1
  <2> QED BY <1>0, <1>3, <2>2, <2>3, <2>4 DEF ClearInv
<1>13. PresentInv'
  BY <1>0, <1>1, <1>2 DEF Good, PresentInv
<1> QED BY <1>6, <1>7, <1>8, <1>9, <1>11, <1>12, <1>13 DEF Good

\* A step of the passenger who has pass, or gives it up: what it does not change.
LEMMA HoldStep ==
    ASSUME TypeOK, Good, ~raced, NEW p \in Clients, pc[p] \in HoldPCs, todo[p] = <<>>,
           NEW x \in HoldPCs \cup {"seated"}, GoTo(p, x),
           NEW w \in {<<>>, <<"pass">>, <<"train_sem">>}, todo' = [todo EXCEPT ![p] = w],
           UNCHANGED <<sem, passengers, count, mainVars>>
    PROVE  /\ BinaryInv' /\ RoundInv' /\ ClearInv' /\ PresentInv' /\ EndInv'
           /\ pc'[p] = x
           /\ todo'[p] = w
           /\ \A q \in Clients : q # p => pc'[q] = pc[q]
           /\ \A q \in Clients : q # p => todo'[q] = todo[q]
           /\ pc'[Train] = pc[Train]
           /\ todo'[Train] = todo[Train]
           /\ Pending' = Pending
           /\ \A q \in Clients : q # p => pc[q] \notin HoldPCs
           /\ x = "seated" => /\ Cardinality(Seated)' = Cardinality(Seated) + 1
                             /\ Cardinality(Callers)' = Cardinality(Callers) - 1
           /\ x # "seated" => /\ Cardinality(Seated)' = Cardinality(Seated)
                             /\ Cardinality(Callers)' = Cardinality(Callers)
           /\ x # "seated" \/ w = <<"pass">> => PassInv'
<1>0. PlacesOK
  BY DEF TypeOK
<1>1. /\ pc'[p] = x /\ todo'[p] = w
      /\ \A q \in Clients : q # p => pc'[q] = pc[q]
      /\ \A q \in Clients : q # p => todo'[q] = todo[q]
      /\ pc'[Train] = pc[Train]
      /\ todo'[Train] = todo[Train]
      /\ Pending' = Pending
  BY <1>0, PassengerFrame
<1>2. /\ Cardinality(Rode)' = Cardinality(Rode)
      /\ Cardinality(Counted)' = Cardinality(Counted)
      /\ Cardinality(Present)' = Cardinality(Present)
  <2>1. /\ x \notin RodePCs /\ x \notin CountedPCs /\ x \in PassengerPCs \ {"none", "done"}
        /\ pc[p] \notin RodePCs /\ pc[p] \notin CountedPCs
        /\ pc[p] \in PassengerPCs \ {"none", "done"}
    BY DEF RodePCs, CountedPCs, CallerPCs, HoldPCs, PassengerPCs
  <2> QED BY <1>0, <2>1, CountsMove, CountsAre
<1>3. /\ x = "seated" => /\ Cardinality(Seated)' = Cardinality(Seated) + 1
                        /\ Cardinality(Callers)' = Cardinality(Callers) - 1
      /\ x # "seated" => /\ Cardinality(Seated)' = Cardinality(Seated)
                        /\ Cardinality(Callers)' = Cardinality(Callers)
  <2>1. /\ pc[p] # "seated" /\ pc[p] \in CallerPCs
        /\ x \in CallerPCs <=> x # "seated"
    BY DEF CallerPCs, HoldPCs
  <2> QED BY <1>0, <2>1, CountsMove, CountsAre
<1>4. BinaryInv' /\ EndInv'
  BY <1>1 DEF Good, BinaryInv, EndInv, mainVars
<1>5. /\ \A q \in Clients : Clearing(q)' <=> Clearing(q)
      /\ InRound' <=> InRound
  BY <1>1 DEF Clearing, InRound
<1>6. Cleared' <=> Cleared
  BY <1>5 DEF Cleared
<1>7. RoundInv'
  BY <1>1, <1>2, <1>5, <1>6 DEF Good, RoundInv, ThisRound
<1>8. ClearInv'
  BY <1>1, <1>5 DEF Good, ClearInv, HoldPCs
<1>9. PresentInv'
  BY <1>1, <1>2 DEF Good, PresentInv, mainVars, HoldPCs
<1>10. \A q \in Clients : q # p => pc[q] \notin HoldPCs
  BY DEF Good, PassInv, Holds
<1>11. x # "seated" \/ w = <<"pass">> => PassInv'
  <2> SUFFICES ASSUME x # "seated" \/ w = <<"pass">> PROVE PassInv'
    OBVIOUS
  <2>1. \A q \in Clients : Holds(q)' <=> Holds(q)
    BY <1>1 DEF Holds
  <2> QED BY <2>1 DEF Good, PassInv
<1> QED BY <1>1, <1>3, <1>4, <1>7, <1>8, <1>9, <1>10, <1>11

LEMMA TestGood ==
    ASSUME TypeOK, Good, ~raced, NEW p \in Clients, Test(p)
    PROVE  Good'
<1> DEFINE x == IF left_seats < seats THEN "take" ELSE "again"
<1>0. PlacesOK
  BY DEF TypeOK
<1>1. /\ pc[p] = "test" /\ pc[p] \in HoldPCs /\ todo[p] = <<>> /\ GoTo(p, x)
      /\ x \in HoldPCs \cup {"seated"} /\ x # "seated"
      /\ todo' = [todo EXCEPT ![p] = <<>>] /\ <<>> \in {<<>>, <<"pass">>, <<"train_sem">>}
      /\ UNCHANGED <<sem, passengers, count, mainVars, load, left_seats, queue>>
  BY DEF Test, At, HoldPCs, quiet, own, TypeOK, PlacesOK
<1> HIDE DEF x
<1>2. /\ BinaryInv' /\ RoundInv' /\ ClearInv' /\ PresentInv' /\ EndInv' /\ PassInv'
      /\ pc'[p] = x
      /\ \A q \in Clients : q # p => pc'[q] = pc[q]
      /\ pc'[Train] = pc[Train]
      /\ todo'[Train] = todo[Train]
      /\ Pending' = Pending
      /\ Cardinality(Seated)' = Cardinality(Seated)
      /\ Cardinality(Callers)' = Cardinality(Callers)
  BY <1>0, <1>1, HoldStep, CountsAre
<1>3. SeatInv'
  BY <1>1, <1>2 DEF Good, SeatInv, x
<1>4. QueueInv'
  <2>1. x = "again" => left_seats = seats
    BY SemTrainAssumption DEF Good, SeatInv, x
  <2> QED BY <1>1, <1>2, <2>1 DEF Good, QueueInv, x
<1>5. SeatsMatch' /\ CallInv'
  BY <1>1, <1>2 DEF Good, SeatsMatch, CallInv
<1> QED BY <1>2, <1>3, <1>4, <1>5 DEF Good

LEMMA LoadSeatsGood ==
    ASSUME TypeOK, Good, ~raced, NEW p \in Clients, LoadSeats(p)
    PROVE  Good'
<1>0. PlacesOK
  BY DEF TypeOK
<1>1. /\ pc[p] = "take" /\ pc[p] \in HoldPCs /\ todo[p] = <<>> /\ GoTo(p, "taking")
      /\ "taking" \in HoldPCs
      /\ todo' = [todo EXCEPT ![p] = <<>>] /\ <<>> \in {<<>>, <<"pass">>, <<"train_sem">>}
      /\ UNCHANGED <<sem, passengers, count, mainVars, left_seats, queue>>
      /\ load'[Train] = load[Train]
  BY SemTrainAssumption DEF LoadSeats, At, HoldPCs, quiet, own, TypeOK, PlacesOK, Threads
<1>2. /\ BinaryInv' /\ RoundInv' /\ ClearInv' /\ PresentInv' /\ EndInv' /\ PassInv'
      /\ pc'[p] = "taking"
      /\ \A q \in Clients : q # p => pc'[q] = pc[q]
      /\ pc'[Train] = pc[Train]
      /\ todo'[Train] = todo[Train]
      /\ Pending' = Pending
      /\ Cardinality(Seated)' = Cardinality(Seated)
      /\ Cardinality(Callers)' = Cardinality(Callers)
  BY <1>0, <1>1, HoldStep, CountsAre
<1>3. SeatInv'
  BY <1>1, <1>2 DEF Good, SeatInv
<1>4. QueueInv'
  BY <1>1, <1>2 DEF Good, QueueInv
<1>5. SeatsMatch' /\ CallInv'
  BY <1>1, <1>2 DEF Good, SeatsMatch, CallInv
<1> QED BY <1>2, <1>3, <1>4, <1>5 DEF Good

LEMMA TakeSeatGood ==
    ASSUME TypeOK, Good, ~raced, ~raced', NEW p \in Clients, TakeSeat(p)
    PROVE  Good'
<1>0. PlacesOK
  BY DEF TypeOK
<1>1. /\ pc[p] = "taking" /\ pc[p] \in HoldPCs /\ todo[p] = <<>> /\ GoTo(p, "seated")
      /\ todo' = [todo EXCEPT ![p] = <<"pass">>]
      /\ UNCHANGED <<sem, passengers, count, mainVars, load, queue>>
      /\ left_seats' = left_seats + 1
  BY DEF TakeSeat, At, HoldPCs, GoRaising, Notes
<1>2. /\ BinaryInv' /\ RoundInv' /\ ClearInv' /\ PresentInv' /\ EndInv' /\ PassInv'
      /\ pc'[p] = "seated"
      /\ \A q \in Clients : q # p => pc'[q] = pc[q]
      /\ pc'[Train] = pc[Train]
      /\ todo'[Train] = todo[Train]
      /\ Pending' = Pending
      /\ \A q \in Clients : q # p => pc[q] \notin HoldPCs
      /\ Cardinality(Seated)' = Cardinality(Seated) + 1
      /\ Cardinality(Callers)' = Cardinality(Callers) - 1
  BY <1>0, <1>1, HoldStep, CountsAre
<1>3. SeatInv'
  BY <1>1, <1>2, SemTrainAssumption DEF Good, SeatInv, HoldPCs
<1>4. QueueInv'
  BY <1>1, <1>2 DEF Good, QueueInv, HoldPCs
<1>5. /\ Cardinality(Seated) \in Nat /\ Cardinality(Callers) \in Nat /\ Pending \in Nat
      /\ left_seats \in Int /\ seats \in Int /\ sem["finish_sem"] \in Nat
  BY CountsAre, SemTrainAssumption DEF TypeOK, Semaphores
<1>6. SeatsMatch'
  <2>1. Cardinality(Seated) = left_seats + sem["finish_sem"] + Pending
    BY DEF Good, SeatsMatch
  <2> QED BY <1>1, <1>2, <1>5, <2>1 DEF SeatsMatch
<1>7. CallInv'
  BY <1>1, <1>2, <1>5 DEF Good, CallInv
<1> QED BY <1>2, <1>3, <1>4, <1>6, <1>7 DEF Good

LEMMA AgainGood ==
    ASSUME TypeOK, Good, ~raced, NEW p \in Clients, Again(p)
    PROVE  Good'
<1> DEFINE x == IF left_seats = seats THEN "test" ELSE "enqueue"
           w == IF left_seats = seats THEN <<"train_sem">> ELSE <<>>
<1>0. PlacesOK
  BY DEF TypeOK
<1>1. /\ pc[p] = "again" /\ pc[p] \in HoldPCs /\ todo[p] = <<>> /\ GoTo(p, x)
      /\ x \in HoldPCs \cup {"seated"} /\ x # "seated"
      /\ todo' = [todo EXCEPT ![p] = w]
      /\ w \in {<<>>, <<"pass">>, <<"train_sem">>}
      /\ UNCHANGED <<sem, passengers, count, mainVars, load, left_seats, queue>>
  BY DEF Again, At, HoldPCs, GoRaising
<1> HIDE DEF x, w
<1>2. /\ BinaryInv' /\ RoundInv' /\ ClearInv' /\ PresentInv' /\ EndInv' /\ PassInv'
      /\ pc'[p] = x
      /\ \A q \in Clients : q # p => pc'[q] = pc[q]
      /\ pc'[Train] = pc[Train]
      /\ todo'[Train] = todo[Train]
      /\ Pending' = Pending
      /\ Cardinality(Seated)' = Cardinality(Seated)
      /\ Cardinality(Callers)' = Cardinality(Callers)
  BY <1>0, <1>1, HoldStep, CountsAre
<1>3. SeatInv'
  BY <1>1, <1>2 DEF Good, SeatInv, x
<1>4. QueueInv'
  <2>1. x = "enqueue" => pc[Train] = "release"
    BY <1>1 DEF Good, QueueInv, x
  <2> QED BY <1>1, <1>2, <2>1 DEF Good, QueueInv, x
<1>5. SeatsMatch' /\ CallInv'
  BY <1>1, <1>2 DEF Good, SeatsMatch, CallInv
<1> QED BY <1>2, <1>3, <1>4, <1>5 DEF Good

LEMMA EnqueueGood ==
    ASSUME TypeOK, Good, ~raced, NEW p \in Clients, Enqueue(p)
    PROVE  Good'
<1>0. PlacesOK
  BY DEF TypeOK
<1>1. /\ pc[p] = "enqueue" /\ pc[p] \in HoldPCs /\ todo[p] = <<>> /\ GoTo(p, "queued")
      /\ "queued" \in HoldPCs
      /\ todo' = [todo EXCEPT ![p] = <<>>] /\ <<>> \in {<<>>, <<"pass">>, <<"train_sem">>}
      /\ UNCHANGED <<sem, passengers, count, mainVars, left_seats, load>>
      /\ queue' = queue + 1 /\ queue \in Nat
  BY DEF Enqueue, At, HoldPCs, quiet, own, TypeOK, PlacesOK
<1>2. /\ BinaryInv' /\ RoundInv' /\ ClearInv' /\ PresentInv' /\ EndInv' /\ PassInv'
      /\ pc'[p] = "queued"
      /\ \A q \in Clients : q # p => pc'[q] = pc[q]
      /\ pc'[Train] = pc[Train]
      /\ todo'[Train] = todo[Train]
      /\ Pending' = Pending
      /\ \A q \in Clients : q # p => pc[q] \notin HoldPCs
      /\ Cardinality(Seated)' = Cardinality(Seated)
      /\ Cardinality(Callers)' = Cardinality(Callers)
  BY <1>0, <1>1, HoldStep, CountsAre
<1>3. SeatInv'
  BY <1>1, <1>2 DEF Good, SeatInv
<1>4. QueueInv'
  <2>1. pc[Train] = "release" /\ load[Train] \in 0..queue
    BY <1>1 DEF Good, QueueInv
  <2> QED BY <1>1, <1>2, <2>1 DEF QueueInv, HoldPCs
<1>5. SeatsMatch' /\ CallInv'
  BY <1>1, <1>2 DEF Good, SeatsMatch, CallInv
<1> QED BY <1>2, <1>3, <1>4, <1>5 DEF Good

\* A step of the train: what it does not change.
LEMMA TrainKeeps ==
    ASSUME TypeOK, Good, NEW x, NEW w, GoTo(Train, x), todo' = [todo EXCEPT ![Train] = w],
           UNCHANGED <<sem, passengers, count, mainVars>>
    PROVE  /\ BinaryInv' /\ PassInv' /\ ClearInv' /\ PresentInv'
           /\ Cleared' <=> Cleared
           /\ pc'[Train] = x
           /\ todo'[Train] = w
           /\ \A q \in Clients : pc'[q] = pc[q]
           /\ \A q \in Clients : todo'[q] = todo[q]
           /\ Seated' = Seated /\ Rode' = Rode /\ Counted' = Counted
           /\ Present' = Present /\ Callers' = Callers
<1>1. /\ pc'[Train] = x
      /\ todo'[Train] = w
      /\ \A q \in Clients : pc'[q] = pc[q]
      /\ \A q \in Clients : todo'[q] = todo[q]
      /\ Seated' = Seated /\ Rode' = Rode /\ Counted' = Counted
      /\ Present' = Present /\ Callers' = Callers
  BY TrainFrame DEF TypeOK
<1>2. BinaryInv'
  BY DEF Good, BinaryInv
<1>3. PassInv'
  <2>1. \A q \in Clients : Holds(q)' <=> Holds(q)
    BY <1>1 DEF Holds
  <2> QED BY <2>1 DEF Good, PassInv
<1>4. \A q \in Clients : Clearing(q)' <=> Clearing(q)
  BY <1>1 DEF Clearing
<1>5. Cleared' <=> Cleared
  BY <1>4 DEF Cleared
<1>6. ClearInv'
  BY <1>1, <1>4 DEF Good, ClearInv
<1>7. PresentInv'
  BY <1>1 DEF Good, PresentInv, mainVars
<1> QED BY <1>1, <1>2, <1>3, <1>5, <1>6, <1>7

\* The same for a step outside a round.
LEMMA TrainWaits ==
    ASSUME TypeOK, Good, ~raced, At(Train, pc[Train]), pc[Train] \notin {"release", "emptying"},
           NEW x \in {"loop", "poll", "any", "few", "ask", "called", "done"}, GoTo(Train, x),
           NEW w \in {<<>>, <<"train_sem">>, <<"main_sem">>}, todo' = [todo EXCEPT ![Train] = w],
           UNCHANGED <<sem, passengers, count, mainVars, left_seats, queue>>
    PROVE  /\ BinaryInv' /\ PassInv' /\ SeatInv' /\ QueueInv' /\ SeatsMatch'
           /\ RoundInv' /\ ClearInv' /\ PresentInv'
           /\ pc'[Train] = x
           /\ todo'[Train] = w
           /\ Callers' = Callers
<1>1. /\ BinaryInv' /\ PassInv' /\ ClearInv' /\ PresentInv'
      /\ Cleared' <=> Cleared
      /\ pc'[Train] = x
      /\ todo'[Train] = w
      /\ \A q \in Clients : pc'[q] = pc[q]
      /\ \A q \in Clients : todo'[q] = todo[q]
      /\ Seated' = Seated /\ Rode' = Rode /\ Counted' = Counted
      /\ Present' = Present /\ Callers' = Callers
  BY TrainKeeps
<1>2. Pending = 0 /\ Pending' = 0
  <2>1. todo[Train] = <<>>
    BY DEF At
  <2> QED BY <1>1, <2>1, PendingFacts DEF Pending
<1>3. ~InRound /\ ~InRound'
  BY <1>1 DEF InRound
<1>4. SeatInv' /\ QueueInv'
  BY <1>1 DEF Good, SeatInv, QueueInv
<1>5. SeatsMatch' /\ RoundInv'
  BY <1>1, <1>2, <1>3 DEF Good, SeatsMatch, RoundInv, ThisRound
<1> QED BY <1>1, <1>4, <1>5

LEMMA LoopGood ==
    ASSUME TypeOK, Good, ~raced, Loop
    PROVE  Good'
<1>1. At(Train, pc[Train]) /\ pc[Train] = "loop"
  BY DEF Loop, At
<1>2. CASE passengers > 0
  <2>1. /\ GoTo(Train, "poll") /\ todo' = [todo EXCEPT ![Train] = <<>>]
        /\ UNCHANGED <<sem, passengers, count, mainVars, left_seats, queue>>
    BY <1>2 DEF Loop, GoRaising
  <2>2. /\ BinaryInv' /\ PassInv' /\ SeatInv' /\ QueueInv' /\ SeatsMatch'
        /\ RoundInv' /\ ClearInv' /\ PresentInv' /\ pc'[Train] = "poll"
    BY <1>1, <2>1, TrainWaits
  <2> QED BY <2>2 DEF Good, CallInv, EndInv
<1>3. CASE ~(passengers > 0)
  <2>1. /\ GoTo(Train, "done") /\ todo' = [todo EXCEPT ![Train] = <<"main_sem">>]
        /\ UNCHANGED <<sem, passengers, count, mainVars, left_seats, queue>>
    BY <1>3 DEF Loop, GoRaising
  <2>2. /\ BinaryInv' /\ PassInv' /\ SeatInv' /\ QueueInv' /\ SeatsMatch'
        /\ RoundInv' /\ ClearInv' /\ PresentInv'
        /\ pc'[Train] = "done" /\ todo'[Train] = <<"main_sem">>
    BY <1>1, <2>1, TrainWaits
  <2> QED BY <2>2 DEF Good, CallInv, EndInv
<1> QED BY <1>2, <1>3

LEMMA PollGood ==
    ASSUME TypeOK, Good, ~raced, Poll
    PROVE  Good'
<1> DEFINE x == IF Polls(pc[Train]) THEN PollNext(pc[Train]) ELSE "ask"
<1>1. /\ At(Train, pc[Train]) /\ pc[Train] \notin {"release", "emptying"}
      /\ GoTo(Train, x) /\ x \in {"loop", "poll", "any", "few", "ask", "called", "done"}
      /\ x \notin {"called", "done"}
      /\ todo' = [todo EXCEPT ![Train] = <<>>]
      /\ UNCHANGED <<sem, passengers, count, mainVars, left_seats, queue>>
  BY DEF Poll, PollNext, At, quiet, own, TypeOK, PlacesOK
<1> HIDE DEF x
<1>2. /\ BinaryInv' /\ PassInv' /\ SeatInv' /\ QueueInv' /\ SeatsMatch'
      /\ RoundInv' /\ ClearInv' /\ PresentInv' /\ pc'[Train] = x
  BY <1>1, TrainWaits
<1> QED BY <1>1, <1>2 DEF Good, CallInv, EndInv

LEMMA AskGood ==
    ASSUME TypeOK, Good, ~raced, ~raced', Ask
    PROVE  Good'
<1> DEFINE w == IF passengers = seats THEN <<"train_sem">> ELSE <<>>
<1>1. /\ At(Train, pc[Train]) /\ pc[Train] = "ask" /\ GoTo(Train, "called")
      /\ w \in {<<>>, <<"train_sem">>, <<"main_sem">>}
      /\ todo' = [todo EXCEPT ![Train] = w]
      /\ UNCHANGED <<sem, passengers, count, mainVars, left_seats, queue>>
      /\ passengers = seats \/ ~NobodyCalls
  BY DEF Ask, At, GoRaising, Notes
<1> HIDE DEF w
<1>2. /\ BinaryInv' /\ PassInv' /\ SeatInv' /\ QueueInv' /\ SeatsMatch'
      /\ RoundInv' /\ ClearInv' /\ PresentInv'
      /\ pc'[Train] = "called" /\ todo'[Train] = w /\ Callers' = Callers
  BY <1>1, TrainWaits
<1>3. CallInv'
  <2>1. CASE passengers = seats
    BY <1>2, <2>1 DEF CallInv, w
  <2>2. CASE ~NobodyCalls
    <3>1. sem["train_sem"] \in Nat /\ sem["train_sem"] <= 1
      BY DEF TypeOK, Good, BinaryInv, Semaphores
    <3>2. Cardinality(Callers) \in Nat /\ left_seats \in Int /\ seats \in Nat
      BY CountsAre, SemTrainAssumption DEF TypeOK
    <3>3. sem["train_sem"] = 1 \/ Cardinality(Callers) + left_seats > seats
      <4>1. sem["train_sem"] # 0 \/ ~(Cardinality(Callers) + left_seats <= seats)
        BY <2>2 DEF NobodyCalls
      <4> QED BY <3>1, <3>2, <4>1
    <3> QED BY <1>1, <1>2, <3>3 DEF CallInv
  <2> QED BY <1>1, <2>1, <2>2
<1> QED BY <1>2, <1>3 DEF Good, EndInv

LEMMA RideGood ==
    ASSUME TypeOK, Good, ~raced, ~raced', Ride
    PROVE  Good'
<1>1. /\ pc[Train] = "ride" /\ todo[Train] = <<>>
      /\ GoTo(Train, "release") /\ todo' = [todo EXCEPT ![Train] = Ups(seats)]
      /\ UNCHANGED <<sem, passengers, count, mainVars, queue>>
      /\ left_seats = seats /\ left_seats' = 0 /\ load'[Train] = 0
  BY DEF Ride, At, Notes, Ups, TypeOK, Threads
<1>2. /\ BinaryInv' /\ PassInv' /\ ClearInv' /\ PresentInv'
      /\ Cleared' <=> Cleared
      /\ pc'[Train] = "release"
      /\ todo'[Train] = Ups(seats)
      /\ \A q \in Clients : pc'[q] = pc[q]
      /\ Seated' = Seated /\ Rode' = Rode /\ Counted' = Counted
  BY <1>1, TrainKeeps
<1>3. Pending = 0 /\ Pending' = seats
  <2>1. seats \in Nat
    BY SemTrainAssumption
  <2> QED BY <1>1, <1>2, <2>1, PendingFacts DEF Pending
<1>4. /\ Cardinality(Seated) \in Nat /\ Cardinality(Rode) \in Nat /\ Cardinality(Counted) \in Nat
      /\ sem["finish_sem"] \in Nat /\ seats \in Nat \ {0} /\ queue \in Nat
      /\ sem'["finish_sem"] = sem["finish_sem"] /\ count \in 0..seats
  BY <1>1, CountsAre, SemTrainAssumption DEF TypeOK, Semaphores, Good, RoundInv
<1>5. SeatInv'
  BY <1>1, <1>4 DEF SeatInv
<1>6. QueueInv'
  <2>1. 0 < queue' \/ \A q \in Clients : pc[q] # "queued" \/ sem["full_sem"] = 1
    BY <1>1 DEF Good, QueueInv
  <2> QED BY <1>1, <1>2, <1>4, <2>1 DEF QueueInv
<1>7. SeatsMatch'
  BY <1>1, <1>2, <1>3, <1>4 DEF Good, SeatsMatch
<1>8. RoundInv'
  <2>1. ~InRound /\ InRound' /\ ~Cleared
    BY <1>1, <1>2 DEF InRound, Good, RoundInv
  <2> QED BY <1>1, <1>2, <1>3, <1>4, <2>1 DEF Good, RoundInv, ThisRound
<1>9. CallInv' /\ EndInv'
  BY <1>2 DEF CallInv, EndInv
<1> QED BY <1>2, <1>5, <1>6, <1>7, <1>8, <1>9 DEF Good

LEMMA ReleaseGood ==
    ASSUME TypeOK, Good, ~raced, ~raced', Release
    PROVE  Good'
<1>1. /\ pc[Train] = "release" /\ todo[Train] = <<>>
      /\ UNCHANGED <<sem, passengers, count, mainVars, queue, left_seats>>
  BY DEF Release, At
<1>2. Pending = 0
  BY <1>1, PendingFacts DEF Pending
<1>3. CASE load[Train] < queue
  <2>1. /\ GoTo(Train, "release") /\ todo' = [todo EXCEPT ![Train] = <<"full_sem">>]
        /\ load'[Train] = load[Train] + 1
    BY <1>3 DEF Release, TypeOK, Threads
  <2>2. /\ BinaryInv' /\ PassInv' /\ ClearInv' /\ PresentInv'
        /\ Cleared' <=> Cleared
        /\ pc'[Train] = "release"
        /\ todo'[Train] = <<"full_sem">>
        /\ \A q \in Clients : pc'[q] = pc[q]
        /\ Seated' = Seated /\ Rode' = Rode /\ Counted' = Counted
    BY <1>1, <2>1, TrainKeeps
  <2>3. Pending' = 0
    BY <2>2, PendingFacts DEF Pending
  <2>4. SeatInv'
    BY <1>1, <2>2 DEF Good, SeatInv
  <2>5. QueueInv'
    BY <1>1, <1>3, <2>1, <2>2 DEF Good, QueueInv, TypeOK
  <2>6. SeatsMatch'
    BY <1>1, <1>2, <2>2, <2>3 DEF Good, SeatsMatch
  <2>7. RoundInv'
    <3>1. InRound /\ InRound'
      BY <1>1, <2>2 DEF InRound
    <3> QED BY <1>1, <1>2, <2>2, <2>3, <3>1 DEF Good, RoundInv, ThisRound
  <2>8. CallInv' /\ EndInv'
    BY <2>2 DEF CallInv, EndInv
  <2> QED BY <2>2, <2>4, <2>5, <2>6, <2>7, <2>8 DEF Good
<1>4. CASE ~(load[Train] < queue)
  <2>1. /\ GoTo(Train, "emptying") /\ todo' = [todo EXCEPT ![Train] = <<>>]
        /\ \A q \in Clients : pc[q] \notin {"again", "enqueue"}
    BY <1>1, <1>4 DEF Release, Notes, TypeOK, PlacesOK
  <2>2. /\ BinaryInv' /\ PassInv' /\ ClearInv' /\ PresentInv'
        /\ Cleared' <=> Cleared
        /\ pc'[Train] = "emptying"
        /\ todo'[Train] = <<>>
        /\ \A q \in Clients : pc'[q] = pc[q]
        /\ Seated' = Seated /\ Rode' = Rode /\ Counted' = Counted
    BY <1>1, <2>1, TrainKeeps
  <2>3. Pending' = 0
    BY <2>2, PendingFacts DEF Pending
  <2>4. SeatInv'
    BY <1>1, <2>2 DEF Good, SeatInv
  <2>5. QueueInv'
    BY <1>1, <1>4, <2>1, <2>2 DEF Good, QueueInv
  <2>6. SeatsMatch'
    BY <1>1, <1>2, <2>2, <2>3 DEF Good, SeatsMatch
  <2>7. RoundInv'
    <3>1. InRound /\ InRound'
      BY <1>1, <2>2 DEF InRound
    <3> QED BY <1>1, <1>2, <2>2, <2>3, <3>1 DEF Good, RoundInv, ThisRound
  <2>8. CallInv' /\ EndInv'
    BY <2>2 DEF CallInv, EndInv
  <2> QED BY <2>2, <2>4, <2>5, <2>6, <2>7, <2>8 DEF Good
<1> QED BY <1>3, <1>4

\* A passenger has raised a semaphore.
LEMMA RaisedByPassenger ==
    ASSUME TypeOK, Good, ~raced, NEW p \in Clients, todo[p] # <<>>,
           todo' = [todo EXCEPT ![p] = Tail(@)], sem' = [sem EXCEPT ![Head(todo[p])] = 1],
           UNCHANGED <<pc, load, left_seats, passengers, queue, count, mainVars>>
    PROVE  Good'
<1>1. \/ pc[p] = "seated" /\ todo[p] = <<"pass">>
      \/ pc[p] = "test" /\ todo[p] = <<"train_sem">>
      \/ pc[p] = "leaving" /\ todo[p] = <<"clear_sem">>
  BY RaisesFacts DEF TypeOK, PlacesOK
<1>2. PlacesOK /\ todo' = [todo EXCEPT ![p] = <<>>] /\ GoTo(p, pc[p])
  <2>1. Tail(todo[p]) = <<>>
    BY RaisesFacts DEF TypeOK, PlacesOK
  <2>2. todo' = [todo EXCEPT ![p] = <<>>]
    BY <2>1 DEF TypeOK, PlacesOK
  <2> QED BY <2>2 DEF TypeOK, PlacesOK, GoTo
<1>3. /\ todo'[p] = <<>>
      /\ \A q \in Clients : q # p => todo'[q] = todo[q]
      /\ todo'[Train] = todo[Train]
      /\ Pending' = Pending
  BY <1>2, PassengerFrame
<1>4. /\ Seated' = Seated /\ Rode' = Rode /\ Counted' = Counted
      /\ Present' = Present /\ Callers' = Callers /\ (InRound' <=> InRound)
  BY DEF Seated, Rode, Counted, Present, Callers, InRound
<1>5. SeatInv' /\ PresentInv'
  BY <1>4 DEF Good, SeatInv, PresentInv, mainVars
<1>6. /\ \A s \in Semaphores : s # Head(todo[p]) => sem'[s] = sem[s]
      /\ Head(todo[p]) \in Semaphores => sem'[Head(todo[p])] = 1
      /\ Head(todo[p]) \in Semaphores => BinaryInv'
  BY DEF TypeOK, Good, BinaryInv
<1>7. CASE pc[p] = "seated" /\ todo[p] = <<"pass">>
  <2>1. /\ sem'["pass"] = 1 /\ sem'["full_sem"] = sem["full_sem"]
        /\ sem'["finish_sem"] = sem["finish_sem"] /\ sem'["clear_sem"] = sem["clear_sem"]
        /\ sem'["train_sem"] = sem["train_sem"] /\ sem'["main_sem"] = sem["main_sem"]
        /\ BinaryInv'
    BY <1>6, <1>7 DEF Semaphores
  <2>2. PassInv'
    <3>1. Holds(p) /\ ~Holds(p)'
      BY <1>3, <1>7 DEF Holds, HoldPCs
    <3>2. \A q \in Clients : q # p => ~Holds(q)
      BY <3>1 DEF Good, PassInv
    <3>3. \A q \in Clients : ~Holds(q)'
      BY <1>3, <3>1, <3>2 DEF Holds
    <3> QED BY <2>1, <3>3 DEF PassInv
  <2>3. \A q \in Clients : Clearing(q)' <=> Clearing(q)
    BY <1>3, <1>7 DEF Clearing
  <2>4. Cleared' <=> Cleared
    BY <2>1, <2>3 DEF Cleared
  <2>5. QueueInv' /\ SeatsMatch'
    BY <1>3, <1>4, <2>1 DEF Good, QueueInv, SeatsMatch
  <2>6. RoundInv'
    BY <1>3, <1>4, <2>1, <2>4 DEF Good, RoundInv, ThisRound
  <2>7. ClearInv'
    BY <2>1, <2>3 DEF Good, ClearInv
  <2>8. CallInv' /\ EndInv'
    BY <1>3, <1>4, <2>1 DEF Good, CallInv, EndInv, mainVars
  <2> QED BY <1>5, <2>1, <2>2, <2>5, <2>6, <2>7, <2>8 DEF Good
<1>8. CASE pc[p] = "test" /\ todo[p] = <<"train_sem">>
  <2>1. /\ sem'["pass"] = sem["pass"] /\ sem'["full_sem"] = sem["full_sem"]
        /\ sem'["finish_sem"] = sem["finish_sem"] /\ sem'["clear_sem"] = sem["clear_sem"]
        /\ sem'["train_sem"] = 1 /\ sem'["main_sem"] = sem["main_sem"]
        /\ BinaryInv'
    BY <1>6, <1>8 DEF Semaphores
  <2>2. PassInv'
    <3>1. \A q \in Clients : Holds(q)' <=> Holds(q)
      BY <1>3, <1>8 DEF Holds
    <3> QED BY <2>1, <3>1 DEF Good, PassInv
  <2>3. \A q \in Clients : Clearing(q)' <=> Clearing(q)
    BY <1>3, <1>8 DEF Clearing
  <2>4. Cleared' <=> Cleared
    BY <2>1, <2>3 DEF Cleared
  <2>5. QueueInv' /\ SeatsMatch'
    BY <1>3, <1>4, <2>1 DEF Good, QueueInv, SeatsMatch
  <2>6. RoundInv'
    BY <1>3, <1>4, <2>1, <2>4 DEF Good, RoundInv, ThisRound
  <2>7. ClearInv'
    BY <2>1, <2>3 DEF Good, ClearInv
  <2>8. CallInv' /\ EndInv'
    BY <1>3, <1>4, <2>1 DEF Good, CallInv, EndInv, mainVars
  <2> QED BY <1>5, <2>1, <2>2, <2>5, <2>6, <2>7, <2>8 DEF Good
<1>9. CASE pc[p] = "leaving" /\ todo[p] = <<"clear_sem">>
  <2>1. /\ sem'["pass"] = sem["pass"] /\ sem'["full_sem"] = sem["full_sem"]
        /\ sem'["finish_sem"] = sem["finish_sem"] /\ sem'["clear_sem"] = 1
        /\ sem'["train_sem"] = sem["train_sem"] /\ sem'["main_sem"] = sem["main_sem"]
        /\ BinaryInv'
    BY <1>6, <1>9 DEF Semaphores
  <2>2. PassInv'
    <3>1. \A q \in Clients : Holds(q)' <=> Holds(q)
      BY <1>3, <1>9 DEF Holds
    <3> QED BY <2>1, <3>1 DEF Good, PassInv
  <2>3. Clearing(p) /\ ~Clearing(p)' /\ \A q \in Clients : ~Clearing(q)'
    BY <1>3, <1>9 DEF Good, ClearInv, Clearing
  <2>4. Cleared' /\ Cleared
    BY <2>1, <2>3 DEF Cleared
  <2>5. QueueInv' /\ SeatsMatch'
    BY <1>3, <1>4, <2>1 DEF Good, QueueInv, SeatsMatch
  <2>6. RoundInv'
    BY <1>3, <1>4, <2>1, <2>4 DEF Good, RoundInv, ThisRound
  <2>7. ClearInv'
    BY <2>1, <2>3 DEF Good, ClearInv
  <2>8. CallInv' /\ EndInv'
    BY <1>3, <1>4, <2>1 DEF Good, CallInv, EndInv, mainVars
  <2> QED BY <1>5, <2>1, <2>2, <2>5, <2>6, <2>7, <2>8 DEF Good
<1> QED BY <1>1, <1>7, <1>8, <1>9

\* The train has raised a semaphore.
LEMMA RaisedByTrain ==
    ASSUME TypeOK, Good, ~raced, todo[Train] # <<>>,
           todo' = [todo EXCEPT ![Train] = Tail(@)], sem' = [sem EXCEPT ![Head(todo[Train])] = 1],
           Head(todo[Train]) = "finish_sem" => sem["finish_sem"] = 0,
           UNCHANGED <<pc, load, left_seats, passengers, queue, count, mainVars>>
    PROVE  Good'
<1>1. seats \in Nat /\ Train \notin Clients
  BY SemTrainAssumption
<1>2. \/ pc[Train] = "called" /\ todo[Train] = <<"train_sem">>
      \/ pc[Train] = "done" /\ todo[Train] = <<"main_sem">>
      \/ pc[Train] = "release" /\ todo[Train] = <<"full_sem">>
      \/ pc[Train] = "release" /\ \E n \in 0..seats : todo[Train] = Ups(n)
  BY TrainRaisesFacts DEF TypeOK, PlacesOK
<1>3. /\ \A q \in Clients : todo'[q] = todo[q]
      /\ todo'[Train] = Tail(todo[Train])
  BY <1>1 DEF TypeOK, PlacesOK, Threads
<1>4. /\ Seated' = Seated /\ Rode' = Rode /\ Counted' = Counted
      /\ Present' = Present /\ Callers' = Callers /\ (InRound' <=> InRound)
  BY DEF Seated, Rode, Counted, Present, Callers, InRound
<1>5. SeatInv' /\ PresentInv'
  BY <1>4 DEF Good, SeatInv, PresentInv, mainVars
<1>6. /\ \A s \in Semaphores : s # Head(todo[Train]) => sem'[s] = sem[s]
      /\ Head(todo[Train]) \in Semaphores => sem'[Head(todo[Train])] = 1
      /\ Head(todo[Train]) \in Semaphores => BinaryInv'
  BY DEF TypeOK, Good, BinaryInv
<1>7. \A q \in Clients : Clearing(q)' <=> Clearing(q)
  BY <1>3 DEF Clearing
<1>8. \A q \in Clients : Holds(q)' <=> Holds(q)
  BY <1>3 DEF Holds
<1>9. sem'["pass"] = sem["pass"] => PassInv'
  BY <1>8 DEF Good, PassInv
<1>10. sem'["clear_sem"] = sem["clear_sem"] => ClearInv' /\ (Cleared' <=> Cleared)
  BY <1>7 DEF Good, ClearInv, Cleared
<1>11. CASE pc[Train] = "called" /\ todo[Train] = <<"train_sem">>
  <2>1. /\ sem'["pass"] = sem["pass"] /\ sem'["full_sem"] = sem["full_sem"]
        /\ sem'["finish_sem"] = sem["finish_sem"] /\ sem'["clear_sem"] = sem["clear_sem"]
        /\ sem'["train_sem"] = 1 /\ BinaryInv' /\ todo'[Train] = <<>>
    BY <1>3, <1>6, <1>11 DEF Semaphores
  <2>2. Pending' = 0 /\ Pending = 0
    BY <1>11, <2>1, PendingFacts DEF Pending
  <2>3. QueueInv' /\ SeatsMatch'
    BY <1>4, <1>11, <2>1, <2>2 DEF Good, QueueInv, SeatsMatch
  <2>4. RoundInv'
    BY <1>4, <1>10, <2>1, <2>2 DEF Good, RoundInv, ThisRound
  <2>5. CallInv' /\ EndInv'
    BY <1>11, <2>1 DEF CallInv, EndInv
  <2> QED BY <1>5, <1>9, <1>10, <2>1, <2>3, <2>4, <2>5 DEF Good
<1>12. CASE pc[Train] = "done" /\ todo[Train] = <<"main_sem">>
  <2>1. /\ sem'["pass"] = sem["pass"] /\ sem'["full_sem"] = sem["full_sem"]
        /\ sem'["finish_sem"] = sem["finish_sem"] /\ sem'["clear_sem"] = sem["clear_sem"]
        /\ sem'["main_sem"] = 1 /\ BinaryInv' /\ todo'[Train] = <<>>
    BY <1>3, <1>6, <1>12 DEF Semaphores
  <2>2. Pending' = 0 /\ Pending = 0
    BY <1>12, <2>1, PendingFacts DEF Pending
  <2>3. QueueInv' /\ SeatsMatch'
    BY <1>4, <1>12, <2>1, <2>2 DEF Good, QueueInv, SeatsMatch
  <2>4. RoundInv'
    BY <1>4, <1>10, <2>1, <2>2 DEF Good, RoundInv, ThisRound
  <2>5. CallInv' /\ EndInv'
    BY <1>12, <2>1 DEF CallInv, EndInv
  <2> QED BY <1>5, <1>9, <1>10, <2>1, <2>3, <2>4, <2>5 DEF Good
<1>13. CASE pc[Train] = "release" /\ todo[Train] = <<"full_sem">>
  <2>1. /\ sem'["pass"] = sem["pass"] /\ sem'["full_sem"] = 1
        /\ sem'["finish_sem"] = sem["finish_sem"] /\ sem'["clear_sem"] = sem["clear_sem"]
        /\ BinaryInv' /\ todo'[Train] = <<>>
    BY <1>3, <1>6, <1>13 DEF Semaphores
  <2>2. Pending' = 0 /\ Pending = 0
    BY <1>13, <2>1, PendingFacts DEF Pending
  <2>3. QueueInv' /\ SeatsMatch'
    BY <1>4, <1>13, <2>1, <2>2 DEF Good, QueueInv, SeatsMatch
  <2>4. RoundInv'
    BY <1>4, <1>10, <2>1, <2>2 DEF Good, RoundInv, ThisRound
  <2>5. CallInv' /\ EndInv'
    BY <1>13, <2>1 DEF CallInv, EndInv
  <2> QED BY <1>5, <1>9, <1>10, <2>1, <2>3, <2>4, <2>5 DEF Good
<1>14. ASSUME pc[Train] = "release", NEW n \in 0..seats, todo[Train] = Ups(n)
       PROVE  Good'
  <2>1. n \in Nat /\ n > 0 /\ n - 1 \in Nat
    BY <1>1, <1>14, UpsFacts
  <2>2. Head(todo[Train]) = "finish_sem" /\ Tail(todo[Train]) = Ups(n - 1)
    BY <1>14, <2>1, UpsFacts
  <2>3. /\ sem'["pass"] = sem["pass"] /\ sem'["full_sem"] = sem["full_sem"]
        /\ sem'["finish_sem"] = 1 /\ sem["finish_sem"] = 0
        /\ sem'["clear_sem"] = sem["clear_sem"]
        /\ BinaryInv' /\ todo'[Train] = Ups(n - 1)
    BY <1>3, <1>6, <2>2 DEF Semaphores
  <2>4. Pending = n /\ Pending' = n - 1
    BY <1>14, <2>1, <2>3, PendingFacts DEF Pending
  <2>5. /\ Cardinality(Seated) \in Nat /\ Cardinality(Rode) \in Nat
        /\ Cardinality(Counted) \in Nat /\ left_seats \in Int
    BY CountsAre DEF TypeOK
  <2>6. QueueInv'
    <3>1. todo[Train] # <<"full_sem">>
      BY <1>14, <2>1, UpsFacts
    <3> QED BY <2>3, <3>1 DEF Good, QueueInv
  <2>7. SeatsMatch'
    BY <1>4, <2>1, <2>3, <2>4, <2>5 DEF Good, SeatsMatch
  <2>8. RoundInv'
    BY <1>4, <1>10, <2>1, <2>3, <2>4, <2>5 DEF Good, RoundInv, ThisRound
  <2>9. CallInv' /\ EndInv'
    BY <1>14 DEF CallInv, EndInv
  <2> QED BY <1>5, <1>9, <1>10, <2>3, <2>6, <2>7, <2>8, <2>9 DEF Good
<1> QED BY <1>2, <1>11, <1>12, <1>13, <1>14

LEMMA GetValGood ==
    ASSUME TypeOK, Good, ~raced, ~raced', NEW t \in Threads, GetVal(t)
    PROVE  Good'
<1>1. CASE sem[Head(todo[t])] = 1
  <2>1. /\ todo[t] # <<>> /\ todo' = [todo EXCEPT ![t] = Tail(@)]
        /\ Head(todo[t]) # "finish_sem"
        /\ UNCHANGED <<pc, load, sem, left_seats, passengers, queue, count, mainVars>>
    BY <1>1 DEF GetVal, Notes
  <2>2. Head(todo[t]) \in Semaphores
    BY <2>1 DEF TypeOK, PlacesOK
  <2>3. sem' = [sem EXCEPT ![Head(todo[t])] = 1]
    BY <1>1, <2>1, <2>2 DEF TypeOK
  <2> QED BY <2>1, <2>3, RaisedByPassenger, RaisedByTrain DEF Threads
<1>2. CASE sem[Head(todo[t])] # 1
  <2>1. UNCHANGED <<pc, todo, load, sem, left_seats, passengers, queue, count, mainVars>>
    BY <1>2 DEF GetVal
  <2>2. /\ BinaryInv' /\ PassInv' /\ SeatInv' /\ QueueInv' /\ CallInv' /\ EndInv'
        /\ Pending' = Pending /\ Seated' = Seated
    BY <2>1 DEF Good, BinaryInv, PassInv, Holds, SeatInv, QueueInv, CallInv, Callers, EndInv,
                Pending, Seated, mainVars
  <2>3. SeatsMatch'
    BY <2>1, <2>2 DEF Good, SeatsMatch
  <2>4. RoundInv' /\ ClearInv' /\ PresentInv'
    BY <2>1, <2>2 DEF Good, RoundInv, ThisRound, InRound, Cleared, Clearing, Rode, Counted,
                      ClearInv, PresentInv, Present, mainVars
  <2> QED BY <2>2, <2>3, <2>4 DEF Good
<1> QED BY <1>1, <1>2

LEMMA SemOpGood ==
    ASSUME TypeOK, Good, ~raced, ~raced', NEW t \in Threads, SemOp(t)
    PROVE  Good'
<1>1. /\ todo[t] # <<>> /\ todo' = [todo EXCEPT ![t] = Tail(@)]
      /\ sem' = [sem EXCEPT ![Head(todo[t])] = @ + 1]
      /\ ~(sem[Head(todo[t])] > 0)
      /\ UNCHANGED <<pc, load, left_seats, passengers, queue, count, mainVars>>
  BY DEF SemOp, Notes
<1>2. Head(todo[t]) \in Semaphores
  BY <1>1 DEF TypeOK, PlacesOK
<1>3. sem[Head(todo[t])] = 0
  BY <1>1, <1>2 DEF TypeOK
<1>4. sem' = [sem EXCEPT ![Head(todo[t])] = 1]
  BY <1>1, <1>2, <1>3 DEF TypeOK
<1> QED BY <1>1, <1>3, <1>4, RaisedByPassenger, RaisedByTrain DEF Threads

\* A passenger goes on from mysem_down.
LEMMA DownPassenger ==
    ASSUME TypeOK, Good, ~raced, NEW p \in Clients, Down(p)
    PROVE  Good'
<1>0. PlacesOK
  BY DEF TypeOK
<1>1. /\ pc[p] \in {"arrive", "queued", "seated"} /\ PlacesOK /\ todo[p] = <<>> /\ p \in Threads
      /\ sem[Awaits(pc[p])] > 0
      /\ sem' = [sem EXCEPT ![Awaits(pc[p])] = @ - 1]
      /\ GoTo(p, Onwards(pc[p])) /\ todo' = [todo EXCEPT ![p] = <<>>]
      /\ UNCHANGED <<todo, load, left_seats, passengers, queue, count, mainVars>>
  BY DEF Down, At, Waits, own, TypeOK, PlacesOK, PassengerPCs, CallerPCs, HoldPCs, RodePCs,
         CountedPCs, Threads
<1>2. /\ pc'[p] = Onwards(pc[p])
      /\ \A q \in Clients : q # p => pc'[q] = pc[q]
      /\ \A q \in Clients : todo'[q] = todo[q]
      /\ pc'[Train] = pc[Train]
      /\ todo'[Train] = todo[Train]
      /\ Pending' = Pending
  <2>1. GoTo(p, Onwards(pc[p])) /\ todo' = [todo EXCEPT ![p] = <<>>]
    BY <1>1
  <2>2. PlacesOK
    BY <1>1
  <2>3. \A q \in Clients : todo'[q] = todo[q]
    BY <1>1
  <2> QED BY <2>1, <2>2, <2>3, PassengerFrame
<1>3. (InRound' <=> InRound) /\ \A q \in Clients : Clearing(q)' <=> Clearing(q)
  BY <1>2 DEF InRound, Clearing
<1>4. /\ Cardinality(Seated) \in Nat /\ Cardinality(Rode) \in Nat /\ Cardinality(Counted) \in Nat
      /\ Cardinality(Present) \in Nat /\ Cardinality(Callers) \in Nat /\ Pending \in Nat
      /\ left_seats \in Int /\ \A s \in Semaphores : sem[s] \in Nat /\ sem[s] <= 1
  BY <1>1, CountsAre DEF TypeOK, Good, BinaryInv
<1>5. CASE pc[p] = "arrive"
  <2>1. /\ sem["pass"] = 1 /\ sem'["pass"] = 0 /\ sem'["full_sem"] = sem["full_sem"]
        /\ sem'["finish_sem"] = sem["finish_sem"] /\ sem'["clear_sem"] = sem["clear_sem"]
        /\ sem'["train_sem"] = sem["train_sem"] /\ sem'["main_sem"] = sem["main_sem"]
        /\ BinaryInv'
    BY <1>1, <1>4, <1>5 DEF Awaits, TypeOK, Semaphores, BinaryInv
  <2>2. GoTo(p, "test") /\ pc'[p] = "test"
    BY <1>1, <1>2, <1>5 DEF Onwards
  <2>3. PassInv'
    <3>1. \A q \in Clients : ~Holds(q)
      BY <2>1 DEF Good, PassInv
    <3>2. Holds(p)' /\ \A q \in Clients : q # p => ~Holds(q)'
      BY <1>2, <2>2, <3>1 DEF Holds, HoldPCs
    <3> QED BY <2>1, <3>2 DEF PassInv
  <2>4. /\ Cardinality(Seated)' = Cardinality(Seated)
        /\ Cardinality(Rode)' = Cardinality(Rode)
        /\ Cardinality(Counted)' = Cardinality(Counted)
        /\ Cardinality(Present)' = Cardinality(Present)
        /\ Cardinality(Callers)' = Cardinality(Callers)
    <3>1. /\ {"arrive", "test"} \subseteq CallerPCs
          /\ {"arrive", "test"} \subseteq PassengerPCs \ {"none", "done"}
          /\ "arrive" \notin RodePCs /\ "test" \notin RodePCs
          /\ "arrive" \notin CountedPCs /\ "test" \notin CountedPCs
      BY DEF CallerPCs, HoldPCs, PassengerPCs, RodePCs, CountedPCs
    <3> QED BY <1>0, <1>4, <1>5, <2>2, <3>1, CountsStay
  <2>5. SeatInv'
    BY <1>1, <1>2, <2>2 DEF Good, SeatInv
  <2>6. QueueInv'
    BY <1>1, <1>2, <2>1, <2>2 DEF Good, QueueInv
  <2>7. SeatsMatch'
    BY <1>1, <1>2, <2>1, <2>4 DEF Good, SeatsMatch
  <2>8. RoundInv'
    <3>1. Cleared' <=> Cleared
      BY <1>3, <2>1 DEF Cleared
    <3> QED BY <1>1, <1>2, <1>3, <2>1, <2>4, <3>1 DEF Good, RoundInv, ThisRound
  <2>9. ClearInv'
    BY <1>1, <1>2, <1>3, <1>5, <2>1, <2>2 DEF Good, ClearInv
  <2>10. PresentInv'
    BY <1>1, <1>2, <1>5, <2>2, <2>4 DEF Good, PresentInv, mainVars
  <2>11. CallInv' /\ EndInv'
    BY <1>1, <1>2, <2>1, <2>4 DEF Good, CallInv, EndInv, mainVars
  <2> QED BY <2>1, <2>3, <2>5, <2>6, <2>7, <2>8, <2>9, <2>10, <2>11 DEF Good
<1>6. CASE pc[p] = "queued"
  <2>1. /\ sem'["pass"] = sem["pass"]
        /\ sem'["finish_sem"] = sem["finish_sem"] /\ sem'["clear_sem"] = sem["clear_sem"]
        /\ sem'["train_sem"] = sem["train_sem"] /\ sem'["main_sem"] = sem["main_sem"]
        /\ BinaryInv'
    BY <1>1, <1>4, <1>6 DEF Awaits, TypeOK, Semaphores, BinaryInv
  <2>2. GoTo(p, "test") /\ pc'[p] = "test"
    BY <1>1, <1>2, <1>6 DEF Onwards
  <2>3. PassInv'
    <3>1. \A q \in Clients : Holds(q)' <=> Holds(q)
      BY <1>2, <1>6, <2>2 DEF Holds, HoldPCs
    <3> QED BY <2>1, <3>1 DEF Good, PassInv
  <2>4. /\ Cardinality(Seated)' = Cardinality(Seated)
        /\ Cardinality(Rode)' = Cardinality(Rode)
        /\ Cardinality(Counted)' = Cardinality(Counted)
        /\ Cardinality(Present)' = Cardinality(Present)
        /\ Cardinality(Callers)' = Cardinality(Callers)
    <3>1. /\ {"queued", "test"} \subseteq CallerPCs
          /\ {"queued", "test"} \subseteq PassengerPCs \ {"none", "done"}
          /\ "queued" \notin RodePCs /\ "test" \notin RodePCs
          /\ "queued" \notin CountedPCs /\ "test" \notin CountedPCs
      BY DEF CallerPCs, HoldPCs, PassengerPCs, RodePCs, CountedPCs
    <3> QED BY <1>0, <1>4, <1>6, <2>2, <3>1, CountsStay
  <2>5. SeatInv'
    BY <1>1, <1>2, <2>2 DEF Good, SeatInv
  <2>6. QueueInv'
    <3>1. Holds(p)
      BY <1>6 DEF Holds, HoldPCs
    <3>2. \A q \in Clients : q # p => pc[q] # "queued"
      BY <3>1 DEF Good, PassInv, Holds, HoldPCs
    <3> QED BY <1>1, <1>2, <2>2, <3>2 DEF Good, QueueInv
  <2>7. SeatsMatch'
    BY <1>1, <1>2, <2>1, <2>4 DEF Good, SeatsMatch
  <2>8. RoundInv'
    <3>1. Cleared' <=> Cleared
      BY <1>3, <2>1 DEF Cleared
    <3> QED BY <1>1, <1>2, <1>3, <2>1, <2>4, <3>1 DEF Good, RoundInv, ThisRound
  <2>9. ClearInv'
    BY <1>1, <1>2, <1>3, <1>6, <2>1, <2>2 DEF Good, ClearInv
  <2>10. PresentInv'
    BY <1>1, <1>2, <1>6, <2>2, <2>4 DEF Good, PresentInv, mainVars
  <2>11. CallInv' /\ EndInv'
    BY <1>1, <1>2, <2>1, <2>4 DEF Good, CallInv, EndInv, mainVars
  <2> QED BY <2>1, <2>3, <2>5, <2>6, <2>7, <2>8, <2>9, <2>10, <2>11 DEF Good
<1>7. CASE pc[p] = "seated"
  <2>1. /\ sem'["pass"] = sem["pass"] /\ sem'["full_sem"] = sem["full_sem"]
        /\ sem["finish_sem"] = 1 /\ sem'["finish_sem"] = 0
        /\ sem'["clear_sem"] = sem["clear_sem"]
        /\ sem'["train_sem"] = sem["train_sem"] /\ sem'["main_sem"] = sem["main_sem"]
        /\ BinaryInv'
    BY <1>1, <1>4, <1>7 DEF Awaits, TypeOK, Semaphores, BinaryInv
  <2>2. GoTo(p, "off") /\ pc'[p] = "off"
    BY <1>1, <1>2, <1>7 DEF Onwards
  <2>3. PassInv'
    <3>1. \A q \in Clients : Holds(q)' <=> Holds(q)
      BY <1>1, <1>2, <1>7, <2>2 DEF Holds, HoldPCs
    <3> QED BY <2>1, <3>1 DEF Good, PassInv
  <2>4. /\ Cardinality(Seated)' = Cardinality(Seated) - 1
        /\ Cardinality(Rode)' = Cardinality(Rode) + 1
        /\ Cardinality(Counted)' = Cardinality(Counted)
        /\ Cardinality(Present)' = Cardinality(Present)
        /\ Cardinality(Callers)' = Cardinality(Callers)
    <3>1. /\ {"seated", "off"} \subseteq PassengerPCs \ {"none", "done"}
          /\ "seated" \notin CallerPCs /\ "off" \notin CallerPCs
          /\ "seated" \notin RodePCs /\ "off" \in RodePCs
          /\ "seated" \notin CountedPCs /\ "off" \notin CountedPCs
      BY DEF CallerPCs, HoldPCs, PassengerPCs, RodePCs, CountedPCs
    <3> QED BY <1>0, <1>4, <1>7, <2>2, <3>1, CountsMove, CountsAre
  <2>5. SeatInv'
    BY <1>1, <1>2, <2>2 DEF Good, SeatInv
  <2>6. QueueInv'
    BY <1>1, <1>2, <2>1, <2>2 DEF Good, QueueInv
  <2>7. SeatsMatch'
    BY <1>1, <1>2, <1>4, <2>1, <2>4 DEF Good, SeatsMatch
  <2>8. RoundInv'
    <3>1. Cleared' <=> Cleared
      BY <1>3, <2>1 DEF Cleared
    <3>2. (Cardinality(Rode) + sem["finish_sem"] + Pending)'
            = Cardinality(Rode) + sem["finish_sem"] + Pending
      BY <1>2, <1>4, <2>1, <2>4
    <3> QED BY <1>1, <1>2, <1>3, <2>1, <2>4, <3>1, <3>2 DEF Good, RoundInv, ThisRound
  <2>9. ClearInv'
    BY <1>1, <1>2, <1>3, <1>7, <2>1, <2>2 DEF Good, ClearInv
  <2>10. PresentInv'
    BY <1>1, <1>2, <1>7, <2>2, <2>4 DEF Good, PresentInv, mainVars
  <2>11. CallInv' /\ EndInv'
    BY <1>1, <1>2, <2>1, <2>4 DEF Good, CallInv, EndInv, mainVars
  <2> QED BY <2>1, <2>3, <2>5, <2>6, <2>7, <2>8, <2>9, <2>10, <2>11 DEF Good
<1> QED BY <1>1, <1>5, <1>6, <1>7

\* The train goes on from mysem_down.
LEMMA DownTrain ==
    ASSUME TypeOK, Good, ~raced, Down(Train)
    PROVE  Good'
<1>1. /\ pc[Train] \in {"called", "emptying"} /\ PlacesOK /\ todo[Train] = <<>>
      /\ sem[Awaits(pc[Train])] > 0
      /\ sem' = [sem EXCEPT ![Awaits(pc[Train])] = @ - 1]
      /\ GoTo(Train, Onwards(pc[Train])) /\ todo' = [todo EXCEPT ![Train] = <<>>]
      /\ UNCHANGED <<todo, load, left_seats, passengers, queue, count, mainVars>>
  BY DEF Down, At, Waits, own, TypeOK, PlacesOK, TrainPCs
<1>2. /\ pc'[Train] = Onwards(pc[Train])
      /\ todo'[Train] = <<>>
      /\ \A q \in Clients : pc'[q] = pc[q]
      /\ \A q \in Clients : todo'[q] = todo[q]
      /\ Seated' = Seated /\ Rode' = Rode /\ Counted' = Counted
      /\ Present' = Present /\ Callers' = Callers
  BY <1>1, TrainFrame
<1>3. Pending = 0 /\ Pending' = 0
  BY <1>1, <1>2, PendingFacts DEF Pending
<1>4. /\ \A q \in Clients : Clearing(q)' <=> Clearing(q)
      /\ \A q \in Clients : Holds(q)' <=> Holds(q)
  BY <1>2 DEF Clearing, Holds
<1>5. SeatInv' /\ PresentInv'
  BY <1>1, <1>2 DEF Good, SeatInv, PresentInv, mainVars
<1>6. pc'[Train] \in {"ride", "loop"}
  BY <1>1, <1>2 DEF Onwards
<1>7. CallInv' /\ EndInv'
  BY <1>6 DEF CallInv, EndInv
<1>8. sem'["pass"] = sem["pass"] => PassInv'
  BY <1>4 DEF Good, PassInv
<1>9. sem'["full_sem"] = sem["full_sem"] => QueueInv'
  BY <1>1, <1>2, <1>6 DEF Good, QueueInv
<1>10. sem'["finish_sem"] = sem["finish_sem"] => SeatsMatch'
  BY <1>1, <1>2, <1>3 DEF Good, SeatsMatch
<1>11. \A s \in Semaphores : sem[s] \in Nat /\ sem[s] <= 1
  BY DEF TypeOK, Good, BinaryInv
<1>12. CASE pc[Train] = "called"
  <2>1. /\ sem'["pass"] = sem["pass"] /\ sem'["full_sem"] = sem["full_sem"]
        /\ sem'["finish_sem"] = sem["finish_sem"] /\ sem'["clear_sem"] = sem["clear_sem"]
        /\ BinaryInv'
    BY <1>1, <1>11, <1>12 DEF Awaits, TypeOK, Semaphores, BinaryInv
  <2>2. (Cleared' <=> Cleared) /\ ~InRound /\ ~InRound'
    BY <1>4, <1>6, <1>12, <2>1 DEF Cleared, InRound
  <2>3. RoundInv'
    BY <1>1, <1>2, <1>3, <2>1, <2>2 DEF Good, RoundInv, ThisRound
  <2>4. ClearInv'
    BY <1>1, <1>2, <1>4, <2>1 DEF Good, ClearInv
  <2> QED BY <1>5, <1>7, <1>8, <1>9, <1>10, <2>1, <2>3, <2>4 DEF Good
<1>13. CASE pc[Train] = "emptying"
  <2>1. /\ sem'["pass"] = sem["pass"] /\ sem'["full_sem"] = sem["full_sem"]
        /\ sem'["finish_sem"] = sem["finish_sem"]
        /\ sem["clear_sem"] = 1 /\ sem'["clear_sem"] = 0
        /\ BinaryInv'
    BY <1>1, <1>11, <1>13 DEF Awaits, TypeOK, Semaphores, BinaryInv
  <2>2. Cleared /\ \A q \in Clients : ~Clearing(q)
    BY <2>1 DEF Cleared, Good, ClearInv
  <2>3. ~Cleared' /\ InRound /\ ~InRound'
    BY <1>4, <1>6, <1>13, <2>1, <2>2 DEF Cleared, InRound
  <2>4. RoundInv'
    BY <1>1, <1>2, <1>3, <2>1, <2>2, <2>3 DEF Good, RoundInv, ThisRound
  <2>5. ClearInv'
    BY <1>1, <1>2, <1>4, <2>1, <2>2 DEF Good, ClearInv
  <2> QED BY <1>5, <1>7, <1>8, <1>9, <1>10, <2>1, <2>4, <2>5 DEF Good
<1> QED BY <1>1, <1>12, <1>13

LEMMA MainGood ==
    ASSUME TypeOK, Good, ~raced, ~raced', MainStep
    PROVE  Good'
<1>0. PlacesOK
  BY DEF TypeOK
\* A step of main that lets the threads where they are.
<1>1. ASSUME UNCHANGED <<pc, mainRest>>
      PROVE  /\ BinaryInv' /\ PassInv' /\ SeatInv' /\ QueueInv' /\ SeatsMatch' /\ CallInv'
             /\ RoundInv' /\ ClearInv' /\ Present' = Present
  <2>1. /\ BinaryInv' /\ PassInv' /\ SeatInv' /\ QueueInv' /\ CallInv'
        /\ Pending' = Pending /\ Seated' = Seated /\ Present' = Present
    BY <1>1 DEF mainRest, Good, BinaryInv, PassInv, Holds, SeatInv, QueueInv, CallInv, Callers,
                Pending, Seated, Present
  <2>2. SeatsMatch'
    BY <1>1, <2>1 DEF mainRest, Good, SeatsMatch
  <2>3. RoundInv' /\ ClearInv'
    BY <1>1, <2>1 DEF mainRest, Good, RoundInv, ThisRound, InRound, Cleared, Clearing, Rode,
                      Counted, ClearInv
  <2> QED BY <2>1, <2>2, <2>3
<1>2. CASE Reset
  <2>1. UNCHANGED <<pc, mainRest>>
    BY <1>2 DEF Reset
  <2>2. Cardinality(Present) = 0
    BY <1>0, <1>2, SetFacts DEF Reset, Good, PresentInv, Present
  <2>3. PresentInv'
    BY <1>1, <1>2, <2>1, <2>2 DEF Reset, NextCreation, Uncreated, Good, PresentInv
  <2>4. EndInv'
    BY <1>2, <2>1 DEF Reset, mainRest, NextCreation, Good, EndInv
  <2> QED BY <1>1, <2>1, <2>3, <2>4 DEF Good
<1>3. CASE LoadPassengers
  <2>1. UNCHANGED <<pc, mainRest>>
    BY <1>3 DEF LoadPassengers
  <2>2. PresentInv'
    BY <1>1, <1>3, <2>1 DEF LoadPassengers, Good, PresentInv
  <2>3. EndInv'
    BY <1>3, <2>1 DEF LoadPassengers, mainRest, Good, EndInv
  <2> QED BY <1>1, <2>1, <2>2, <2>3 DEF Good
<1>4. ASSUME NEW p \in Clients, Create(p)
      PROVE  Good'
  <2>1. /\ pc[p] = "none" /\ todo[p] = <<>> /\ todo' = [todo EXCEPT ![p] = <<>>]
        /\ GoTo(p, "arrive") /\ main = "store"
        /\ UNCHANGED <<todo, raising, load, sem, left_seats, queue, count>>
        /\ passengers' = passengers + 1 /\ main' = NextCreation({p})
    BY <1>4 DEF Create, mainRest, Uncreated, Notes, TypeOK, PlacesOK, Raises
  <2>2. /\ pc'[p] = "arrive"
        /\ \A q \in Clients : q # p => pc'[q] = pc[q]
        /\ pc'[Train] = pc[Train]
        /\ Pending' = Pending
    <3>1. GoTo(p, "arrive") /\ todo' = [todo EXCEPT ![p] = <<>>]
      BY <2>1
    <3> QED BY <1>0, <3>1, PassengerFrame
  <2>3. /\ Cardinality(Seated)' = Cardinality(Seated)
        /\ Cardinality(Rode)' = Cardinality(Rode)
        /\ Cardinality(Counted)' = Cardinality(Counted)
        /\ Cardinality(Present)' = Cardinality(Present) + 1
        /\ Cardinality(Callers)' = Cardinality(Callers)
    <3>1. /\ {"none", "arrive"} \subseteq CallerPCs
          /\ "arrive" \in PassengerPCs \ {"none", "done"}
          /\ "none" \notin PassengerPCs \ {"none", "done"}
          /\ "none" \notin RodePCs /\ "arrive" \notin RodePCs
          /\ "none" \notin CountedPCs /\ "arrive" \notin CountedPCs
      BY DEF CallerPCs, HoldPCs, PassengerPCs, RodePCs, CountedPCs
    <3>2. pc[p] = "none" /\ GoTo(p, "arrive")
      BY <2>1
    <3> QED BY <1>0, <3>1, <3>2, CountsMove, CountsAre
  <2>4. (InRound' <=> InRound) /\ \A q \in Clients : Clearing(q)' <=> Clearing(q)
    BY <2>1, <2>2 DEF InRound, Clearing
  <2>5. Cleared' <=> Cleared
    BY <2>1, <2>4 DEF Cleared
  <2>6. BinaryInv'
    BY <2>1 DEF Good, BinaryInv
  <2>7. PassInv'
    <3>1. \A q \in Clients : Holds(q)' <=> Holds(q)
      BY <2>1, <2>2 DEF Holds, HoldPCs
    <3> QED BY <2>1, <3>1 DEF Good, PassInv
  <2>8. SeatInv' /\ QueueInv'
    BY <2>1, <2>2 DEF Good, SeatInv, QueueInv
  <2>9. SeatsMatch' /\ CallInv'
    BY <2>1, <2>2, <2>3 DEF Good, SeatsMatch, CallInv
  <2>10. RoundInv'
    BY <2>1, <2>2, <2>3, <2>4, <2>5 DEF Good, RoundInv, ThisRound
  <2>11. ClearInv'
    BY <2>1, <2>2, <2>4 DEF Good, ClearInv
  <2>12. PresentInv'
    <3>1. passengers = Cardinality(Present)
      BY <2>1 DEF Good, PresentInv
    <3>2. main' \in {"load", "wait"}
      BY <2>1 DEF NextCreation
    <3>3. main' = "wait" => \A q \in Clients : pc'[q] # "none"
      BY <2>1, <2>2 DEF NextCreation, Uncreated
    <3> QED BY <2>1, <2>3, <3>1, <3>2, <3>3 DEF PresentInv
  <2>13. EndInv'
    BY <2>1, <2>2 DEF NextCreation, Good, EndInv
  <2> QED BY <2>6, <2>7, <2>8, <2>9, <2>10, <2>11, <2>12, <2>13 DEF Good
<1>5. CASE Finish
  <2>1. /\ UNCHANGED <<pc, todo, raising, load, left_seats, passengers, queue, count, mainLoad>>
        /\ main = "wait" /\ main' = "returned"
        /\ \A s \in Semaphores : s # "main_sem" => sem'[s] = sem[s]
        /\ BinaryInv'
    BY <1>5 DEF Finish, own, TypeOK, Good, BinaryInv
  <2>2. /\ sem'["pass"] = sem["pass"] /\ sem'["full_sem"] = sem["full_sem"]
        /\ sem'["finish_sem"] = sem["finish_sem"] /\ sem'["clear_sem"] = sem["clear_sem"]
        /\ sem'["train_sem"] = sem["train_sem"]
    BY <2>1 DEF Semaphores
  <2>3. /\ PassInv' /\ SeatInv' /\ QueueInv' /\ CallInv'
        /\ Pending' = Pending /\ Seated' = Seated /\ Present' = Present
    BY <2>1, <2>2 DEF Good, PassInv, Holds, SeatInv, QueueInv, CallInv, Callers,
                Pending, Seated, Present
  <2>4. SeatsMatch'
    BY <2>1, <2>2, <2>3 DEF Good, SeatsMatch
  <2>5. RoundInv' /\ ClearInv'
    BY <2>1, <2>2, <2>3 DEF Good, RoundInv, ThisRound, InRound, Cleared, Clearing, Rode,
                      Counted, ClearInv
  <2>6. PresentInv' /\ EndInv'
    BY <2>1, <2>3 DEF Good, PresentInv, EndInv
  <2> QED BY <2>1, <2>3, <2>4, <2>5, <2>6 DEF Good
<1> QED BY <1>2, <1>3, <1>4, <1>5 DEF MainStep

-----------------------------------------------------------------------------
(* The invariant. *)

LEMMA InitIInv == Init => IInv
<1> SUFFICES ASSUME Init PROVE IInv
  OBVIOUS
<1>1. /\ seats \in Nat \ {0} /\ Train \notin Clients /\ Train \in Threads
      /\ \A p \in Clients : p \in Threads /\ p # Train
  BY SemTrainAssumption DEF Threads
<1>2. /\ pc[Train] = "loop" /\ \A p \in Clients : pc[p] = "none"
      /\ todo[Train] = <<>> /\ \A p \in Clients : todo[p] = <<>>
  BY <1>1 DEF Init
<1>3. PlacesOK
  <2>1. pc \in [Threads -> PassengerPCs \cup TrainPCs] /\ todo \in [Threads -> Seq(Semaphores)]
    BY DEF Init, PassengerPCs, CallerPCs, TrainPCs
  <2>2. /\ \A p \in Clients : pc[p] \in PassengerPCs
        /\ pc[Train] \in TrainPCs
    BY <1>2 DEF PassengerPCs, CallerPCs, TrainPCs
  <2> QED BY <1>1, <1>2, <2>1, <2>2, RaisesFacts, TrainRaisesFacts DEF PlacesOK
<1>4. TypeOK
  <2>1. Cardinality(Clients) \in Nat
    BY SemTrainAssumption, FS_CardinalityType
  <2>2. /\ raising \in [Threads -> BOOLEAN] /\ load \in [Threads -> Int]
        /\ sem \in [Semaphores -> Nat]
    BY DEF Init
  <2>3. /\ left_seats \in Int /\ passengers \in Int /\ queue \in Nat /\ count \in Int
        /\ main \in {"reset", "load", "store", "wait", "returned"} /\ mainLoad \in Int
        /\ raced \in BOOLEAN
    <3>1. /\ left_seats = 0 /\ queue = 0 /\ count = 0 /\ passengers = Cardinality(Clients)
          /\ main = "reset" /\ mainLoad = 0
      BY DEF Init
    <3>2. raced \in BOOLEAN
      BY DEF Init
    <3> QED BY <2>1, <3>1, <3>2
  <2> QED BY <1>3, <2>2, <2>3 DEF TypeOK
<1>5. /\ Cardinality(Seated) = 0 /\ Cardinality(Rode) = 0 /\ Cardinality(Counted) = 0
      /\ Pending = 0
  <2>1. Seated = {p \in Clients : pc[p] \in {"seated"}}
    BY DEF Seated
  <2>2. Cardinality(Seated) = 0
    BY <1>2, <2>1, SetFacts
  <2>3. "none" \notin RodePCs /\ "none" \notin CountedPCs
    BY DEF RodePCs, CountedPCs
  <2>4. Cardinality(Rode) = 0 /\ Cardinality(Counted) = 0
    BY <1>2, <2>3, SetFacts DEF Rode, Counted
  <2> QED BY <1>1, <1>2, <2>2, <2>4, PendingFacts DEF Pending
<1>6. /\ sem["pass"] = 1 /\ sem["finish_sem"] = 0 /\ sem["clear_sem"] = 0
      /\ BinaryInv
  BY DEF Init, Semaphores, BinaryInv
<1>7. PassInv /\ SeatInv /\ QueueInv
  <2>1. \A p \in Clients : ~Holds(p)
    BY <1>2 DEF Holds, HoldPCs
  <2>2. PassInv
    BY <1>6, <2>1 DEF PassInv
  <2>3. left_seats = 0
    BY DEF Init
  <2> QED BY <1>1, <1>2, <2>2, <2>3 DEF SeatInv, QueueInv
<1>8. SeatsMatch
  BY <1>5, <1>6 DEF Init, SeatsMatch
<1>9. ~InRound /\ ~Cleared /\ \A p \in Clients : ~Clearing(p)
  <2>1. \A p \in Clients : ~Clearing(p)
    BY <1>2 DEF Clearing
  <2> QED BY <1>2, <1>6, <2>1 DEF InRound, Cleared
<1>10. RoundInv
  <2>1. 0 \in Rounds
    <3>1. 0 = seats * 0
      BY <1>1
    <3> QED BY <3>1 DEF Rounds
  <2> QED BY <1>1, <1>5, <1>6, <1>9, <2>1 DEF Init, RoundInv, ThisRound
<1>11. ClearInv
  BY <1>1, <1>2, <1>9 DEF Init, ClearInv
<1>12. PresentInv /\ CallInv /\ EndInv
  BY <1>2 DEF Init, PresentInv, CallInv, EndInv
<1> QED BY <1>4, <1>6, <1>7, <1>8, <1>10, <1>11, <1>12 DEF IInv, Good

LEMMA IInvStep ==
    ASSUME IInv, [Next]_vars
    PROVE  IInv'
<1>1. TypeOK'
  BY TypesStep DEF IInv
<1>2. raced => raced'
  BY DEF Next, ThreadStep, PassengerStep, TrainStep, MainStep, vars, Notes, GetVal, SemOp, Down,
         Test, LoadSeats, TakeSeat, Again, Enqueue, LoadCount, StoreCount, TestCount, Clear,
         LoadLeft, Leave, Loop, Poll, Ask, Ride, Release, Reset, LoadPassengers, Create, Finish
<1>3. ASSUME ~raced, ~raced'
      PROVE  Good'
  <2>0. TypeOK /\ Good
    BY <1>3 DEF IInv
  <2>1. ASSUME NEW p \in Clients, PassengerStep(p)
        PROVE  Good'
    BY <1>3, <2>0, <2>1, TestGood, LoadSeatsGood, TakeSeatGood, AgainGood, EnqueueGood,
       LoadCountGood, StoreCountGood, TestCountGood, ClearGood, LoadLeftGood, LeaveGood
    DEF PassengerStep
  <2>2. CASE TrainStep
    BY <1>3, <2>0, <2>2, LoopGood, PollGood, AskGood, RideGood, ReleaseGood DEF TrainStep
  <2>3. ASSUME NEW t \in Threads, GetVal(t) \/ SemOp(t) \/ Down(t)
        PROVE  Good'
    BY <1>3, <2>0, <2>3, GetValGood, SemOpGood, DownPassenger, DownTrain DEF Threads
  <2>4. CASE MainStep
    BY <1>3, <2>0, <2>4, MainGood
  <2>5. CASE UNCHANGED vars
    <3>1. /\ BinaryInv' /\ PassInv' /\ SeatInv' /\ QueueInv' /\ CallInv' /\ EndInv'
          /\ Pending' = Pending /\ Seated' = Seated
      BY <2>0, <2>5 DEF vars, Good, BinaryInv, PassInv, Holds, SeatInv, QueueInv, CallInv,
                        Callers, EndInv, Pending, Seated
    <3>2. SeatsMatch'
      BY <2>0, <2>5, <3>1 DEF vars, Good, SeatsMatch
    <3>3. RoundInv' /\ ClearInv' /\ PresentInv'
      BY <2>0, <2>5, <3>1 DEF vars, Good, RoundInv, ThisRound, InRound, Cleared, Clearing,
                              Rode, Counted, ClearInv, PresentInv, Present
    <3> QED BY <3>1, <3>2, <3>3 DEF Good
  <2> QED BY <2>1, <2>2, <2>3, <2>4, <2>5 DEF Next, ThreadStep
<1> QED BY <1>1, <1>2, <1>3 DEF IInv, TypeOK

-----------------------------------------------------------------------------
(* Nothing but the races stops the program. *)

LEMMA NoMultiple ==
    ASSUME NEW s \in Nat \ {0}, NEW a \in 1..(s - 1), NEW k \in Nat, NEW c \in Nat, c = a + s * k
    PROVE  c % s # 0
<1> SUFFICES ASSUME c % s = 0 PROVE FALSE
  OBVIOUS
<1>1. PICK q \in Int : c = s * q
  <2>1. c = s * (c \div s) + (c % s) /\ c \div s \in Int
    OBVIOUS
  <2> QED BY <2>1
<1>2. a = s * (q - k) /\ q - k \in Int
  BY <1>1
<1>3. CASE q - k <= 0
  <2>1. s * (q - k) <= 0
    BY <1>3
  <2> QED BY <1>2, <2>1
<1>4. CASE q - k >= 1
  <2>1. s * (q - k) >= s
    BY <1>4
  <2> QED BY <1>2, <2>1
<1> QED BY <1>2, <1>3, <1>4

LEMMA NotStuck ==
    ASSUME TypeOK, Good, ~raced, Stuck, Cardinality(Clients) % seats = 0
    PROVE  FALSE
<1>1. \A p \in Clients : pc[p] = "done" \/ Blocked(p) \/ Spins(p)
  BY DEF Stuck
<1>2. \A p \in Clients : todo[p] # <<>> => pc[p] \in {"seated", "test", "leaving"}
  BY RaisesFacts DEF TypeOK, PlacesOK
\* Where the passengers are.
<1>3. \A p \in Clients : pc[p] \in {"arrive", "queued", "seated", "done", "test", "again"}
  BY <1>1 DEF Blocked, Spins, Waits, TypeOK, PlacesOK, PassengerPCs, CallerPCs, HoldPCs,
              RodePCs, CountedPCs
<1>4. /\ pc[Train] \in {"called", "emptying", "loop", "poll", "any", "few", "done"}
      /\ Polling => pc[Train] \in {"loop", "poll", "any", "few"} /\ todo[Train] = <<>>
      /\ ~Polling => todo[Train] = <<>>
  <2>1. Polling => pc[Train] \in {"loop", "poll", "any", "few"} /\ todo[Train] = <<>>
    BY TrainRaisesFacts DEF Polling, TypeOK, PlacesOK
  <2>2. ~Polling => todo[Train] = <<>>
    BY DEF Stuck, Blocked
  <2>3. Blocked(Train) => pc[Train] \in {"called", "emptying"}
    BY DEF Blocked, Waits, TypeOK, PlacesOK, TrainPCs
  <2> QED BY <2>1, <2>2, <2>3 DEF Stuck
<1>5. Pending = 0
  BY <1>4, PendingFacts DEF Pending
<1>6. \A p \in Clients : pc[p] # "queued"
  <2> SUFFICES ASSUME NEW p \in Clients, pc[p] = "queued" PROVE FALSE
    OBVIOUS
  <2>1. sem["full_sem"] = 0
    BY <1>1 DEF Blocked, Spins, Awaits
  <2> QED BY <1>4, <2>1 DEF Good, QueueInv
\* pass is up, or a passenger polls: who has found the train full.
<1>7. ASSUME \A p \in Clients : ~Spins(p)
      PROVE  \A p \in Clients : pc[p] \in {"seated", "done"}
  <2>1. \A p \in Clients : pc[p] \in {"arrive", "seated", "done"} /\ todo[p] # <<"pass">>
    <3>1. \A p \in Clients : pc[p] = "done" \/ Blocked(p)
      BY <1>1, <1>7
    <3>2. \A p \in Clients : pc[p] \notin {"test", "again"}
      BY <3>1 DEF Blocked, Waits
    <3>3. \A p \in Clients : todo[p] = <<>>
      BY <1>2, <3>1 DEF Blocked
    <3> QED BY <1>3, <1>6, <3>2, <3>3
  <2>2. \A p \in Clients : ~Holds(p)
    BY <2>1 DEF Holds, HoldPCs
  <2>3. sem["pass"] # 0
    BY <2>2 DEF Good, PassInv
  <2>4. \A p \in Clients : pc[p] # "arrive"
    BY <1>1, <1>7, <2>3 DEF Blocked, Awaits
  <2> QED BY <2>1, <2>4
<1>8. Rode = Counted /\ Counted = {p \in Clients : pc[p] = "done"}
  BY <1>3 DEF Rode, Counted, RodePCs, CountedPCs
<1>9. \A p \in Clients : ~Clearing(p)
  <2> SUFFICES ASSUME NEW p \in Clients, todo[p] = <<"clear_sem">> PROVE FALSE
    BY DEF Clearing
  <2>1. todo[p] # <<>> /\ todo[p] # <<"pass">> /\ todo[p] # <<"train_sem">>
    OBVIOUS
  <2>2. pc[p] = "leaving"
    BY <2>1, RaisesFacts DEF TypeOK, PlacesOK
  <2> QED BY <1>3, <2>2
<1>10. /\ Cardinality(Seated) \in Nat /\ Cardinality(Counted) \in Nat /\ seats \in Nat \ {0}
       /\ Cardinality(Callers) \in Nat /\ left_seats \in 0..seats /\ count \in 0..seats
       /\ \A s \in Semaphores : sem[s] \in 0..1
  BY CountsAre, SemTrainAssumption DEF TypeOK, Good, BinaryInv, SeatInv, RoundInv
<1>11. {"finish_sem", "clear_sem", "train_sem", "main_sem"} \subseteq Semaphores
  BY DEF Semaphores
<1>12. Cardinality(Seated) = left_seats + sem["finish_sem"]
  BY <1>5, <1>10, <1>11 DEF Good, SeatsMatch
<1>13. CASE Blocked(Train) /\ pc[Train] = "called"
  <2>1. \A p \in Clients : pc[p] \in {"seated", "done"}
    BY <1>7, <1>13 DEF Stuck, Polling
  <2>2. Callers = {p \in Clients : pc[p] \in CallerPCs}
    BY DEF Callers, CallerPCs, HoldPCs
  <2>3. \A p \in Clients : pc[p] \notin CallerPCs
    BY <2>1 DEF CallerPCs, HoldPCs
  <2>4. Cardinality(Callers) = 0
    BY <2>2, <2>3, SetFacts
  <2>5. sem["train_sem"] = 0 /\ todo[Train] = <<>>
    BY <1>13 DEF Blocked, Awaits
  <2> QED BY <1>10, <1>13, <2>4, <2>5 DEF Good, CallInv
<1>14. CASE Blocked(Train) /\ pc[Train] = "emptying"
  <2>1. sem["clear_sem"] = 0
    BY <1>14 DEF Blocked, Awaits
  <2>2. InRound /\ ~Cleared
    BY <1>9, <1>14, <2>1 DEF InRound, Cleared
  <2>3. sem["finish_sem"] = 0
    <3>1. CASE \E p \in Clients : pc[p] = "seated"
      BY <1>1, <3>1 DEF Blocked, Spins, Awaits
    <3>2. CASE \A p \in Clients : pc[p] \notin {"seated"}
      <4>1. Seated = {p \in Clients : pc[p] \in {"seated"}}
        BY DEF Seated
      <4>2. Cardinality(Seated) = 0
        BY <3>2, <4>1, SetFacts
      <4> QED BY <1>10, <1>11, <1>12, <4>2
    <3> QED BY <3>1, <3>2
  <2>4. count = seats
    BY <1>5, <1>8, <1>10, <2>2, <2>3 DEF Good, RoundInv, ThisRound
  <2> QED BY <1>3, <2>4 DEF Good, ClearInv
<1>15. CASE Polling
  <2>1. /\ left_seats < seats /\ passengers > 0 /\ passengers # seats
        /\ pc[Train] \in {"loop", "poll", "any", "few"}
    BY <1>15 DEF Polling
  <2>2. \A p \in Clients : pc[p] \in {"seated", "done"}
    BY <1>7, <1>10, <2>1 DEF Spins
  <2>3. ~InRound /\ ~Cleared
    BY <2>1 DEF InRound, Good, RoundInv
  <2>4. sem["finish_sem"] = 0 /\ count = 0
    BY <1>5, <1>8, <1>10, <1>11, <2>3 DEF Good, RoundInv, ThisRound
  <2>5. Present = Seated
    BY <2>2 DEF Present, Seated, PassengerPCs, CallerPCs, HoldPCs
  <2>6. passengers = Cardinality(Seated)
    BY <2>5 DEF Stuck, Good, PresentInv
  <2>7. left_seats \in 1..(seats - 1) /\ Cardinality(Seated) = left_seats
    BY <1>10, <1>12, <2>1, <2>4, <2>6
  <2>8. PICK k \in Nat : Cardinality(Counted) = seats * k
    BY <1>10, <2>4 DEF Good, RoundInv, Rounds
  <2>9. /\ Clients = Seated \cup Counted /\ Seated \cap Counted = {}
        /\ IsFiniteSet(Seated) /\ IsFiniteSet(Counted)
    <3>1. Clients = Seated \cup Counted /\ Seated \cap Counted = {}
      BY <1>8, <2>2 DEF Seated
    <3>2. Seated \subseteq Clients /\ Counted \subseteq Clients
      BY DEF Seated, Counted
    <3> QED BY <3>1, <3>2, SemTrainAssumption, FS_Subset
  <2>10. Cardinality(Clients) = left_seats + seats * k
    <3>1. Cardinality(Seated \cup Counted) =
            Cardinality(Seated) + Cardinality(Counted) - Cardinality(Seated \cap Counted)
      BY <2>9, FS_Union
    <3>2. Cardinality(Seated \cap Counted) = 0
      BY <2>9, FS_EmptySet
    <3> QED BY <1>10, <2>7, <2>8, <2>9, <3>1, <3>2
  <2>11. Cardinality(Clients) \in Nat
    BY SemTrainAssumption, FS_CardinalityType
  <2> QED BY <1>10, <2>7, <2>10, <2>11, NoMultiple
<1>16. CASE pc[Train] = "done" /\ todo[Train] = <<>>
  BY <1>16 DEF Stuck, Good, EndInv
<1> QED
  BY <1>4, <1>13, <1>14, <1>15, <1>16 DEF Stuck, Blocked, Waits, TypeOK, PlacesOK, TrainPCs

-----------------------------------------------------------------------------
(* The theorems. *)

\* Type correctness, and up to the first race the invariant on which the others rest.
THEOREM Invariant == Spec => []IInv
<1>1. IInv /\ [Next]_vars => IInv'
  BY IInvStep
<1> QED
  BY InitIInv, <1>1, PTL DEF Spec

\* As long as no race has happened, everybody in the train has taken a seat since
\* left_seats was set to 0 or is let out by finish_sem: a ride has as many ups as
\* passengers, although the seats are free before they have left (train.c:27-30, 59).
THEOREM SeatsMatchHolds == Spec => []SeatsMatch
<1>1. IInv => SeatsMatch
  BY DEF IInv, Good, SeatsMatch
<1> QED
  BY Invariant, <1>1, PTL

\* If the passengers fill a number of trains, nothing but the races stops the
\* program: neither the passenger who waits for full_sem with pass, nor the wakeup
\* of train_sem that the train has not used, nor the poll of the counters.
THEOREM OnlyRacesStop == Spec => []StuckOnlyIfRaced
<1>1. IInv => StuckOnlyIfRaced
  BY NotStuck DEF IInv, StuckOnlyIfRaced
<1> QED
  BY Invariant, <1>1, PTL

\* pass is a mutex: at most one passenger looks for a seat, though it keeps pass
\* through its wait for full_sem.
THEOREM OnePassenger ==
    Spec => [](raced \/ \A p, q \in Clients : Holds(p) /\ Holds(q) => p = q)
<1>1. IInv => (raced \/ \A p, q \in Clients : Holds(p) /\ Holds(q) => p = q)
  BY DEF IInv, Good, PassInv
<1> QED
  BY Invariant, <1>1, PTL
=====
