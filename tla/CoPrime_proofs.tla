--------------------------- MODULE CoPrime_proofs ---------------------------
(***************************************************************************)
(* Proofs about CoPrime, for every number of workers, every command line   *)
(* and wherever the timer expires: types, stacks and saved contexts in all *)
(* states without a crash; what main destroys; the implementation of       *)
(* PrimeService; and, as long as there is work and no timer expires behind *)
(* SIG_UNBLOCK in a handler, that exactly one record has the turn and that *)
(* every record holds the context of its thread.                           *)
(***************************************************************************)
EXTENDS CoPrime, SequenceTheorems, WellFoundedInduction, TLAPS

-----------------------------------------------------------------------------
(* The inductive invariant: the stacks and the saved contexts. *)

LibraryPlaces == {"swap", "restore", "back", "down", "dec", "wait", "yield", "up", "inc"}
WorkerPlaces == {"find", "got", "test", "release", "clear", "finish", "remove", "stop", "end"}
MainPlaces == {"create", "make", "next", "seek", "drain", "join", "telos"}
Home(t) == IF t = Main THEN MainPlaces ELSE WorkerPlaces

Frames == [at : LibraryPlaces \cup WorkerPlaces \cup MainPlaces \cup {"search", "undefined"},
           a : Threads, b : Int]
LibraryFrame(f) == f.at \in LibraryPlaces /\ (f.at = "swap" => f.b \in Threads)

\* A frame of the program, and above it frames of the library.
Whole(s, home) ==
    /\ s \in Seq(Frames) /\ s # <<>>
    /\ s[Len(s)].at \in home
    /\ \A k \in 1..(Len(s) - 1) : LibraryFrame(s[k])

\* Where a thread is in its program.
PlaceIn(s) == IF s = <<>> THEN "gone" ELSE s[Len(s)].at
Where(t) == PlaceIn(stack[t])

\* Only the stack of a worker that has ended is empty.
StackInv ==
    /\ exec \in Threads
    /\ stack \in [Threads -> Seq(Frames)]
    /\ \A t \in Threads : stack[t] # <<>> => Whole(stack[t], Home(t))
    /\ \A t \in Threads : stack[t] = <<>> => t # Main /\ t # exec /\ work_is_done = 1
    /\ Where(Main) = "telos" => Top.at = "telos"

\* A saved context has a frame to go on with, but for those not yet saved or made.
ContextInv ==
    /\ rout \in [Threads -> [own : Threads, stk : Seq(Frames)]]
    /\ \A t \in Threads : rout[t].stk = <<>> => rout[t].own = t
    /\ \A w \in Workers : rout[w].stk = <<>> => Where(Main) \in {"create", "make"} /\ w >= cur

TypeInv ==
    /\ running \in [Threads -> {0, 1}]
    /\ ring \in Seq(Workers)
    /\ unlinked \in [Threads -> Threads]
    /\ val \in [Threads -> Int]
    /\ work_is_done \in {0, 1}
    /\ alarms \in Nat
    /\ torn \in BOOLEAN
    /\ run \in [Threads -> Threads]
    /\ num \in [Threads -> 0..Len(Numbers)]
    /\ avail \in [Threads -> {0, 1}]
    /\ finish \in [Threads -> {0, 1}]
    /\ numbers_left \in 0..Len(Numbers)
    /\ cur \in Threads
    /\ erased \in BOOLEAN
    /\ verdict \in [Positions -> {"none", "prime", "composite"}]

-----------------------------------------------------------------------------
(* The inductive invariant: the program. *)

\* Where main is, and what it has done by then.
MainInv ==
    /\ Where(Main) \in {"create", "make", "seek"} => cur # Main
    /\ Where(Main) = "seek" => numbers_left > 0
    /\ Where(Main) \in {"drain", "join", "telos"} => numbers_left = 0
    /\ work_is_done = 1 <=> Where(Main) \in {"join", "telos"}

\* The number of records that main has put on the list.
Linked == IF Where(Main) = "create" THEN cur - 1
          ELSE IF Where(Main) = "make" THEN cur ELSE workers

\* The list is in the order of creation; who is off it has finished, and its field
\* prev passes over nobody who has not.
RingInv ==
    /\ \A i \in DOMAIN ring : \A j \in DOMAIN ring : i < j => ring[i] < ring[j]
    /\ work_is_done = 0 => ring = [k \in 1..Linked |-> k]
    /\ work_is_done = 1 => \A w \in Workers \ OnRing : finish[w] = 1
    /\ work_is_done = 1 =>
         \A v \in Workers \ OnRing : \A w \in Workers :
            v < w /\ (unlinked[v] = Main \/ w < unlinked[v]) => finish[w] = 1

\* A worker leaves when there is no work, and its record then stays without a number.
Leaving == {"finish", "remove", "stop", "end"}
Left == {"remove", "stop", "end"}
LeaveInv ==
    /\ \A w \in Workers : Where(w) \in Leaving \cup {"gone"} => work_is_done = 1
    /\ \A w \in Workers : Where(w) \in Leaving => num[run[w]] = NoWork
    /\ \A w \in Workers : Where(w) \in Left => finish[run[w]] = 1
    /\ \A t \in Threads : finish[t] = 1 => num[t] = NoWork /\ work_is_done = 1

\* A record that is finished and on the list is about to be removed.
ListedInv ==
    \A t \in OnRing : finish[t] = 1 =>
        \E w \in Workers : run[w] = t /\ Where(w) = "remove"

\* main has seen the workers finish up to cur.
JoinInv ==
    /\ Where(Main) = "join" => \A w \in Workers : cur = Main \/ w < cur => finish[w] = 1
    /\ Where(Main) = "telos" => \A w \in Workers : finish[w] = 1

\* A number that has been given is tested, or in some record, or erased.
GivenInv ==
    /\ num[Main] = NoWork
    /\ \A t \in Threads : num[t] < pos
    /\ ~erased => \A j \in Positions :
          j < pos /\ verdict[j] = "none" => \E t \in Threads : num[t] = j

VerdictInv ==
    \A j \in Positions :
        verdict[j] # "none" => verdict[j] = IF primetest(Numbers[j]) THEN "prime" ELSE "composite"

ProgramInv == MainInv /\ RingInv /\ LeaveInv /\ ListedInv /\ JoinInv /\ GivenInv /\ VerdictInv
SchedInv == StackInv /\ ContextInv /\ TypeInv
Sound == SchedInv /\ ProgramInv

\* After a crash there are no more steps.
IInv == Crashed \/ Sound

-----------------------------------------------------------------------------
(* Places and threads. *)

LEMMA ThreadFacts ==
    /\ workers \in Nat \ {0}
    /\ Main \in Threads /\ Main = 0
    /\ Workers \subseteq Threads /\ Workers \subseteq Nat \ {0} /\ Threads \subseteq Nat
    /\ \A t \in Threads : t # Main <=> t \in Workers
BY CoroutineAssumption DEF Threads, Workers, Main

LEMMA HomeFacts ==
    ASSUME NEW t \in Threads
    PROVE  Home(t) \cap (LibraryPlaces \cup {"search", "undefined", "gone"}) = {}
BY DEF Home, MainPlaces, WorkerPlaces, LibraryPlaces

AllPlaces == LibraryPlaces \cup WorkerPlaces \cup MainPlaces \cup {"search", "undefined"}

LEMMA PlaceFrame ==
    ASSUME NEW at \in AllPlaces
    PROVE  /\ At(at) \in Frames /\ At(at).at = at
           /\ at \in LibraryPlaces \ {"swap"} => LibraryFrame(At(at))
BY ThreadFacts DEF At, Frame, Frames, LibraryFrame, AllPlaces

LEMMA SwapFrame ==
    ASSUME NEW f \in Threads, NEW t \in Threads
    PROVE  /\ Swap(f, t) \in Frames /\ LibraryFrame(Swap(f, t))
           /\ Swap(f, t).at = "swap" /\ Swap(f, t).a = f /\ Swap(f, t).b = t
BY ThreadFacts DEF Swap, Frame, Frames, LibraryFrame, LibraryPlaces

LEMMA CallFrame ==
    ASSUME NEW at \in LibraryPlaces \ {"swap"}, NEW a \in Threads, NEW b \in Int
    PROVE  /\ Frame(at, a, b) \in Frames /\ LibraryFrame(Frame(at, a, b))
           /\ Frame(at, a, b).at = at /\ Frame(at, a, b).a = a /\ Frame(at, a, b).b = b
BY DEF Frame, Frames, LibraryFrame

LEMMA ContextFacts ==
    ASSUME NEW t, NEW s
    PROVE  Context(t, s).own = t /\ Context(t, s).stk = s
BY DEF Context

-----------------------------------------------------------------------------
(* Stacks. *)

LEMMA PushFacts ==
    ASSUME NEW s \in Seq(Frames), NEW f \in Frames
    PROVE  /\ <<f>> \o s \in Seq(Frames)
           /\ <<f>> \o s # <<>>
           /\ Len(<<f>> \o s) = Len(s) + 1
           /\ Head(<<f>> \o s) = f
           /\ Tail(<<f>> \o s) = s
           /\ (<<f>> \o s)[1] = f
           /\ \A k \in 1..Len(s) : (<<f>> \o s)[k + 1] = s[k]
<1> DEFINE u == <<f>> \o s
<1>1. /\ u \in Seq(Frames) /\ Len(u) = Len(s) + 1 /\ u[1] = f
      /\ \A k \in 1..Len(s) : u[k + 1] = s[k]
  OBVIOUS
<1>2. u # <<>> /\ Head(u) = f
  BY <1>1
<1>3. Tail(u) = s
  <2>1. Tail(u) \in Seq(Frames) /\ Len(Tail(u)) = Len(s)
    BY <1>1, <1>2
  <2>2. \A k \in 1..Len(s) : Tail(u)[k] = s[k]
    BY <1>1, <1>2
  <2> QED
    BY <2>1, <2>2, SeqEqual
<1> QED
  BY <1>1, <1>2, <1>3

LEMMA PushWhole ==
    ASSUME NEW home, NEW s, Whole(s, home), NEW f \in Frames, LibraryFrame(f)
    PROVE  Whole(<<f>> \o s, home) /\ PlaceIn(<<f>> \o s) = PlaceIn(s)
<1> DEFINE u == <<f>> \o s
<1>1. s \in Seq(Frames) /\ s # <<>> /\ Len(s) \in Nat /\ Len(s) >= 1
  BY DEF Whole
<1>2. /\ u \in Seq(Frames) /\ u # <<>> /\ Len(u) = Len(s) + 1 /\ u[1] = f
      /\ \A k \in 1..Len(s) : u[k + 1] = s[k]
  BY <1>1, PushFacts
<1> HIDE DEF u
<1>3. u[Len(u)] = s[Len(s)]
  BY <1>1, <1>2
<1>4. ASSUME NEW k \in 1..(Len(u) - 1) PROVE LibraryFrame(u[k])
  <2>1. CASE k = 1
    BY <2>1, <1>2
  <2>2. CASE k # 1
    <3>1. k - 1 \in 1..(Len(s) - 1) /\ k - 1 \in 1..Len(s) /\ k = (k - 1) + 1
      BY <1>1, <1>2, <2>2
    <3> QED
      BY <1>2, <3>1 DEF Whole
  <2> QED
    BY <2>1, <2>2
<1>5. Whole(u, home) /\ PlaceIn(u) = PlaceIn(s)
  BY <1>1, <1>2, <1>3, <1>4 DEF Whole, PlaceIn
<1> QED
  BY <1>5 DEF u

\* A frame of the library is not the last one.
LEMMA PopWhole ==
    ASSUME NEW home, home \cap LibraryPlaces = {}, NEW s, Whole(s, home),
           Head(s).at \in LibraryPlaces
    PROVE  Whole(Tail(s), home) /\ PlaceIn(Tail(s)) = PlaceIn(s) /\ LibraryFrame(Head(s))
<1>1. s \in Seq(Frames) /\ s # <<>> /\ Len(s) \in Nat /\ Len(s) >= 1 /\ Head(s) = s[1]
  BY DEF Whole
<1>2. Len(s) > 1
  BY <1>1 DEF Whole
<1>3. /\ Tail(s) \in Seq(Frames) /\ Len(Tail(s)) = Len(s) - 1
      /\ \A k \in 1..(Len(s) - 1) : Tail(s)[k] = s[k + 1]
  BY <1>1
<1>4. Tail(s) # <<>>
  <2> DEFINE r == Tail(s)
  <2>1. Len(r) \in Nat /\ Len(r) # 0
    BY <1>1, <1>2, <1>3
  <2> HIDE DEF r
  <2>2. r # <<>>
    BY <2>1
  <2> QED
    BY <2>2 DEF r
<1>5. Tail(s)[Len(Tail(s))] = s[Len(s)]
  BY <1>1, <1>2, <1>3
<1>6. \A k \in 1..(Len(Tail(s)) - 1) : LibraryFrame(Tail(s)[k])
  BY <1>1, <1>3 DEF Whole
<1>7. LibraryFrame(Head(s))
  BY <1>1, <1>2 DEF Whole
<1> QED
  BY <1>1, <1>3, <1>4, <1>5, <1>6, <1>7 DEF Whole, PlaceIn

\* A frame of the program is the only one.
LEMMA LastWhole ==
    ASSUME NEW home, NEW s, Whole(s, home), Head(s).at \notin LibraryPlaces
    PROVE  s = <<Head(s)>> /\ Tail(s) = <<>> /\ PlaceIn(s) = Head(s).at /\ Head(s).at \in home
<1>1. s \in Seq(Frames) /\ s # <<>> /\ Len(s) \in Nat /\ Len(s) >= 1 /\ Head(s) = s[1]
  BY DEF Whole
<1>2. Len(s) = 1
  <2>1. Len(s) > 1 => LibraryFrame(s[1])
    BY <1>1 DEF Whole
  <2>2. ~LibraryFrame(s[1])
    BY <1>1 DEF LibraryFrame
  <2> DEFINE n == Len(s)
  <2>3. n \in Nat /\ n >= 1 /\ ~(n > 1)
    BY <1>1, <2>1, <2>2
  <2> HIDE DEF n
  <2>4. n = 1
    BY <2>3
  <2> QED
    BY <2>4 DEF n
<1>3. s = <<Head(s)>>
  BY <1>1, <1>2, SeqEqual
<1>4. Tail(s) = <<>>
  <2>1. Tail(s) = SubSeq(s, 2, Len(s))
    BY <1>1, TailIsSubSeq
  <2>2. SubSeq(s, 2, 1) = <<>>
    BY SubSeqEmpty
  <2> QED
    BY <1>2, <2>1, <2>2
<1> QED
  BY <1>1, <1>2, <1>3, <1>4 DEF Whole, PlaceIn

LEMMA OneWhole ==
    ASSUME NEW home, NEW f \in Frames, f.at \in home
    PROVE  Whole(<<f>>, home) /\ PlaceIn(<<f>>) = f.at
<1>1. <<f>> \in Seq(Frames) /\ <<f>> # <<>> /\ Len(<<f>>) = 1 /\ <<f>>[1] = f
  OBVIOUS
<1> QED
  BY <1>1 DEF Whole, PlaceIn

LEMMA PairConcat ==
    ASSUME NEW s \in Seq(Frames), NEW f \in Frames, NEW g \in Frames
    PROVE  <<f, g>> \o s = <<f>> \o (<<g>> \o s)
<1>1. <<f>> \in Seq(Frames) /\ <<g>> \in Seq(Frames)
  OBVIOUS
<1>2. <<f>> \o (<<g>> \o s) = (<<f>> \o <<g>>) \o s
  BY <1>1, ConcatAssociative
<1>3. <<f>> \o <<g>> = <<f, g>>
  <2> DEFINE u == <<f>> \o <<g>>
             v == <<f, g>>
  <2>1. u \in Seq(Frames) /\ Len(u) = 2 /\ u[1] = f /\ u[2] = g
    BY <1>1
  <2>2. v \in Seq(Frames) /\ Len(v) = 2 /\ v[1] = f /\ v[2] = g
    OBVIOUS
  <2> HIDE DEF u, v
  <2>3. u = v
    BY <2>1, <2>2, SeqEqual
  <2> QED
    BY <2>3 DEF u, v
<1> QED
  BY <1>2, <1>3

-----------------------------------------------------------------------------
(* The list. *)

LEMMA OnRingFacts ==
    ASSUME ring \in Seq(Workers), NEW t \in OnRing
    PROVE  Place(t) \in DOMAIN ring /\ ring[Place(t)] = t /\ t \in Workers
<1>1. PICK k \in DOMAIN ring : ring[k] = t
  BY DEF OnRing
<1>2. Place(t) \in DOMAIN ring /\ ring[Place(t)] = t
  BY <1>1 DEF Place
<1>3. ring[Place(t)] \in Workers
  BY <1>2
<1> QED
  BY <1>2, <1>3

LEMMA PrevOfThread ==
    ASSUME ring \in Seq(Workers), unlinked \in [Threads -> Threads], NEW t \in Threads
    PROVE  PrevOf(t) \in Threads
<1>1. CASE t = Main
  <2>1. ring # <<>> => ring[1] \in Workers
    OBVIOUS
  <2> QED
    BY <1>1, <2>1, ThreadFacts DEF PrevOf
<1>2. CASE t # Main /\ t \notin OnRing
  BY <1>2 DEF PrevOf
<1>3. CASE t # Main /\ t \in OnRing
  <2>1. Place(t) \in 1..Len(ring)
    BY <1>3, OnRingFacts
  <2>2. Place(t) # Len(ring) => ring[Place(t) + 1] \in Workers
    BY <2>1
  <2> QED
    BY <1>3, <2>2, ThreadFacts DEF PrevOf
<1> QED
  BY <1>1, <1>2, <1>3

LEMMA NextOfThread ==
    ASSUME ring \in Seq(Workers), NEW t \in OnRing \cup {Main}
    PROVE  NextOf(t) \in Threads
<1>1. CASE t = Main
  <2>1. ring # <<>> => ring[Len(ring)] \in Workers
    OBVIOUS
  <2> QED
    BY <1>1, <2>1, ThreadFacts DEF NextOf
<1>2. CASE t # Main
  <2>1. Place(t) \in 1..Len(ring) /\ ring[Place(t)] = t
    BY <1>2, OnRingFacts
  <2>2. t # ring[1] => ring[Place(t) - 1] \in Workers
    BY <2>1
  <2> QED
    BY <1>2, <2>2, ThreadFacts DEF NextOf
<1> QED
  BY <1>1, <1>2

\* A set of records on the list has one that is last on it.
LEMMA LastOnRing ==
    ASSUME ring \in Seq(Workers), NEW T, T \subseteq OnRing, T # {}
    PROVE  \E t \in T : \A u \in T : Place(t) >= Place(u)
<1> DEFINE R == OpToRel(<, Nat)
           Far == {Len(ring) - Place(t) : t \in T}
<1>1. \A t \in T : Place(t) \in 1..Len(ring)
  BY OnRingFacts
<1>2. Far \subseteq Nat /\ Far # {}
  BY <1>1
<1>3. PICK x \in Far : \A y \in Far : ~(<<y, x>> \in R)
  <2> HIDE DEF R, Far
  <2> QED
    BY <1>2, NatLessThanWellFounded, WFMin DEF R
<1>4. PICK t \in T : x = Len(ring) - Place(t)
  OBVIOUS
<1>5. ASSUME NEW u \in T PROVE Place(t) >= Place(u)
  <2> DEFINE y == Len(ring) - Place(u)
  <2>1. y \in Far
    OBVIOUS
  <2>2. x \in Nat /\ y \in Nat
    BY <1>2, <2>1
  <2>3. ~(y < x)
    BY <1>3, <2>1, <2>2 DEF OpToRel
  <2>4. Place(t) \in Nat /\ Place(u) \in Nat /\ Len(ring) \in Nat
    BY <1>1
  <2> QED
    BY <1>4, <2>2, <2>3, <2>4
<1> QED
  BY <1>5

\* The record that a handler finds.
LEMMA FoundThread ==
    ASSUME ring \in Seq(Workers), running \in [Threads -> {0, 1}],
           ~(running[Main] = 0 /\ Flagged = {})
    PROVE  Found \in Threads /\ running[Found] = 1 /\ (running[Main] = 0 => Found \in OnRing)
<1>0. running[Main] \in {0, 1}
  BY ThreadFacts
<1>1. CASE running[Main] = 1
  BY <1>1, ThreadFacts DEF Found
<1>2. CASE running[Main] = 0
  <2>1. Flagged \subseteq OnRing /\ Flagged # {}
    BY <1>2 DEF Flagged
  <2>2. \E t \in Flagged : \A u \in Flagged \ {t} : Before(t, u)
    <3>1. CASE ring[1] \in Flagged
      BY <3>1 DEF Before
    <3>2. CASE ring[1] \notin Flagged
      <4>1. PICK t \in Flagged : \A u \in Flagged : Place(t) >= Place(u)
        BY <2>1, LastOnRing
      <4>2. ASSUME NEW u \in Flagged \ {t} PROVE Before(t, u)
        <5>1. /\ ring[Place(t)] = t /\ ring[Place(u)] = u
              /\ Place(t) \in 1..Len(ring) /\ Place(u) \in 1..Len(ring)
          BY <2>1, OnRingFacts
        <5>2. Place(t) # Place(u) /\ Place(t) >= Place(u)
          BY <4>1, <5>1
        <5>3. Place(t) > Place(u)
          BY <5>1, <5>2
        <5> QED
          BY <3>2, <5>3 DEF Before
      <4> QED
        BY <4>2
    <3> QED
      BY <3>1, <3>2
  <2>3. Found \in Flagged
    BY <1>2, <2>2 DEF Found
  <2> QED
    BY <2>3, OnRingFacts, ThreadFacts DEF Flagged
<1> QED
  BY <1>0, <1>1, <1>2

-----------------------------------------------------------------------------
(* Steps and stacks. *)

LEMMA TopFacts ==
    ASSUME StackInv
    PROVE  /\ Whole(stack[exec], Home(exec))
           /\ Home(exec) \cap (LibraryPlaces \cup {"search", "undefined", "gone"}) = {}
           /\ Top \in Frames
           /\ stack[exec] \in Seq(Frames) /\ stack[exec] # <<>>
<1>1. exec \in Threads /\ stack[exec] # <<>> /\ Whole(stack[exec], Home(exec))
  BY DEF StackInv
<1>2. stack[exec] \in Seq(Frames)
  BY <1>1 DEF Whole
<1> QED
  BY <1>1, <1>2, HomeFacts DEF Top

\* A step of the program: the frame of the program is the only one on the stack.
LEMMA ProgramTop ==
    ASSUME StackInv, Top.at \notin LibraryPlaces
    PROVE  /\ Tail(stack[exec]) = <<>>
           /\ Where(exec) = Top.at /\ Top.at \in Home(exec)
           /\ exec # Main => Where(Main) # "telos"
<1>1. /\ Tail(stack[exec]) = <<>> /\ PlaceIn(stack[exec]) = Top.at
      /\ Top.at \in Home(exec)
  BY TopFacts, LastWhole DEF Top
<1>2. exec # Main => Where(Main) # "telos"
  BY <1>1 DEF StackInv, Home, WorkerPlaces
<1> QED
  BY <1>1, <1>2 DEF Where

LEMMA ProgramStack ==
    ASSUME StackInv, Top.at \notin LibraryPlaces,
           NEW fs, Whole(fs, Home(exec)), PlaceIn(fs) = "telos" => Head(fs).at = "telos",
           Becomes(fs), exec' = exec, work_is_done = 1 => work_is_done' = 1
    PROVE  /\ StackInv'
           /\ stack' = [stack EXCEPT ![exec] = fs]
           /\ PlaceIn(stack'[exec]) = PlaceIn(fs)
           /\ \A t \in Threads \ {exec} : stack'[t] = stack[t]
           /\ Top'.at = Head(fs).at
<1>1. fs \in Seq(Frames) /\ fs # <<>>
  BY DEF Whole
<1>2. fs \o Tail(stack[exec]) = fs
  BY <1>1, ProgramTop, ConcatEmptySeq
<1>3. stack' = [stack EXCEPT ![exec] = fs]
  BY <1>2 DEF Becomes
<1>4. exec \in Threads /\ stack \in [Threads -> Seq(Frames)] /\ Main \in Threads
  BY ThreadFacts DEF StackInv
<1>5. stack'[exec] = fs /\ \A t \in Threads \ {exec} : stack'[t] = stack[t]
  BY <1>3, <1>4
<1>6. stack' \in [Threads -> Seq(Frames)]
  BY <1>1, <1>3, <1>4
<1>7. \A t \in Threads : stack'[t] # <<>> => Whole(stack'[t], Home(t))
  BY <1>5 DEF StackInv
<1>8. \A t \in Threads : stack'[t] = <<>> => t # Main /\ t # exec' /\ work_is_done' = 1
  BY <1>1, <1>5 DEF StackInv
<1>9. PlaceIn(stack'[Main]) = "telos" => Head(stack'[exec']).at = "telos"
  BY <1>4, <1>5, ProgramTop DEF Where
<1> QED
  BY <1>3, <1>4, <1>5, <1>6, <1>7, <1>8, <1>9 DEF StackInv, Where, Top

\* A step of the library leaves the frame of the program alone.
LEMMA LibraryStack ==
    ASSUME StackInv, Top.at # "telos",
           NEW s, Whole(s, Home(exec)), PlaceIn(s) = Where(exec),
           stack' = [stack EXCEPT ![exec] = s],
           exec' = exec, work_is_done' = work_is_done
    PROVE  StackInv' /\ \A t \in Threads : PlaceIn(stack'[t]) = PlaceIn(stack[t])
<1>1. s \in Seq(Frames) /\ s # <<>>
  BY DEF Whole
<1>4. exec \in Threads /\ stack \in [Threads -> Seq(Frames)] /\ Main \in Threads
  BY ThreadFacts DEF StackInv
<1>5. stack'[exec] = s /\ \A t \in Threads \ {exec} : stack'[t] = stack[t]
  BY <1>4
<1>6. stack' \in [Threads -> Seq(Frames)]
  BY <1>1, <1>4
<1>7. \A t \in Threads : stack'[t] # <<>> => Whole(stack'[t], Home(t))
  BY <1>5 DEF StackInv
<1>8. \A t \in Threads : stack'[t] = <<>> => t # Main /\ t # exec' /\ work_is_done' = 1
  BY <1>1, <1>5 DEF StackInv
<1>9. \A t \in Threads : PlaceIn(stack'[t]) = PlaceIn(stack[t])
  BY <1>5 DEF Where
<1>10. PlaceIn(stack'[Main]) # "telos"
  BY <1>4, <1>9 DEF StackInv, Where
<1> QED
  BY <1>4, <1>6, <1>7, <1>8, <1>9, <1>10 DEF StackInv, Where

-----------------------------------------------------------------------------
(* Steps of the library and expiries of the timer. *)

\* The places in the program stay, but for a worker that ends.
PlacesStay ==
    \A t \in Threads : \/ PlaceIn(stack'[t]) = PlaceIn(stack[t])
                       \/ /\ t = exec /\ PlaceIn(stack[t]) = "end"
                          /\ PlaceIn(stack'[t]) = "gone"

LEMMA MainPlaceStays ==
    ASSUME StackInv, PlacesStay
    PROVE  PlaceIn(stack'[Main]) = PlaceIn(stack[Main])
<1>1. Main \in Threads /\ stack[Main] # <<>> /\ Whole(stack[Main], MainPlaces)
  BY ThreadFacts DEF StackInv, Home
<1>2. PlaceIn(stack[Main]) # "end"
  BY <1>1 DEF PlaceIn, Whole, MainPlaces
<1> QED
  BY <1>1, <1>2 DEF PlacesStay

LEMMA ProgramStays ==
    ASSUME SchedInv, ProgramInv, PlacesStay, UNCHANGED <<progVars, ring, unlinked, work_is_done>>
    PROVE  ProgramInv'
<1> USE DEF SchedInv, ProgramInv
<1>1. PlaceIn(stack'[Main]) = PlaceIn(stack[Main])
  BY MainPlaceStays
<1>2. MainInv' /\ Linked' = Linked
  BY <1>1 DEF MainInv, Linked, Where, progVars
<1>3. OnRing' = OnRing
  BY DEF OnRing
<1>4. RingInv'
  BY <1>2, <1>3 DEF RingInv, progVars
<1>5. LeaveInv'
  <2>1. \A w \in Workers : PlaceIn(stack'[w]) \in Leaving \cup {"gone"} =>
                             PlaceIn(stack[w]) \in Leaving \cup {"gone"}
    BY ThreadFacts DEF PlacesStay, Leaving
  <2>2. \A w \in Workers : PlaceIn(stack'[w]) \in Leaving => PlaceIn(stack[w]) \in Leaving
    BY ThreadFacts DEF PlacesStay, Leaving
  <2>3. \A w \in Workers : PlaceIn(stack'[w]) \in Left => PlaceIn(stack[w]) \in Left
    BY ThreadFacts DEF PlacesStay, Left
  <2> QED
    BY <2>1, <2>2, <2>3 DEF LeaveInv, Where, progVars
<1>6. ListedInv'
  <2>1. \A w \in Workers : PlaceIn(stack[w]) = "remove" => PlaceIn(stack'[w]) = "remove"
    BY ThreadFacts DEF PlacesStay
  <2> QED
    BY <1>3, <2>1 DEF ListedInv, Where, progVars
<1>7. JoinInv'
  BY <1>1 DEF JoinInv, Where, progVars
<1>8. GivenInv'
  BY DEF GivenInv, progVars, pos
<1>9. VerdictInv'
  BY DEF VerdictInv, progVars
<1> QED
  BY <1>2, <1>4, <1>5, <1>6, <1>7, <1>8, <1>9

\* The contexts are as good as before if they are the same.
LEMMA ContextsStay ==
    ASSUME SchedInv, PlacesStay, UNCHANGED <<rout, cur>>
    PROVE  ContextInv'
<1>1. PlaceIn(stack'[Main]) = PlaceIn(stack[Main])
  BY MainPlaceStays DEF SchedInv
<1> QED
  BY <1>1 DEF SchedInv, ContextInv, Where

LEMMA SwitchStack ==
    ASSUME SchedInv, Top.at # "telos", NEW base, Whole(base, Home(exec)),
           PlaceIn(base) = Where(exec), Switch(base),
           UNCHANGED <<exec, work_is_done>>
    PROVE  Crashed' \/ (StackInv' /\ PlacesStay /\ running' \in [Threads -> {0, 1}])
<1>0. exec \in Threads /\ stack \in [Threads -> Seq(Frames)]
  BY DEF SchedInv, StackInv
<1>1. CASE running[Main] = 0 /\ Flagged = {}
  <2>1. stack'[exec] = <<At("search")>> \o base
    BY <1>0, <1>1 DEF Switch
  <2>2. At("search") \in Frames /\ At("search").at = "search"
    BY PlaceFrame DEF AllPlaces
  <2>3. base \in Seq(Frames)
    BY DEF Whole
  <2>4. Head(stack'[exec']).at = "search"
    BY <2>1, <2>2, <2>3, PushFacts
  <2> QED
    BY <2>4 DEF Crashed, Top
<1>2. CASE ~(running[Main] = 0 /\ Flagged = {})
  <2> DEFINE f == Swap(Found, PrevOf(Found))
  <2>1. Found \in Threads /\ PrevOf(Found) \in Threads
    BY <1>2, FoundThread, PrevOfThread DEF SchedInv, TypeInv
  <2>2. f \in Frames /\ LibraryFrame(f)
    BY <2>1, SwapFrame
  <2>4. stack' = [stack EXCEPT ![exec] = <<f>> \o base] /\ Turn(Found)
    BY <1>2 DEF Switch
  <2> HIDE DEF f
  <2>5. Whole(<<f>> \o base, Home(exec)) /\ PlaceIn(<<f>> \o base) = PlaceIn(base)
    BY <2>2, PushWhole
  <2>6. StackInv' /\ \A t \in Threads : PlaceIn(stack'[t]) = PlaceIn(stack[t])
    BY <2>4, <2>5, LibraryStack DEF SchedInv
  <2>7. running' \in [Threads -> {0, 1}]
    BY <2>1, <2>4 DEF Turn, SchedInv, TypeInv
  <2> QED
    BY <2>6, <2>7 DEF PlacesStay
<1> QED
  BY <1>1, <1>2

LEMMA AlarmSound ==
    ASSUME SchedInv, ProgramInv, alarm_handler, UNCHANGED progVars
    PROVE  Crashed' \/ (SchedInv' /\ ProgramInv')
<1>1. Whole(stack[exec], Home(exec)) /\ PlaceIn(stack[exec]) = Where(exec)
  BY TopFacts DEF SchedInv, Where
<1>2. /\ Top.at # "telos" /\ Switch(stack[exec])
      /\ UNCHANGED <<exec, work_is_done, rout, ring, unlinked, val, cur>>
      /\ alarms' = alarms + 1 /\ torn' \in BOOLEAN
  BY DEF alarm_handler, Preemptible, progVars, SchedInv, TypeInv
<1>3. Crashed' \/ (StackInv' /\ PlacesStay /\ running' \in [Threads -> {0, 1}])
  BY <1>1, <1>2, SwitchStack
<1>4. PlacesStay => ContextInv' /\ ProgramInv'
  BY <1>2, ContextsStay, ProgramStays
<1>5. running' \in [Threads -> {0, 1}] => TypeInv'
  BY <1>2 DEF SchedInv, TypeInv, progVars, Positions
<1> QED
  BY <1>3, <1>4, <1>5 DEF SchedInv

LEMMA UserSound ==
    ASSUME SchedInv, ProgramInv, user_handler, UNCHANGED progVars
    PROVE  Crashed' \/ (SchedInv' /\ ProgramInv')
<1> DEFINE base == <<At("back")>> \o Tail(stack[exec])
           back == At("back")
           restore == At("restore")
<1>1. /\ Top.at = "yield"
      /\ UNCHANGED <<exec, work_is_done, rout, ring, unlinked, val, cur>>
      /\ UNCHANGED <<alarms, torn>>
  BY DEF user_handler, progVars
<1>2. /\ Whole(Tail(stack[exec]), Home(exec)) /\ PlaceIn(Tail(stack[exec])) = Where(exec)
  BY <1>1, TopFacts, PopWhole DEF SchedInv, Where, Top, LibraryPlaces
<1>3. /\ back \in Frames /\ LibraryFrame(back) /\ restore \in Frames /\ LibraryFrame(restore)
  BY PlaceFrame DEF AllPlaces, LibraryPlaces
<1>4. Whole(base, Home(exec)) /\ PlaceIn(base) = Where(exec)
  BY <1>2, <1>3, PushWhole
<1>7. Crashed' \/ (StackInv' /\ PlacesStay /\ running' \in [Threads -> {0, 1}])
  <2>5. CASE running[Main] = 0 /\ work_is_done = 1
    <3>1. /\ running' = [running EXCEPT ![Main] = 1]
          /\ stack' = [stack EXCEPT ![exec] = <<restore>> \o base]
      BY <2>5 DEF user_handler
    <3> HIDE DEF base, restore
    <3>2. Whole(<<restore>> \o base, Home(exec)) /\ PlaceIn(<<restore>> \o base) = PlaceIn(base)
      BY <1>3, <1>4, PushWhole
    <3>3. StackInv' /\ \A t \in Threads : PlaceIn(stack'[t]) = PlaceIn(stack[t])
      BY <1>1, <1>4, <3>1, <3>2, LibraryStack DEF SchedInv
    <3>4. running' \in [Threads -> {0, 1}]
      BY <3>1 DEF SchedInv, TypeInv
    <3> QED
      BY <3>3, <3>4 DEF PlacesStay
  <2>6. CASE ~(running[Main] = 0 /\ work_is_done = 1)
    <3>1. Switch(base)
      BY <2>6 DEF user_handler
    <3> QED
      BY <1>1, <1>4, <3>1, SwitchStack
  <2> QED
    BY <2>5, <2>6
<1>8. PlacesStay => ContextInv' /\ ProgramInv'
  BY <1>1, ContextsStay, ProgramStays
<1>9. running' \in [Threads -> {0, 1}] => TypeInv'
  BY <1>1 DEF SchedInv, TypeInv, progVars, Positions
<1> QED
  BY <1>7, <1>8, <1>9 DEF SchedInv

\* What is left of the stack when its first frame is dropped.
LEMMA PoppedFacts ==
    ASSUME SchedInv, ProgramInv, Top.at \in LibraryPlaces \cup {"end"}
    PROVE  /\ Popped \in [Threads -> Seq(Frames)]
           /\ Popped[exec] = Tail(stack[exec])
           /\ \A t \in Threads \ {exec} : Popped[t] = stack[t]
           /\ \/ /\ Top.at \in LibraryPlaces
                 /\ Whole(Popped[exec], Home(exec)) /\ PlaceIn(Popped[exec]) = PlaceIn(stack[exec])
              \/ /\ Top.at = "end" /\ exec # Main /\ work_is_done = 1
                 /\ Popped[exec] = <<>> /\ PlaceIn(stack[exec]) = "end"
           /\ Top.at # "telos"
<1>1. exec \in Threads /\ stack \in [Threads -> Seq(Frames)]
  BY DEF SchedInv, StackInv
<1>2. stack[exec] \in Seq(Frames) /\ stack[exec] # <<>>
  BY TopFacts DEF SchedInv
<1>3. Tail(stack[exec]) \in Seq(Frames)
  BY <1>2
<1>4. /\ Popped \in [Threads -> Seq(Frames)] /\ Popped[exec] = Tail(stack[exec])
      /\ \A t \in Threads \ {exec} : Popped[t] = stack[t]
  BY <1>1, <1>3 DEF Popped
<1>5. CASE Top.at \in LibraryPlaces
  <2>1. Whole(Tail(stack[exec]), Home(exec)) /\ PlaceIn(Tail(stack[exec])) = PlaceIn(stack[exec])
    BY <1>5, TopFacts, PopWhole DEF SchedInv, Top
  <2> QED
    BY <1>4, <1>5, <2>1 DEF LibraryPlaces
<1>6. CASE Top.at = "end"
  <2>1. Top.at \notin LibraryPlaces
    BY <1>6 DEF LibraryPlaces
  <2>2. Tail(stack[exec]) = <<>> /\ Where(exec) = "end" /\ "end" \in Home(exec)
    BY <1>6, <2>1, ProgramTop DEF SchedInv
  <2>3. exec # Main
    BY <2>2 DEF Home, MainPlaces
  <2>4. work_is_done = 1
    BY <1>1, <2>2, <2>3, ThreadFacts DEF ProgramInv, LeaveInv, Leaving
  <2> QED
    BY <1>4, <1>6, <2>2, <2>3, <2>4 DEF Where
<1> QED
  BY <1>4, <1>5, <1>6

LEMMA ResumeStack ==
    ASSUME SchedInv, ProgramInv, Top.at \in LibraryPlaces \cup {"end"},
           NEW c \in [own : Threads, stk : Seq(Frames)], Resume(c, Popped),
           c.stk = <<>> => Popped[c.own] # <<>>, UNCHANGED work_is_done
    PROVE  Crashed' \/ (StackInv' /\ PlacesStay)
<1> DEFINE s == Popped
<1>0. exec \in Threads /\ c.own \in Threads /\ c.stk \in Seq(Frames) /\ Main \in Threads
  BY ThreadFacts DEF SchedInv, StackInv
<1>1. /\ s \in [Threads -> Seq(Frames)]
      /\ \A t \in Threads \ {exec} : s[t] = stack[t]
      /\ \/ /\ Whole(s[exec], Home(exec)) /\ PlaceIn(s[exec]) = PlaceIn(stack[exec])
         \/ /\ exec # Main /\ work_is_done = 1
            /\ s[exec] = <<>> /\ PlaceIn(stack[exec]) = "end"
      /\ Top.at # "telos"
  BY PoppedFacts
<1>2. /\ exec' = c.own
      /\ stack' = IF s[c.own] = c.stk THEN s ELSE [s EXCEPT ![c.own] = <<At("undefined")>>]
  BY DEF Resume
<1>3. c.stk = <<>> => s[c.own] # <<>>
  OBVIOUS
<1> HIDE DEF s
<1>4. CASE s[c.own] # c.stk
  <2>1. stack'[exec'] = <<At("undefined")>>
    BY <1>0, <1>1, <1>2, <1>4
  <2>2. At("undefined").at = "undefined"
    BY PlaceFrame DEF AllPlaces
  <2>3. Top'.at = "undefined"
    BY <2>1, <2>2 DEF Top
  <2> QED
    BY <2>3 DEF Crashed
<1>5. CASE s[c.own] = c.stk
  <2>1. stack' = s /\ s[exec'] # <<>>
    BY <1>2, <1>3, <1>5
  <2>2. \A t \in Threads : s[t] # <<>> => Whole(s[t], Home(t))
    BY <1>0, <1>1 DEF SchedInv, StackInv
  <2>3. \A t \in Threads : s[t] = <<>> => t # Main /\ t # exec' /\ work_is_done' = 1
    <3> SUFFICES ASSUME NEW t \in Threads, s[t] = <<>>
                 PROVE  t # Main /\ t # exec' /\ work_is_done' = 1
      OBVIOUS
    <3>1. CASE t = exec
      BY <1>1, <2>1, <3>1 DEF Whole
    <3>2. CASE t # exec
      BY <1>1, <2>1, <3>2 DEF SchedInv, StackInv
    <3> QED
      BY <3>1, <3>2
  <2>4. \A t \in Threads : \/ PlaceIn(s[t]) = PlaceIn(stack[t])
                           \/ t = exec /\ PlaceIn(stack[t]) = "end" /\ PlaceIn(s[t]) = "gone"
    <3>1. s[exec] = <<>> => PlaceIn(s[exec]) = "gone"
      BY DEF PlaceIn
    <3> QED
      BY <1>1, <3>1
  <2>5. PlacesStay
    BY <2>1, <2>4 DEF PlacesStay
  <2>6. PlaceIn(s[Main]) # "telos"
    BY <1>0, <1>1, <2>4 DEF SchedInv, StackInv, Where
  <2>7. StackInv'
    BY <1>0, <1>1, <1>2, <2>1, <2>2, <2>3, <2>6 DEF StackInv, Where
  <2> QED
    BY <2>5, <2>7
<1> QED
  BY <1>4, <1>5

\* A context without a frame is that of a thread that has a stack.
LEMMA FreshContext ==
    ASSUME SchedInv, ProgramInv, NEW t \in Threads, rout[t].stk = <<>>
    PROVE  rout[t].own = t /\ stack[t] # <<>>
<1>1. rout[t].own = t
  BY DEF SchedInv, ContextInv
<1>2. CASE t = Main
  BY <1>1, <1>2 DEF SchedInv, StackInv
<1>3. CASE t # Main
  <2>1. Where(Main) \in {"create", "make"}
    BY <1>3, ThreadFacts DEF SchedInv, ContextInv
  <2>2. work_is_done # 1
    BY <2>1 DEF ProgramInv, MainInv
  <2> QED
    BY <1>1, <2>2 DEF SchedInv, StackInv
<1> QED
  BY <1>2, <1>3

LEMMA SwapSound ==
    ASSUME SchedInv, ProgramInv, swapcontext, UNCHANGED progVars
    PROVE  Crashed' \/ (SchedInv' /\ ProgramInv')
<1> DEFINE c == rout'[Top.b]
<1>1. /\ Top.at = "swap" /\ Top.at \in LibraryPlaces \cup {"end"}
      /\ rout' = [rout EXCEPT ![Top.a] = Context(exec, Tail(stack[exec]))]
      /\ Resume(c, Popped)
      /\ UNCHANGED <<running, ring, unlinked, val, work_is_done, alarms, torn>>
  BY DEF swapcontext, LibraryPlaces
<1>2. Top \in Frames /\ LibraryFrame(Top)
  BY <1>1, TopFacts, PopWhole DEF SchedInv, LibraryPlaces, Top
<1>3. Top.a \in Threads /\ Top.b \in Threads
  BY <1>1, <1>2 DEF Frames, LibraryFrame
<1>4. /\ Popped[exec] = Tail(stack[exec]) /\ Popped[exec] # <<>>
      /\ Popped \in [Threads -> Seq(Frames)] /\ exec \in Threads
      /\ \A t \in Threads \ {exec} : Popped[t] = stack[t]
  BY <1>1, PoppedFacts DEF Whole, SchedInv, StackInv
<1>5. Context(exec, Tail(stack[exec])) \in [own : Threads, stk : Seq(Frames)]
  BY <1>4 DEF Context
<1>6. rout' \in [Threads -> [own : Threads, stk : Seq(Frames)]]
  BY <1>1, <1>5 DEF SchedInv, ContextInv
<1>7. rout'[Top.a].stk # <<>>
  <2>1. rout'[Top.a] = Context(exec, Tail(stack[exec]))
    BY <1>1, <1>3 DEF SchedInv, ContextInv
  <2> QED
    BY <1>4, <2>1 DEF Context
<1>8. \A t \in Threads \ {Top.a} : rout'[t] = rout[t]
  BY <1>1, <1>3 DEF SchedInv, ContextInv
<1>9. c.stk = <<>> => Popped[c.own] # <<>>
  <2> SUFFICES ASSUME c.stk = <<>> PROVE Popped[c.own] # <<>>
    OBVIOUS
  <2>1. c = rout[Top.b]
    BY <1>3, <1>7, <1>8
  <2>2. c.own = Top.b /\ stack[Top.b] # <<>>
    BY <1>3, <2>1, FreshContext
  <2> QED
    BY <1>3, <1>4, <2>2
<1>10. c \in [own : Threads, stk : Seq(Frames)]
  BY <1>3, <1>6
<1>11. Crashed' \/ (StackInv' /\ PlacesStay)
  BY <1>1, <1>9, <1>10, ResumeStack
<1>12. PlacesStay => ContextInv'
  <2> SUFFICES ASSUME PlacesStay PROVE ContextInv'
    OBVIOUS
  <2>1. PlaceIn(stack'[Main]) = PlaceIn(stack[Main])
    BY MainPlaceStays DEF SchedInv
  <2> QED
    BY <1>6, <1>7, <1>8, <2>1, ThreadFacts DEF SchedInv, ContextInv, Where, progVars
<1>13. PlacesStay => ProgramInv'
  BY <1>1, ProgramStays
<1>14. TypeInv'
  BY <1>1 DEF SchedInv, TypeInv, progVars, Positions
<1> QED
  BY <1>11, <1>12, <1>13, <1>14 DEF SchedInv

LEMMA SetSound ==
    ASSUME SchedInv, ProgramInv, setcontext, UNCHANGED progVars
    PROVE  Crashed' \/ (SchedInv' /\ ProgramInv')
<1>1. /\ Top.at \in {"restore", "end"} /\ Top.at \in LibraryPlaces \cup {"end"}
      /\ Resume(rout[Main], Popped)
      /\ UNCHANGED <<rout, running, ring, unlinked, val, work_is_done, alarms, torn>>
  BY DEF setcontext, LibraryPlaces
<1>2. rout[Main] \in [own : Threads, stk : Seq(Frames)] /\ Main \in Threads
  BY ThreadFacts DEF SchedInv, ContextInv
<1>3. rout[Main].stk = <<>> => Popped[rout[Main].own] # <<>>
  <2> SUFFICES ASSUME rout[Main].stk = <<>> PROVE Popped[Main] # <<>>
    BY <1>2, FreshContext
  <2>1. CASE exec = Main
    BY <1>1, <2>1, PoppedFacts DEF Whole
  <2>2. CASE exec # Main
    BY <1>1, <1>2, <2>2, PoppedFacts, FreshContext
  <2> QED
    BY <2>1, <2>2
<1>4. Crashed' \/ (StackInv' /\ PlacesStay)
  BY <1>1, <1>2, <1>3, ResumeStack
<1>5. PlacesStay => ContextInv' /\ ProgramInv'
  BY <1>1, ContextsStay, ProgramStays DEF progVars
<1>6. TypeInv'
  BY <1>1 DEF SchedInv, TypeInv, progVars, Positions
<1> QED
  BY <1>4, <1>5, <1>6 DEF SchedInv

-----------------------------------------------------------------------------
(* The semaphores. *)

\* The frames fs, of the library or none, take the place of the innermost.
LEMMA CallSound ==
    ASSUME SchedInv, ProgramInv, Top.at \in LibraryPlaces,
           NEW s, Whole(s, Home(exec)), PlaceIn(s) = PlaceIn(Tail(stack[exec])),
           stack' = [stack EXCEPT ![exec] = s], val' \in [Threads -> Int],
           UNCHANGED <<progVars, stays>>
    PROVE  SchedInv' /\ ProgramInv'
<1>1. PlaceIn(s) = Where(exec) /\ Top.at # "telos"
  BY TopFacts, PopWhole DEF SchedInv, Where, Top, LibraryPlaces
<1>2. UNCHANGED <<exec, rout, running, ring, unlinked, work_is_done, alarms, torn, cur>>
  BY DEF stays, progVars
<1>3. StackInv' /\ PlacesStay
  BY <1>1, <1>2, LibraryStack DEF SchedInv, PlacesStay
<1>4. ContextInv' /\ ProgramInv'
  BY <1>2, <1>3, ContextsStay, ProgramStays
<1>5. TypeInv'
  BY <1>2 DEF SchedInv, TypeInv, progVars, Positions
<1> QED
  BY <1>3, <1>4, <1>5 DEF SchedInv

LEMMA SemaphoreSound ==
    ASSUME SchedInv, ProgramInv, UNCHANGED progVars,
           \/ my_threads_sem_down \/ StoreDown \/ Wait \/ my_threads_sem_up \/ StoreUp \/ Back
    PROVE  SchedInv' /\ ProgramInv'
<1> DEFINE base == Tail(stack[exec])
           h == Home(exec)
<1>1. Top.at \in {"down", "dec", "wait", "up", "inc", "back"}
  BY DEF my_threads_sem_down, StoreDown, Wait, my_threads_sem_up, StoreUp, Back
<1>2. Top.at \in LibraryPlaces
  BY <1>1 DEF LibraryPlaces
<1>3. /\ Whole(base, h) /\ Top \in Frames /\ LibraryFrame(Top)
  BY <1>2, TopFacts, PopWhole DEF SchedInv, Top
<1>4. Top.a \in Threads /\ Top.b \in Int /\ val \in [Threads -> Int]
  BY <1>3 DEF Frames, SchedInv, TypeInv
<1>5. base \in Seq(Frames)
  BY <1>3 DEF Whole
<1> HIDE DEF base, h
<1>6. ASSUME NEW at \in LibraryPlaces \ {"swap"}, NEW a \in Threads, NEW b \in Int
      PROVE  /\ Frame(at, a, b) \in Frames
             /\ Whole(<<Frame(at, a, b)>> \o base, h)
             /\ PlaceIn(<<Frame(at, a, b)>> \o base) = PlaceIn(base)
  BY <1>3, CallFrame, PushWhole
<1>7. ASSUME NEW s, Whole(s, h), PlaceIn(s) = PlaceIn(base),
             stack' = [stack EXCEPT ![exec] = s], val' \in [Threads -> Int], UNCHANGED stays
      PROVE  SchedInv' /\ ProgramInv'
  BY <1>2, <1>7, CallSound DEF base, h
<1>8. CASE my_threads_sem_down
  <2> DEFINE at == IF val[Top.a] >= 0 THEN "dec" ELSE "wait"
             b == IF val[Top.a] >= 0 THEN val[Top.a] ELSE 0
  <2>1. /\ stack' = [stack EXCEPT ![exec] = <<Frame(at, Top.a, b)>> \o base]
        /\ UNCHANGED <<stays, val>>
    BY <1>8 DEF my_threads_sem_down, Becomes, base
  <2>2. at \in LibraryPlaces \ {"swap"} /\ b \in Int
    BY <1>4 DEF LibraryPlaces
  <2> HIDE DEF at, b
  <2> QED
    BY <1>4, <1>6, <1>7, <2>1, <2>2
<1>9. CASE StoreDown
  <2>1. /\ stack' = [stack EXCEPT ![exec] = <<Frame("wait", Top.a, 0)>> \o base]
        /\ val' = [val EXCEPT ![Top.a] = Top.b - 1] /\ UNCHANGED stays
    BY <1>9 DEF StoreDown, Becomes, base
  <2>2. val' \in [Threads -> Int]
    BY <1>4, <2>1
  <2>3. "wait" \in LibraryPlaces \ {"swap"} /\ 0 \in Int
    BY DEF LibraryPlaces
  <2>4. /\ Whole(<<Frame("wait", Top.a, 0)>> \o base, h)
        /\ PlaceIn(<<Frame("wait", Top.a, 0)>> \o base) = PlaceIn(base)
    BY <1>4, <1>6, <2>3
  <2> QED
    BY <1>7, <2>1, <2>2, <2>4
<1>10. CASE Wait /\ val[Top.a] < 0
  <2>1. /\ stack' = [stack EXCEPT ![exec] = <<At("yield"), Top>> \o base]
        /\ UNCHANGED <<stays, val>>
    BY <1>10 DEF Wait, Becomes, base
  <2>2. At("yield") \in Frames /\ LibraryFrame(At("yield"))
    BY PlaceFrame DEF AllPlaces, LibraryPlaces
  <2>3. Whole(<<Top>> \o base, h) /\ PlaceIn(<<Top>> \o base) = PlaceIn(base)
    BY <1>3, PushWhole
  <2>4. <<At("yield"), Top>> \o base = <<At("yield")>> \o (<<Top>> \o base)
    BY <1>3, <1>5, <2>2, PairConcat
  <2>5. Whole(<<At("yield")>> \o (<<Top>> \o base), h)
        /\ PlaceIn(<<At("yield")>> \o (<<Top>> \o base)) = PlaceIn(<<Top>> \o base)
    BY <2>2, <2>3, PushWhole
  <2> QED
    BY <1>4, <1>7, <2>1, <2>3, <2>4, <2>5
<1>11. CASE (Wait /\ ~(val[Top.a] < 0)) \/ StoreUp \/ Back
  <2>1. /\ stack' = [stack EXCEPT ![exec] = <<>> \o base] /\ UNCHANGED stays
        /\ val' = val \/ val' = [val EXCEPT ![Top.a] = Top.b + 1]
    BY <1>11 DEF Wait, StoreUp, Back, Becomes, base
  <2>2. val' \in [Threads -> Int] /\ <<>> \o base = base
    BY <1>4, <1>5, <2>1, ConcatEmptySeq
  <2> QED
    BY <1>3, <1>7, <2>1, <2>2
<1>12. CASE my_threads_sem_up
  <2>1. /\ stack' = [stack EXCEPT ![exec] = <<Frame("inc", Top.a, val[Top.a])>> \o base]
        /\ UNCHANGED <<stays, val>>
    BY <1>12 DEF my_threads_sem_up, Becomes, base
  <2>2. "inc" \in LibraryPlaces \ {"swap"} /\ val[Top.a] \in Int
    BY <1>4 DEF LibraryPlaces
  <2> QED
    BY <1>4, <1>6, <1>7, <2>1, <2>2
<1> QED
  BY <1>8, <1>9, <1>10, <1>11, <1>12

LEMMA LibrarySound ==
    ASSUME SchedInv, ProgramInv, LibraryStep, UNCHANGED progVars
    PROVE  Crashed' \/ (SchedInv' /\ ProgramInv')
BY UserSound, SwapSound, SetSound, SemaphoreSound DEF LibraryStep

-----------------------------------------------------------------------------
(* Steps of the program: what goes on the stack. *)

LEMMA HomePlaces ==
    ASSUME NEW t \in Threads
    PROVE  Home(t) \subseteq AllPlaces /\ (t = Main => Home(t) = MainPlaces)
           /\ (t \in Workers => Home(t) = WorkerPlaces)
BY ThreadFacts DEF Home, AllPlaces

LEMMA OneFrame ==
    ASSUME NEW home, home \subseteq AllPlaces, NEW p \in home
    PROVE  /\ Whole(<<At(p)>>, home) /\ PlaceIn(<<At(p)>>) = p
           /\ Head(<<At(p)>>) = At(p) /\ At(p).at = p
<1>1. At(p) \in Frames /\ At(p).at = p
  BY PlaceFrame
<1> QED
  BY <1>1, OneWhole

LEMMA TwoFrames ==
    ASSUME NEW home, home \subseteq AllPlaces, NEW p \in home, NEW f \in Frames, LibraryFrame(f)
    PROVE  /\ Whole(<<f, At(p)>>, home) /\ PlaceIn(<<f, At(p)>>) = p
           /\ Head(<<f, At(p)>>) = f
<1>1. Whole(<<At(p)>>, home) /\ PlaceIn(<<At(p)>>) = p /\ At(p) \in Frames
  BY OneFrame, PlaceFrame
<1>2. <<At(p)>> \o <<>> = <<At(p)>> /\ <<f, At(p)>> \o <<>> = <<f, At(p)>>
  <2>1. <<At(p)>> \in Seq(Frames) /\ <<f, At(p)>> \in Seq(Frames)
    BY <1>1
  <2> QED
    BY <2>1, ConcatEmptySeq
<1>3. <<f, At(p)>> = <<f>> \o <<At(p)>>
  BY <1>1, <1>2, PairConcat, EmptySeq
<1>4. Head(<<f, At(p)>>) = f
  OBVIOUS
<1> QED
  BY <1>1, <1>3, <1>4, PushWhole

LEMMA ThreeFrames ==
    ASSUME NEW home, home \subseteq AllPlaces, NEW p \in home,
           NEW f \in Frames, LibraryFrame(f), NEW g \in Frames, LibraryFrame(g)
    PROVE  /\ Whole(<<f, g, At(p)>>, home) /\ PlaceIn(<<f, g, At(p)>>) = p
           /\ Head(<<f, g, At(p)>>) = f
<1>1. Whole(<<g, At(p)>>, home) /\ PlaceIn(<<g, At(p)>>) = p /\ At(p) \in Frames
  BY TwoFrames, PlaceFrame
<1>2. <<f>> \o <<g, At(p)>> = <<f, g, At(p)>>
  <2> DEFINE u == <<f>> \o <<g, At(p)>>
             v == <<f, g, At(p)>>
  <2>1. <<f>> \in Seq(Frames) /\ <<g, At(p)>> \in Seq(Frames)
    BY <1>1
  <2>2. u \in Seq(Frames) /\ Len(u) = 3 /\ u[1] = f /\ u[2] = g /\ u[3] = At(p)
    BY <2>1
  <2>3. v \in Seq(Frames) /\ Len(v) = 3 /\ v[1] = f /\ v[2] = g /\ v[3] = At(p)
    BY <1>1
  <2> HIDE DEF u, v
  <2>4. u = v
    BY <2>2, <2>3, SeqEqual
  <2> QED
    BY <2>4 DEF u, v
<1>3. Head(<<f, g, At(p)>>) = f
  OBVIOUS
<1> QED
  BY <1>1, <1>2, <1>3, PushWhole

LEMMA CallFacts ==
    ASSUME NEW op \in {"up", "down"}, NEW s \in Threads
    PROVE  Call(op, s) \in Frames /\ LibraryFrame(Call(op, s)) /\ Call(op, s).at = op
BY CallFrame DEF Call, LibraryPlaces

-----------------------------------------------------------------------------
(* The steps of a worker. *)

\* What a step of a worker does to the stacks.
WorkerGoes(p, q) ==
    /\ exec \in Workers /\ PlaceIn(stack[exec]) = p /\ PlaceIn(stack'[exec]) = q
    /\ \A t \in Threads \ {exec} : PlaceIn(stack'[t]) = PlaceIn(stack[t])
    /\ PlaceIn(stack'[Main]) = PlaceIn(stack[Main])

LEMMA WorkerStack ==
    ASSUME SchedInv, Top.at \in WorkerPlaces,
           NEW q \in WorkerPlaces, NEW fs, Whole(fs, WorkerPlaces), PlaceIn(fs) = q,
           Becomes(fs), UNCHANGED <<exec, work_is_done, rout, cur>>
    PROVE  StackInv' /\ ContextInv' /\ WorkerGoes(Top.at, q)
<1>1. Top.at \notin LibraryPlaces
  BY DEF WorkerPlaces, LibraryPlaces
<1>2. exec \in Threads /\ Where(exec) = Top.at /\ Top.at \in Home(exec)
  BY <1>1, ProgramTop DEF SchedInv, StackInv
<1>3. exec \in Workers /\ exec # Main /\ Home(exec) = WorkerPlaces
  BY <1>2, ThreadFacts, HomePlaces DEF MainPlaces, WorkerPlaces
<1>4. q # "telos"
  BY DEF WorkerPlaces
<1>5. /\ StackInv' /\ PlaceIn(stack'[exec]) = q
      /\ \A t \in Threads \ {exec} : stack'[t] = stack[t]
  BY <1>1, <1>3, <1>4, ProgramStack DEF SchedInv
<1>6. WorkerGoes(Top.at, q)
  BY <1>2, <1>3, <1>5, ThreadFacts DEF WorkerGoes, Where
<1>7. ContextInv'
  BY <1>6 DEF WorkerGoes, Where, SchedInv, ContextInv
<1> QED
  BY <1>5, <1>6, <1>7

\* The steps of a worker leave main where it is.
LEMMA WorkerMain ==
    ASSUME NEW p, NEW q, WorkerGoes(p, q), UNCHANGED <<cur, numbers_left, work_is_done>>
    PROVE  /\ MainInv => MainInv'
           /\ Linked' = Linked
           /\ UNCHANGED finish /\ JoinInv => JoinInv'
           /\ UNCHANGED <<ring, unlinked, finish>> /\ RingInv => RingInv'
<1>1. PlaceIn(stack'[Main]) = PlaceIn(stack[Main])
  BY DEF WorkerGoes
<1>2. Linked' = Linked
  BY <1>1 DEF Linked, Where
<1>3. MainInv => MainInv'
  BY <1>1 DEF MainInv, Where
<1>4. UNCHANGED finish /\ JoinInv => JoinInv'
  BY <1>1 DEF JoinInv, Where
<1>5. UNCHANGED <<ring, unlinked, finish>> /\ RingInv => RingInv'
  BY <1>2 DEF RingInv, OnRing
<1> QED
  BY <1>2, <1>3, <1>4, <1>5

\* A worker that is not about to leave, before and after.
LEMMA WorkerListed ==
    ASSUME NEW p, NEW q, WorkerGoes(p, q), UNCHANGED <<ring, finish>>, p # "remove",
           \A w \in Workers \ {exec} : run'[w] = run[w]
    PROVE  ListedInv => ListedInv'
BY ThreadFacts DEF WorkerGoes, ListedInv, OnRing, Where

LEMMA WorkerLeave ==
    ASSUME NEW p, NEW q, WorkerGoes(p, q), UNCHANGED <<num, finish, work_is_done>>,
           \A w \in Workers \ {exec} : run'[w] = run[w],
           q \in Leaving => work_is_done = 1 /\ num[run'[exec]] = NoWork,
           q \in Left => finish[run'[exec]] = 1, q # "gone"
    PROVE  LeaveInv => LeaveInv'
<1>1. \A w \in Workers \ {exec} : PlaceIn(stack'[w]) = PlaceIn(stack[w])
  BY ThreadFacts DEF WorkerGoes
<1>2. PlaceIn(stack'[exec]) = q
  BY DEF WorkerGoes
<1> QED
  BY <1>1, <1>2 DEF LeaveInv, Where

LEMMA MeThread ==
    ASSUME SchedInv
    PROVE  me \in Threads /\ exec \in Threads
BY DEF me, SchedInv, TypeInv, StackInv

LEMMA WorkerPlaceFacts == WorkerPlaces \subseteq AllPlaces
BY DEF AllPlaces

LEMMA FindSound ==
    ASSUME SchedInv, ProgramInv, Find
    PROVE  Crashed' \/ (SchedInv' /\ ProgramInv')
<1> USE DEF ProgramInv
<1>1. /\ Top.at = "find" /\ "find" \in WorkerPlaces /\ "got" \in WorkerPlaces
      /\ UNCHANGED <<calm, num, avail, finish, numbers_left, cur, erased, verdict>>
  BY DEF Find, WorkerPlaces
<1>2. CASE Flagged = {} /\ running[Main] = 0
  <2>1. Becomes(<<At("search")>>) /\ exec' = exec
    BY <1>1, <1>2 DEF Find, calm
  <2>2. stack' = [stack EXCEPT ![exec] = <<At("search")>> \o Tail(stack[exec])]
    BY <2>1 DEF Becomes
  <2>3. exec \in Threads /\ stack \in [Threads -> Seq(Frames)] /\ Tail(stack[exec]) = <<>>
    BY <1>1, ProgramTop DEF SchedInv, StackInv, LibraryPlaces
  <2>4. stack'[exec'] = <<At("search")>> \o <<>>
    BY <2>1, <2>2, <2>3
  <2>5. At("search") \in Frames /\ At("search").at = "search"
    BY PlaceFrame DEF AllPlaces
  <2>6. Top'.at = "search"
    BY <2>4, <2>5, PushFacts, EmptySeq DEF Top
  <2> QED
    BY <2>6 DEF Crashed
<1>3. CASE ~(Flagged = {} /\ running[Main] = 0)
  <2> DEFINE r == IF Flagged = {} THEN Main
                  ELSE CHOOSE t \in Flagged : \A u \in Flagged : Place(t) >= Place(u)
             fs == <<Call("down", r), At("got")>>
  <2>1. run' = [run EXCEPT ![exec] = r] /\ Becomes(fs)
    BY <1>3 DEF Find
  <2>2. r \in Threads
    <3>1. Flagged # {} => \E t \in Flagged : \A u \in Flagged : Place(t) >= Place(u)
      BY LastOnRing DEF SchedInv, TypeInv, Flagged
    <3>2. Flagged \subseteq Threads
      BY OnRingFacts, ThreadFacts DEF SchedInv, TypeInv, Flagged
    <3> QED
      BY <3>1, <3>2, ThreadFacts
  <2> HIDE DEF r
  <2>3. Whole(fs, WorkerPlaces) /\ PlaceIn(fs) = "got"
    BY <1>1, <2>2, CallFacts, TwoFrames, WorkerPlaceFacts
  <2> HIDE DEF fs
  <2>4. StackInv' /\ ContextInv' /\ WorkerGoes("find", "got")
    BY <1>1, <2>1, <2>3, WorkerStack DEF calm
  <2>5. TypeInv'
    BY <1>1, <2>1, <2>2, MeThread DEF SchedInv, TypeInv, calm, Positions
  <2>6. /\ \A w \in Workers \ {exec} : run'[w] = run[w]
        /\ UNCHANGED <<ring, unlinked, work_is_done>>
    BY <1>1, <2>1 DEF SchedInv, TypeInv, calm
  <2>7. MainInv' /\ JoinInv' /\ RingInv'
    BY <1>1, <2>4, <2>6, WorkerMain
  <2>8. ListedInv'
    BY <1>1, <2>4, <2>6, WorkerListed
  <2>9. LeaveInv'
    BY <1>1, <2>4, <2>6, WorkerLeave DEF Leaving, Left
  <2>10. GivenInv' /\ VerdictInv'
    BY <1>1 DEF GivenInv, VerdictInv, pos
  <2> QED
    BY <2>4, <2>5, <2>7, <2>8, <2>9, <2>10 DEF SchedInv
<1> QED
  BY <1>2, <1>3

LEMMA GotSound ==
    ASSUME SchedInv, ProgramInv, Got
    PROVE  SchedInv' /\ ProgramInv'
<1> DEFINE q == IF work_is_done = 1 /\ num[me] = NoWork THEN "finish" ELSE "test"
           fs == <<At(q)>>
<1>1. /\ Top.at = "got" /\ "got" \in WorkerPlaces /\ q \in WorkerPlaces
      /\ Becomes(fs) /\ UNCHANGED <<calm, progVars>>
  BY DEF Got, WorkerPlaces
<1>2. Whole(fs, WorkerPlaces) /\ PlaceIn(fs) = q
  BY <1>1, OneFrame, WorkerPlaceFacts
<1>3. /\ q \in Leaving => work_is_done = 1 /\ num[run[exec]] = NoWork
      /\ q \notin Left /\ q # "gone"
  BY DEF Leaving, Left, me
<1> HIDE DEF fs, q
<1>4. StackInv' /\ ContextInv' /\ WorkerGoes("got", q)
  BY <1>1, <1>2, WorkerStack DEF calm, progVars
<1>5. TypeInv'
  BY <1>1 DEF SchedInv, TypeInv, calm, progVars, Positions
<1>6. UNCHANGED <<run, num, ring, unlinked, work_is_done, finish, cur, numbers_left>>
  BY <1>1 DEF calm, progVars
<1>7. MainInv' /\ JoinInv' /\ RingInv'
  BY <1>4, <1>6, WorkerMain DEF ProgramInv
<1>8. ListedInv'
  BY <1>4, <1>6, WorkerListed DEF ProgramInv
<1>9. LeaveInv'
  BY <1>3, <1>4, <1>6, WorkerLeave DEF ProgramInv
<1>10. GivenInv' /\ VerdictInv'
  BY <1>1 DEF GivenInv, VerdictInv, pos, progVars, ProgramInv
<1> QED
  BY <1>4, <1>5, <1>7, <1>8, <1>9, <1>10 DEF SchedInv, ProgramInv

LEMMA TestSound ==
    ASSUME SchedInv, ProgramInv, Test
    PROVE  SchedInv' /\ ProgramInv'
<1> DEFINE fs == <<At("release")>>
<1>1. /\ Top.at = "test" /\ "test" \in WorkerPlaces /\ "release" \in WorkerPlaces
      /\ Becomes(fs)
      /\ UNCHANGED <<calm, run, num, avail, finish, numbers_left, cur, erased>>
  BY DEF Test, WorkerPlaces
<1>2. verdict' = [j \in Positions |->
                      IF j # num[me] THEN verdict[j]
                      ELSE IF primetest(Numbers[j]) THEN "prime" ELSE "composite"]
  BY DEF Test
<1>3. Whole(fs, WorkerPlaces) /\ PlaceIn(fs) = "release"
  BY <1>1, OneFrame, WorkerPlaceFacts
<1> HIDE DEF fs
<1>4. StackInv' /\ ContextInv' /\ WorkerGoes("test", "release")
  BY <1>1, <1>3, WorkerStack DEF calm
<1>5. verdict' \in [Positions -> {"none", "prime", "composite"}]
  BY <1>2 DEF SchedInv, TypeInv
<1>6. TypeInv'
  BY <1>1, <1>5 DEF SchedInv, TypeInv, calm, Positions
<1>7. UNCHANGED <<run, num, ring, unlinked, work_is_done, finish, cur, numbers_left>>
  BY <1>1 DEF calm
<1>8. MainInv' /\ JoinInv' /\ RingInv'
  BY <1>4, <1>7, WorkerMain DEF ProgramInv
<1>9. ListedInv'
  BY <1>4, <1>7, WorkerListed DEF ProgramInv
<1>10. LeaveInv'
  BY <1>4, <1>7, WorkerLeave DEF Leaving, Left, ProgramInv
<1>11. \A j \in Positions : verdict'[j] = "none" => verdict[j] = "none"
  BY <1>2
<1>12. GivenInv'
  BY <1>1, <1>11 DEF GivenInv, pos, ProgramInv, Positions
<1>13. VerdictInv'
  BY <1>2 DEF VerdictInv, ProgramInv, Positions
<1> QED
  BY <1>4, <1>6, <1>8, <1>9, <1>10, <1>12, <1>13 DEF SchedInv, ProgramInv

LEMMA ReleaseSound ==
    ASSUME SchedInv, ProgramInv, Release
    PROVE  SchedInv' /\ ProgramInv'
<1> DEFINE fs == <<At("clear")>>
<1>1. /\ Top.at = "release" /\ "release" \in WorkerPlaces /\ "clear" \in WorkerPlaces
      /\ Becomes(fs) /\ avail' = [avail EXCEPT ![me] = 0]
      /\ UNCHANGED <<calm, run, num, finish, numbers_left, cur, erased, verdict>>
  BY DEF Release, WorkerPlaces
<1>3. Whole(fs, WorkerPlaces) /\ PlaceIn(fs) = "clear"
  BY <1>1, OneFrame, WorkerPlaceFacts
<1> HIDE DEF fs
<1>4. StackInv' /\ ContextInv' /\ WorkerGoes("release", "clear")
  BY <1>1, <1>3, WorkerStack DEF calm
<1>5. avail' \in [Threads -> {0, 1}]
  BY <1>1 DEF SchedInv, TypeInv
<1>6. TypeInv'
  BY <1>1, <1>5 DEF SchedInv, TypeInv, calm, Positions
<1>7. UNCHANGED <<run, num, ring, unlinked, work_is_done, finish, cur, numbers_left>>
  BY <1>1 DEF calm
<1>8. MainInv' /\ JoinInv' /\ RingInv'
  BY <1>4, <1>7, WorkerMain DEF ProgramInv
<1>9. ListedInv'
  BY <1>4, <1>7, WorkerListed DEF ProgramInv
<1>10. LeaveInv'
  BY <1>4, <1>7, WorkerLeave DEF Leaving, Left, ProgramInv
<1>11. GivenInv' /\ VerdictInv'
  BY <1>1 DEF GivenInv, VerdictInv, pos, ProgramInv
<1> QED
  BY <1>4, <1>6, <1>8, <1>9, <1>10, <1>11 DEF SchedInv, ProgramInv

LEMMA ClearSound ==
    ASSUME SchedInv, ProgramInv, Clear
    PROVE  SchedInv' /\ ProgramInv'
<1> DEFINE fs == <<Call("down", me), At("got")>>
<1>1. /\ Top.at = "clear" /\ "clear" \in WorkerPlaces /\ "got" \in WorkerPlaces
      /\ Becomes(fs) /\ num' = [num EXCEPT ![me] = NoWork]
      /\ erased' = (erased \/ Untested(me))
      /\ UNCHANGED <<calm, run, avail, finish, numbers_left, cur, verdict>>
  BY DEF Clear, WorkerPlaces
<1>2. me \in Threads /\ num \in [Threads -> 0..Len(Numbers)]
  BY MeThread DEF SchedInv, TypeInv
<1>3. Whole(fs, WorkerPlaces) /\ PlaceIn(fs) = "got"
  BY <1>1, <1>2, CallFacts, TwoFrames, WorkerPlaceFacts
<1> HIDE DEF fs
<1>4. StackInv' /\ ContextInv' /\ WorkerGoes("clear", "got")
  BY <1>1, <1>3, WorkerStack DEF calm
<1>5. num'[me] = NoWork /\ \A t \in Threads \ {me} : num'[t] = num[t]
  BY <1>1, <1>2
<1>6. TypeInv'
  <2>1. Len(Numbers) \in Nat
    BY NumbersAssumption
  <2>2. num' \in [Threads -> 0..Len(Numbers)]
    BY <1>1, <1>2, <2>1 DEF NoWork
  <2>3. erased' \in BOOLEAN
    BY <1>1 DEF SchedInv, TypeInv, Untested
  <2> QED
    BY <1>1, <2>2, <2>3 DEF SchedInv, TypeInv, calm, Positions
<1>7. UNCHANGED <<run, ring, unlinked, work_is_done, finish, cur, numbers_left>>
  BY <1>1 DEF calm
<1>8. MainInv' /\ JoinInv' /\ RingInv'
  BY <1>4, <1>7, WorkerMain DEF ProgramInv
<1>9. ListedInv'
  BY <1>4, <1>7, WorkerListed DEF ProgramInv
<1>10. LeaveInv'
  <2>1. \A t \in Threads : num[t] = NoWork => num'[t] = NoWork
    BY <1>5
  <2>2. \A w \in Workers : PlaceIn(stack'[w]) \in Leaving \cup {"gone"} =>
                             PlaceIn(stack'[w]) = PlaceIn(stack[w])
    BY <1>4, ThreadFacts DEF WorkerGoes, Leaving
  <2>3. Left \subseteq Leaving
    BY DEF Left, Leaving
  <2>4. \A w \in Workers : run[w] \in Threads
    BY ThreadFacts DEF SchedInv, TypeInv
  <2> QED
    BY <1>7, <2>1, <2>2, <2>3, <2>4 DEF LeaveInv, Where, ProgramInv
<1>11. GivenInv'
  <2>1. pos' = pos
    BY <1>1 DEF pos
  <2>2. \A t \in Threads : num'[t] < pos
    <3>1. NoWork <= num[me] /\ num[me] < pos /\ pos \in Int /\ num[me] \in Int
      BY <1>2, NumbersAssumption DEF NoWork, GivenInv, ProgramInv, pos, SchedInv, TypeInv
    <3> QED
      BY <1>5, <3>1 DEF GivenInv, ProgramInv, NoWork
  <2>3. ASSUME ~erased', NEW j \in Positions, j < pos, verdict[j] = "none"
        PROVE  \E t \in Threads : num'[t] = j
    <3>1. PICK t \in Threads : num[t] = j
      BY <1>1, <2>3 DEF GivenInv, ProgramInv
    <3>2. t # me
      <4>1. t = me => Untested(me)
        BY <2>3, <3>1 DEF Untested, Positions, NoWork
      <4> QED
        BY <1>1, <2>3, <4>1
    <3> QED
      BY <1>5, <3>1, <3>2
  <2>4. Positions' = Positions /\ verdict' = verdict
    BY <1>1 DEF Positions
  <2>5. num'[Main] = NoWork
    BY <1>5, ThreadFacts DEF GivenInv, ProgramInv
  <2> QED
    BY <2>1, <2>2, <2>3, <2>4, <2>5 DEF GivenInv
<1>12. VerdictInv'
  BY <1>1 DEF VerdictInv, ProgramInv
<1> QED
  BY <1>4, <1>6, <1>8, <1>9, <1>10, <1>11, <1>12 DEF SchedInv, ProgramInv

\* Other threads finish no more than the one that does.
LEMMA FinishMore ==
    ASSUME finish \in [Threads -> {0, 1}], NEW r \in Threads, finish' = [finish EXCEPT ![r] = 1]
    PROVE  /\ finish' \in [Threads -> {0, 1}] /\ finish'[r] = 1
           /\ \A t \in Threads : finish[t] = 1 => finish'[t] = 1
           /\ \A t \in Threads \ {r} : finish'[t] = finish[t]
OBVIOUS

LEMMA FinishSound ==
    ASSUME SchedInv, ProgramInv, Finish
    PROVE  SchedInv' /\ ProgramInv'
<1> DEFINE fs == <<At("remove")>>
<1>1. /\ Top.at = "finish" /\ "finish" \in WorkerPlaces /\ "remove" \in WorkerPlaces
      /\ Becomes(fs) /\ finish' = [finish EXCEPT ![me] = 1]
      /\ UNCHANGED <<calm, run, num, avail, numbers_left, cur, erased, verdict>>
  BY DEF Finish, WorkerPlaces
<1>2. Whole(fs, WorkerPlaces) /\ PlaceIn(fs) = "remove"
  BY <1>1, OneFrame, WorkerPlaceFacts
<1> HIDE DEF fs
<1>3. StackInv' /\ ContextInv' /\ WorkerGoes("finish", "remove")
  BY <1>1, <1>2, WorkerStack DEF calm
<1>4. me \in Threads /\ finish \in [Threads -> {0, 1}] /\ me = run[exec]
  BY MeThread DEF SchedInv, TypeInv, me
<1>5. /\ finish' \in [Threads -> {0, 1}] /\ finish'[me] = 1
      /\ \A t \in Threads : finish[t] = 1 => finish'[t] = 1
      /\ \A t \in Threads \ {me} : finish'[t] = finish[t]
  BY <1>1, <1>4, FinishMore
<1>6. TypeInv'
  BY <1>1, <1>5 DEF SchedInv, TypeInv, calm, Positions
<1>7. UNCHANGED <<run, num, ring, unlinked, work_is_done, cur, numbers_left, verdict, erased>>
  BY <1>1 DEF calm
<1>8. /\ exec \in Workers /\ PlaceIn(stack[exec]) = "finish" /\ PlaceIn(stack'[exec]) = "remove"
      /\ PlaceIn(stack'[Main]) = PlaceIn(stack[Main])
      /\ \A w \in Workers \ {exec} : PlaceIn(stack'[w]) = PlaceIn(stack[w])
  BY <1>3, ThreadFacts DEF WorkerGoes
<1>9. MainInv' /\ Linked' = Linked
  BY <1>3, <1>7, WorkerMain DEF ProgramInv
<1>10. JoinInv'
  BY <1>5, <1>7, <1>8, ThreadFacts DEF JoinInv, Where, ProgramInv
<1>11. RingInv'
  BY <1>5, <1>7, <1>9, ThreadFacts DEF RingInv, OnRing, ProgramInv
<1>12. work_is_done = 1 /\ num[me] = NoWork
  BY <1>4, <1>8 DEF LeaveInv, Leaving, Where, ProgramInv
<1>13. LeaveInv'
  <2>1. \A w \in Workers : run[w] \in Threads
    BY ThreadFacts DEF SchedInv, TypeInv
  <2>2. \A t \in Threads : finish'[t] = 1 => num[t] = NoWork
    BY <1>5, <1>12 DEF LeaveInv, ProgramInv
  <2> QED
    BY <1>4, <1>5, <1>7, <1>8, <1>12, <2>1, <2>2 DEF LeaveInv, Where, ProgramInv
<1>14. ListedInv'
  <2>1. OnRing' = OnRing
    BY <1>7 DEF OnRing
  <2>2. ASSUME NEW t \in OnRing, finish'[t] = 1
        PROVE  \E w \in Workers : run[w] = t /\ PlaceIn(stack'[w]) = "remove"
    <3>1. CASE t = me
      BY <1>4, <1>8, <3>1
    <3>2. CASE t # me
      <4>1. finish[t] = 1
        BY <1>5, <2>2, <3>2, OnRingFacts, ThreadFacts DEF SchedInv, TypeInv
      <4>2. PICK w \in Workers : run[w] = t /\ PlaceIn(stack[w]) = "remove"
        BY <4>1 DEF ListedInv, Where, ProgramInv
      <4> QED
        BY <1>8, <4>2
    <3> QED
      BY <3>1, <3>2
  <2> QED
    BY <1>7, <2>1, <2>2 DEF ListedInv, Where
<1>15. GivenInv' /\ VerdictInv'
  BY <1>1 DEF GivenInv, VerdictInv, pos, ProgramInv
<1> QED
  BY <1>3, <1>6, <1>9, <1>10, <1>11, <1>13, <1>14, <1>15 DEF SchedInv, ProgramInv

LEMMA StopSound ==
    ASSUME SchedInv, ProgramInv, Stop
    PROVE  SchedInv' /\ ProgramInv'
<1> DEFINE fs == <<Call("down", me), At("end")>>
<1>1. /\ Top.at = "stop" /\ "stop" \in WorkerPlaces /\ "end" \in WorkerPlaces
      /\ Becomes(fs) /\ running' = [running EXCEPT ![me] = 0]
      /\ UNCHANGED <<exec, rout, ring, unlinked, val, work_is_done, alarms, torn, progVars>>
  BY DEF Stop, WorkerPlaces
<1>2. me \in Threads /\ me = run[exec]
  BY MeThread DEF me
<1>3. Whole(fs, WorkerPlaces) /\ PlaceIn(fs) = "end"
  BY <1>1, <1>2, CallFacts, TwoFrames, WorkerPlaceFacts
<1> HIDE DEF fs
<1>4. StackInv' /\ ContextInv' /\ WorkerGoes("stop", "end")
  BY <1>1, <1>3, WorkerStack DEF progVars
<1>5. running' \in [Threads -> {0, 1}]
  BY <1>1 DEF SchedInv, TypeInv
<1>6. TypeInv'
  BY <1>1, <1>5 DEF SchedInv, TypeInv, progVars, Positions
<1>7. UNCHANGED <<run, num, ring, unlinked, work_is_done, finish, cur, numbers_left>>
  BY <1>1 DEF progVars
<1>8. MainInv' /\ JoinInv' /\ RingInv'
  BY <1>4, <1>7, WorkerMain DEF ProgramInv
<1>9. ListedInv'
  BY <1>4, <1>7, WorkerListed DEF ProgramInv
<1>10. work_is_done = 1 /\ num[run[exec]] = NoWork /\ finish[run[exec]] = 1
  BY <1>4 DEF WorkerGoes, LeaveInv, Leaving, Left, Where, ProgramInv
<1>11. LeaveInv'
  BY <1>4, <1>7, <1>10, WorkerLeave DEF ProgramInv
<1>12. GivenInv' /\ VerdictInv'
  BY <1>1 DEF GivenInv, VerdictInv, pos, ProgramInv, progVars
<1> QED
  BY <1>4, <1>6, <1>8, <1>9, <1>11, <1>12 DEF SchedInv, ProgramInv


\* Taking the element at p out of a sequence.
Without(r, p) == SubSeq(r, 1, p - 1) \o SubSeq(r, p + 1, Len(r))

LEMMA WithoutFacts ==
    ASSUME NEW r \in Seq(Workers), NEW p \in 1..Len(r)
    PROVE  /\ Without(r, p) \in Seq(Workers) /\ Len(Without(r, p)) = Len(r) - 1
           /\ \A k \in 1..(Len(r) - 1) : Without(r, p)[k] = IF k < p THEN r[k] ELSE r[k + 1]
<1> DEFINE a == SubSeq(r, 1, p - 1)
           b == SubSeq(r, p + 1, Len(r))
           n == Len(r)
<1>1. n \in Nat /\ p \in 1..n
  OBVIOUS
<1>2. /\ a \in Seq(Workers) /\ Len(a) = p - 1
      /\ \A k \in 1..(p - 1) : a[k] = r[k]
  OBVIOUS
<1>3. /\ b \in Seq(Workers) /\ Len(b) = n - p
      /\ \A k \in 1..(n - p) : b[k] = r[p + k]
  OBVIOUS
<1>4. Without(r, p) = a \o b
  BY DEF Without
<1> HIDE DEF a, b, n
<1>5. /\ a \o b \in Seq(Workers) /\ Len(a \o b) = Len(a) + Len(b)
      /\ \A k \in 1..(Len(a) + Len(b)) : (a \o b)[k] = IF k <= Len(a) THEN a[k] ELSE b[k - Len(a)]
  BY <1>2, <1>3, ConcatProperties
<1>6. Len(a) + Len(b) = n - 1
  BY <1>1, <1>2, <1>3
<1>7. ASSUME NEW k \in 1..(n - 1) PROVE (a \o b)[k] = IF k < p THEN r[k] ELSE r[k + 1]
  <2>1. (a \o b)[k] = IF k <= p - 1 THEN a[k] ELSE b[k - (p - 1)]
    BY <1>2, <1>5, <1>6
  <2>2. CASE k < p
    <3>1. k <= p - 1 /\ k \in 1..(p - 1)
      BY <1>1, <2>2
    <3> QED
      BY <1>2, <2>1, <2>2, <3>1
  <2>3. CASE ~(k < p)
    <3>1. ~(k <= p - 1) /\ k - (p - 1) \in 1..(n - p) /\ p + (k - (p - 1)) = k + 1
      BY <1>1, <2>3
    <3> QED
      BY <1>3, <2>1, <2>3, <3>1
  <2> QED
    BY <2>2, <2>3
<1>8. Len(r) = n
  BY DEF n
<1> QED
  BY <1>4, <1>5, <1>6, <1>7, <1>8

\* remove_thread takes a record off the list, and leaves the others in their order.
LEMMA RemovedRing ==
    ASSUME ring \in Seq(Workers), NEW t, remove_thread(t),
           \A i \in DOMAIN ring : \A j \in DOMAIN ring : i < j => ring[i] < ring[j]
    PROVE  /\ ring' \in Seq(Workers) /\ OnRing' = OnRing \ {t}
           /\ \A i \in DOMAIN ring' : \A j \in DOMAIN ring' : i < j => ring'[i] < ring'[j]
<1>1. CASE t \notin OnRing
  <2>1. ring' = ring
    BY <1>1 DEF remove_thread
  <2> QED
    BY <1>1, <2>1 DEF OnRing
<1>2. CASE t \in OnRing
  <2> DEFINE p == Place(t)
             n == Len(ring)
  <2>1. p \in 1..Len(ring) /\ ring[p] = t
    BY <1>2, OnRingFacts
  <2>2. ring' = Without(ring, p)
    BY <1>2 DEF remove_thread, Without
  <2>3. /\ ring' \in Seq(Workers) /\ Len(ring') = n - 1
        /\ \A k \in 1..(n - 1) : ring'[k] = IF k < p THEN ring[k] ELSE ring[k + 1]
    <3> HIDE DEF p
    <3>1. /\ Without(ring, p) \in Seq(Workers) /\ Len(Without(ring, p)) = Len(ring) - 1
          /\ \A k \in 1..(Len(ring) - 1) :
                Without(ring, p)[k] = IF k < p THEN ring[k] ELSE ring[k + 1]
      BY <2>1, WithoutFacts
    <3> QED
      BY <2>2, <3>1
  <2>4. /\ DOMAIN ring = 1..n /\ DOMAIN ring' = 1..(n - 1) /\ n \in Nat /\ p \in 1..n
        /\ \A k \in 1..(n - 1) : ring'[k] = IF k < p THEN ring[k] ELSE ring[k + 1]
    BY <2>1, <2>3
  <2>10. \A i \in 1..n : ring[i] \in Int
    <3>1. \A i \in 1..n : ring[i] \in Workers
      OBVIOUS
    <3>2. Workers \subseteq Int
      BY ThreadFacts
    <3> QED
      BY <3>1, <3>2
  <2> HIDE DEF p, n
  <2>5. \A k \in 1..(n - 1) : \E i \in 1..n : i # p /\ ring'[k] = ring[i]
    <3> TAKE k \in 1..(n - 1)
    <3>1. CASE k < p
      BY <2>4, <3>1
    <3>2. CASE ~(k < p)
      <4>1. k + 1 \in 1..n /\ k + 1 # p /\ ring'[k] = ring[k + 1]
        BY <2>4, <3>2
      <4> QED
        BY <4>1
    <3> QED
      BY <3>1, <3>2
  <2>6. \A i \in 1..n : i # p => \E k \in 1..(n - 1) : ring'[k] = ring[i]
    <3> SUFFICES ASSUME NEW i \in 1..n, i # p PROVE \E k \in 1..(n - 1) : ring'[k] = ring[i]
      OBVIOUS
    <3>1. CASE i < p
      <4>1. i \in 1..(n - 1) /\ ring'[i] = ring[i]
        BY <2>4, <3>1
      <4> QED
        BY <4>1
    <3>2. CASE ~(i < p)
      <4>1. i - 1 \in 1..(n - 1) /\ ~(i - 1 < p) /\ (i - 1) + 1 = i
        BY <2>4, <3>2
      <4>2. ring'[i - 1] = ring[i]
        BY <2>4, <4>1
      <4> QED
        BY <4>1, <4>2
    <3> QED
      BY <3>1, <3>2
  <2>7. \A i \in 1..n : i # p => ring[i] # t
    <3> TAKE i \in 1..n
    <3>1. ring[i] \in Int /\ ring[p] \in Int
      BY <2>4, <2>10
    <3>2. (i < p => ring[i] < ring[p]) /\ (p < i => ring[p] < ring[i])
      BY <2>4
    <3> QED
      BY <2>1, <2>4, <3>1, <3>2
  <2>8. OnRing' = OnRing \ {t}
    <3>1. OnRing' = {ring'[k] : k \in 1..(n - 1)} /\ OnRing = {ring[k] : k \in 1..n}
      BY <2>4 DEF OnRing
    <3>2. OnRing' \subseteq OnRing \ {t}
      BY <2>5, <2>7, <3>1
    <3>3. OnRing \ {t} \subseteq OnRing'
      BY <2>1, <2>6, <3>1
    <3> QED
      BY <3>2, <3>3
  <2>9. ASSUME NEW i \in 1..(n - 1), NEW j \in 1..(n - 1), i < j
        PROVE  ring'[i] < ring'[j]
    <3>1. CASE j < p
      <4>1. i < p /\ i \in 1..n /\ j \in 1..n
        BY <2>4, <2>9, <3>1
      <4> QED
        BY <2>4, <2>9, <3>1, <4>1
    <3>2. CASE ~(j < p) /\ i < p
      <4>1. i \in 1..n /\ j + 1 \in 1..n /\ i < j + 1
        BY <2>4, <2>9
      <4> QED
        BY <2>4, <3>2, <4>1
    <3>3. CASE ~(i < p)
      <4>1. i + 1 \in 1..n /\ j + 1 \in 1..n /\ i + 1 < j + 1 /\ ~(j < p)
        BY <2>4, <2>9, <3>3
      <4> QED
        BY <2>4, <3>3, <4>1
    <3> QED
      BY <3>1, <3>2, <3>3
  <2> QED
    BY <2>3, <2>4, <2>8, <2>9
<1> QED
  BY <1>1, <1>2

\* Who lies between a record on the list and the one before it has finished.
LEMMA PrevPasses ==
    ASSUME ring \in Seq(Workers), RingInv, work_is_done = 1,
           NEW v \in Workers, NEW w \in Workers, v < w, PrevOf(v) = Main \/ w < PrevOf(v)
    PROVE  finish[w] = 1
<1>1. CASE v \notin OnRing
  <2>1. PrevOf(v) = unlinked[v]
    BY <1>1, ThreadFacts DEF PrevOf
  <2> QED
    BY <1>1, <2>1 DEF RingInv
<1>2. CASE v \in OnRing
  <2> SUFFICES w \notin OnRing
    BY DEF RingInv
  <2> SUFFICES ASSUME w \in OnRing PROVE FALSE
    OBVIOUS
  <2> DEFINE p == Place(v)
             q == Place(w)
             n == Len(ring)
  <2>1. p \in 1..n /\ q \in 1..n /\ ring[p] = v /\ ring[q] = w /\ n \in Nat
    BY <1>2, OnRingFacts
  <2>2. v \in Nat /\ w \in Nat /\ v # Main
    BY ThreadFacts
  <2>3. PrevOf(v) = IF p = n THEN Main ELSE ring[p + 1]
    BY <1>2, <2>2 DEF PrevOf
  <2>4. \A i \in 1..n : \A j \in 1..n : i < j => ring[i] < ring[j]
    BY DEF RingInv
  <2>5. \A i \in 1..n : ring[i] \in Nat /\ ring[i] # Main
    <3>1. \A i \in 1..n : ring[i] \in Workers
      OBVIOUS
    <3> QED
      BY <3>1, ThreadFacts
  <2> HIDE DEF p, q, n
  <2>6. p < q
    <3>1. q < p => w < v
      BY <2>1, <2>4
    <3> QED
      BY <2>1, <2>2, <3>1
  <2>7. p # n /\ p + 1 \in 1..n
    BY <2>1, <2>6
  <2>8. w < ring[p + 1]
    BY <2>3, <2>5, <2>7
  <2>9. q # p + 1 => ring[p + 1] < w
    BY <2>1, <2>4, <2>6, <2>7
  <2> QED
    BY <2>1, <2>2, <2>5, <2>7, <2>8, <2>9
<1> QED
  BY <1>1, <1>2

LEMMA RemoveSound ==
    ASSUME SchedInv, ProgramInv, Remove
    PROVE  SchedInv' /\ ProgramInv'
<1> DEFINE fs == <<Call("up", Main), At("stop")>>
<1>1. /\ Top.at = "remove" /\ "remove" \in WorkerPlaces /\ "stop" \in WorkerPlaces
      /\ remove_thread(me) /\ Becomes(fs)
      /\ UNCHANGED <<exec, rout, running, val, work_is_done, alarms, torn, progVars>>
  BY DEF Remove, WorkerPlaces
<1>2. me \in Threads /\ me = run[exec]
  BY MeThread DEF me
<1>3. Whole(fs, WorkerPlaces) /\ PlaceIn(fs) = "stop"
  BY <1>1, CallFacts, TwoFrames, WorkerPlaceFacts, ThreadFacts
<1> HIDE DEF fs
<1>4. StackInv' /\ ContextInv' /\ WorkerGoes("remove", "stop")
  BY <1>1, <1>3, WorkerStack DEF progVars
<1>5. /\ exec \in Workers /\ PlaceIn(stack[exec]) = "remove" /\ PlaceIn(stack'[exec]) = "stop"
      /\ \A w \in Workers \ {exec} : PlaceIn(stack'[w]) = PlaceIn(stack[w])
  BY <1>4, ThreadFacts DEF WorkerGoes
<1>6. work_is_done = 1 /\ finish[me] = 1 /\ num[me] = NoWork
  BY <1>2, <1>5 DEF LeaveInv, Leaving, Left, Where, ProgramInv
<1>7. /\ ring' \in Seq(Workers) /\ OnRing' = OnRing \ {me}
      /\ \A i \in DOMAIN ring' : \A j \in DOMAIN ring' : i < j => ring'[i] < ring'[j]
  BY <1>1, RemovedRing DEF SchedInv, TypeInv, RingInv, ProgramInv
<1>8. unlinked' = [unlinked EXCEPT ![me] = PrevOf(me)] /\ PrevOf(me) \in Threads
  BY <1>1, <1>2, PrevOfThread DEF remove_thread, SchedInv, TypeInv
<1>9. unlinked'[me] = PrevOf(me) /\ \A t \in Threads \ {me} : unlinked'[t] = unlinked[t]
  BY <1>2, <1>8 DEF SchedInv, TypeInv
<1>10. unlinked' \in [Threads -> Threads]
  BY <1>8 DEF SchedInv, TypeInv
<1>11. TypeInv'
  BY <1>1, <1>7, <1>10 DEF SchedInv, TypeInv, progVars, Positions
<1>12. UNCHANGED <<run, num, finish, work_is_done, cur, numbers_left>>
  BY <1>1 DEF progVars
<1>13. MainInv' /\ Linked' = Linked /\ JoinInv'
  BY <1>4, <1>12, WorkerMain DEF ProgramInv
<1>14. \A w \in Workers : w \notin OnRing' => finish[w] = 1
  BY <1>6, <1>7 DEF RingInv, ProgramInv
<1>15. ASSUME NEW v \in Workers, v \notin OnRing', NEW w \in Workers, v < w,
              unlinked'[v] = Main \/ w < unlinked'[v]
       PROVE  finish[w] = 1
  <2>1. CASE v = me
    BY <1>6, <1>9, <1>15, <2>1, PrevPasses DEF SchedInv, TypeInv, ProgramInv
  <2>2. CASE v # me
    <3>1. v \notin OnRing /\ unlinked'[v] = unlinked[v]
      BY <1>7, <1>9, <1>15, <2>2, ThreadFacts
    <3> QED
      BY <1>6, <1>15, <3>1 DEF RingInv, ProgramInv
  <2> QED
    BY <2>1, <2>2
<1>16. RingInv'
  BY <1>6, <1>7, <1>12, <1>14, <1>15 DEF RingInv
<1>17. LeaveInv'
  BY <1>2, <1>4, <1>6, <1>12, WorkerLeave DEF ProgramInv
<1>18. ListedInv'
  <2>1. ASSUME NEW t \in OnRing', finish[t] = 1
        PROVE  \E w \in Workers : run[w] = t /\ PlaceIn(stack'[w]) = "remove"
    <3>1. t \in OnRing /\ t # me
      BY <1>7, <2>1
    <3>2. PICK w \in Workers : run[w] = t /\ PlaceIn(stack[w]) = "remove"
      BY <2>1, <3>1 DEF ListedInv, Where, ProgramInv
    <3>3. w # exec
      BY <1>2, <3>1, <3>2
    <3> QED
      BY <1>5, <3>2, <3>3
  <2> QED
    BY <1>12, <2>1 DEF ListedInv, Where
<1>19. GivenInv' /\ VerdictInv'
  BY <1>1 DEF GivenInv, VerdictInv, pos, ProgramInv, progVars
<1> QED
  BY <1>4, <1>11, <1>13, <1>16, <1>17, <1>18, <1>19 DEF SchedInv, ProgramInv

LEMMA WorkerSound ==
    ASSUME SchedInv, ProgramInv, WorkerStep
    PROVE  Crashed' \/ (SchedInv' /\ ProgramInv')
BY FindSound, GotSound, TestSound, ReleaseSound, ClearSound, FinishSound, RemoveSound, StopSound
   DEF WorkerStep

-----------------------------------------------------------------------------
(* The steps of main. *)

\* What a step of main does to the stacks.
MainGoes(p, q) ==
    /\ exec = Main /\ exec' = Main /\ PlaceIn(stack[Main]) = p /\ PlaceIn(stack'[Main]) = q
    /\ \A t \in Workers : stack'[t] = stack[t]

LEMMA MainPlaceFacts == MainPlaces \subseteq AllPlaces /\ Home(Main) = MainPlaces
BY DEF AllPlaces, Home

LEMMA MainTop ==
    ASSUME SchedInv, Top.at \in MainPlaces
    PROVE  exec = Main /\ PlaceIn(stack[Main]) = Top.at /\ Top.at \notin LibraryPlaces
<1>1. Top.at \notin LibraryPlaces
  BY DEF MainPlaces, LibraryPlaces
<1>2. exec \in Threads /\ Where(exec) = Top.at /\ Top.at \in Home(exec)
  BY <1>1, ProgramTop DEF SchedInv, StackInv
<1>3. exec = Main
  BY <1>2, ThreadFacts, HomePlaces DEF MainPlaces, WorkerPlaces
<1> QED
  BY <1>1, <1>2, <1>3 DEF Where

LEMMA MainStack ==
    ASSUME SchedInv, Top.at \in MainPlaces,
           NEW q \in MainPlaces, NEW fs, Whole(fs, MainPlaces), PlaceIn(fs) = q,
           q = "telos" => Head(fs).at = "telos",
           Becomes(fs), UNCHANGED exec, work_is_done = 1 => work_is_done' = 1
    PROVE  StackInv' /\ MainGoes(Top.at, q) /\ Top'.at = Head(fs).at
<1>1. exec = Main /\ PlaceIn(stack[Main]) = Top.at /\ Top.at \notin LibraryPlaces
  BY MainTop
<1>2. Home(exec) = MainPlaces
  BY <1>1, MainPlaceFacts
<1>3. /\ StackInv' /\ PlaceIn(stack'[exec]) = q /\ Top'.at = Head(fs).at
      /\ \A t \in Threads \ {exec} : stack'[t] = stack[t]
  BY <1>1, <1>2, ProgramStack DEF SchedInv
<1> QED
  BY <1>1, <1>3, ThreadFacts DEF MainGoes

LEMMA MainStays ==
    ASSUME SchedInv, Top.at \in MainPlaces, UNCHANGED <<stack, exec, work_is_done>>
    PROVE  StackInv' /\ MainGoes(Top.at, Top.at) /\ Top'.at = Top.at
<1>1. exec = Main /\ PlaceIn(stack[Main]) = Top.at
  BY MainTop
<1> QED
  BY <1>1 DEF MainGoes, StackInv, Where, Top, SchedInv

\* While there is work, the list is that of all the workers created.
LEMMA FullRing ==
    ASSUME SchedInv, ProgramInv, work_is_done = 0, Where(Main) \notin {"create", "make"}
    PROVE  /\ OnRing = Workers /\ ring # <<>> /\ Len(ring) = workers
           /\ PrevOf(Main) = 1 /\ 1 \in Workers
<1>1. ring = [k \in 1..workers |-> k]
  BY DEF ProgramInv, RingInv, Linked
<1>2. workers \in Nat \ {0} /\ Workers = 1..workers /\ 1 \in Workers
  BY CoroutineAssumption DEF Workers
<1>3. Len(ring) = workers /\ ring[1] = 1 /\ DOMAIN ring = 1..workers
  BY <1>1, <1>2
<1>4. ring # <<>>
  BY <1>2, <1>3
<1>5. OnRing = Workers
  BY <1>1, <1>2, <1>3 DEF OnRing
<1> QED
  BY <1>2, <1>3, <1>4, <1>5 DEF PrevOf

\* Before main has set work_is_done nobody leaves.
LEMMA NobodyLeaves ==
    ASSUME SchedInv, ProgramInv, work_is_done = 0
    PROVE  /\ \A t \in Threads : finish[t] = 0
           /\ \A w \in Workers : PlaceIn(stack[w]) \notin Leaving \cup {"gone"}
           /\ Where(Main) \notin {"join", "telos"}
BY DEF SchedInv, TypeInv, ProgramInv, LeaveInv, MainInv, Where

LEMMA MainRest ==
    ASSUME SchedInv, ProgramInv, NEW p, NEW q, MainGoes(p, q), UNCHANGED <<run, finish>>,
           \/ UNCHANGED <<num, ring>> /\ (work_is_done = 1 => work_is_done' = 1)
           \/ work_is_done = 0 /\ work_is_done' = 0 /\ ring' \in Seq(Workers)
    PROVE  LeaveInv' /\ ListedInv'
<1>1. \A w \in Workers : PlaceIn(stack'[w]) = PlaceIn(stack[w])
  BY DEF MainGoes
<1>2. CASE UNCHANGED <<num, ring>> /\ (work_is_done = 1 => work_is_done' = 1)
  BY <1>1, <1>2 DEF ProgramInv, LeaveInv, ListedInv, Where, OnRing
<1>3. CASE work_is_done = 0 /\ work_is_done' = 0 /\ ring' \in Seq(Workers)
  <2>1. /\ \A t \in Threads : finish'[t] = 0
        /\ \A w \in Workers : PlaceIn(stack'[w]) \notin Leaving \cup {"gone"}
    BY <1>1, <1>3, NobodyLeaves
  <2>2. LeaveInv'
    BY <2>1 DEF LeaveInv, Leaving, Left, Where
  <2>3. \A t \in OnRing' : t \in Threads
    <3>1. \A k \in DOMAIN ring' : ring'[k] \in Workers
      BY <1>3
    <3> QED
      BY <3>1, ThreadFacts DEF OnRing
  <2>4. ListedInv'
    BY <2>1, <2>3 DEF ListedInv
  <2> QED
    BY <2>2, <2>4
<1> QED
  BY <1>2, <1>3

\* The parts about numbers and verdicts are about their variables only.
LEMMA NumbersStay ==
    ASSUME ProgramInv, UNCHANGED <<num, numbers_left, erased, verdict>>
    PROVE  GivenInv' /\ VerdictInv'
BY DEF ProgramInv, GivenInv, VerdictInv, pos

LEMMA CreateSound ==
    ASSUME SchedInv, ProgramInv, Create
    PROVE  SchedInv' /\ ProgramInv'
<1> DEFINE fs == <<At("make")>>
<1>1. /\ Top.at = "create" /\ "create" \in MainPlaces /\ "make" \in MainPlaces
      /\ ring' = Append(ring, cur) /\ Becomes(fs)
      /\ UNCHANGED <<exec, rout, running, unlinked, val, work_is_done, alarms, torn, progVars>>
  BY DEF Create, Link, MainPlaces
<1>2. Whole(fs, MainPlaces) /\ PlaceIn(fs) = "make"
  BY <1>1, OneFrame, MainPlaceFacts
<1> HIDE DEF fs
<1>3. StackInv' /\ MainGoes("create", "make")
  BY <1>1, <1>2, MainStack
<1>4. UNCHANGED <<run, finish, num, cur, numbers_left, erased, verdict>>
  BY <1>1 DEF progVars
<1>5. Where(Main) = "create" /\ PlaceIn(stack'[Main]) = "make"
  BY <1>3 DEF MainGoes, Where
<1>6. work_is_done = 0 /\ cur \in Workers
  BY <1>5, ThreadFacts DEF ProgramInv, MainInv, SchedInv, TypeInv
<1>7. cur \in 1..workers /\ workers \in Nat /\ ring = [k \in 1..(cur - 1) |-> k]
  BY <1>5, <1>6, ThreadFacts DEF ProgramInv, RingInv, Linked, Workers
<1>8. ring' = [k \in 1..cur |-> k]
  <2> DEFINE a == [k \in 1..(cur - 1) |-> k]
             b == [k \in 1..cur |-> k]
  <2>1. a \in Seq(Nat) /\ Len(a) = cur - 1 /\ \A k \in 1..(cur - 1) : a[k] = k
    BY <1>7
  <2>2. b \in Seq(Nat) /\ Len(b) = cur /\ \A k \in 1..cur : b[k] = k
    BY <1>7
  <2>3. ring' = Append(a, cur)
    BY <1>1, <1>7
  <2> HIDE DEF a, b
  <2>4. /\ Append(a, cur) \in Seq(Nat) /\ Len(Append(a, cur)) = cur
        /\ \A k \in 1..cur : Append(a, cur)[k] = k
    BY <1>7, <2>1
  <2>5. Append(a, cur) = b
    BY <2>2, <2>4, SeqEqual
  <2> QED
    BY <2>3, <2>5 DEF b
<1>9. ring' \in Seq(Workers)
  BY <1>1, <1>6 DEF SchedInv, TypeInv
<1>10. TypeInv'
  BY <1>1, <1>9 DEF SchedInv, TypeInv, progVars, Positions
<1>11. ContextInv'
  BY <1>1, <1>4, <1>5 DEF SchedInv, ContextInv, Where
<1>12. MainInv'
  BY <1>1, <1>4, <1>5, <1>6 DEF ProgramInv, MainInv, Where
<1>13. RingInv'
  <2>1. \A i \in DOMAIN ring' : \A j \in DOMAIN ring' : i < j => ring'[i] < ring'[j]
    BY <1>8
  <2> QED
    BY <1>1, <1>4, <1>5, <1>6, <1>8, <2>1 DEF RingInv, Linked, Where
<1>14. LeaveInv' /\ ListedInv'
  BY <1>1, <1>3, <1>4, <1>6, <1>9, MainRest
<1>15. JoinInv'
  BY <1>5 DEF JoinInv, Where
<1>16. GivenInv' /\ VerdictInv'
  BY <1>4, NumbersStay
<1> QED
  BY <1>3, <1>10, <1>11, <1>12, <1>13, <1>14, <1>15, <1>16 DEF SchedInv, ProgramInv

LEMMA MakeSound ==
    ASSUME SchedInv, ProgramInv, Make
    PROVE  SchedInv' /\ ProgramInv'
<1> DEFINE q == IF cur < workers THEN "create" ELSE "next"
           fs == <<At(q)>>
<1>1. /\ Top.at = "make" /\ "make" \in MainPlaces /\ q \in MainPlaces /\ q # "telos"
      /\ rout' = [rout EXCEPT ![cur] = Context(cur, stack[cur])]
      /\ Becomes(fs) /\ cur' = IF cur < workers THEN cur + 1 ELSE cur
      /\ UNCHANGED <<exec, running, ring, unlinked, val, work_is_done, alarms, torn>>
      /\ UNCHANGED <<run, num, avail, finish, numbers_left, erased, verdict>>
  BY DEF Make, MakeContext, MainPlaces
<1>2. Whole(fs, MainPlaces) /\ PlaceIn(fs) = q
  BY <1>1, OneFrame, MainPlaceFacts
<1>0. q = IF cur < workers THEN "create" ELSE "next"
  OBVIOUS
<1> HIDE DEF fs, q
<1>3. StackInv' /\ MainGoes("make", q)
  BY <1>1, <1>2, MainStack
<1>4. Where(Main) = "make" /\ PlaceIn(stack'[Main]) = q
  BY <1>3 DEF MainGoes, Where
<1>5. work_is_done = 0 /\ cur \in Workers
  BY <1>4, ThreadFacts DEF ProgramInv, MainInv, SchedInv, TypeInv
<1>6. cur \in 1..workers /\ workers \in Nat
  BY <1>5, ThreadFacts DEF Workers
<1>7. stack[cur] \in Seq(Frames) /\ stack[cur] # <<>>
  BY <1>5, ThreadFacts DEF SchedInv, StackInv
<1>8. Context(cur, stack[cur]) \in [own : Threads, stk : Seq(Frames)]
  BY <1>5, <1>7, ThreadFacts DEF Context
<1>9. rout' \in [Threads -> [own : Threads, stk : Seq(Frames)]]
  BY <1>1, <1>8 DEF SchedInv, ContextInv
<1>10. /\ rout'[cur].stk # <<>>
       /\ \A t \in Threads \ {cur} : rout'[t] = rout[t]
  BY <1>1, <1>5, <1>7, ThreadFacts DEF SchedInv, ContextInv, Context
<1>11. cur' \in Threads /\ (q = "create" => cur' # Main)
  BY <1>0, <1>1, <1>6, ThreadFacts DEF Threads, Workers, Main
<1>12. ContextInv'
  <2>1. ASSUME NEW w \in Workers, rout'[w].stk = <<>>
        PROVE  q \in {"create", "make"} /\ w >= cur'
    <3>1. w # cur /\ rout[w].stk = <<>>
      BY <1>10, <2>1, ThreadFacts
    <3>2. w >= cur /\ w \in 1..workers
      BY <3>1 DEF SchedInv, ContextInv, Workers
    <3> QED
      BY <1>0, <1>1, <1>6, <3>1, <3>2
  <2>2. ASSUME NEW t \in Threads, rout'[t].stk = <<>> PROVE rout'[t].own = t
    BY <1>10, <2>2 DEF SchedInv, ContextInv
  <2> QED
    BY <1>4, <1>9, <2>1, <2>2 DEF ContextInv, Where
<1>13. TypeInv'
  BY <1>1, <1>11 DEF SchedInv, TypeInv, Positions
<1>14. MainInv'
  BY <1>0, <1>1, <1>4, <1>5, <1>11 DEF ProgramInv, MainInv, Where
<1>15. Linked' = Linked
  BY <1>0, <1>1, <1>4, <1>6 DEF Linked, Where
<1>16. RingInv'
  BY <1>1, <1>15 DEF ProgramInv, RingInv, OnRing
<1>17. LeaveInv' /\ ListedInv'
  BY <1>1, <1>3, MainRest
<1>18. JoinInv'
  BY <1>0, <1>4 DEF JoinInv, Where
<1>19. GivenInv' /\ VerdictInv'
  BY <1>1, NumbersStay
<1> QED
  BY <1>3, <1>12, <1>13, <1>14, <1>16, <1>17, <1>18, <1>19 DEF SchedInv, ProgramInv

\* A step of main through the numbers or the workers, between creation and joining.
LEMMA MainServes ==
    ASSUME SchedInv, ProgramInv, work_is_done = 0,
           NEW p \in {"next", "seek", "drain"}, NEW q \in {"next", "seek", "drain"},
           StackInv', MainGoes(p, q),
           UNCHANGED <<calm, run, finish>>, num' = num \/ num' \in [Threads -> 0..Len(Numbers)]
    PROVE  ContextInv' /\ RingInv' /\ LeaveInv' /\ ListedInv' /\ JoinInv'
<1>1. Where(Main) = p /\ PlaceIn(stack'[Main]) = q
  BY DEF MainGoes, Where
<1>2. UNCHANGED <<exec, rout, running, ring, unlinked, val, work_is_done, alarms, torn>>
  BY DEF calm
<1>3. ContextInv'
  BY <1>1, <1>2 DEF SchedInv, ContextInv, Where
<1>4. Linked' = Linked
  BY <1>1 DEF Linked, Where
<1>5. RingInv'
  BY <1>2, <1>4 DEF ProgramInv, RingInv, OnRing
<1>6. LeaveInv' /\ ListedInv'
  <2>1. ring' \in Seq(Workers) /\ work_is_done' = 0
    BY <1>2 DEF SchedInv, TypeInv
  <2> QED
    BY <2>1, MainRest
<1>7. JoinInv'
  BY <1>1 DEF JoinInv, Where
<1> QED
  BY <1>3, <1>5, <1>6, <1>7

LEMMA MainAt ==
    ASSUME SchedInv, ProgramInv, Top.at \in {"next", "seek", "drain"}
    PROVE  /\ work_is_done = 0 /\ Where(Main) = Top.at /\ Top.at \in MainPlaces
           /\ Where(Main) \notin {"create", "make"}
<1>1. Top.at \in MainPlaces
  BY DEF MainPlaces
<1>2. Where(Main) = Top.at
  BY <1>1, MainTop DEF Where
<1> QED
  BY <1>1, <1>2 DEF SchedInv, TypeInv, ProgramInv, MainInv

LEMMA NextNumberSound ==
    ASSUME SchedInv, ProgramInv, NextNumber
    PROVE  SchedInv' /\ ProgramInv'
<1> DEFINE q == IF numbers_left > 0 THEN "seek" ELSE "drain"
           fs == <<At(q)>>
<1>1. /\ Top.at = "next" /\ q \in MainPlaces /\ q \in {"next", "seek", "drain"}
      /\ cur' = IF numbers_left > 0 THEN PrevOf(Main) ELSE NextOf(Main)
      /\ Becomes(fs)
      /\ UNCHANGED <<calm, run, num, avail, finish, numbers_left, erased, verdict>>
  BY DEF NextNumber, MainPlaces
<1>2. Whole(fs, MainPlaces) /\ PlaceIn(fs) = q
  BY <1>1, OneFrame, MainPlaceFacts
<1>3. q = IF numbers_left > 0 THEN "seek" ELSE "drain"
  OBVIOUS
<1> HIDE DEF fs, q
<1>4. work_is_done = 0 /\ Where(Main) = "next" /\ "next" \in MainPlaces
  BY <1>1, MainAt
<1>5. StackInv' /\ MainGoes("next", q)
  BY <1>1, <1>2, <1>3, <1>4, MainStack DEF calm
<1>6. PrevOf(Main) = 1 /\ 1 \in Workers
  BY <1>4, FullRing
<1>7. cur' \in Threads /\ (q = "seek" => cur' # Main)
  BY <1>1, <1>3, <1>6, NextOfThread, ThreadFacts DEF SchedInv, TypeInv
<1>8. TypeInv'
  BY <1>1, <1>7 DEF SchedInv, TypeInv, calm, Positions
<1>9. MainInv'
  <2>1. PlaceIn(stack'[Main]) = q /\ work_is_done' = work_is_done
    BY <1>1, <1>5 DEF MainGoes, calm
  <2>2. q = "drain" => numbers_left = 0
    BY <1>3 DEF SchedInv, TypeInv
  <2> QED
    BY <1>1, <1>3, <1>4, <1>7, <2>1, <2>2 DEF MainInv, Where
<1>10. ContextInv' /\ RingInv' /\ LeaveInv' /\ ListedInv' /\ JoinInv'
  BY <1>1, <1>4, <1>5, MainServes
<1>11. GivenInv' /\ VerdictInv'
  BY <1>1, NumbersStay
<1> QED
  BY <1>5, <1>8, <1>9, <1>10, <1>11 DEF SchedInv, ProgramInv

LEMMA GiveSound ==
    ASSUME SchedInv, ProgramInv, Give
    PROVE  SchedInv' /\ ProgramInv'
<1> DEFINE fs == <<Call("up", cur), At("next")>>
<1>1. /\ Top.at = "seek" /\ "next" \in MainPlaces /\ "next" # "telos"
      /\ avail' = [avail EXCEPT ![cur] = 1]
      /\ num' = [num EXCEPT ![cur] = pos]
      /\ numbers_left' = numbers_left - 1
      /\ erased' = (erased \/ Untested(cur))
      /\ Becomes(fs)
      /\ UNCHANGED <<calm, run, finish, cur, verdict>>
  BY DEF Give, MainPlaces
<1>2. cur \in Threads
  BY DEF SchedInv, TypeInv
<1>3. Whole(fs, MainPlaces) /\ PlaceIn(fs) = "next"
  BY <1>1, <1>2, CallFacts, TwoFrames, MainPlaceFacts
<1> HIDE DEF fs
<1>4. work_is_done = 0 /\ Where(Main) = "seek" /\ "seek" \in MainPlaces
  BY <1>1, MainAt
<1>5. StackInv' /\ MainGoes("seek", "next")
  BY <1>1, <1>3, <1>4, MainStack DEF calm
<1>6. /\ Len(Numbers) \in Nat /\ numbers_left \in 1..Len(Numbers)
      /\ pos \in 1..Len(Numbers) /\ pos' = pos + 1
  <2>1. Len(Numbers) \in Nat /\ numbers_left \in 0..Len(Numbers) /\ numbers_left > 0
    BY <1>4, NumbersAssumption DEF SchedInv, TypeInv, ProgramInv, MainInv
  <2> QED
    BY <1>1, <2>1 DEF pos
<1>7. num' \in [Threads -> 0..Len(Numbers)] /\ avail' \in [Threads -> {0, 1}]
  BY <1>1, <1>6 DEF SchedInv, TypeInv
<1>8. num'[cur] = pos /\ \A t \in Threads \ {cur} : num'[t] = num[t]
  BY <1>1, <1>2 DEF SchedInv, TypeInv
<1>9. TypeInv'
  <2>1. numbers_left' \in 0..Len(Numbers)
    BY <1>1, <1>6
  <2>2. erased' \in BOOLEAN
    BY <1>1 DEF SchedInv, TypeInv, Untested
  <2> QED
    BY <1>1, <1>7, <2>1, <2>2 DEF SchedInv, TypeInv, calm, Positions
<1>10. MainInv'
  <2>1. PlaceIn(stack'[Main]) = "next" /\ work_is_done' = 0
    BY <1>1, <1>4, <1>5 DEF MainGoes, calm
  <2> QED
    BY <2>1 DEF MainInv, Where
<1>11. ContextInv' /\ RingInv' /\ LeaveInv' /\ ListedInv' /\ JoinInv'
  BY <1>1, <1>4, <1>5, <1>7, MainServes
<1>12. GivenInv'
  <2>1. \A t \in Threads : num'[t] < pos + 1
    <3>1. \A t \in Threads : num[t] \in Int /\ num[t] < pos
      BY <1>6 DEF GivenInv, ProgramInv, SchedInv, TypeInv
    <3> QED
      BY <1>6, <1>8, <3>1
  <2>2. ASSUME ~erased', NEW j \in Positions, j < pos + 1, verdict[j] = "none"
        PROVE  \E t \in Threads : num'[t] = j
    <3>1. CASE j = pos
      BY <1>2, <1>8, <3>1
    <3>2. CASE j # pos
      <4>1. j < pos /\ j # NoWork
        BY <1>6, <2>2, <3>2 DEF Positions, NoWork
      <4>2. PICK t \in Threads : num[t] = j
        BY <1>1, <2>2, <4>1 DEF GivenInv, ProgramInv
      <4>3. t = cur => Untested(cur)
        BY <2>2, <4>1, <4>2 DEF Untested
      <4>4. t # cur
        BY <1>1, <2>2, <4>3
      <4> QED
        BY <1>8, <4>2, <4>4
    <3> QED
      BY <3>1, <3>2
  <2>3. Positions' = Positions /\ verdict' = verdict
    BY <1>1 DEF Positions
  <2>4. num'[Main] = NoWork
    BY <1>4, <1>8, ThreadFacts DEF GivenInv, MainInv, ProgramInv
  <2> QED
    BY <1>6, <2>1, <2>2, <2>3, <2>4 DEF GivenInv
<1>13. VerdictInv'
  BY <1>1 DEF VerdictInv, ProgramInv
<1> QED
  BY <1>5, <1>9, <1>10, <1>11, <1>12, <1>13 DEF SchedInv, ProgramInv

LEMMA PassBySound ==
    ASSUME SchedInv, ProgramInv, PassBy
    PROVE  SchedInv' /\ ProgramInv'
<1> DEFINE fs == <<At("yield"), At("seek")>>
<1>1. /\ Top.at = "seek" /\ "seek" \in MainPlaces
      /\ UNCHANGED <<calm, run, num, avail, finish, numbers_left, erased, verdict>>
      /\ \/ PrevOf(cur) # Main /\ cur' = PrevOf(cur) /\ UNCHANGED stack
         \/ cur' = PrevOf(Main) /\ Becomes(fs)
  BY DEF PassBy, MainPlaces
<1>2. work_is_done = 0 /\ Where(Main) = "seek" /\ Where(Main) \notin {"create", "make"}
  BY <1>1, MainAt
<1>3. Whole(fs, MainPlaces) /\ PlaceIn(fs) = "seek"
  BY <1>1, PlaceFrame, TwoFrames, MainPlaceFacts DEF AllPlaces, LibraryPlaces
<1> HIDE DEF fs
<1>4. StackInv' /\ MainGoes("seek", "seek")
  <2>1. UNCHANGED stack => StackInv' /\ MainGoes("seek", "seek")
    BY <1>1, MainStays DEF calm
  <2>2. Becomes(fs) => StackInv' /\ MainGoes("seek", "seek")
    BY <1>1, <1>3, MainStack DEF calm
  <2> QED
    BY <1>1, <2>1, <2>2
<1>5. cur' \in Threads /\ cur' # Main
  <2>1. PrevOf(Main) = 1 /\ 1 \in Workers
    BY <1>2, FullRing
  <2>2. PrevOf(cur) \in Threads
    BY PrevOfThread DEF SchedInv, TypeInv
  <2> QED
    BY <1>1, <2>1, <2>2, ThreadFacts
<1>6. TypeInv'
  BY <1>1, <1>5 DEF SchedInv, TypeInv, calm, Positions
<1>7. MainInv'
  BY <1>1, <1>2, <1>4, <1>5 DEF ProgramInv, MainInv, MainGoes, Where, calm
<1>8. ContextInv' /\ RingInv' /\ LeaveInv' /\ ListedInv' /\ JoinInv'
  BY <1>1, <1>2, <1>4, MainServes
<1>9. GivenInv' /\ VerdictInv'
  BY <1>1, NumbersStay
<1> QED
  BY <1>4, <1>6, <1>7, <1>8, <1>9 DEF SchedInv, ProgramInv

LEMMA DrainSound ==
    ASSUME SchedInv, ProgramInv, Drain
    PROVE  SchedInv' /\ ProgramInv'
<1> DEFINE fs == <<At("yield"), At("drain")>>
<1>1. /\ Top.at = "drain" /\ "drain" \in MainPlaces /\ cur # Main /\ cur' = NextOf(cur)
      /\ UNCHANGED <<calm, run, num, avail, finish, numbers_left, erased, verdict>>
      /\ Becomes(fs) \/ UNCHANGED stack
  BY DEF Drain, MainPlaces
<1>2. work_is_done = 0 /\ Where(Main) = "drain" /\ Where(Main) \notin {"create", "make"}
  BY <1>1, MainAt
<1>3. Whole(fs, MainPlaces) /\ PlaceIn(fs) = "drain"
  BY <1>1, PlaceFrame, TwoFrames, MainPlaceFacts DEF AllPlaces, LibraryPlaces
<1> HIDE DEF fs
<1>4. StackInv' /\ MainGoes("drain", "drain")
  <2>1. UNCHANGED stack => StackInv' /\ MainGoes("drain", "drain")
    BY <1>1, MainStays DEF calm
  <2>2. Becomes(fs) => StackInv' /\ MainGoes("drain", "drain")
    BY <1>1, <1>3, MainStack DEF calm
  <2> QED
    BY <1>1, <2>1, <2>2
<1>5. cur' \in Threads
  <2>1. cur \in OnRing
    BY <1>1, <1>2, FullRing, ThreadFacts DEF SchedInv, TypeInv
  <2> QED
    BY <1>1, <2>1, NextOfThread DEF SchedInv, TypeInv
<1>6. TypeInv'
  BY <1>1, <1>5 DEF SchedInv, TypeInv, calm, Positions
<1>7. MainInv'
  BY <1>1, <1>2, <1>4 DEF ProgramInv, MainInv, MainGoes, Where, calm
<1>8. ContextInv' /\ RingInv' /\ LeaveInv' /\ ListedInv' /\ JoinInv'
  BY <1>1, <1>2, <1>4, MainServes
<1>9. GivenInv' /\ VerdictInv'
  BY <1>1, NumbersStay
<1> QED
  BY <1>4, <1>6, <1>7, <1>8, <1>9 DEF SchedInv, ProgramInv

\* Main's contexts do not matter once all the workers have been made.
LEMMA MadeContexts ==
    ASSUME SchedInv, Where(Main) \notin {"create", "make"},
           PlaceIn(stack'[Main]) \notin {"create", "make"}, UNCHANGED rout
    PROVE  ContextInv'
BY DEF SchedInv, ContextInv, Where

LEMMA WorkIsDoneSound ==
    ASSUME SchedInv, ProgramInv, WorkIsDone
    PROVE  SchedInv' /\ ProgramInv'
<1> DEFINE fs == <<At("join")>>
<1>1. /\ Top.at = "drain" /\ "drain" \in MainPlaces /\ "join" \in MainPlaces
      /\ work_is_done' = 1 /\ cur' = PrevOf(Main) /\ Becomes(fs)
      /\ UNCHANGED <<exec, rout, running, ring, unlinked, val, alarms, torn>>
      /\ UNCHANGED <<run, num, avail, finish, numbers_left, erased, verdict>>
  BY DEF WorkIsDone, MainPlaces
<1>2. work_is_done = 0 /\ Where(Main) = "drain" /\ Where(Main) \notin {"create", "make"}
  BY <1>1, MainAt
<1>3. Whole(fs, MainPlaces) /\ PlaceIn(fs) = "join"
  BY <1>1, OneFrame, MainPlaceFacts
<1> HIDE DEF fs
<1>4. StackInv' /\ MainGoes("drain", "join")
  BY <1>1, <1>3, MainStack
<1>5. PlaceIn(stack'[Main]) = "join"
  BY <1>4 DEF MainGoes
<1>6. OnRing = Workers /\ PrevOf(Main) = 1 /\ 1 \in Workers
  BY <1>2, FullRing
<1>7. TypeInv'
  BY <1>1, <1>6, ThreadFacts DEF SchedInv, TypeInv, Positions
<1>8. ContextInv'
  BY <1>1, <1>2, <1>5, MadeContexts
<1>9. MainInv'
  BY <1>1, <1>2, <1>5 DEF ProgramInv, MainInv, Where
<1>10. RingInv'
  <2>1. OnRing' = Workers
    BY <1>1, <1>6 DEF OnRing
  <2> QED
    BY <1>1, <2>1 DEF ProgramInv, RingInv
<1>11. LeaveInv' /\ ListedInv'
  BY <1>1, <1>4, MainRest
<1>12. JoinInv'
  <2>1. cur' = 1 /\ cur' # Main /\ \A w \in Workers : ~(w < 1)
    BY <1>1, <1>6, ThreadFacts DEF Workers
  <2> QED
    BY <1>5, <2>1 DEF JoinInv, Where
<1>13. GivenInv' /\ VerdictInv'
  BY <1>1, NumbersStay
<1> QED
  BY <1>4, <1>7, <1>8, <1>9, <1>10, <1>11, <1>12, <1>13 DEF SchedInv, ProgramInv

LEMMA JoinAt ==
    ASSUME SchedInv, ProgramInv, Top.at = "join"
    PROVE  /\ work_is_done = 1 /\ Where(Main) = "join" /\ "join" \in MainPlaces
           /\ Where(Main) \notin {"create", "make"}
<1>1. "join" \in MainPlaces
  BY DEF MainPlaces
<1>2. Where(Main) = "join"
  BY <1>1, MainTop DEF Where
<1> QED
  BY <1>1, <1>2 DEF ProgramInv, MainInv

\* The steps of main through the workers at the end.
LEMMA MainJoins ==
    ASSUME SchedInv, ProgramInv, NEW q \in {"join", "telos"}, MainGoes("join", q),
           UNCHANGED <<calm, run, num, finish, numbers_left, erased, verdict>>
    PROVE  ContextInv' /\ MainInv' /\ RingInv' /\ LeaveInv' /\ ListedInv'
           /\ GivenInv' /\ VerdictInv'
<1>1. Where(Main) = "join" /\ PlaceIn(stack'[Main]) = q
  BY DEF MainGoes, Where
<1>2. UNCHANGED <<exec, rout, running, ring, unlinked, val, work_is_done, alarms, torn>>
  BY DEF calm
<1>3. ContextInv'
  BY <1>1, <1>2, MadeContexts
<1>4. MainInv'
  BY <1>1, <1>2 DEF ProgramInv, MainInv, Where
<1>5. Linked' = Linked
  BY <1>1 DEF Linked, Where
<1>6. RingInv'
  BY <1>2, <1>5 DEF ProgramInv, RingInv, OnRing
<1>7. LeaveInv' /\ ListedInv'
  BY <1>2, MainRest
<1> QED
  BY <1>3, <1>4, <1>6, <1>7, NumbersStay

LEMMA JoinSound ==
    ASSUME SchedInv, ProgramInv, Join
    PROVE  SchedInv' /\ ProgramInv'
<1> DEFINE fs == <<Call("up", cur), Call("down", Main), At("join")>>
<1>1. /\ Top.at = "join" /\ cur # Main
      /\ UNCHANGED <<calm, run, num, avail, finish, numbers_left, erased, verdict>>
      /\ \/ UNCHANGED cur /\ Becomes(fs)
         \/ finish[cur] # 0 /\ cur' = PrevOf(cur) /\ UNCHANGED stack
  BY DEF Join
<1>2. work_is_done = 1 /\ Where(Main) = "join" /\ "join" \in MainPlaces
  BY <1>1, JoinAt
<1>3. cur \in Workers /\ cur \in Threads
  BY <1>1, ThreadFacts DEF SchedInv, TypeInv
<1>4. Whole(fs, MainPlaces) /\ PlaceIn(fs) = "join"
  BY <1>2, <1>3, CallFacts, ThreeFrames, MainPlaceFacts, ThreadFacts
<1> HIDE DEF fs
<1>5. StackInv' /\ MainGoes("join", "join")
  <2>1. UNCHANGED stack => StackInv' /\ MainGoes("join", "join")
    BY <1>1, <1>2, MainStays DEF calm
  <2>2. Becomes(fs) => StackInv' /\ MainGoes("join", "join")
    BY <1>1, <1>2, <1>4, MainStack DEF calm
  <2> QED
    BY <1>1, <2>1, <2>2
<1>6. cur' \in Threads
  BY <1>1, <1>3, PrevOfThread DEF SchedInv, TypeInv
<1>7. TypeInv'
  BY <1>1, <1>6 DEF SchedInv, TypeInv, calm, Positions
<1>8. /\ ContextInv' /\ MainInv' /\ RingInv' /\ LeaveInv' /\ ListedInv'
      /\ GivenInv' /\ VerdictInv'
  BY <1>1, <1>5, MainJoins
<1>9. JoinInv'
  <2>1. \A w \in Workers : w < cur => finish[w] = 1
    BY <1>2 DEF ProgramInv, JoinInv
  <2>2. ASSUME NEW w \in Workers, cur' = Main \/ w < cur'
        PROVE  finish[w] = 1
    <3>1. CASE UNCHANGED cur
      BY <1>1, <2>1, <2>2, <3>1
    <3>2. CASE finish[cur] # 0 /\ cur' = PrevOf(cur)
      <4>1. finish[cur] = 1
        BY <1>3, <3>2 DEF SchedInv, TypeInv
      <4>2. w < cur \/ w = cur \/ cur < w
        BY <1>3, ThreadFacts
      <4>3. cur < w => finish[w] = 1
        BY <1>2, <1>3, <2>2, <3>2, PrevPasses DEF SchedInv, TypeInv, ProgramInv
      <4> QED
        BY <2>1, <4>1, <4>2, <4>3
    <3> QED
      BY <1>1, <3>1, <3>2
  <2>3. PlaceIn(stack'[Main]) = "join" /\ finish' = finish
    BY <1>1, <1>5 DEF MainGoes
  <2> QED
    BY <2>2, <2>3 DEF JoinInv, Where
<1> QED
  BY <1>5, <1>7, <1>8, <1>9 DEF SchedInv, ProgramInv

LEMMA DestroySound ==
    ASSUME SchedInv, ProgramInv, Destroy
    PROVE  SchedInv' /\ ProgramInv'
<1> DEFINE fs == <<At("telos")>>
<1>1. /\ Top.at = "join" /\ cur = Main /\ "telos" \in MainPlaces /\ Becomes(fs)
      /\ UNCHANGED <<calm, run, num, avail, finish, numbers_left, cur, erased, verdict>>
  BY DEF Destroy, MainPlaces
<1>2. work_is_done = 1 /\ Where(Main) = "join" /\ "join" \in MainPlaces
  BY <1>1, JoinAt
<1>3. /\ Whole(fs, MainPlaces) /\ PlaceIn(fs) = "telos" /\ Head(fs).at = "telos"
  BY <1>1, OneFrame, MainPlaceFacts
<1> HIDE DEF fs
<1>4. StackInv' /\ MainGoes("join", "telos")
  BY <1>1, <1>2, <1>3, MainStack DEF calm
<1>5. TypeInv'
  BY <1>1 DEF SchedInv, TypeInv, calm, Positions
<1>6. /\ ContextInv' /\ MainInv' /\ RingInv' /\ LeaveInv' /\ ListedInv'
      /\ GivenInv' /\ VerdictInv'
  BY <1>1, <1>4, MainJoins
<1>7. \A w \in Workers : finish[w] = 1
  BY <1>1, <1>2 DEF ProgramInv, JoinInv
<1>8. JoinInv'
  BY <1>1, <1>4, <1>7 DEF JoinInv, Where, MainGoes
<1> QED
  BY <1>4, <1>5, <1>6, <1>8 DEF SchedInv, ProgramInv

-----------------------------------------------------------------------------
(* The invariant. *)

LEMMA StepSound ==
    ASSUME SchedInv, ProgramInv, Next
    PROVE  Crashed' \/ (SchedInv' /\ ProgramInv')
<1>1. CASE WorkerStep
  BY <1>1, WorkerSound
<1>2. CASE MainStep
  BY <1>2, CreateSound, MakeSound, NextNumberSound, GiveSound, PassBySound, DrainSound,
     WorkIsDoneSound, JoinSound, DestroySound DEF MainStep
<1>3. CASE LibraryStep /\ UNCHANGED progVars
  BY <1>3, LibrarySound
<1>4. CASE alarm_handler /\ UNCHANGED progVars
  BY <1>4, AlarmSound
<1> QED
  BY <1>1, <1>2, <1>3, <1>4 DEF Next, Step

\* Nothing happens after a crash, or after main's end.
LEMMA EndIsEnd ==
    ASSUME Top.at \in {"search", "undefined", "telos"}
    PROVE  ~Next
BY DEF Next, Step, WorkerStep, MainStep, LibraryStep, alarm_handler, Preemptible,
       Find, Got, Test, Release, Clear, Finish, Remove, Stop, Create, Make, NextNumber, Give,
       PassBy, Drain, WorkIsDone, Join, Destroy, user_handler, swapcontext, setcontext, Back,
       my_threads_sem_down, StoreDown, Wait, my_threads_sem_up, StoreUp

LEMMA InitSound == Init => SchedInv /\ ProgramInv
<1> SUFFICES ASSUME Init PROVE SchedInv /\ ProgramInv
  OBVIOUS
<1> DEFINE home(t) == IF t = Main THEN "create" ELSE "find"
<1>1. /\ exec = Main
      /\ stack = [t \in Threads |-> <<At(home(t))>>]
      /\ rout = [t \in Threads |-> Context(t, <<>>)]
      /\ running = [t \in Threads |-> IF t = Main THEN 1 ELSE 0]
      /\ ring = <<>>
      /\ unlinked = [t \in Threads |-> Main]
      /\ val = [t \in Threads |-> 0]
      /\ work_is_done = 0 /\ alarms = 0 /\ torn = FALSE
  BY DEF Init, InitScheduler
<1>2. /\ run = [t \in Threads |-> t]
      /\ num = [t \in Threads |-> NoWork]
      /\ avail = [t \in Threads |-> 0]
      /\ finish = [t \in Threads |-> 0]
      /\ numbers_left = Len(Numbers)
      /\ cur = 1 /\ erased = FALSE
      /\ verdict = [j \in Positions |-> "none"]
  BY DEF Init
<1>3. \A t \in Threads : home(t) \in Home(t) /\ Home(t) \subseteq AllPlaces
  BY HomePlaces DEF Home, MainPlaces, WorkerPlaces
<1> HIDE DEF home
<1>4. \A t \in Threads : /\ Whole(stack[t], Home(t)) /\ PlaceIn(stack[t]) = home(t)
                         /\ Head(stack[t]).at = home(t)
  BY <1>1, <1>3, OneFrame
<1>5. \A t \in Threads : stack[t] # <<>> /\ stack[t] \in Seq(Frames)
  BY <1>4 DEF Whole
<1>6. home(Main) = "create" /\ \A w \in Workers : home(w) = "find"
  BY ThreadFacts DEF home
<1>7. Where(Main) = "create" /\ \A w \in Workers : Where(w) = "find"
  BY <1>4, <1>6, ThreadFacts DEF Where
<1>8. StackInv
  BY <1>1, <1>4, <1>5, <1>7, ThreadFacts DEF StackInv
<1>9. ContextInv
  <2>1. <<>> \in Seq(Frames)
    OBVIOUS
  <2>2. rout \in [Threads -> [own : Threads, stk : Seq(Frames)]]
    BY <1>1, <2>1 DEF Context
  <2>3. \A t \in Threads : rout[t].own = t
    BY <1>1 DEF Context
  <2>4. \A w \in Workers : w >= cur
    BY <1>2, ThreadFacts DEF Workers
  <2> QED
    BY <1>7, <2>2, <2>3, <2>4 DEF ContextInv
<1>10. TypeInv
  <2>1. Len(Numbers) \in Nat
    BY NumbersAssumption
  <2>2. cur \in Threads
    BY <1>2, ThreadFacts DEF Threads, Workers
  <2>3. ring \in Seq(Workers)
    BY <1>1
  <2> QED
    BY <1>1, <1>2, <2>1, <2>2, <2>3, ThreadFacts DEF TypeInv, NoWork
<1>11. MainInv
  BY <1>1, <1>2, <1>7 DEF MainInv, Main
<1>12. RingInv
  <2>1. Linked = 0
    BY <1>2, <1>7 DEF Linked
  <2>2. ring = [k \in 1..0 |-> k]
    <3>1. 1..0 = {}
      OBVIOUS
    <3> QED
      BY <1>1, <3>1
  <2>3. DOMAIN ring = {}
    BY <1>1
  <2> QED
    BY <1>1, <2>1, <2>2, <2>3 DEF RingInv
<1>13. LeaveInv /\ ListedInv
  BY <1>1, <1>2, <1>7 DEF LeaveInv, ListedInv, Leaving, Left, OnRing
<1>14. JoinInv /\ VerdictInv
  BY <1>2, <1>7 DEF JoinInv, VerdictInv
<1>15. GivenInv
  <2>1. pos = 1
    BY <1>2, NumbersAssumption DEF pos
  <2>2. \A j \in Positions : ~(j < 1)
    BY DEF Positions
  <2> QED
    BY <1>2, <2>1, <2>2, ThreadFacts DEF GivenInv, NoWork
<1> QED
  BY <1>8, <1>9, <1>10, <1>11, <1>12, <1>13, <1>14, <1>15 DEF SchedInv, ProgramInv

LEMMA CrashStays == ASSUME Crashed, UNCHANGED vars PROVE Crashed'
BY DEF Crashed, Top, vars, schedVars

LEMMA SoundStays == ASSUME SchedInv, ProgramInv, UNCHANGED vars PROVE SchedInv' /\ ProgramInv'
<1>1. UNCHANGED <<schedVars, progVars>>
  BY DEF vars
<1>2. PlacesStay /\ UNCHANGED <<progVars, ring, unlinked, work_is_done>>
  BY <1>1 DEF schedVars, PlacesStay
<1>3. ProgramInv'
  BY <1>2, ProgramStays
<1>4. SchedInv'
  BY <1>1 DEF schedVars, progVars, SchedInv, StackInv, ContextInv, TypeInv, Where, Top, Positions
<1> QED
  BY <1>3, <1>4

\* Types, the stacks and the state of the program, in every reachable state without
\* a crash.
THEOREM Invariant == Spec => []IInv
<1>1. Init => IInv
  BY InitSound DEF IInv, Sound
<1>2. IInv /\ [Next]_vars => IInv'
  <2> SUFFICES ASSUME IInv, [Next]_vars PROVE IInv'
    OBVIOUS
  <2>1. CASE Next
    <3>1. ~Crashed
      BY <2>1, EndIsEnd DEF Crashed
    <3> QED
      BY <2>1, <3>1, StepSound DEF IInv, Sound
  <2>2. CASE UNCHANGED vars
    BY <2>2, CrashStays, SoundStays DEF IInv, Sound
  <2> QED
    BY <2>1, <2>2
<1> QED
  BY <1>1, <1>2, PTL DEF Spec

-----------------------------------------------------------------------------
(* What main destroys. *)

LEMMA AtTelos ==
    ASSUME SchedInv, ProgramInv, Top.at = "telos"
    PROVE  \A w \in Workers : finish[w] = 1 /\ num[w] = NoWork
<1>1. "telos" \in MainPlaces
  BY DEF MainPlaces
<1>2. Where(Main) = "telos"
  BY <1>1, MainTop DEF Where
<1> QED
  BY <1>2, ThreadFacts DEF ProgramInv, JoinInv, LeaveInv

\* When main destroys the records, one that is still on the list is that of a worker
\* between finish = 1 and remove_thread, for every number of workers and wherever
\* the timer expires.
THEOREM DestroyedOffListHolds == Spec => []DestroyedOffList
<1>1. IInv => DestroyedOffList
  <2> SUFFICES ASSUME IInv, Top.at = "telos", NEW t \in OnRing
               PROVE  \E w \in Workers :
                         run[w] = t /\ stack[w] # <<>> /\ stack[w][Len(stack[w])].at = "remove"
    BY DEF DestroyedOffList
  <2>1. SchedInv /\ ProgramInv
    BY DEF IInv, Sound, Crashed
  <2>2. t \in Workers
    BY <2>1, OnRingFacts DEF SchedInv, TypeInv
  <2>3. finish[t] = 1
    BY <2>1, <2>2, AtTelos
  <2>4. PICK w \in Workers : run[w] = t /\ PlaceIn(stack[w]) = "remove"
    BY <2>1, <2>3 DEF ProgramInv, ListedInv, Where
  <2> QED
    BY <2>4 DEF PlaceIn
<1> QED
  BY <1>1, Invariant, PTL

-----------------------------------------------------------------------------
(* The program implements the abstract service. *)

\* A number greater than half of n, and smaller than n, does not divide n.
LEMMA NoLargeDivisor ==
    ASSUME NEW n \in Nat \ {0}, NEW d \in Nat, n < 2 * d, d < n
    PROVE  n % d = n - d
<1>1. n = d * 1 + (n - d) /\ n - d \in 0..(d - 1)
  OBVIOUS
<1> QED
  BY <1>1

\* Looking for divisors up to number / 2 is enough.
LEMMA PrimeTestCorrect ==
    ASSUME NEW n \in Nat \ {0}
    PROVE  primetest(n) <=> Service!IsPrime(n)
<1>1. n \div 2 \in Nat /\ 2 * (n \div 2) <= n /\ n < 2 * (n \div 2) + 2
  OBVIOUS
<1>2. ASSUME primetest(n), NEW d \in 2..(n - 1) PROVE n % d # 0
  <2>1. CASE d <= n \div 2
    <3>1. d \in 2..(n \div 2)
      BY <1>1, <2>1
    <3> QED
      BY <1>2, <3>1 DEF primetest
  <2>2. CASE d > n \div 2
    <3>1. n < 2 * d /\ d < n /\ d \in Nat
      BY <1>1, <2>2
    <3>2. n % d = n - d
      BY <3>1, NoLargeDivisor
    <3> QED
      BY <3>1, <3>2
  <2> QED
    BY <1>1, <2>1, <2>2
<1>3. ASSUME Service!IsPrime(n) PROVE primetest(n)
  <2>1. \A d \in 2..(n \div 2) : d \in 2..(n - 1)
    BY <1>1
  <2> QED
    BY <1>3, <2>1 DEF Service!IsPrime, primetest
<1>4. primetest(n) => n > 1
  BY DEF primetest
<1> QED
  BY <1>2, <1>3, <1>4 DEF Service!IsPrime

\* At main's end every number has its verdict, unless one was erased.
Done == Top.at = "telos" /\ ~erased => \A j \in Positions : verdict[j] # "none"

LEMMA DoneHolds == IInv => Done
<1> SUFFICES ASSUME IInv, Top.at = "telos", ~erased, NEW j \in Positions, verdict[j] = "none"
             PROVE  FALSE
  BY DEF Done
<1>1. SchedInv /\ ProgramInv
  BY DEF IInv, Sound, Crashed
<1>2. "telos" \in MainPlaces
  BY DEF MainPlaces
<1>3. Where(Main) = "telos"
  BY <1>1, <1>2, MainTop DEF Where
<1>4. numbers_left = 0
  BY <1>1, <1>3 DEF ProgramInv, MainInv
<1>5. Len(Numbers) \in Nat /\ j \in 1..Len(Numbers)
  BY NumbersAssumption DEF Positions
<1>6. j < pos
  BY <1>4, <1>5 DEF pos
<1>7. PICK t \in Threads : num[t] = j
  BY <1>1, <1>6 DEF ProgramInv, GivenInv
<1>8. num[t] = NoWork
  BY <1>1, AtTelos, ThreadFacts DEF ProgramInv, GivenInv
<1> QED
  BY <1>5, <1>7, <1>8 DEF NoWork

\* The verdict of a number is that of the abstract service, and is printed where there
\* was none.
LEMMA TestImplements ==
    ASSUME SchedInv, ProgramInv, Test
    PROVE  Service!Next \/ UNCHANGED Service!vars
<1>1. /\ Top.at = "test" /\ Becomes(<<At("release")>>) /\ exec' = exec
      /\ work_is_done' = work_is_done
      /\ "test" \in WorkerPlaces /\ "release" \in WorkerPlaces
  BY DEF Test, calm, WorkerPlaces
<1>2. Top.at \notin LibraryPlaces
  BY <1>1 DEF LibraryPlaces
<1>3. exec \in Workers /\ Home(exec) = WorkerPlaces
  <2>1. exec \in Threads /\ "test" \in Home(exec)
    BY <1>1, <1>2, ProgramTop DEF SchedInv, StackInv
  <2> QED
    BY <2>1, ThreadFacts DEF Home, MainPlaces
<1>4. /\ Whole(<<At("release")>>, WorkerPlaces) /\ PlaceIn(<<At("release")>>) = "release"
      /\ Head(<<At("release")>>).at = "release"
  BY <1>1, OneFrame, WorkerPlaceFacts
<1>5. Top'.at = "release"
  BY <1>1, <1>2, <1>3, <1>4, ProgramStack DEF SchedInv
<1>6. verdict' = [j \in Positions |->
                      IF j # num[me] THEN verdict[j]
                      ELSE IF primetest(Numbers[j]) THEN "prime" ELSE "composite"]
  BY DEF Test
<1>7. verdict \in [Positions -> {"none", "prime", "composite"}]
  BY DEF SchedInv, TypeInv
<1>8. CASE num[me] \in Positions /\ verdict[num[me]] = "none"
  <2>1. PICK j \in Positions : j = num[me]
    BY <1>8
  <2>2. Numbers[j] \in Nat \ {0}
    BY NumbersAssumption DEF Positions
  <2>3. verdict' = [verdict EXCEPT ![j] = IF Service!IsPrime(Numbers[j]) THEN "prime"
                                                                         ELSE "composite"]
    BY <1>6, <1>7, <2>1, <2>2, PrimeTestCorrect
  <2>4. Service!Test(j)
    BY <1>1, <1>5, <1>8, <2>1, <2>3 DEF Service!Test
  <2> QED
    BY <2>4 DEF Service!Next, Positions
<1>9. CASE ~(num[me] \in Positions /\ verdict[num[me]] = "none")
  <2>1. \A j \in Positions : j = num[me] =>
            verdict[j] = IF primetest(Numbers[j]) THEN "prime" ELSE "composite"
    BY <1>9 DEF ProgramInv, VerdictInv
  <2>2. verdict' = verdict
    BY <1>6, <1>7, <2>1
  <2> QED
    BY <1>1, <1>5, <2>2 DEF Service!vars
<1> QED
  BY <1>8, <1>9

\* Nothing else prints.
LEMMA OnlyTestPrints ==
    ASSUME Next
    PROVE  Test \/ verdict' = verdict
<1>1. WorkerStep => Test \/ verdict' = verdict
  BY DEF WorkerStep, Find, Got, Release, Clear, Finish, Remove, Stop, progVars
<1>2. MainStep => verdict' = verdict
  BY DEF MainStep, Create, Make, NextNumber, Give, PassBy, Drain, WorkIsDone, Join, Destroy,
         progVars
<1>3. UNCHANGED progVars => verdict' = verdict
  BY DEF progVars
<1> QED
  BY <1>1, <1>2, <1>3 DEF Next, Step

\* The service on coroutines implements the abstract service, for every number of
\* workers, every command line and wherever the timer expires: a verdict is right, a
\* number never gets another one, and when main ends every number has one, unless a number
\* was cleared or overwritten before it was tested (prime_reg.c:96-152).
THEOREM Implements == Spec => ImplementsService
<1>1. Init => Service!Init
  <2> SUFFICES ASSUME Init PROVE Service!Init
    OBVIOUS
  <2>1. Main \in Threads /\ exec = Main /\ stack[Main] = <<At("create")>>
    BY ThreadFacts DEF Init, InitScheduler
  <2>2. Top.at = "create"
    BY <2>1 DEF Top, At, Frame
  <2> QED
    BY <2>2 DEF Init, Service!Init, Positions
<1>2. IInv /\ [Next]_vars /\ Done' => [Service!Next]_(Service!vars)
  <2> SUFFICES ASSUME IInv, [Next]_vars, Done' PROVE Service!Next \/ UNCHANGED Service!vars
    OBVIOUS
  <2>1. CASE Next
    <3>1. Top.at # "telos" /\ SchedInv /\ ProgramInv
      BY <2>1, EndIsEnd DEF IInv, Sound, Crashed
    <3>2. CASE Test
      BY <3>1, <3>2, TestImplements
    <3>3. CASE verdict' = verdict
      <4>1. CASE Top'.at = "telos" /\ ~erased'
        <5>1. \A j \in Positions : verdict[j] # "none"
          BY <3>3, <4>1 DEF Done, Positions
        <5> QED
          BY <3>3, <4>1, <5>1 DEF Service!Next, Service!Return, Positions
      <4>2. CASE ~(Top'.at = "telos" /\ ~erased')
        BY <3>1, <3>3, <4>2 DEF Service!vars
      <4> QED
        BY <4>1, <4>2
    <3> QED
      BY <2>1, <3>2, <3>3, OnlyTestPrints
  <2>2. CASE UNCHANGED vars
    BY <2>2 DEF vars, schedVars, progVars, Service!vars, Top
  <2> QED
    BY <2>1, <2>2
<1> QED
  BY <1>1, <1>2, DoneHolds, Invariant, PTL DEF Spec, ImplementsService, Service!Spec

-----------------------------------------------------------------------------
(* The inductive invariant of the turn. *)

\* No switch is under way on the stack.
Calm(s) == \A k \in DOMAIN s : s[k].at \notin {"swap", "restore"}

\* A worker that has not yet got its context.
Fresh(t) == t \in Workers /\ (t \notin OnRing \/ (Where(Main) = "make" /\ t = cur))

\* The only record that is flagged is that of t.
OnlyFlag(t) ==
    t \in OnRing \cup {Main} /\ running[t] = 1 /\ \A u \in Threads \ {t} : running[u] = 0

\* Who executes has the turn, or is switching to who has it; the record of everybody
\* else holds its context.
TurnInv ==
    /\ \E t \in Threads :
          OnlyFlag(t) /\ IF Top.at = "swap" THEN Top.a = exec /\ Top.b = t ELSE exec = t
    /\ ~Fresh(exec)
    /\ \A t \in Threads \ {exec} : Calm(stack[t])
    /\ Calm(IF Top.at = "swap" THEN Tail(stack[exec]) ELSE stack[exec])
    /\ \A t \in Threads \ {exec} : rout[t] = Context(t, IF Fresh(t) THEN <<>> ELSE stack[t])

\* As long as there is work and no timer has expired behind SIG_UNBLOCK.
Turning == torn \/ work_is_done = 1 \/ Crashed \/ TurnInv

LEMMA CalmTail ==
    ASSUME NEW s \in Seq(Frames), s # <<>>, Calm(s)
    PROVE  Calm(Tail(s))
<1> DEFINE n == Len(s)
           r == Tail(s)
<1>1. n \in Nat /\ n >= 1 /\ DOMAIN s = 1..n
  OBVIOUS
<1>2. Len(r) = n - 1 /\ DOMAIN r = 1..(n - 1) /\ \A k \in 1..(n - 1) : r[k] = s[k + 1]
  OBVIOUS
<1> HIDE DEF n, r
<1>3. \A k \in 1..(n - 1) : k + 1 \in 1..n
  BY <1>1
<1>4. Calm(r)
  BY <1>1, <1>2, <1>3 DEF Calm
<1> QED
  BY <1>4 DEF r

LEMMA CalmPush ==
    ASSUME NEW s \in Seq(Frames), Calm(s), NEW f \in Frames, f.at \notin {"swap", "restore"}
    PROVE  Calm(<<f>> \o s)
<1> DEFINE u == <<f>> \o s
           n == Len(s)
<1>1. u \in Seq(Frames) /\ Len(u) = n + 1 /\ u[1] = f /\ \A k \in 1..n : u[k + 1] = s[k]
  BY PushFacts
<1>2. n \in Nat /\ DOMAIN s = 1..n /\ DOMAIN u = 1..(n + 1)
  BY <1>1
<1> HIDE DEF u, n
<1>3. ASSUME NEW k \in 1..(n + 1) PROVE u[k].at \notin {"swap", "restore"}
  <2>1. CASE k = 1
    BY <1>1, <2>1
  <2>2. CASE k # 1
    <3>1. k - 1 \in 1..n /\ k = (k - 1) + 1
      BY <1>2, <2>2
    <3>2. u[k] = s[k - 1]
      BY <1>1, <3>1
    <3> QED
      BY <1>2, <3>1, <3>2 DEF Calm
  <2> QED
    BY <2>1, <2>2
<1>4. Calm(u)
  BY <1>2, <1>3 DEF Calm
<1> QED
  BY <1>4 DEF u

LEMMA CalmHead ==
    ASSUME NEW s \in Seq(Frames), s # <<>>, Calm(s)
    PROVE  Head(s).at \notin {"swap", "restore"}
BY DEF Calm

LEMMA CalmOne ==
    ASSUME NEW f \in Frames, f.at \notin {"swap", "restore"}
    PROVE  Calm(<<f>>)
BY DEF Calm

LEMMA CalmTwo ==
    ASSUME NEW f \in Frames, f.at \notin {"swap", "restore"},
           NEW g \in Frames, g.at \notin {"swap", "restore"}
    PROVE  Calm(<<f, g>>)
BY DEF Calm

\* The premises of all the steps that follow: there is work, and nothing is torn.
Working == SchedInv /\ ProgramInv /\ TurnInv /\ work_is_done = 0

LEMMA WorkingFacts ==
    ASSUME Working
    PROVE  /\ exec \in Threads /\ exec \in OnRing \cup {Main}
           /\ stack \in [Threads -> Seq(Frames)]
           /\ \A t \in Threads : stack[t] # <<>>
           /\ ring \in Seq(Workers)
           /\ OnRing \subseteq Workers
<1>1. exec \in Threads /\ stack \in [Threads -> Seq(Frames)] /\ \A t \in Threads : stack[t] # <<>>
  BY DEF Working, SchedInv, StackInv
<1>2. exec \in OnRing \cup {Main}
  BY <1>1, ThreadFacts DEF Working, TurnInv, Fresh
<1>3. ring \in Seq(Workers)
  BY DEF Working, SchedInv, TypeInv
<1>4. OnRing \subseteq Workers
  BY <1>3, OnRingFacts
<1> QED
  BY <1>1, <1>2, <1>3, <1>4

\* A step on the stack of the thread that executes, which leaves its turn alone.
LEMMA QuietTurn ==
    ASSUME Working, Top.at # "swap",
           NEW s \in Seq(Frames), s # <<>>, Calm(s), stack' = [stack EXCEPT ![exec] = s],
           UNCHANGED <<exec, rout, running, ring>>,
           PlaceIn(stack'[Main]) = "make" <=> Where(Main) = "make",
           Where(Main) = "make" => cur' = cur
    PROVE  TurnInv'
<1>1. exec \in Threads /\ stack \in [Threads -> Seq(Frames)]
  BY WorkingFacts
<1>2. stack'[exec] = s /\ \A t \in Threads \ {exec} : stack'[t] = stack[t]
  BY <1>1
<1>3. Head(s).at # "swap" /\ Top' = Head(s)
  BY <1>2, CalmHead DEF Top
<1>4. OnRing' = OnRing
  BY DEF OnRing
<1>5. \A t \in Threads : Fresh(t)' <=> Fresh(t)
  BY <1>4 DEF Fresh, Where
<1>6. \A t \in Threads : OnlyFlag(t)' <=> OnlyFlag(t)
  BY <1>4 DEF OnlyFlag
<1>7. PICK t \in Threads : OnlyFlag(t) /\ exec = t
  BY DEF Working, TurnInv
<1>8. \E u \in Threads :
        OnlyFlag(u)' /\ IF Top'.at = "swap" THEN Top'.a = exec' /\ Top'.b = u ELSE exec' = u
  BY <1>3, <1>6, <1>7
<1>9. ~Fresh(exec)'
  BY <1>1, <1>5 DEF Working, TurnInv
<1>10. \A u \in Threads \ {exec'} : Calm(stack'[u])
  BY <1>2 DEF Working, TurnInv
<1>11. Calm(IF Top'.at = "swap" THEN Tail(stack'[exec']) ELSE stack'[exec'])
  BY <1>2, <1>3
<1>12. \A u \in Threads \ {exec'} : rout'[u] = Context(u, IF Fresh(u)' THEN <<>> ELSE stack'[u])
  BY <1>2, <1>5 DEF Working, TurnInv
<1> QED
  BY <1>8, <1>9, <1>10, <1>11, <1>12 DEF TurnInv

\* A handler passes the turn of the thread that executes to the one before it.
LEMMA SwitchTurn ==
    ASSUME Working, Top.at # "swap",
           NEW base, Whole(base, Home(exec)), PlaceIn(base) = Where(exec), Calm(base),
           Switch(base), UNCHANGED <<exec, rout, ring, cur>>
    PROVE  TurnInv'
<1>1. /\ exec \in Threads /\ exec \in OnRing \cup {Main} /\ ring \in Seq(Workers)
      /\ stack \in [Threads -> Seq(Frames)] /\ Main \in Threads /\ OnRing \subseteq Threads
  BY WorkingFacts, ThreadFacts
<1>2. OnlyFlag(exec)
  BY DEF Working, TurnInv
<1>3. ~(running[Main] = 0 /\ Flagged = {})
  BY <1>2 DEF OnlyFlag, Flagged
<1>4. running \in [Threads -> {0, 1}] /\ unlinked \in [Threads -> Threads]
  BY DEF Working, SchedInv, TypeInv
<1>5. Found = exec
  <2>1. Found \in Threads /\ running[Found] = 1
    BY <1>1, <1>3, <1>4, FoundThread
  <2> QED
    BY <1>2, <2>1 DEF OnlyFlag
<1>6. PrevOf(exec) \in Threads /\ PrevOf(exec) \in OnRing \cup {Main}
  <2>1. PrevOf(exec) \in Threads
    BY <1>1, <1>4, PrevOfThread
  <2>2. \A k \in 1..Len(ring) : ring[k] \in OnRing
    BY <1>1 DEF OnRing
  <2>3. CASE exec = Main
    <3>1. ring # <<>> => 1 \in 1..Len(ring)
      BY <1>1
    <3> QED
      BY <2>1, <2>2, <2>3, <3>1 DEF PrevOf
  <2>4. CASE exec # Main
    <3>1. exec \in OnRing
      BY <1>1, <2>4
    <3>2. Place(exec) \in 1..Len(ring)
      BY <1>1, <3>1, OnRingFacts
    <3>3. Place(exec) # Len(ring) => Place(exec) + 1 \in 1..Len(ring)
      BY <1>1, <3>2
    <3> QED
      BY <2>1, <2>2, <2>4, <3>1, <3>3 DEF PrevOf
  <2> QED
    BY <2>3, <2>4
<1>0. PICK v \in Threads : v = PrevOf(exec) /\ v \in OnRing \cup {Main}
  BY <1>6
<1> DEFINE f == Swap(exec, v)
<1>7. f \in Frames /\ LibraryFrame(f) /\ f.at = "swap" /\ f.a = exec /\ f.b = v
  BY <1>0, <1>1, SwapFrame
<1>8. /\ stack' = [stack EXCEPT ![exec] = <<f>> \o base]
      /\ running' = [running EXCEPT ![exec] = 0, ![v] = 1]
  BY <1>0, <1>3, <1>5 DEF Switch, Turn
<1> HIDE DEF f
<1>9. Whole(<<f>> \o base, Home(exec)) /\ PlaceIn(<<f>> \o base) = PlaceIn(base)
  BY <1>7, PushWhole
<1>10. stack'[exec] = <<f>> \o base /\ \A t \in Threads \ {exec} : stack'[t] = stack[t]
  BY <1>1, <1>8
<1>11. base \in Seq(Frames)
  BY DEF Whole
<1>12. Top' = f /\ Tail(stack'[exec']) = base
  BY <1>7, <1>10, <1>11, PushFacts DEF Top
<1>13. OnRing' = OnRing
  BY DEF OnRing
<1>14. PlaceIn(stack'[Main]) = PlaceIn(stack[Main])
  BY <1>1, <1>9, <1>10 DEF Where
<1>15. \A t \in Threads : Fresh(t)' <=> Fresh(t)
  BY <1>13, <1>14 DEF Fresh, Where
<1>16. OnlyFlag(v)'
  <2>1. \A t \in Threads \ {exec} : running[t] = 0
    BY <1>2 DEF OnlyFlag
  <2>2. running'[v] = 1 /\ \A t \in Threads \ {v} : running'[t] = 0
    BY <1>1, <1>4, <1>8, <2>1
  <2> QED
    BY <1>0, <1>13, <2>2 DEF OnlyFlag
<1>17. \E u \in Threads :
        OnlyFlag(u)' /\ IF Top'.at = "swap" THEN Top'.a = exec' /\ Top'.b = u ELSE exec' = u
  BY <1>7, <1>12, <1>16
<1>18. ~Fresh(exec)'
  BY <1>1, <1>15 DEF Working, TurnInv
<1>19. \A u \in Threads \ {exec'} : Calm(stack'[u])
  BY <1>10 DEF Working, TurnInv
<1>20. Calm(IF Top'.at = "swap" THEN Tail(stack'[exec']) ELSE stack'[exec'])
  BY <1>7, <1>12
<1>21. \A u \in Threads \ {exec'} : rout'[u] = Context(u, IF Fresh(u)' THEN <<>> ELSE stack'[u])
  BY <1>10, <1>15 DEF Working, TurnInv
<1> QED
  BY <1>17, <1>18, <1>19, <1>20, <1>21 DEF TurnInv

LEMMA AlarmTurn ==
    ASSUME Working, alarm_handler, UNCHANGED progVars
    PROVE  torn' \/ TurnInv'
<1>1. /\ torn' = (torn \/ Top.at \in {"swap", "restore"}) /\ Switch(stack[exec])
      /\ UNCHANGED <<exec, rout, ring, cur>>
  BY DEF alarm_handler, progVars
<1>2. CASE Top.at = "swap"
  BY <1>1, <1>2
<1>3. CASE Top.at # "swap"
  <2>1. Calm(stack[exec])
    BY <1>3 DEF Working, TurnInv
  <2>2. Whole(stack[exec], Home(exec)) /\ PlaceIn(stack[exec]) = Where(exec)
    BY TopFacts DEF Working, SchedInv, Where
  <2> QED
    BY <1>1, <1>3, <2>1, <2>2, SwitchTurn
<1> QED
  BY <1>2, <1>3

LEMMA UserTurn ==
    ASSUME Working, user_handler, UNCHANGED progVars
    PROVE  TurnInv'
<1> DEFINE r == Tail(stack[exec])
           back == At("back")
<1>1. /\ Top.at = "yield" /\ Switch(<<back>> \o r)
      /\ UNCHANGED <<exec, rout, ring, cur>>
  BY DEF user_handler, progVars, Working
<1>2. Whole(r, Home(exec)) /\ PlaceIn(r) = Where(exec)
  BY <1>1, TopFacts, PopWhole DEF Working, SchedInv, Where, Top, LibraryPlaces
<1>3. back \in Frames /\ LibraryFrame(back) /\ back.at = "back"
  BY PlaceFrame DEF AllPlaces, LibraryPlaces
<1>4. Calm(r)
  <2>1. Calm(stack[exec])
    BY <1>1 DEF Working, TurnInv
  <2>2. stack[exec] \in Seq(Frames) /\ stack[exec] # <<>>
    BY TopFacts DEF Working, SchedInv
  <2> QED
    BY <2>1, <2>2, CalmTail
<1>5. r \in Seq(Frames)
  BY <1>2 DEF Whole
<1> HIDE DEF r, back
<1>6. Calm(<<back>> \o r)
  BY <1>3, <1>4, <1>5, CalmPush
<1>7. Whole(<<back>> \o r, Home(exec)) /\ PlaceIn(<<back>> \o r) = Where(exec)
  BY <1>2, <1>3, PushWhole
<1> QED
  BY <1>1, <1>6, <1>7, SwitchTurn

\* swapcontext ends in the context of the thread that has the turn, or, if that thread
\* has none yet, in a crash.
LEMMA SwapTurn ==
    ASSUME Working, swapcontext, UNCHANGED progVars
    PROVE  Crashed' \/ TurnInv'
<1> DEFINE own == Context(exec, Tail(stack[exec]))
<1>1. /\ Top.at = "swap" /\ UNCHANGED <<running, ring, cur>>
      /\ rout' = [rout EXCEPT ![Top.a] = own]
      /\ Resume(rout'[Top.b], Popped)
  BY DEF swapcontext, progVars
<1>2. PICK u \in Threads : OnlyFlag(u) /\ Top.a = exec /\ Top.b = u
  BY <1>1 DEF Working, TurnInv
<1>3. /\ exec \in Threads /\ stack \in [Threads -> Seq(Frames)] /\ Main \in Threads
      /\ \A t \in Threads : stack[t] # <<>>
  BY WorkingFacts, ThreadFacts
<1>4. /\ Popped[exec] = Tail(stack[exec]) /\ \A t \in Threads \ {exec} : Popped[t] = stack[t]
      /\ Whole(Popped[exec], Home(exec)) /\ PlaceIn(Popped[exec]) = PlaceIn(stack[exec])
      /\ Popped \in [Threads -> Seq(Frames)]
  BY <1>1, PoppedFacts DEF Working, LibraryPlaces
<1>5. rout'[exec] = own /\ \A t \in Threads \ {exec} : rout'[t] = rout[t]
  BY <1>1, <1>2, <1>3 DEF Working, SchedInv, ContextInv
<1>6. own.own = exec /\ own.stk = Popped[exec]
  BY <1>4, ContextFacts
<1> HIDE DEF own
<1>7. CASE Fresh(u)
  <2>1. u # exec
    BY <1>7 DEF Working, TurnInv
  <2>2. rout'[u] = Context(u, <<>>) /\ Popped[u] # <<>>
    BY <1>3, <1>4, <1>5, <1>7, <2>1 DEF Working, TurnInv
  <2>5. rout'[u].own = u /\ rout'[u].stk = <<>>
    BY <2>2, ContextFacts
  <2>3. exec' = u /\ stack' = [Popped EXCEPT ![u] = <<At("undefined")>>]
    BY <1>1, <1>2, <2>2, <2>5 DEF Resume
  <2>4. Top' = At("undefined") /\ At("undefined").at = "undefined"
    BY <1>4, <2>3, PlaceFrame DEF Top, AllPlaces
  <2> QED
    BY <2>4 DEF Crashed
<1>8. CASE ~Fresh(u)
  <2>1. exec' = u /\ stack' = Popped
    <3>1. CASE u = exec
      BY <1>1, <1>2, <1>5, <1>6, <3>1 DEF Resume
    <3>2. CASE u # exec
      <4>1. rout'[u] = Context(u, stack[u]) /\ Popped[u] = stack[u]
        BY <1>4, <1>5, <1>8, <3>2 DEF Working, TurnInv
      <4> QED
        BY <1>1, <1>2, <4>1, ContextFacts DEF Resume
    <3> QED
      BY <3>1, <3>2
  <2>2. \A t \in Threads : Calm(Popped[t])
    BY <1>1, <1>4 DEF Working, TurnInv
  <2>3. Popped[u] \in Seq(Frames) /\ Popped[u] # <<>>
    BY <1>3, <1>4 DEF Whole
  <2>4. Top'.at # "swap"
    BY <2>1, <2>2, <2>3, CalmHead DEF Top
  <2>5. OnRing' = OnRing
    BY <1>1 DEF OnRing
  <2>6. PlaceIn(stack'[Main]) = PlaceIn(stack[Main])
    BY <1>3, <1>4, <2>1
  <2>7. \A t \in Threads : Fresh(t)' <=> Fresh(t)
    BY <1>1, <2>5, <2>6 DEF Fresh, Where
  <2>8. OnlyFlag(u)'
    BY <1>1, <1>2, <2>5 DEF OnlyFlag
  <2>9. \E t \in Threads :
        OnlyFlag(t)' /\ IF Top'.at = "swap" THEN Top'.a = exec' /\ Top'.b = t ELSE exec' = t
    BY <2>1, <2>4, <2>8
  <2>10. ~Fresh(exec)'
    BY <1>8, <2>1, <2>7
  <2>11. \A t \in Threads : Calm(stack'[t])
    BY <2>1, <2>2
  <2>12. Calm(IF Top'.at = "swap" THEN Tail(stack'[exec']) ELSE stack'[exec'])
    BY <2>1, <2>4, <2>11
  <2>13. ASSUME NEW t \in Threads \ {exec'}
         PROVE  rout'[t] = Context(t, IF Fresh(t)' THEN <<>> ELSE stack'[t])
    <3>1. CASE t = exec
      <4>1. ~Fresh(t)
        BY <3>1 DEF Working, TurnInv
      <4>2. rout'[t] = Context(t, Popped[t])
        BY <1>4, <1>5, <3>1 DEF own
      <4> QED
        BY <2>1, <2>7, <4>1, <4>2
    <3>2. CASE t # exec
      BY <1>4, <1>5, <2>1, <2>7, <3>2 DEF Working, TurnInv
    <3> QED
      BY <3>1, <3>2
  <2> QED
    BY <2>9, <2>10, <2>11, <2>12, <2>13 DEF TurnInv
<1> QED
  BY <1>7, <1>8

\* While there is work nobody goes to main's context directly.
LEMMA SetTurn ==
    ASSUME Working
    PROVE  ~setcontext
<1> SUFFICES ASSUME setcontext PROVE FALSE
  OBVIOUS
<1>1. Top.at \in {"restore", "end"}
  BY DEF setcontext
<1>2. CASE Top.at = "restore"
  <2>1. Calm(stack[exec])
    BY <1>2 DEF Working, TurnInv
  <2>2. stack[exec] \in Seq(Frames) /\ stack[exec] # <<>>
    BY TopFacts DEF Working, SchedInv
  <2>3. Head(stack[exec]).at \notin {"swap", "restore"}
    BY <2>1, <2>2, CalmHead
  <2> QED
    BY <1>2, <2>3 DEF Top
<1>3. CASE Top.at = "end"
  BY <1>3, PoppedFacts DEF Working, LibraryPlaces
<1> QED
  BY <1>1, <1>2, <1>3

\* A step of the library on the stack of the thread that executes.
LEMMA LibraryTurn ==
    ASSUME Working, Top.at \in LibraryPlaces, Top.at # "swap",
           NEW s, Whole(s, Home(exec)), PlaceIn(s) = PlaceIn(Tail(stack[exec])), Calm(s),
           stack' = [stack EXCEPT ![exec] = s],
           UNCHANGED <<progVars, stays>>
    PROVE  TurnInv'
<1>1. PlaceIn(s) = PlaceIn(stack[exec])
  BY TopFacts, PopWhole DEF Working, SchedInv, Top
<1>2. exec \in Threads /\ stack \in [Threads -> Seq(Frames)]
  BY WorkingFacts
<1>3. PlaceIn(stack'[Main]) = Where(Main)
  BY <1>1, <1>2, ThreadFacts DEF Where
<1>4. s \in Seq(Frames) /\ s # <<>>
  BY DEF Whole
<1>5. UNCHANGED <<exec, rout, running, ring>> /\ cur' = cur
  BY DEF stays, progVars
<1> QED
  BY <1>3, <1>4, <1>5, QuietTurn

LEMMA SemaphoreTurn ==
    ASSUME Working, UNCHANGED progVars,
           \/ my_threads_sem_down \/ StoreDown \/ Wait \/ my_threads_sem_up \/ StoreUp \/ Back
    PROVE  TurnInv'
<1> DEFINE base == Tail(stack[exec])
           h == Home(exec)
<1>1. Top.at \in {"down", "dec", "wait", "up", "inc", "back"} /\ UNCHANGED stays
  BY DEF my_threads_sem_down, StoreDown, Wait, my_threads_sem_up, StoreUp, Back
<1>2. Top.at \in LibraryPlaces /\ Top.at # "swap"
  BY <1>1 DEF LibraryPlaces
<1>3. Whole(base, h) /\ Top \in Frames /\ LibraryFrame(Top)
  BY <1>2, TopFacts, PopWhole DEF Working, SchedInv, Top
<1>4. Top.a \in Threads /\ Top.b \in Int /\ val \in [Threads -> Int]
  BY <1>3 DEF Frames, Working, SchedInv, TypeInv
<1>5. base \in Seq(Frames)
  BY <1>3 DEF Whole
<1>6. Calm(base)
  <2>1. Calm(stack[exec])
    BY <1>2 DEF Working, TurnInv
  <2>2. stack[exec] \in Seq(Frames) /\ stack[exec] # <<>>
    BY TopFacts DEF Working, SchedInv
  <2> QED
    BY <2>1, <2>2, CalmTail
<1> HIDE DEF base, h
<1>7. ASSUME NEW f \in Frames, LibraryFrame(f), f.at \notin {"swap", "restore"}, NEW s,
             Whole(s, h), Calm(s), PlaceIn(s) = PlaceIn(base)
      PROVE  /\ Whole(<<f>> \o s, h) /\ Calm(<<f>> \o s)
             /\ PlaceIn(<<f>> \o s) = PlaceIn(base)
  <2>1. s \in Seq(Frames)
    BY <1>7 DEF Whole
  <2> QED
    BY <1>7, <2>1, PushWhole, CalmPush
<1>8. ASSUME NEW s, Whole(s, h), PlaceIn(s) = PlaceIn(base), Calm(s),
             stack' = [stack EXCEPT ![exec] = s]
      PROVE  TurnInv'
  BY <1>1, <1>2, <1>8, LibraryTurn DEF base, h
<1>9. ASSUME NEW at \in {"dec", "wait", "inc", "yield"}, NEW b \in Int
      PROVE  /\ Frame(at, Top.a, b) \in Frames /\ LibraryFrame(Frame(at, Top.a, b))
             /\ Frame(at, Top.a, b).at \notin {"swap", "restore"}
  <2>1. at \in LibraryPlaces \ {"swap"}
    BY DEF LibraryPlaces
  <2> QED
    BY <1>4, <2>1, CallFrame
<1>10. CASE my_threads_sem_down
  <2> DEFINE at == IF val[Top.a] >= 0 THEN "dec" ELSE "wait"
             b == IF val[Top.a] >= 0 THEN val[Top.a] ELSE 0
             f == Frame(at, Top.a, b)
  <2>1. stack' = [stack EXCEPT ![exec] = <<f>> \o base]
    BY <1>10 DEF my_threads_sem_down, Becomes, base
  <2>2. at \in {"dec", "wait", "inc", "yield"} /\ b \in Int
    BY <1>4
  <2> HIDE DEF at, b
  <2>3. f \in Frames /\ LibraryFrame(f) /\ f.at \notin {"swap", "restore"}
    BY <1>9, <2>2
  <2> HIDE DEF f
  <2>4. Whole(<<f>> \o base, h) /\ Calm(<<f>> \o base) /\ PlaceIn(<<f>> \o base) = PlaceIn(base)
    BY <1>3, <1>6, <1>7, <2>3
  <2> QED
    BY <1>8, <2>1, <2>4
<1>11. CASE StoreDown
  <2> DEFINE f == Frame("wait", Top.a, 0)
  <2>1. stack' = [stack EXCEPT ![exec] = <<f>> \o base]
    BY <1>11 DEF StoreDown, Becomes, base
  <2>3. f \in Frames /\ LibraryFrame(f) /\ f.at \notin {"swap", "restore"}
    BY <1>9
  <2> HIDE DEF f
  <2>4. Whole(<<f>> \o base, h) /\ Calm(<<f>> \o base) /\ PlaceIn(<<f>> \o base) = PlaceIn(base)
    BY <1>3, <1>6, <1>7, <2>3
  <2> QED
    BY <1>8, <2>1, <2>4
<1>12. CASE Wait /\ val[Top.a] < 0
  <2> DEFINE f == At("yield")
             g == Top
  <2>1. stack' = [stack EXCEPT ![exec] = <<f, g>> \o base]
    BY <1>12 DEF Wait, Becomes, base
  <2>2. f \in Frames /\ LibraryFrame(f) /\ f.at \notin {"swap", "restore"}
    BY PlaceFrame DEF AllPlaces, LibraryPlaces
  <2>3. g \in Frames /\ LibraryFrame(g) /\ g.at \notin {"swap", "restore"}
    BY <1>1, <1>3
  <2> HIDE DEF f, g
  <2>4. Whole(<<g>> \o base, h) /\ Calm(<<g>> \o base) /\ PlaceIn(<<g>> \o base) = PlaceIn(base)
    BY <1>3, <1>6, <1>7, <2>3
  <2>5. /\ Whole(<<f>> \o (<<g>> \o base), h) /\ Calm(<<f>> \o (<<g>> \o base))
        /\ PlaceIn(<<f>> \o (<<g>> \o base)) = PlaceIn(base)
    BY <1>7, <2>2, <2>4
  <2>6. <<f, g>> \o base = <<f>> \o (<<g>> \o base)
    BY <1>5, <2>2, <2>3, PairConcat
  <2> QED
    BY <1>8, <2>1, <2>5, <2>6
<1>13. CASE (Wait /\ ~(val[Top.a] < 0)) \/ StoreUp \/ Back
  <2>1. stack' = [stack EXCEPT ![exec] = <<>> \o base]
    BY <1>13 DEF Wait, StoreUp, Back, Becomes, base
  <2>2. <<>> \o base = base
    BY <1>5, ConcatEmptySeq
  <2> QED
    BY <1>3, <1>6, <1>8, <2>1, <2>2
<1>14. CASE my_threads_sem_up
  <2> DEFINE f == Frame("inc", Top.a, val[Top.a])
  <2>1. stack' = [stack EXCEPT ![exec] = <<f>> \o base]
    BY <1>14 DEF my_threads_sem_up, Becomes, base
  <2>2. val[Top.a] \in Int
    BY <1>4
  <2>3. f \in Frames /\ LibraryFrame(f) /\ f.at \notin {"swap", "restore"}
    BY <1>9, <2>2
  <2> HIDE DEF f
  <2>4. Whole(<<f>> \o base, h) /\ Calm(<<f>> \o base) /\ PlaceIn(<<f>> \o base) = PlaceIn(base)
    BY <1>3, <1>6, <1>7, <2>3
  <2> QED
    BY <1>8, <2>1, <2>4
<1> QED
  BY <1>10, <1>11, <1>12, <1>13, <1>14

LEMMA LibraryStepTurn ==
    ASSUME Working, LibraryStep, UNCHANGED progVars
    PROVE  Crashed' \/ TurnInv'
BY UserTurn, SwapTurn, SetTurn, SemaphoreTurn DEF LibraryStep

\* A step of the program, which leaves the list and the contexts alone.
LEMMA ProgramTurn ==
    ASSUME Working, Top.at \notin LibraryPlaces,
           NEW fs, Whole(fs, Home(exec)), PlaceIn(fs) # "make", Calm(fs), Becomes(fs),
           PlaceIn(fs) = "telos" => Head(fs).at = "telos",
           UNCHANGED <<exec, rout, running, ring, work_is_done>>,
           exec = Main => Where(Main) # "make",
           exec # Main => cur' = cur
    PROVE  TurnInv'
<1>1. /\ stack' = [stack EXCEPT ![exec] = fs] /\ PlaceIn(stack'[exec]) = PlaceIn(fs)
      /\ \A t \in Threads \ {exec} : stack'[t] = stack[t]
  BY ProgramStack DEF Working, SchedInv
<1>2. PlaceIn(stack'[Main]) = "make" <=> Where(Main) = "make"
  BY <1>1, ThreadFacts DEF Where
<1>3. fs \in Seq(Frames) /\ fs # <<>>
  BY DEF Whole
<1>4. Top.at # "swap"
  BY DEF LibraryPlaces
<1>5. Where(Main) = "make" => cur' = cur
  OBVIOUS
<1> QED
  BY <1>1, <1>2, <1>3, <1>4, <1>5, QuietTurn

\* While there is work a worker is not about to leave.
LEMMA WorkerAt ==
    ASSUME Working, Top.at \in WorkerPlaces
    PROVE  /\ exec \in Workers /\ exec # Main /\ Home(exec) = WorkerPlaces
           /\ Top.at \notin LibraryPlaces /\ Top.at \notin Leaving
<1>1. Top.at \notin LibraryPlaces
  BY DEF WorkerPlaces, LibraryPlaces
<1>2. exec \in Threads /\ Where(exec) = Top.at /\ Top.at \in Home(exec)
  BY <1>1, ProgramTop DEF Working, SchedInv, StackInv
<1>3. exec \in Workers /\ exec # Main /\ Home(exec) = WorkerPlaces
  BY <1>2, ThreadFacts, HomePlaces DEF MainPlaces, WorkerPlaces
<1>4. Top.at \notin Leaving
  BY <1>2, <1>3 DEF Working, ProgramInv, LeaveInv
<1> QED
  BY <1>1, <1>3, <1>4

LEMMA WorkerTurn ==
    ASSUME Working, WorkerStep
    PROVE  TurnInv'
<1>1. Top.at \in WorkerPlaces
  BY DEF WorkerStep, WorkerPlaces, Find, Got, Test, Release, Clear, Finish, Remove, Stop
<1>2. /\ exec \in Workers /\ exec # Main /\ Home(exec) = WorkerPlaces
      /\ Top.at \notin LibraryPlaces /\ Top.at \notin Leaving
  BY <1>1, WorkerAt
<1>3. me \in Threads
  BY MeThread DEF Working
<1>4. ASSUME NEW p \in WorkerPlaces, Becomes(<<At(p)>>), UNCHANGED calm, cur' = cur
      PROVE  TurnInv'
  <2>1. Whole(<<At(p)>>, WorkerPlaces) /\ PlaceIn(<<At(p)>>) = p
    BY OneFrame, WorkerPlaceFacts
  <2>2. Calm(<<At(p)>>)
    <3>1. At(p) \in Frames /\ At(p).at \notin {"swap", "restore"}
      BY PlaceFrame, WorkerPlaceFacts DEF WorkerPlaces
    <3> QED
      BY <3>1, CalmOne
  <2>3. p # "make" /\ p # "telos"
    BY DEF WorkerPlaces
  <2> QED
    BY <1>2, <1>4, <2>1, <2>2, <2>3, ProgramTurn DEF calm
<1>5. ASSUME NEW op \in {"up", "down"}, NEW s \in Threads, NEW p \in WorkerPlaces,
             Becomes(<<Call(op, s), At(p)>>), UNCHANGED calm, cur' = cur
      PROVE  TurnInv'
  <2> DEFINE f == Call(op, s)
             g == At(p)
  <2>1. f \in Frames /\ LibraryFrame(f) /\ f.at \notin {"swap", "restore"}
    BY CallFacts
  <2>2. g \in Frames /\ g.at \notin {"swap", "restore"}
    BY PlaceFrame, WorkerPlaceFacts DEF WorkerPlaces
  <2>3. Whole(<<f, g>>, WorkerPlaces) /\ PlaceIn(<<f, g>>) = p
    BY <2>1, TwoFrames, WorkerPlaceFacts
  <2>4. Calm(<<f, g>>)
    BY <2>1, <2>2, CalmTwo
  <2>5. p # "make" /\ p # "telos"
    BY DEF WorkerPlaces
  <2>6. Becomes(<<f, g>>)
    BY <1>5
  <2> HIDE DEF f, g
  <2> QED
    BY <1>2, <1>5, <2>3, <2>4, <2>5, <2>6, ProgramTurn DEF calm
<1>6. CASE Find
  <2>1. CASE Flagged = {} /\ running[Main] = 0
    <3>1. PICK t \in Threads : OnlyFlag(t)
      BY DEF Working, TurnInv
    <3> QED
      BY <2>1, <3>1 DEF OnlyFlag, Flagged
  <2>2. CASE ~(Flagged = {} /\ running[Main] = 0)
    <3> DEFINE r == IF Flagged = {} THEN Main
                    ELSE CHOOSE t \in Flagged : \A u \in Flagged : Place(t) >= Place(u)
    <3>1. Becomes(<<Call("down", r), At("got")>>) /\ UNCHANGED calm /\ cur' = cur
      BY <1>6, <2>2 DEF Find
    <3>2. r \in Threads
      <4>1. Flagged # {} => \E t \in Flagged : \A u \in Flagged : Place(t) >= Place(u)
        BY LastOnRing DEF Working, SchedInv, TypeInv, Flagged
      <4>2. Flagged \subseteq Threads
        BY WorkingFacts, ThreadFacts DEF Flagged
      <4> QED
        BY <4>1, <4>2, ThreadFacts
    <3> HIDE DEF r
    <3>3. "got" \in WorkerPlaces
      BY DEF WorkerPlaces
    <3> QED
      BY <1>5, <3>1, <3>2, <3>3
  <2> QED
    BY <2>1, <2>2
<1>7. CASE Got
  <2> DEFINE q == IF work_is_done = 1 /\ num[me] = NoWork THEN "finish" ELSE "test"
  <2>1. Becomes(<<At(q)>>) /\ UNCHANGED calm /\ cur' = cur
    BY <1>7 DEF Got, progVars
  <2>2. q \in WorkerPlaces
    BY DEF WorkerPlaces
  <2> HIDE DEF q
  <2> QED
    BY <1>4, <2>1, <2>2
<1>8. CASE Test
  BY <1>4, <1>8 DEF Test, WorkerPlaces
<1>9. CASE Release
  BY <1>4, <1>9 DEF Release, WorkerPlaces
<1>10. CASE Clear
  <2>1. Becomes(<<Call("down", me), At("got")>>) /\ UNCHANGED calm /\ cur' = cur
    BY <1>10 DEF Clear
  <2>2. "got" \in WorkerPlaces
    BY DEF WorkerPlaces
  <2> QED
    BY <1>3, <1>5, <2>1, <2>2
<1>11. CASE Finish \/ Remove \/ Stop
  BY <1>2, <1>11 DEF Finish, Remove, Stop, Leaving
<1> QED
  BY <1>6, <1>7, <1>8, <1>9, <1>10, <1>11 DEF WorkerStep

LEMMA MainTurnAt ==
    ASSUME Working, Top.at \in MainPlaces
    PROVE  /\ exec = Main /\ Where(Main) = Top.at /\ Top.at \notin LibraryPlaces
           /\ Home(exec) = MainPlaces /\ Top.at \notin {"join", "telos"}
           /\ (Top.at \in {"create", "make"} => cur \in Workers)
<1>1. exec = Main /\ Where(Main) = Top.at /\ Top.at \notin LibraryPlaces
  BY MainTop DEF Working, Where
<1>2. Home(exec) = MainPlaces
  BY <1>1, MainPlaceFacts
<1>3. Top.at \notin {"join", "telos"}
  BY <1>1 DEF Working, ProgramInv, MainInv
<1>4. Top.at \in {"create", "make"} => cur \in Workers
  BY <1>1, ThreadFacts DEF Working, ProgramInv, MainInv, SchedInv, TypeInv
<1> QED
  BY <1>1, <1>2, <1>3, <1>4

\* The record goes on the list, as one that has no context.
LEMMA CreateTurn ==
    ASSUME Working, Create
    PROVE  TurnInv'
<1> DEFINE fs == <<At("make")>>
<1>1. /\ Top.at = "create" /\ "create" \in MainPlaces /\ "make" \in MainPlaces
      /\ ring' = Append(ring, cur) /\ Becomes(fs)
          /\ UNCHANGED <<exec, rout, running, cur, work_is_done>>
  BY DEF Create, Link, MainPlaces, progVars
<1>2. /\ exec = Main /\ Where(Main) = "create" /\ Top.at \notin LibraryPlaces
      /\ Home(exec) = MainPlaces /\ cur \in Workers
  BY <1>1, MainTurnAt
<1>3. Whole(fs, MainPlaces) /\ PlaceIn(fs) = "make" /\ Head(fs).at = "make"
  BY <1>1, OneFrame, MainPlaceFacts
<1>4. Calm(fs)
  BY <1>1, PlaceFrame, MainPlaceFacts, CalmOne
<1> HIDE DEF fs
<1>5. /\ stack' = [stack EXCEPT ![exec] = fs] /\ PlaceIn(stack'[exec]) = "make"
      /\ \A t \in Threads \ {exec} : stack'[t] = stack[t]
      /\ Top'.at = "make"
  BY <1>1, <1>2, <1>3, ProgramStack DEF Working, SchedInv
<1>6. stack'[exec] = fs
  BY <1>5, WorkingFacts
<1>7. OnRing' = OnRing \cup {cur} /\ cur \notin OnRing
  <2>1. cur \in 1..workers /\ ring = [k \in 1..(cur - 1) |-> k]
    BY <1>2 DEF Working, ProgramInv, RingInv, Linked, Workers
  <2>2. /\ Len(ring) = cur - 1 /\ DOMAIN ring = 1..(cur - 1)
        /\ \A k \in 1..(cur - 1) : ring[k] = k
    BY <2>1
  <2>3. ring \in Seq(Workers)
    BY WorkingFacts
  <2>4. /\ DOMAIN ring' = 1..cur /\ ring'[cur] = cur
        /\ \A k \in 1..(cur - 1) : ring'[k] = ring[k]
    BY <1>1, <1>2, <2>1, <2>2, <2>3
  <2>5. OnRing = 1..(cur - 1)
    BY <2>2 DEF OnRing
  <2>6. OnRing' = {ring'[k] : k \in 1..cur}
    BY <2>4 DEF OnRing
  <2>7. \A k \in 1..cur : ring'[k] = k
    BY <2>1, <2>2, <2>4
  <2>8. OnRing' = 1..cur
    BY <2>6, <2>7
  <2> QED
    BY <2>1, <2>5, <2>8
<1>8. PlaceIn(stack'[Main]) = "make"
  BY <1>2, <1>5
<1>9. \A t \in Threads : Fresh(t)' <=> Fresh(t)
  BY <1>1, <1>2, <1>7, <1>8 DEF Fresh, Where
<1>10. OnlyFlag(exec)'
  BY <1>1, <1>7 DEF OnlyFlag, Working, TurnInv
<1>11. exec \in Threads
  BY WorkingFacts
<1>12. ~Fresh(exec)'
  BY <1>1, <1>9, <1>11 DEF Working, TurnInv
<1>13. \E t \in Threads :
        OnlyFlag(t)' /\ IF Top'.at = "swap" THEN Top'.a = exec' /\ Top'.b = t ELSE exec' = t
  BY <1>1, <1>5, <1>10, <1>11
<1>14. \A t \in Threads \ {exec'} : Calm(stack'[t])
  BY <1>1, <1>5 DEF Working, TurnInv
<1>15. Calm(IF Top'.at = "swap" THEN Tail(stack'[exec']) ELSE stack'[exec'])
  BY <1>1, <1>4, <1>5, <1>6
<1>16. \A t \in Threads \ {exec'} : rout'[t] = Context(t, IF Fresh(t)' THEN <<>> ELSE stack'[t])
  BY <1>1, <1>5, <1>9 DEF Working, TurnInv
<1> QED
  BY <1>12, <1>13, <1>14, <1>15, <1>16 DEF TurnInv

\* The record gets its context.
LEMMA MakeTurn ==
    ASSUME Working, Make
    PROVE  TurnInv'
<1> DEFINE q == IF cur < workers THEN "create" ELSE "next"
           fs == <<At(q)>>
<1>1. /\ Top.at = "make" /\ "make" \in MainPlaces /\ q \in MainPlaces
      /\ q \in {"create", "next"}
      /\ rout' = [rout EXCEPT ![cur] = Context(cur, stack[cur])]
      /\ Becomes(fs) /\ UNCHANGED <<exec, running, ring, work_is_done>>
  BY DEF Make, MakeContext, MainPlaces
<1>2. /\ exec = Main /\ Where(Main) = "make" /\ Top.at \notin LibraryPlaces
      /\ Home(exec) = MainPlaces /\ cur \in Workers
  BY <1>1, MainTurnAt
<1> HIDE DEF q
<1>3. Whole(fs, MainPlaces) /\ PlaceIn(fs) = q /\ Head(fs).at = q
  BY <1>1, OneFrame, MainPlaceFacts
<1>4. Calm(fs)
  <2>1. At(q) \in Frames /\ At(q).at \notin {"swap", "restore"}
    BY <1>1, PlaceFrame, MainPlaceFacts
  <2> QED
    BY <2>1, CalmOne
<1> HIDE DEF fs
<1>5. /\ stack' = [stack EXCEPT ![exec] = fs] /\ PlaceIn(stack'[exec]) = q
      /\ \A t \in Threads \ {exec} : stack'[t] = stack[t]
      /\ Top'.at = q
  BY <1>1, <1>2, <1>3, ProgramStack DEF Working, SchedInv
<1>6. stack'[exec] = fs
  BY <1>5, WorkingFacts
<1>7. OnRing' = OnRing /\ cur \in OnRing
  <2>1. cur \in 1..workers /\ ring = [k \in 1..cur |-> k]
    BY <1>2 DEF Working, ProgramInv, RingInv, Linked, Workers
  <2>2. cur \in DOMAIN ring /\ ring[cur] = cur
    BY <2>1
  <2> QED
    BY <1>1, <2>2 DEF OnRing
<1>8. PlaceIn(stack'[Main]) \in {"create", "next"}
  BY <1>1, <1>2, <1>5
<1>9. \A t \in Threads : Fresh(t) <=> Fresh(t)' \/ t = cur
  BY <1>2, <1>7, <1>8 DEF Fresh, Where
<1>11. OnlyFlag(exec)'
  BY <1>1, <1>7 DEF OnlyFlag, Working, TurnInv
<1>12. exec \in Threads
  BY WorkingFacts
<1>13. ~Fresh(exec)'
  BY <1>1, <1>9, <1>12 DEF Working, TurnInv
<1>14. \E t \in Threads :
        OnlyFlag(t)' /\ IF Top'.at = "swap" THEN Top'.a = exec' /\ Top'.b = t ELSE exec' = t
  BY <1>1, <1>5, <1>11, <1>12
<1>15. \A t \in Threads \ {exec'} : Calm(stack'[t])
  BY <1>1, <1>5 DEF Working, TurnInv
<1>16. Calm(IF Top'.at = "swap" THEN Tail(stack'[exec']) ELSE stack'[exec'])
  BY <1>1, <1>4, <1>5, <1>6
<1>17. ASSUME NEW t \in Threads \ {exec'}
       PROVE  rout'[t] = Context(t, IF Fresh(t)' THEN <<>> ELSE stack'[t])
  <2>1. stack'[t] = stack[t]
    BY <1>1, <1>5
  <2>2. CASE t = cur
    <3>1. rout'[t] = Context(t, stack[t])
      BY <1>1, <2>2 DEF Working, SchedInv, ContextInv
    <3>2. ~Fresh(t)'
      BY <1>9, <2>2, <1>2, <1>7, <1>8 DEF Fresh, Where
    <3> QED
      BY <2>1, <3>1, <3>2
  <2>3. CASE t # cur
    <3>1. rout'[t] = rout[t]
      BY <1>1, <2>3 DEF Working, SchedInv, ContextInv
    <3> QED
      BY <1>1, <1>9, <2>1, <2>3, <3>1 DEF Working, TurnInv
  <2> QED
    BY <2>2, <2>3
<1> QED
  BY <1>13, <1>14, <1>15, <1>16, <1>17 DEF TurnInv

\* The other steps of main.
LEMMA MainTurn ==
    ASSUME Working, MainStep
    PROVE  work_is_done' = 1 \/ TurnInv'
<1>1. Top.at \in MainPlaces
  BY DEF MainStep, MainPlaces, Create, Make, NextNumber, Give, PassBy, Drain, WorkIsDone, Join,
         Destroy
<1>2. /\ exec = Main /\ Where(Main) = Top.at /\ Top.at \notin LibraryPlaces
      /\ Home(exec) = MainPlaces /\ Top.at \notin {"join", "telos"}
  BY <1>1, MainTurnAt
<1>3. ASSUME NEW fs, Whole(fs, MainPlaces), PlaceIn(fs) \in {"next", "seek", "drain"}, Calm(fs),
             Becomes(fs), UNCHANGED calm, Top.at # "make"
      PROVE  TurnInv'
  BY <1>2, <1>3, ProgramTurn DEF calm
<1>4. ASSUME UNCHANGED <<stack, calm>>, Top.at \in {"seek", "drain"}
      PROVE  TurnInv'
  <2>1. /\ stack[exec] \in Seq(Frames) /\ stack[exec] # <<>>
        /\ stack' = [stack EXCEPT ![exec] = stack[exec]]
    BY <1>4, WorkingFacts
  <2>2. Calm(stack[exec]) /\ Top.at # "swap"
    BY <1>4 DEF Working, TurnInv
  <2>3. PlaceIn(stack'[Main]) = Where(Main) /\ Where(Main) # "make"
    BY <1>2, <1>4 DEF Where
  <2> QED
    BY <1>4, <2>1, <2>2, <2>3, QuietTurn DEF calm
<1>5. ASSUME NEW p \in MainPlaces
      PROVE  /\ At(p) \in Frames /\ At(p).at \notin {"swap", "restore"}
             /\ Whole(<<At(p)>>, MainPlaces) /\ PlaceIn(<<At(p)>>) = p /\ Calm(<<At(p)>>)
  <2>1. At(p) \in Frames /\ At(p).at \notin {"swap", "restore"}
    BY PlaceFrame, MainPlaceFacts DEF MainPlaces
  <2> QED
    BY <2>1, OneFrame, MainPlaceFacts, CalmOne
<1>6. ASSUME NEW p \in MainPlaces,
             NEW f \in Frames, LibraryFrame(f), f.at \notin {"swap", "restore"}
      PROVE  Whole(<<f, At(p)>>, MainPlaces) /\ PlaceIn(<<f, At(p)>>) = p /\ Calm(<<f, At(p)>>)
  BY <1>5, <1>6, TwoFrames, MainPlaceFacts, CalmTwo
<1>7. At("yield") \in Frames /\ LibraryFrame(At("yield"))
        /\ At("yield").at \notin {"swap", "restore"}
  BY PlaceFrame DEF AllPlaces, LibraryPlaces
<1>8. "next" \in MainPlaces /\ "seek" \in MainPlaces /\ "drain" \in MainPlaces
  BY DEF MainPlaces
<1>9. CASE NextNumber
  <2> DEFINE q == IF numbers_left > 0 THEN "seek" ELSE "drain"
             fs == <<At(q)>>
  <2>1. Becomes(fs) /\ UNCHANGED calm /\ Top.at # "make"
    BY <1>9 DEF NextNumber
  <2>2. q \in MainPlaces /\ q \in {"next", "seek", "drain"}
    BY <1>8
  <2> HIDE DEF q
  <2>3. Whole(fs, MainPlaces) /\ PlaceIn(fs) = q /\ Calm(fs)
    BY <1>5, <2>2
  <2> HIDE DEF fs
  <2> QED
    BY <1>3, <2>1, <2>2, <2>3
<1>10. CASE Give
  <2> DEFINE f == Call("up", cur)
             fs == <<f, At("next")>>
  <2>1. Becomes(fs) /\ UNCHANGED calm /\ Top.at # "make"
    BY <1>10 DEF Give
  <2>2. f \in Frames /\ LibraryFrame(f) /\ f.at \notin {"swap", "restore"}
    BY CallFacts DEF Working, SchedInv, TypeInv
  <2> HIDE DEF f
  <2>3. Whole(fs, MainPlaces) /\ PlaceIn(fs) = "next" /\ Calm(fs)
    BY <1>6, <1>8, <2>2
  <2> HIDE DEF fs
  <2> QED
    BY <1>3, <2>1, <2>3
<1>11. CASE PassBy \/ Drain
  <2> DEFINE fs(p) == <<At("yield"), At(p)>>
  <2>1. /\ UNCHANGED calm /\ Top.at \in {"seek", "drain"} /\ Top.at # "make"
        /\ UNCHANGED stack \/ \E p \in {"seek", "drain"} : Becomes(fs(p))
    BY <1>11 DEF PassBy, Drain
  <2>2. \A p \in {"seek", "drain"} :
            Whole(fs(p), MainPlaces) /\ PlaceIn(fs(p)) = p /\ Calm(fs(p))
    BY <1>6, <1>7, <1>8
  <2> HIDE DEF fs
  <2>3. CASE UNCHANGED stack
    BY <1>4, <2>1, <2>3
  <2>4. CASE \E p \in {"seek", "drain"} : Becomes(fs(p))
    <3>1. PICK p \in {"seek", "drain"} : Becomes(fs(p))
      BY <2>4
    <3> QED
      BY <1>3, <2>1, <2>2, <3>1
  <2> QED
    BY <2>1, <2>3, <2>4
<1>12. CASE Create \/ Make
  BY <1>12, CreateTurn, MakeTurn
<1>13. CASE WorkIsDone
  BY <1>13 DEF WorkIsDone
<1>14. CASE Join \/ Destroy
  BY <1>2, <1>14 DEF Join, Destroy
<1> QED
  BY <1>9, <1>10, <1>11, <1>12, <1>13, <1>14 DEF MainStep

LEMMA InitTurn == Init => TurnInv
<1> SUFFICES ASSUME Init PROVE TurnInv
  OBVIOUS
<1>1. SchedInv /\ ProgramInv
  BY InitSound
<1>2. /\ exec = Main /\ Main \in Threads /\ Main \notin Workers /\ ring = <<>>
      /\ stack = [t \in Threads |-> IF t = Main THEN <<At("create")>> ELSE <<At("find")>>]
      /\ rout = [t \in Threads |-> Context(t, <<>>)]
      /\ running = [t \in Threads |-> IF t = Main THEN 1 ELSE 0]
  BY ThreadFacts DEF Init, InitScheduler
<1>3. /\ At("create") \in Frames /\ At("create").at = "create"
      /\ At("find") \in Frames /\ At("find").at = "find"
  BY PlaceFrame DEF AllPlaces, MainPlaces, WorkerPlaces
<1>4. Calm(<<At("create")>>) /\ Calm(<<At("find")>>)
  BY <1>3, CalmOne
<1>5. Top.at = "create"
  BY <1>2, <1>3 DEF Top
<1>6. OnlyFlag(Main)
  BY <1>2 DEF OnlyFlag
<1>7. OnRing = {}
  BY <1>2 DEF OnRing
<1>8. \A t \in Threads : Fresh(t) <=> t \in Workers
  <2>1. Where(Main) = "create"
    BY <1>1, <1>5, MainTop DEF MainPlaces, Where
  <2> QED
    BY <1>7, <2>1 DEF Fresh
<1>9. \A t \in Threads : Calm(stack[t])
  BY <1>2, <1>4
<1>10. \A t \in Threads \ {exec} : rout[t] = Context(t, IF Fresh(t) THEN <<>> ELSE stack[t])
  BY <1>2, <1>8, ThreadFacts
<1> QED
  BY <1>2, <1>5, <1>6, <1>8, <1>9, <1>10 DEF TurnInv

\* As long as there is work and nothing is torn, the turn is where the processor is.
LEMMA TurningHolds == Spec => [](IInv /\ Turning)
<1>1. Init => Turning
  BY InitTurn DEF Turning
<1>2. IInv /\ Turning /\ [Next]_vars => Turning'
  <2> SUFFICES ASSUME IInv, Turning, [Next]_vars PROVE Turning'
    OBVIOUS
  <2>1. CASE Next
    <3>1. ~Crashed /\ SchedInv /\ ProgramInv
      BY <2>1, EndIsEnd DEF Crashed, IInv, Sound
    <3>2. CASE torn
      <4>1. torn' = TRUE
        BY <2>1, <3>2 DEF Next, Step, WorkerStep, MainStep, LibraryStep, alarm_handler,
           Find, Got, Test, Release, Clear, Finish, Remove, Stop, Create, Make, NextNumber, Give,
           PassBy, Drain, WorkIsDone, Join, Destroy, user_handler, swapcontext, setcontext, Back,
           my_threads_sem_down, StoreDown, Wait, my_threads_sem_up, StoreUp, calm, stays
      <4> QED
        BY <4>1 DEF Turning
    <3>3. CASE work_is_done = 1
      <4>1. work_is_done' = 1
        BY <2>1, <3>3 DEF Next, Step, WorkerStep, MainStep, LibraryStep, alarm_handler,
           Find, Got, Test, Release, Clear, Finish, Remove, Stop, Create, Make, NextNumber, Give,
           PassBy, Drain, WorkIsDone, Join, Destroy, user_handler, swapcontext, setcontext, Back,
           my_threads_sem_down, StoreDown, Wait, my_threads_sem_up, StoreUp, calm, stays
      <4> QED
        BY <4>1 DEF Turning
    <3>4. CASE TurnInv /\ work_is_done # 1
      <4>1. Working
        BY <3>1, <3>4 DEF Working, SchedInv, TypeInv
      <4>2. CASE WorkerStep
        BY <4>1, <4>2, WorkerTurn DEF Turning
      <4>3. CASE MainStep
        BY <4>1, <4>3, MainTurn DEF Turning
      <4>4. CASE LibraryStep /\ UNCHANGED progVars
        BY <4>1, <4>4, LibraryStepTurn DEF Turning
      <4>5. CASE alarm_handler /\ UNCHANGED progVars
        BY <4>1, <4>5, AlarmTurn DEF Turning
      <4> QED
        BY <2>1, <4>2, <4>3, <4>4, <4>5 DEF Next, Step
    <3> QED
      BY <3>1, <3>2, <3>3, <3>4 DEF Turning
  <2>2. CASE UNCHANGED vars
    BY <2>2 DEF vars, schedVars, progVars, Turning, TurnInv, OnlyFlag, Fresh, Where, OnRing, Top,
       Crashed
  <2> QED
    BY <2>1, <2>2
<1> QED
  BY <1>1, <1>2, Invariant, PTL DEF Spec

\* As long as there is work, and unless the timer has expired behind SIG_UNBLOCK in a
\* handler, exactly one record is flagged as running, that of the thread that executes or
\* the one it is about to switch to, for every number of workers and wherever the timer
\* expires (routines_orig.c:95-207).
THEOREM OneTurnHolds == Spec => []OneTurn
<1>1. IInv /\ Turning => OneTurn
  <2> SUFFICES ASSUME IInv, TurnInv, ~Crashed PROVE OneTurn
    BY DEF Turning, OneTurn
  <2>1. PICK t \in Threads :
          OnlyFlag(t) /\ IF Top.at = "swap" THEN Top.a = exec /\ Top.b = t ELSE exec = t
    BY DEF TurnInv
  <2> QED
    BY <2>1 DEF OneTurn, OnlyFlag
<1> QED
  BY <1>1, TurningHolds, PTL

\* Under the same conditions the record of every other thread on the list holds that
\* thread's own context, with its stack as it was when the context was saved, but for the
\* record that main is just creating.
THEOREM ContextsCurrentHolds == Spec => []ContextsCurrent
<1>1. IInv /\ Turning => ContextsCurrent
  <2> SUFFICES ASSUME IInv, TurnInv, ~Crashed, NEW t \in (OnRing \cup {Main}) \ {exec},
                      rout[t] # Context(t, stack[t])
               PROVE  InMain("make") /\ t = cur
    BY DEF Turning, ContextsCurrent
  <2>1. SchedInv
    BY DEF IInv, Sound
  <2>2. t \in Threads
    BY <2>1, OnRingFacts, ThreadFacts DEF SchedInv, TypeInv
  <2>3. Fresh(t)
    BY <2>2 DEF TurnInv
  <2>4. Where(Main) = "make" /\ t = cur
    BY <2>3, ThreadFacts DEF Fresh
  <2>5. stack[Main] \in Seq(Frames) /\ stack[Main] # <<>>
    BY <2>1, ThreadFacts DEF SchedInv, StackInv
  <2>6. Len(stack[Main]) \in DOMAIN stack[Main]
    BY <2>5
  <2> QED
    BY <2>4, <2>5, <2>6 DEF InMain, Where, PlaceIn
<1> QED
  BY <1>1, TurningHolds, PTL
=============================================================================
