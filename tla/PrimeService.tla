---------------------------- MODULE PrimeService ----------------------------
(***************************************************************************)
(* What the "master thread and worker threads" programs promise            *)
(* (src/README.md, first section): every number of the command line is     *)
(* tested once, by some worker and in any order, the verdict is right, and *)
(* the program does not end before that.  A second test of a number would  *)
(* be a stutter here; the services on spinning and on semaphores exclude   *)
(* it by properties of their own.                                          *)
(***************************************************************************)
EXTENDS Naturals, Sequences

CONSTANT Numbers       \* argv[2], argv[3], ...

VARIABLES verdict,     \* the verdict printed for each number, or "none"
          returned     \* main has returned

vars == <<verdict, returned>>

\* A number is prime if 1 and itself are its only divisors, and it is not 1.
IsPrime(n) == n > 1 /\ \A d \in 2..(n - 1) : n % d # 0

Init == /\ verdict = [j \in 1..Len(Numbers) |-> "none"]
        /\ returned = FALSE

Test(j) == /\ ~returned
           /\ verdict[j] = "none"
           /\ verdict' = [verdict EXCEPT ![j] = IF IsPrime(Numbers[j]) THEN "prime"
                                                                        ELSE "composite"]
           /\ UNCHANGED returned

Return == /\ \A j \in 1..Len(Numbers) : verdict[j] # "none"
          /\ returned' = TRUE
          /\ UNCHANGED verdict

Next == (\E j \in 1..Len(Numbers) : Test(j)) \/ Return

Spec == Init /\ [][Next]_vars
=============================================================================
