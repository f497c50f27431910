----------------------------- MODULE SemService -----------------------------
(***************************************************************************)
(* What ext/sysvsem promises the processes that share a key: a semaphore    *)
(* whose limit the first user sets, that at most so many may hold, and that *)
(* gets back what a process held when the process ends in any way.          *)
(***************************************************************************)
EXTENDS Naturals, Totals

CONSTANTS Proc, MaxAcquire

VARIABLES
  users,  \* uses each process has of the semaphore
  held,   \* how often each process holds it
  cap     \* how often it may be held, 0 when nobody uses it

vars == <<users, held, cap>>

Nobody == [p \in Proc |-> 0]

Init == users = Nobody /\ held = Nobody /\ cap = 0

\* The first user sets the limit, the others find it.
Join(p) ==
  /\ users' = [users EXCEPT ![p] = @ + 1]
  /\ IF users = Nobody THEN cap' \in MaxAcquire ELSE cap' = cap
  /\ held' = held

\* A limit without users is forgotten.
Forget == cap' = IF users' = Nobody THEN 0 ELSE cap

\* A use ends and gives back what was acquired through it.
Leave(p) ==
  /\ users[p] > 0 /\ users' = [users EXCEPT ![p] = @ - 1]
  /\ \E n \in 0..held[p] : held' = [held EXCEPT ![p] = n]
  /\ Forget

Acquire(p) ==
  /\ users[p] > 0 /\ Total(held) < cap
  /\ held' = [held EXCEPT ![p] = @ + 1]
  /\ UNCHANGED <<users, cap>>

Release(p) ==
  /\ held[p] > 0 /\ held' = [held EXCEPT ![p] = @ - 1]
  /\ UNCHANGED <<users, cap>>

Die(p) ==
  /\ users' = [users EXCEPT ![p] = 0]
  /\ held' = [held EXCEPT ![p] = 0]
  /\ Forget

Remove == users' = Nobody /\ held' = Nobody /\ cap' = 0

Next == Remove \/ \E p \in Proc : Join(p) \/ Leave(p) \/ Acquire(p) \/ Release(p) \/ Die(p)

Spec == Init /\ [][Next]_vars
=============================================================================
