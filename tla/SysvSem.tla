------------------------------ MODULE SysvSem ------------------------------
(***************************************************************************)
(* ext/sysvsem/sysvsem.c: the semaphores of PHP scripts on System V         *)
(* semaphores, among processes that may die at any step. A key stands for a *)
(* set of three: SEM, what scripts acquire, USAGE, how many handles there   *)
(* are, and SETVAL, which serialises sem_get, so that the one that finds it *)
(* is the only user can set SEM to its max_acquire.                         *)
(*                                                                         *)
(* The kernel is modelled as the calls see it: semop does all its           *)
(* operations or waits, SEM_UNDO adds up in semadj what the end of the      *)
(* process takes back, SETVAL of a semaphore forgets what was to be taken   *)
(* back from it, and a removed set makes every later call on it fail.       *)
(***************************************************************************)
EXTENDS Integers, FiniteSets, Totals

CONSTANTS
  Proc, Slot,   \* processes, and the variables of a script that hold handles
  NoHandle,     \* an empty slot
  MaxAcquire,   \* limits a script may ask for
  MaxSets,      \* bound: sets made under the key
  MaxGets,      \* bound: calls of sem_get by each process
  MaxDeaths     \* bound: processes that die

VARIABLES
  semid,   \* the last set made under the key
  exists,  \* it has not been removed
  semval,  \* the values of its semaphores
  semadj,  \* what the kernel adds to them when a process ends
  pc,      \* where a process is in a call
  arg,     \* set and arguments of its sem_get, slot of its sem_acquire
  handle,  \* sysvsem_sem behind each of its slots
  kept,    \* history: uses and acquisitions left by handles without auto_release
  gets, deaths

kernel == <<semid, exists, semval, semadj>>
vars == <<kernel, pc, arg, handle, kept, gets, deaths>>

Handle == [semid : 0..MaxSets, count : Nat \cup {-1}, auto_release : BOOLEAN]

ASSUME SemAssumption ==
  /\ IsFiniteSet(Proc) /\ IsFiniteSet(Slot)
  /\ MaxAcquire \subseteq Nat \ {0}
  /\ NoHandle \notin Handle
  /\ MaxSets \in Nat /\ MaxGets \in Nat /\ MaxDeaths \in Nat

Sems == {"SEM", "USAGE", "SETVAL"}
Ops(sem, usage, setval) == [SEM |-> sem, USAGE |-> usage, SETVAL |-> setval]
None3 == Ops(0, 0, 0)
Nothing == [uses |-> 0, held |-> 0]

ArgFor(h) == [semid |-> 0, max |-> 0, auto |-> FALSE, slot |-> h]
NoArg == ArgFor(NoHandle)

Getting == {"semget", "counting", "first", "registering"}

TypeOK ==
  /\ semid \in 0..MaxSets /\ exists \in BOOLEAN
  /\ semval \in [Sems -> Nat]
  /\ semadj \in [Proc -> [Sems -> Int]]
  /\ pc \in [Proc -> Getting \cup {"idle", "waiting"}]
  /\ arg \in [Proc -> [semid : 0..MaxSets, max : MaxAcquire \cup {0},
                       auto : BOOLEAN, slot : Slot \cup {NoHandle}]]
  /\ handle \in [Proc -> [Slot -> Handle \cup {NoHandle}]]
  /\ kept \in [Proc -> [uses : Nat, held : Nat]]
  /\ gets \in [Proc -> 0..MaxGets] /\ deaths \in 0..MaxDeaths

Init ==
  /\ semid = 0 /\ exists = FALSE
  /\ semval = None3
  /\ semadj = [p \in Proc |-> None3]
  /\ pc = [p \in Proc |-> "idle"]
  /\ arg = [p \in Proc |-> NoArg]
  /\ handle = [p \in Proc |-> [h \in Slot |-> NoHandle]]
  /\ kept = [p \in Proc |-> Nothing]
  /\ gets = [p \in Proc |-> 0] /\ deaths = 0

Goto(p, label) == pc' = [pc EXCEPT ![p] = label]

\* The set with this id is there: calls on it do not fail.
Alive(s) == exists /\ s = semid

\* A semop whose operations all have SEM_UNDO.
Semop(p, ops) ==
  /\ \A i \in Sems : semval[i] + ops[i] >= 0
  /\ semval' = [i \in Sems |-> semval[i] + ops[i]]
  /\ semadj' = [semadj EXCEPT ![p] = [i \in Sems |-> @[i] - ops[i]]]
  /\ UNCHANGED <<semid, exists>>

-----------------------------------------------------------------------------
(* sem_get.                                                                 *)

\* semget, which makes the set when the key has none.
SemGet(p) ==
  /\ pc[p] = "idle" /\ gets[p] < MaxGets
  /\ exists \/ semid < MaxSets
  /\ exists' = TRUE
  /\ semid' = IF exists THEN semid ELSE semid + 1
  /\ \E h \in Slot : handle[p][h] = NoHandle
  /\ \E m \in MaxAcquire, a \in BOOLEAN :
       LET h == CHOOSE h \in Slot : handle[p][h] = NoHandle IN
       arg' = [arg EXCEPT ![p] = [semid |-> semid', max |-> m, auto |-> a, slot |-> h]]
  /\ gets' = [gets EXCEPT ![p] = @ + 1]
  /\ Goto(p, "semget")
  /\ UNCHANGED <<semval, semadj, handle, kept, deaths>>

\* Mutant: the use is not taken back when the process dies.
CountUseForGood(p) ==
  /\ pc[p] = "semget"
  /\ IF Alive(arg[p].semid)
     THEN /\ semval["SETVAL"] = 0
          /\ semval' = [semval EXCEPT !["SETVAL"] = 1, !["USAGE"] = @ + 1]
          /\ semadj' = [semadj EXCEPT ![p]["SETVAL"] = @ - 1]
          /\ UNCHANGED <<semid, exists>>
     ELSE UNCHANGED kernel
  /\ Goto(p, "counting")
  /\ UNCHANGED <<arg, handle, kept, gets, deaths>>

\* Mutant: the semop does not wait for SETVAL.
CountUseAtOnce(p) ==
  /\ pc[p] = "semget"
  /\ IF Alive(arg[p].semid) THEN Semop(p, Ops(0, 1, 1)) ELSE UNCHANGED kernel
  /\ Goto(p, "counting")
  /\ UNCHANGED <<arg, handle, kept, gets, deaths>>

\* Wait until SETVAL is zero, raise it and USAGE, all in one semop. On a set that
\* was removed it fails, with a warning, and sem_get goes on.
CountUse(p) ==
  /\ pc[p] = "semget"
  /\ IF Alive(arg[p].semid)
     THEN semval["SETVAL"] = 0 /\ Semop(p, Ops(0, 1, 1))
     ELSE UNCHANGED kernel
  /\ Goto(p, "counting")
  /\ UNCHANGED <<arg, handle, kept, gets, deaths>>

\* semctl GETVAL of USAGE.
ReadUsage(p) ==
  /\ pc[p] = "counting"
  /\ Goto(p, IF Alive(arg[p].semid) /\ semval["USAGE"] = 1 THEN "first" ELSE "registering")
  /\ UNCHANGED <<kernel, arg, handle, kept, gets, deaths>>

\* semctl SETVAL of SEM by the only user.
SetMax(p) ==
  /\ pc[p] = "first"
  /\ IF Alive(arg[p].semid)
     THEN /\ semval' = [semval EXCEPT !["SEM"] = arg[p].max]
          /\ semadj' = [q \in Proc |-> [semadj[q] EXCEPT !["SEM"] = 0]]
          /\ UNCHANGED <<semid, exists>>
     ELSE UNCHANGED kernel
  /\ Goto(p, "registering")
  /\ UNCHANGED <<arg, handle, kept, gets, deaths>>

\* Mutant: SETVAL is not put back.
RegisterOnly(p) ==
  /\ pc[p] = "registering"
  /\ UNCHANGED kernel
  /\ handle' = [handle EXCEPT ![p][arg[p].slot] =
       [semid |-> arg[p].semid, count |-> 0, auto_release |-> arg[p].auto]]
  /\ arg' = [arg EXCEPT ![p] = NoArg]
  /\ Goto(p, "idle")
  /\ UNCHANGED <<kept, gets, deaths>>

\* Put SETVAL back and make the resource, on a removed set too.
Register(p) ==
  /\ pc[p] = "registering"
  /\ IF Alive(arg[p].semid) THEN Semop(p, Ops(0, 0, -1)) ELSE UNCHANGED kernel
  /\ handle' = [handle EXCEPT ![p][arg[p].slot] =
       [semid |-> arg[p].semid, count |-> 0, auto_release |-> arg[p].auto]]
  /\ arg' = [arg EXCEPT ![p] = NoArg]
  /\ Goto(p, "idle")
  /\ UNCHANGED <<kept, gets, deaths>>

-----------------------------------------------------------------------------
(* sem_acquire, sem_release, sem_remove and the end of a resource.          *)

CallAcquire(p) ==
  /\ pc[p] = "idle"
  /\ \E h \in Slot : /\ handle[p][h] # NoHandle
                     /\ arg' = [arg EXCEPT ![p] = ArgFor(h)]
  /\ Goto(p, "waiting")
  /\ UNCHANGED <<kernel, handle, kept, gets, deaths>>

\* The semop of sem_acquire succeeds, or fails because the set is gone, also while
\* it waits.
Acquire(p) ==
  LET h == arg[p].slot IN
  /\ pc[p] = "waiting"
  /\ IF Alive(handle[p][h].semid)
     THEN Semop(p, Ops(-1, 0, 0)) /\ handle' = [handle EXCEPT ![p][h].count = @ + 1]
     ELSE UNCHANGED <<kernel, handle>>
  /\ arg' = [arg EXCEPT ![p] = NoArg]
  /\ Goto(p, "idle")
  /\ UNCHANGED <<kept, gets, deaths>>

\* Mutant: a handle that has not acquired releases.
ReleaseAny(p) ==
  /\ pc[p] = "idle"
  /\ \E h \in Slot :
       /\ handle[p][h] # NoHandle
       /\ Alive(handle[p][h].semid)
       /\ Semop(p, Ops(1, 0, 0))
       /\ handle' = [handle EXCEPT ![p][h].count = @ - 1]
  /\ UNCHANGED <<pc, arg, kept, gets, deaths>>

\* sem_release through a handle that acquired; on a removed set nothing changes.
Release(p) ==
  /\ pc[p] = "idle"
  /\ \E h \in Slot :
       /\ handle[p][h] # NoHandle
       /\ handle[p][h].count # 0 /\ Alive(handle[p][h].semid)
       /\ Semop(p, Ops(1, 0, 0))
       /\ handle' = [handle EXCEPT ![p][h].count = @ - 1]
  /\ UNCHANGED <<pc, arg, kept, gets, deaths>>

\* sem_remove: the set goes, with what the kernel would have taken back.
Remove(p) ==
  /\ pc[p] = "idle"
  /\ \E h \in Slot : /\ handle[p][h] # NoHandle /\ Alive(handle[p][h].semid)
                     /\ handle' = [handle EXCEPT ![p][h].count = -1]
  /\ exists' = FALSE
  /\ semval' = None3 /\ semadj' = [q \in Proc |-> None3]
  /\ kept' = [q \in Proc |-> Nothing]
  /\ UNCHANGED <<semid, pc, arg, gets, deaths>>

\* Mutant: what was acquired through the handle is not given back.
DestroyUseOnly(p) ==
  /\ pc[p] = "idle"
  /\ \E h \in Slot :
       /\ handle[p][h] # NoHandle
       /\ handle' = [handle EXCEPT ![p][h] = NoHandle]
       /\ IF ~Alive(handle[p][h].semid) \/ ~handle[p][h].auto_release THEN UNCHANGED kernel
          ELSE Semop(p, Ops(0, -1, 0))
       /\ kept' = kept
  /\ UNCHANGED <<pc, arg, gets, deaths>>

\* Mutant: the semop has no SEM_UNDO.
DestroyNoUndo(p) ==
  /\ pc[p] = "idle"
  /\ \E h \in Slot :
       LET o == handle[p][h] IN
       /\ o # NoHandle
       /\ handle' = [handle EXCEPT ![p][h] = NoHandle]
       /\ IF ~Alive(o.semid) \/ ~o.auto_release THEN UNCHANGED kernel
          ELSE /\ semval' = [semval EXCEPT !["SEM"] = @ + o.count, !["USAGE"] = @ - 1]
               /\ UNCHANGED <<semid, exists, semadj>>
       /\ kept' = kept
  /\ UNCHANGED <<pc, arg, gets, deaths>>

\* release_sysvsem_sem, at unset or at the end of the request. Without auto_release
\* the use and what it acquired stay until the process ends.
Destroy(p) ==
  /\ pc[p] = "idle"
  /\ \E h \in Slot :
       LET o == handle[p][h] IN
       /\ o # NoHandle
       /\ handle' = [handle EXCEPT ![p][h] = NoHandle]
       /\ IF o.count = -1 \/ ~o.auto_release
          THEN /\ kept' = IF ~Alive(o.semid) THEN kept
                          ELSE [kept EXCEPT ![p].held = @ + o.count, ![p].uses = @ + 1]
               /\ UNCHANGED kernel
          ELSE /\ IF Alive(o.semid) THEN Semop(p, Ops(o.count, -1, 0)) ELSE UNCHANGED kernel
               /\ kept' = kept
  /\ UNCHANGED <<pc, arg, gets, deaths>>

\* The process ends, anywhere, and another takes its place. The kernel undoes what it
\* did to the semaphores, all at once, and never to less than zero.
Exit(p) ==
  /\ deaths < MaxDeaths /\ deaths' = deaths + 1
  /\ semval' = [i \in Sems |->
       IF semval[i] + semadj[p][i] < 0 THEN 0 ELSE semval[i] + semadj[p][i]]
  /\ semadj' = [semadj EXCEPT ![p] = None3]
  /\ Goto(p, "idle")
  /\ arg' = [arg EXCEPT ![p] = NoArg]
  /\ handle' = [handle EXCEPT ![p] = [h \in Slot |-> NoHandle]]
  /\ kept' = [kept EXCEPT ![p] = Nothing]
  /\ UNCHANGED <<semid, exists, gets>>

Step(p) == CountUse(p) \/ ReadUsage(p) \/ SetMax(p) \/ Register(p)
GiveBack(p) == Release(p) \/ Destroy(p)

Next == \E p \in Proc :
  SemGet(p) \/ Step(p) \/ CallAcquire(p) \/ Acquire(p) \/ Release(p) \/ Remove(p) \/ Destroy(p)
    \/ Exit(p)

\* Calls that have begun go on; waiting processes get their turn (the kernel queues
\* them); a script that holds a semaphore releases it or ends.
Fairness == \A p \in Proc :
  /\ WF_vars(Step(p)) /\ SF_vars(CountUse(p)) /\ SF_vars(Acquire(p))
  /\ WF_vars(GiveBack(p))

Spec == Init /\ [][Next]_vars /\ Fairness

-----------------------------------------------------------------------------
(* Properties.                                                              *)

Live(p) == {h \in Slot : handle[p][h] # NoHandle /\ Alive(handle[p][h].semid)}

\* The uses and acquisitions of a process on the set the key names.
Uses(p) == Cardinality(Live(p)) + kept[p].uses
             + (IF pc[p] \in {"first", "registering"} /\ Alive(arg[p].semid) THEN 1 ELSE 0)
Holds(p) == kept[p].held + Total([h \in Live(p) |-> handle[p][h].count])

users == [p \in Proc |-> Uses(p)]
held  == [p \in Proc |-> Holds(p)]

\* Between its look at USAGE and SETVAL the first user has not set the limit yet, but
\* nobody can see that.
First(p) == pc[p] = "first" /\ Alive(arg[p].semid)
limit == IF \A p \in Proc : Uses(p) = 0 THEN 0
         ELSE IF \E p \in Proc : First(p) THEN arg[CHOOSE p \in Proc : First(p)].max
         ELSE semval["SEM"] + Total(held)

Service == INSTANCE SemService WITH cap <- limit

\* Whatever processes die in whatever step, the three semaphores are one semaphore with
\* the limit of its first user: at most so many hold it, and a death gives back
\* exactly what the process held (sysvsem.c:114-127).
ServiceSpec == Service!Spec

\* release_sysvsem_sem never waits: its semop takes one from USAGE, and a request that
\* ends must not hang in it.
DestroyNeverWaits == \A p \in Proc : \A h \in Live(p) : semval["USAGE"] >= 1

\* Who finds that it is the only user is alone in sem_get until it has set the limit, whoever
\* died before it: two processes never both take themselves for the first.
Serialised(p) == pc[p] \in Getting \ {"semget"} /\ Alive(arg[p].semid)
OneInGet == \A p, q \in Proc : Serialised(p) /\ Serialised(q) => p = q

\* sem_get returns, although others in it may die with SETVAL raised.
GetsReturn == \A p \in Proc : pc[p] = "semget" ~> pc[p] # "semget"

\* A process that waits in sem_acquire gets the semaphore, unless somebody holds what
\* only its death gives back: acquired without auto_release, or waiting for more.
WaitersGetIn == \A p \in Proc :
  pc[p] = "waiting" ~>
    \/ pc[p] # "waiting"
    \/ \E q \in Proc : kept[q].held > 0 \/ (pc[q] = "waiting" /\ Holds(q) > 0)
=============================================================================
