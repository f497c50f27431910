--------------------------- MODULE FpmMasterProof ---------------------------
(***************************************************************************)
(* The books of the FPM master, proved for any pools, any configuration    *)
(* fpm_conf.c accepts, any number of processes, signals and failures: they *)
(* are the kernel's, and seen from outside the master is the service of    *)
(* FpmService.                                                             *)
(***************************************************************************)
EXTENDS FpmMaster, FiniteSetTheorems, SequenceTheorems, TLAPS

\* No pool is, or is being, filled beyond its limit.
WithinLimits ==
  /\ \A w \in Pools : running_children[w] =< pm_max_children[w]
  /\ pc = "make" => max =< pm_max_children[wp]

\* A master that left has left nobody.
NobodyIsLeft == master # "running" => Linked = {}

\* The inductive invariant.
IInv == TypeOK /\ Books /\ WithinLimits /\ NobodyIsLeft

-----------------------------------------------------------------------------
(* Facts about the books.                                                   *)

\* The lists are finite sets of processes.
LEMMA FiniteBooks ==
  ASSUME TypeOK
  PROVE  /\ Linked \subseteq Pids /\ IsFiniteSet(Linked) /\ Cardinality(Linked) \in Nat
         /\ \A w \in Pools : /\ children[w] \subseteq Linked /\ children[w] \subseteq Pids
                             /\ IsFiniteSet(children[w]) /\ Cardinality(children[w]) \in Nat
<1>1. Linked \subseteq Pids /\ \A w \in Pools : children[w] \subseteq Linked
  BY DEF TypeOK, Linked
<1> QED
  BY <1>1, FS_Subset, FS_CardinalityType, BoundAssumption

\* A process the master has forked and not buried is in one pool's list.
LEMMA OnePool ==
  ASSUME TypeOK, Books, NEW c \in Pids, proc[c] # "free"
  PROVE  PoolOf(c) \in Pools /\ c \in children[PoolOf(c)] /\ c \in Linked
<1>1. \E w \in Pools : c \in children[w]
  BY DEF Books, Linked
<1> QED
  BY <1>1 DEF PoolOf, Linked

\* The counter of all pools tells when nobody is left, and when one is.
LEMMA CounterTells ==
  ASSUME TypeOK, Books
  PROVE  /\ fpm_globals_running_children = 0 => Linked = {}
         /\ fpm_globals_running_children = 1 => \A c \in Linked : Linked \ {c} = {}
<1>1. IsFiniteSet(Linked) /\ fpm_globals_running_children = Cardinality(Linked)
  BY FiniteBooks DEF Books
<1>2. Cardinality(Linked) = 0 => Linked = {}
  BY <1>1, FS_EmptySet
<1>3. Cardinality(Linked) = 1 => \E c : Linked = {c}
  BY <1>1, FS_Singleton
<1> QED
  BY <1>1, <1>2, <1>3

-----------------------------------------------------------------------------
(* What a step does to the books: it forks, buries or leaves them alone.    *)

\* A step forks, or buries, or touches neither the books nor which processes
\* there are.
LEMMA BooksChange ==
  ASSUME TypeOK, [Next]_vars
  PROVE  \/ \E c \in Pids : Fork(c) \/ Bury(c)
         \/ UNCHANGED books /\ \A c \in Pids : proc'[c] = "free" <=> proc[c] = "free"
<1> DEFINE Quiet == UNCHANGED books /\ \A c \in Pids : proc'[c] = "free" <=> proc[c] = "free"
<1>1. ASSUME CreateInitial \/ Made \/ ReadSignal \/ Drained \/ NoneToBury \/ Skip PROVE Quiet
  BY <1>1 DEF CreateInitial, Made, ReadSignal, Drained, NoneToBury, Skip, kernel, books
<1>2. ASSUME Timers \/ NextPool \/ SpawnIdle \/ Suffices \/ TerminateRequest \/ Checked
      PROVE  Quiet
  BY <1>2 DEF Timers, PctlTimer, IdleTimer, RequestTimer, NextPool, SpawnIdle, Suffices,
              TerminateRequest, Checked, kernel, books
<1>3. ASSUME NEW c \in Pids, ReadSlot(c) \/ KillIdle(c) \/ CopySlot(c) PROVE Quiet
  BY <1>3 DEF ReadSlot, KillIdle, CopySlot, kernel, books
<1>4. ASSUME \/ ForkFails \/ FaultsAge \/ (\E s \in Signals : Signal(s))
             \/ (\E s \in Signals \union {"CHLD"} : sig_handler(s))
      PROVE  Quiet
  BY <1>4 DEF ForkFails, FaultsAge, Signal, sig_handler, kernel, books
<1>5. ASSUME NEW c \in Pids, WorkerStep(c) PROVE Quiet
  <2>1. UNCHANGED books
    BY <1>5 DEF WorkerStep, InitChild, InitChildFails, Accept, QuitIdle, CloseConnection, Retire,
                KeepConnection, NextRequest, TimePasses, Crash, masters
  <2>2. \/ UNCHANGED proc
        \/ proc[c] # "free" /\ \E s \in (Alive \union Dead) : proc' = [proc EXCEPT ![c] = s]
    BY <1>5 DEF WorkerStep, InitChild, InitChildFails, Accept, QuitIdle, CloseConnection, Retire,
                KeepConnection, NextRequest, TimePasses, Crash, Becomes, Ends, kernel,
                Live, Serving, Alive, Dead
  <2> QED
    BY <2>1, <2>2 DEF TypeOK, Alive, Dead, Serving
<1>6. ASSUME NEW c \in Pids, NEW sig \in Kills, Deliver(c, sig) PROVE Quiet
  <2>1. UNCHANGED books /\ proc[c] # "free"
    BY <1>6 DEF Deliver, masters, Live, Alive, Serving
  <2>2. UNCHANGED proc \/ proc' = [proc EXCEPT ![c] = "killed"]
    BY <1>6 DEF Deliver, Ends
  <2> QED
    BY <2>1, <2>2 DEF TypeOK
<1>7. ASSUME UNCHANGED vars PROVE Quiet
  BY <1>7 DEF vars, kernel
<1> QED
  BY <1>1, <1>2, <1>3, <1>4, <1>5, <1>6, <1>7 DEF Next, MasterStep

\* Burying takes a process out of the one list that has it, and counts it out.
LEMMA BuryUnlinks ==
  ASSUME TypeOK, Books, NEW c \in Pids, Bury(c)
  PROVE  /\ PoolOf(c) \in Pools /\ c \in children[PoolOf(c)] /\ c \in Linked
         /\ proc' = [proc EXCEPT ![c] = "free"]
         /\ children' = [children EXCEPT ![PoolOf(c)] = children[PoolOf(c)] \ {c}]
         /\ running_children' =
              [running_children EXCEPT ![PoolOf(c)] = running_children[PoolOf(c)] - 1]
         /\ fpm_globals_running_children' = fpm_globals_running_children - 1
         /\ Linked' = Linked \ {c}
<1> DEFINE p == PoolOf(c)
<1>1. /\ proc[c] # "free"
      /\ proc' = [proc EXCEPT ![c] = "free"]
      /\ children' = [children EXCEPT ![p] = children[p] \ {c}]
      /\ running_children' = [running_children EXCEPT ![p] = running_children[p] - 1]
      /\ fpm_globals_running_children' = fpm_globals_running_children - 1
  BY DEF Bury, Unlink, Zombie, Dead
<1>2. p \in Pools /\ c \in children[p] /\ c \in Linked
  BY <1>1, OnePool
<1> HIDE DEF p
<1>3. \A d : d \in Linked' <=> d \in Linked /\ d # c
  <2>1. children \in [Pools -> SUBSET Pids]
    BY DEF TypeOK
  <2>2. /\ \A d : d \in Linked <=> \E w \in Pools : d \in children[w]
        /\ \A d : d \in Linked' <=> \E w \in Pools : d \in children'[w]
    BY DEF Linked
  <2> QED
    BY <1>1, <1>2, <2>1, <2>2 DEF Books
<1>4. Linked' = Linked \ {c}
  BY <1>3
<1> QED
  BY <1>1, <1>2, <1>4 DEF p

\* Books is preserved: a fork adds one process to one list and to both counts,
\* a burial takes one from where it is.
LEMMA BooksStep ==
  ASSUME TypeOK, Books, TypeOK', [Next]_vars
  PROVE  Books'
<1>0. /\ children \in [Pools -> SUBSET Pids] /\ running_children \in [Pools -> Nat]
      /\ proc \in [Pids -> Alive \union Dead \union {"free"}] /\ fpm_globals_running_children \in Nat
  BY DEF TypeOK
<1>L. /\ \A d : d \in Linked <=> \E w \in Pools : d \in children[w]
      /\ \A d : d \in Linked' <=> \E w \in Pools : d \in children'[w]
  BY DEF Linked
<1>1. ASSUME NEW c \in Pids, Fork(c) PROVE Books'
  <2>1. /\ wp \in Pools /\ proc[c] = "free" /\ c \notin Linked
        /\ proc' = [proc EXCEPT ![c] = "starting"]
        /\ children' = [children EXCEPT ![wp] = children[wp] \union {c}]
        /\ running_children' = [running_children EXCEPT ![wp] = running_children[wp] + 1]
        /\ fpm_globals_running_children' = fpm_globals_running_children + 1
    BY <1>1 DEF Fork, Books, TypeOK
  <2>2. Linked' = Linked \union {c}
    <3>1. \A d : d \in Linked' <=> d \in Linked \/ d = c
      BY <1>0, <1>L, <2>1
    <3> QED
      BY <3>1
  <2>3. \A d \in Pids : proc'[d] # "free" <=> d \in Linked'
    BY <1>0, <2>1, <2>2 DEF Books
  <2>4. \A v, w \in Pools : v # w => children'[v] \intersect children'[w] = {}
    BY <1>0, <1>L, <2>1 DEF Books
  <2>5. \A w \in Pools : running_children'[w] = Cardinality(children'[w])
    <3> SUFFICES ASSUME NEW w \in Pools PROVE running_children'[w] = Cardinality(children'[w])
      OBVIOUS
    <3>1. c \notin children[wp]
      BY <2>1 DEF Linked
    <3>2. Cardinality(children[wp] \union {c}) = Cardinality(children[wp]) + 1
      BY <2>1, <3>1, FiniteBooks, FS_AddElement
    <3> QED
      BY <1>0, <2>1, <3>2 DEF Books
  <2>6. fpm_globals_running_children' = Cardinality(Linked')
    BY <2>1, <2>2, FiniteBooks, FS_AddElement DEF Books
  <2> QED
    BY <2>3, <2>4, <2>5, <2>6 DEF Books
<1>2. ASSUME NEW c \in Pids, Bury(c) PROVE Books'
  <2> DEFINE p == PoolOf(c)
  <2>1. /\ proc' = [proc EXCEPT ![c] = "free"]
        /\ children' = [children EXCEPT ![p] = children[p] \ {c}]
        /\ running_children' = [running_children EXCEPT ![p] = running_children[p] - 1]
        /\ fpm_globals_running_children' = fpm_globals_running_children - 1
        /\ p \in Pools /\ c \in children[p] /\ c \in Linked
        /\ Linked' = Linked \ {c}
    BY <1>2, BuryUnlinks
  <2> HIDE DEF p
  <2>2. \A d \in Pids : proc'[d] # "free" <=> d \in Linked'
    BY <1>0, <2>1 DEF Books
  <2>3. \A v, w \in Pools : v # w => children'[v] \intersect children'[w] = {}
    BY <1>0, <2>1 DEF Books
  <2>4. \A w \in Pools : running_children'[w] = Cardinality(children'[w])
    <3>1. Cardinality(children[p] \ {c}) = Cardinality(children[p]) - 1
      BY <2>1, FiniteBooks, FS_RemoveElement
    <3> QED
      BY <1>0, <2>1, <3>1 DEF Books
  <2>5. fpm_globals_running_children' = Cardinality(Linked')
    BY <2>1, FiniteBooks, FS_RemoveElement DEF Books
  <2> QED
    BY <2>2, <2>3, <2>4, <2>5 DEF Books
<1>3. ASSUME UNCHANGED books, \A c \in Pids : proc'[c] = "free" <=> proc[c] = "free"
      PROVE  Books'
  BY <1>3 DEF Books, books, Linked
<1> QED
  BY <1>1, <1>2, <1>3, BooksChange

-----------------------------------------------------------------------------
(* Types.                                                                   *)

\* A maintenance that forks asks for no more than the pool may have.
LEMMA SpawnTarget ==
  ASSUME TypeOK, Books, WithinLimits, SpawnIdle
  PROVE  max' \in Nat /\ max' =< pm_max_children[wp]
<1>1. /\ running_children[wp] \in Nat /\ idle_spawn_rate[wp] \in Nat
      /\ pm_max_children[wp] \in Nat /\ pm_min_spare_servers[wp] \in Nat
      /\ running_children[wp] < pm_max_children[wp]
  BY ConfAssumption DEF TypeOK, SpawnIdle
<1>2. Idle \in Nat /\ Idle < pm_min_spare_servers[wp]
  BY FS_Subset, FS_CardinalityType, BoundAssumption DEF TypeOK, SpawnIdle, Idle
<1>3. max' = running_children[wp]
               + Smaller(Smaller(idle_spawn_rate[wp], pm_min_spare_servers[wp] - Idle),
                         pm_max_children[wp] - running_children[wp])
  BY DEF SpawnIdle, StartMake
<1> HIDE DEF Idle
<1> QED
  BY <1>1, <1>2, <1>3 DEF Smaller

\* Where the master is and what it has in hand.
ControlType ==
  /\ pc \in {"start", "make", "signals", "bury", "pctl", "idle", "pools", "scan",
             "requests", "check", "terminate"}
  /\ wp \in Pools /\ todo \subseteq Pools
  /\ left \subseteq Pids /\ seen \subseteq Pids
  /\ max \in Nat /\ back \in {"start", "bury", "pools"}

\* What the master has in hand stays typed.
LEMMA ControlStep ==
  ASSUME TypeOK, Books, WithinLimits, [Next]_vars
  PROVE  ControlType'
<1>0. ControlType /\ \A w \in Pools : children[w] \subseteq Pids
  BY DEF TypeOK, ControlType
<1>F. FirstPool \in Pools
  BY ConfAssumption DEF FirstPool
<1> USE <1>0 DEF ControlType, At, Goto
<1>1. CASE CreateInitial
  BY <1>1, ConfAssumption DEF CreateInitial, StartMake
<1>2. CASE Made \/ ForkFails
  BY <1>2, <1>F DEF Made, ForkFails, Return
<1>3. CASE ReadSignal \/ Drained \/ NoneToBury \/ Skip \/ Checked
  BY <1>3 DEF ReadSignal, Drained, NoneToBury, Skip, Checked
<1>4. CASE PctlTimer \/ IdleTimer
  BY <1>4 DEF PctlTimer, IdleTimer
<1>5. CASE RequestTimer
  BY <1>5, FiniteBooks DEF RequestTimer
<1>6. CASE NextPool
  BY <1>6 DEF NextPool
<1>7. CASE SpawnIdle
  BY <1>7, SpawnTarget DEF SpawnIdle, StartMake
<1>8. CASE Suffices
  BY <1>8, <1>F DEF Suffices, EndScan
<1>9. CASE TerminateRequest
  BY <1>9 DEF TerminateRequest
<1>10. ASSUME NEW c \in Pids, Fork(c) PROVE ControlType'
  BY <1>10 DEF Fork, control
<1>11. ASSUME NEW c \in Pids, Bury(c) PROVE ControlType'
  <2>1. PoolOf(c) \in Pools
    BY <1>11, OnePool DEF Bury, Zombie, Dead
  <2>2. running_children[PoolOf(c)] \in Nat /\ pm_max_children[PoolOf(c)] \in Nat
    BY <2>1, ConfAssumption DEF TypeOK
  <2>3. \/ UNCHANGED <<pc, wp, max, back>>
        \/ /\ pc' = "make" /\ wp' = PoolOf(c) /\ back' = "bury"
           /\ max' \in {running_children[PoolOf(c)], pm_max_children[PoolOf(c)]}
    BY <1>11 DEF Bury, StartMake
  <2>4. UNCHANGED <<todo, left, seen>>
    BY <1>11 DEF Bury
  <2> QED
    BY <2>1, <2>2, <2>3, <2>4
<1>12. ASSUME NEW c \in Pids, ReadSlot(c) PROVE ControlType'
  BY <1>12 DEF ReadSlot
<1>13. ASSUME NEW c \in Pids, KillIdle(c) PROVE ControlType'
  BY <1>13, <1>F DEF KillIdle, EndScan
<1>14. ASSUME NEW c \in Pids, CopySlot(c) PROVE ControlType'
  BY <1>14 DEF CopySlot
<1>15. CASE UNCHANGED control
  BY <1>15 DEF control
<1>16. ASSUME \/ FaultsAge \/ (\E s \in Signals : Signal(s))
              \/ (\E s \in Signals \union {"CHLD"} : sig_handler(s))
              \/ (\E c \in Pids : WorkerStep(c) \/ \E sig \in Kills : Deliver(c, sig))
       PROVE  UNCHANGED control
  BY <1>16 DEF FaultsAge, Signal, sig_handler, WorkerStep, InitChild, InitChildFails, Accept,
               QuitIdle, CloseConnection, Retire, KeepConnection, NextRequest, TimePasses, Crash,
               Deliver, masters
<1> QED
  BY <1>1, <1>2, <1>3, <1>4, <1>5, <1>6, <1>7, <1>8, <1>9, <1>10, <1>11, <1>12, <1>13, <1>14,
     <1>15, <1>16 DEF Next, MasterStep, Timers, vars

\* The state of the stop, and the signals it sends.
StopType ==
  /\ master \in {"running", "exec", "exit"}
  /\ fpm_state \in States
  /\ fpm_signal_sent \in Kills \union {NONE}
  /\ pctl_event \in BOOLEAN
  /\ pending \in [Pids -> SUBSET Kills]

\* What fpm_pctl and its callees do to the stop, whoever calls them.
LEMMA StopOperators ==
  ASSUME StopType
  PROVE  /\ \A who, sig : sig \in Kills /\ Kill(who, sig) => pending' \in [Pids -> SUBSET Kills]
         /\ \A state : LastAction(state) => master' \in {"exec", "exit"}
         /\ \A state, sent_before, armed :
               ActionNext(state, sent_before, armed) /\ armed \in BOOLEAN =>
                 /\ master' \in {"running", "exec", "exit"}
                 /\ fpm_signal_sent' \in Kills \union {NONE} /\ pctl_event' \in BOOLEAN
                 /\ pending' \in [Pids -> SUBSET Kills]
<1>1. ASSUME NEW who, NEW sig, sig \in Kills, Kill(who, sig)
      PROVE  pending' \in [Pids -> SUBSET Kills]
  BY <1>1 DEF StopType, Kill
<1>2. \A state : LastAction(state) => master' \in {"exec", "exit"}
  BY DEF LastAction
<1>3. \A state, sent_before : NextSignal(state, sent_before) \in Kills
  BY DEF NextSignal, Kills
<1> QED
  BY <1>1, <1>2, <1>3 DEF ActionNext, StopType

\* A character of the socketpair asks for one of the states, or for nothing.
LEMMA SignalSetsState ==
  ASSUME TypeOK, ReadSignal
  PROVE  UNCHANGED <<stop, pending>> \/ \E new \in States : SetState(new)
<1>1. ASSUME Head(sp) # "CHLD",
             SetState(CASE Head(sp) = "TERM" -> "terminating"
                        [] Head(sp) = "QUIT" -> "finishing"
                        [] Head(sp) = "USR2" -> "reloading")
      PROVE  \E new \in States : SetState(new)
  <2>1. Head(sp) \in {"TERM", "QUIT", "USR2"}
    BY <1>1, HeadTailProperties DEF ReadSignal, TypeOK, Signals
  <2> QED
    BY <1>1, <2>1 DEF States
<1> QED
  BY <1>1 DEF ReadSignal

\* Whatever calls fpm_pctl, the state of the stop stays typed.
LEMMA StopStep ==
  ASSUME TypeOK, [Next]_vars
  PROVE  StopType'
<1>0. StopType
  BY DEF TypeOK, StopType
<1>1. CASE ReadSignal
  <2>1. \/ UNCHANGED <<stop, pending>>
        \/ \E new \in States : fpm_state' = new /\ ActionNext(new, NONE, TRUE)
    BY <1>1, SignalSetsState DEF SetState
  <2>2. CASE UNCHANGED <<stop, pending>>
    BY <1>0, <2>2 DEF StopType, stop
  <2> QED
    BY <1>0, <2>1, <2>2, StopOperators DEF StopType
<1>2. CASE PctlTimer
  BY <1>0, <1>2, StopOperators DEF PctlTimer, StopType
<1>3. CASE TerminateRequest
  BY <1>0, <1>3, StopOperators DEF TerminateRequest, StopType, Kills, stop
<1>4. ASSUME NEW c \in Pids, KillIdle(c) PROVE StopType'
  BY <1>0, <1>4, StopOperators DEF KillIdle, StopType, Kills, stop
<1>5. ASSUME NEW c \in Pids, Fork(c) PROVE StopType'
  BY <1>0, <1>5 DEF Fork, StopType, stop
<1>6. ASSUME NEW c \in Pids, Bury(c) PROVE StopType'
  <2>1. ChildExited(c)
    BY <1>6 DEF Bury
  <2>2. "reloading" \in States /\ "QUIT" \in Kills
    BY DEF States, Kills
  <2> QED
    BY <1>0, <2>1, <2>2, StopOperators DEF ChildExited, StopType, stop
<1>7. ASSUME NEW c \in Pids,
             \/ InitChild(c) \/ InitChildFails(c) \/ Accept(c) \/ QuitIdle(c)
             \/ CloseConnection(c) \/ Retire(c) \/ KeepConnection(c) \/ NextRequest(c)
             \/ TimePasses(c) \/ Crash(c) \/ \E sig \in Kills : Deliver(c, sig)
      PROVE  StopType'
  <2>1. UNCHANGED stop
    BY <1>7 DEF InitChild, InitChildFails, Accept, QuitIdle, CloseConnection, Retire,
                KeepConnection, NextRequest, TimePasses, Crash, Deliver, masters
  <2>2. \E s \in SUBSET Kills : pending' = pending \/ pending' = [pending EXCEPT ![c] = s]
    BY <1>0, <1>7 DEF InitChild, InitChildFails, Accept, QuitIdle, CloseConnection, Retire,
                KeepConnection, NextRequest, TimePasses, Crash, Deliver, Ends, Becomes, kernel,
                StopType
  <2> QED
    BY <1>0, <2>1, <2>2 DEF StopType, stop
<1>8. CASE UNCHANGED <<stop, pending>>
  BY <1>0, <1>8 DEF StopType, stop
<1>9. ASSUME \/ CreateInitial \/ Made \/ ForkFails \/ Drained \/ NoneToBury \/ Skip
             \/ IdleTimer \/ RequestTimer \/ NextPool \/ SpawnIdle \/ Suffices \/ Checked
             \/ (\E c \in Pids : ReadSlot(c) \/ CopySlot(c))
             \/ FaultsAge \/ (\E s \in Signals : Signal(s))
             \/ (\E s \in Signals \union {"CHLD"} : sig_handler(s)) \/ UNCHANGED vars
      PROVE  UNCHANGED <<stop, pending>>
  BY <1>9 DEF CreateInitial, Made, ForkFails, Drained, NoneToBury, Skip, IdleTimer, RequestTimer,
              NextPool, SpawnIdle, Suffices, Checked, ReadSlot, CopySlot, FaultsAge, Signal,
              sig_handler, vars, kernel
<1> QED
  BY <1>1, <1>2, <1>3, <1>4, <1>5, <1>6, <1>7, <1>8, <1>9
     DEF Next, MasterStep, Timers, WorkerStep

\* The books.
BooksType ==
  /\ children \in [Pools -> SUBSET Pids]
  /\ running_children \in [Pools -> Nat]
  /\ fpm_globals_running_children \in Nat

\* Counters that count lists never go below zero.
LEMMA BooksTypeStep ==
  ASSUME TypeOK, Books, [Next]_vars
  PROVE  BooksType'
<1>0. BooksType
  BY DEF TypeOK, BooksType
<1>1. ASSUME NEW c \in Pids, Fork(c) PROVE BooksType'
  <2>1. wp \in Pools
    BY DEF TypeOK
  <2>2. /\ children' = [children EXCEPT ![wp] = children[wp] \union {c}]
        /\ running_children' = [running_children EXCEPT ![wp] = running_children[wp] + 1]
        /\ fpm_globals_running_children' = fpm_globals_running_children + 1
    BY <1>1 DEF Fork
  <2> QED
    BY <1>0, <2>1, <2>2 DEF BooksType
<1>2. ASSUME NEW c \in Pids, Bury(c) PROVE BooksType'
  <2> DEFINE p == PoolOf(c)
  <2>1. /\ children' = [children EXCEPT ![p] = children[p] \ {c}]
        /\ running_children' = [running_children EXCEPT ![p] = running_children[p] - 1]
        /\ fpm_globals_running_children' = fpm_globals_running_children - 1
        /\ p \in Pools /\ c \in children[p] /\ c \in Linked
    BY <1>2, BuryUnlinks
  <2> HIDE DEF p
  <2>2. \A S : IsFiniteSet(S) /\ c \in S => Cardinality(S) - 1 \in Nat
    BY FS_RemoveElement, FS_CardinalityType
  <2>3. running_children[p] - 1 \in Nat /\ fpm_globals_running_children - 1 \in Nat
    BY <2>1, <2>2, FiniteBooks DEF Books
  <2> QED
    BY <1>0, <2>1, <2>3 DEF BooksType
<1>3. CASE UNCHANGED books
  BY <1>0, <1>3 DEF BooksType, books
<1> QED
  BY <1>1, <1>2, <1>3, BooksChange

\* Marks, spawn rates and faults.
TuningType ==
  /\ idle_kill \subseteq Pids
  /\ idle_spawn_rate \in [Pools -> Nat \ {0}]
  /\ last_faults \in 0 .. emergency_restart_threshold

\* The tuning of the maintenance and of the emergency restart stays typed.
LEMMA TuningStep ==
  ASSUME TypeOK, [Next]_vars
  PROVE  TuningType'
<1>0. TuningType /\ wp \in Pools
  BY DEF TypeOK, TuningType
<1>1. ASSUME NEW c \in Pids, Fork(c) \/ KillIdle(c) PROVE TuningType'
  BY <1>0, <1>1 DEF Fork, KillIdle, TuningType
<1>2. ASSUME NEW c \in Pids, Bury(c) PROVE TuningType'
  BY <1>0, <1>2, BoundAssumption DEF Bury, CountFault, TuningType
<1>3. CASE SpawnIdle
  BY <1>0, <1>3 DEF SpawnIdle, TuningType
<1>4. CASE Suffices
  BY <1>0, <1>4 DEF Suffices, TuningType
<1>5. CASE FaultsAge
  BY <1>0, <1>5, BoundAssumption DEF FaultsAge, TuningType
<1>6. CASE UNCHANGED tuning
  BY <1>0, <1>6 DEF TuningType, tuning
<1>7. ASSUME \/ CreateInitial \/ Made \/ ForkFails \/ ReadSignal \/ Drained \/ NoneToBury
             \/ Skip \/ Timers \/ NextPool \/ TerminateRequest \/ Checked
             \/ (\E c \in Pids : ReadSlot(c) \/ CopySlot(c))
             \/ (\E s \in Signals : Signal(s))
             \/ (\E s \in Signals \union {"CHLD"} : sig_handler(s))
             \/ UNCHANGED vars
      PROVE  UNCHANGED tuning
  BY <1>7 DEF CreateInitial, Made, ForkFails, ReadSignal, Drained, NoneToBury, Skip, Timers,
              PctlTimer, IdleTimer, RequestTimer, NextPool, TerminateRequest, Checked, ReadSlot,
              CopySlot, Signal, sig_handler, vars
<1>8. ASSUME NEW c \in Pids, WorkerStep(c) \/ \E sig \in Kills : Deliver(c, sig)
      PROVE  UNCHANGED tuning
  BY <1>8 DEF WorkerStep, InitChild, InitChildFails, Accept, QuitIdle, CloseConnection, Retire,
              KeepConnection, NextRequest, TimePasses, Crash, Deliver, masters
<1> QED
  BY <1>1, <1>2, <1>3, <1>4, <1>5, <1>6, <1>7, <1>8 DEF Next, MasterStep

\* Kernel, shared memory, workers.
WorldType ==
  /\ raised \subseteq Signals \union {"CHLD"}
  /\ sp \in Seq(Signals \union {"CHLD"})
  /\ proc \in [Pids -> Alive \union Dead \union {"free"}]
  /\ sent \in Nat /\ failures \in Nat
  /\ request_stage \in [Pids -> {NONE, "accepting", "active"}]
  /\ in_shutdown \subseteq Pids /\ over \subseteq Pids /\ late \subseteq Pids

\* Their variables, but for pending, which StopType has.
world == <<raised, sp, proc, sent, failures, request_stage, in_shutdown, over, late>>

\* Kernel, shared memory and workers stay typed.
LEMMA WorldStep ==
  ASSUME TypeOK, [Next]_vars
  PROVE  WorldType'
<1>0. WorldType
  BY DEF TypeOK, WorldType
<1>S. Alive \union Dead \union {"free"} =
        {"starting", "accepting", "waiting", "serving", "again",
         "exited", "crashed", "killed", "free"}
  BY DEF Alive, Dead, Serving
<1>1. ASSUME NEW c \in Pids, Fork(c) PROVE WorldType'
  BY <1>0, <1>1, <1>S DEF Fork, ClearSlot, WorldType, bounds
<1>2. ASSUME NEW c \in Pids, Bury(c) PROVE WorldType'
  BY <1>0, <1>2, <1>S DEF Bury, WorldType, bounds, worker
<1>3. CASE ForkFails
  BY <1>0, <1>3 DEF ForkFails, WorldType, kernel, worker
<1>4. CASE ReadSignal
  BY <1>0, <1>4, HeadTailProperties DEF ReadSignal, WorldType, bounds, worker
<1>5. ASSUME NEW s \in Signals, Signal(s) PROVE WorldType'
  BY <1>0, <1>5 DEF Signal, WorldType, worker
<1>6. ASSUME NEW s \in Signals \union {"CHLD"}, sig_handler(s) PROVE WorldType'
  BY <1>0, <1>6, AppendProperties DEF sig_handler, WorldType, bounds, worker
<1>7. ASSUME NEW c \in Pids, InitChild(c) \/ Accept(c) \/ CloseConnection(c)
                              \/ KeepConnection(c) \/ NextRequest(c)
      PROVE  WorldType'
  BY <1>0, <1>7, <1>S DEF InitChild, Accept, CloseConnection, KeepConnection, NextRequest,
                          Becomes, WorldType, masters, bounds
<1>8. ASSUME NEW c \in Pids, NEW how \in Dead, Ends(c, how), UNCHANGED masters
      PROVE  WorldType'
  BY <1>0, <1>8, <1>S DEF Ends, Dead, WorldType, masters, bounds
<1>9. ASSUME NEW c \in Pids, InitChildFails(c) \/ QuitIdle(c) \/ Retire(c) \/ Crash(c)
      PROVE  WorldType'
  BY <1>8, <1>9 DEF InitChildFails, QuitIdle, Retire, Crash, Dead
<1>10. ASSUME NEW c \in Pids, TimePasses(c) PROVE WorldType'
  BY <1>0, <1>10 DEF TimePasses, WorldType, masters, kernel, bounds
<1>11. ASSUME NEW c \in Pids, NEW sig \in Kills, Deliver(c, sig) PROVE WorldType'
  <2>1. CASE Ends(c, "killed")
    BY <1>8, <1>11, <2>1 DEF Deliver, Dead
  <2>2. CASE ~ Ends(c, "killed")
    BY <1>0, <1>11, <2>2 DEF Deliver, WorldType, masters, bounds
  <2> QED
    BY <2>1, <2>2
<1>12. CASE UNCHANGED world
  BY <1>0, <1>12 DEF WorldType, world
<1>13. ASSUME \/ CreateInitial \/ Made \/ Drained \/ NoneToBury \/ Skip \/ Timers \/ NextPool
              \/ SpawnIdle \/ Suffices \/ TerminateRequest \/ Checked \/ FaultsAge
              \/ (\E c \in Pids : ReadSlot(c) \/ KillIdle(c) \/ CopySlot(c))
              \/ UNCHANGED vars
       PROVE  UNCHANGED world
  BY <1>13 DEF CreateInitial, Made, Drained, NoneToBury, Skip, Timers, PctlTimer, IdleTimer,
               RequestTimer, NextPool, SpawnIdle, Suffices, TerminateRequest, Checked, FaultsAge,
               ReadSlot, KillIdle, CopySlot, world, vars, kernel, bounds, worker
<1> QED
  BY <1>1, <1>2, <1>3, <1>4, <1>5, <1>6, <1>7, <1>9, <1>10, <1>11, <1>12, <1>13
     DEF Next, MasterStep, WorkerStep

\* Types, all groups together.
LEMMA TypeStep ==
  ASSUME TypeOK, Books, WithinLimits, [Next]_vars
  PROVE  TypeOK'
<1>1. ControlType' /\ StopType' /\ BooksType' /\ TuningType' /\ WorldType'
  BY ControlStep, StopStep, BooksTypeStep, TuningStep, WorldStep
<1> QED
  BY <1>1 DEF TypeOK, ControlType, StopType, BooksType, TuningType, WorldType

-----------------------------------------------------------------------------
(* Limits and the end of the master.                                        *)

\* A pool is filled up to pm.max_children and not beyond: every caller of
\* fpm_children_make gives it a target within the limit, and it stops there.
LEMMA LimitsStep ==
  ASSUME TypeOK, Books, WithinLimits, [Next]_vars
  PROVE  WithinLimits'
<1>0. /\ running_children \in [Pools -> Nat] /\ wp \in Pools /\ max \in Nat
      /\ pm_max_children \in [Pools -> Nat]
  BY ConfAssumption DEF TypeOK
<1>1. ASSUME NEW c \in Pids, Fork(c) PROVE WithinLimits'
  <2>1. /\ running_children[wp] < max /\ max =< pm_max_children[wp]
        /\ running_children' = [running_children EXCEPT ![wp] = running_children[wp] + 1]
        /\ UNCHANGED <<pc, wp, max>>
    BY <1>1 DEF Fork, At, WantsChild, WithinLimits, control
  <2> QED
    BY <1>0, <2>1 DEF WithinLimits
<1>2. ASSUME NEW c \in Pids, Bury(c) PROVE WithinLimits'
  <2>1. /\ PoolOf(c) \in Pools
        /\ running_children' =
             [running_children EXCEPT ![PoolOf(c)] = running_children[PoolOf(c)] - 1]
    BY <1>2, BuryUnlinks
  <2>2. \/ pc' = "bury"
        \/ /\ wp' = PoolOf(c)
           /\ max' \in {running_children[PoolOf(c)], pm_max_children[PoolOf(c)]}
    BY <1>2 DEF Bury, StartMake, At
  <2> QED
    BY <1>0, <2>1, <2>2 DEF WithinLimits
<1>3. CASE CreateInitial
  <2>1. UNCHANGED running_children
    BY <1>3 DEF CreateInitial, books
  <2>2. \/ pc' = "signals"
        \/ /\ wp' \in Pools
           /\ max' = IF pm[wp'] = "dynamic" THEN pm_start_servers[wp'] ELSE pm_max_children[wp']
    BY <1>3 DEF CreateInitial, StartMake, Goto, TypeOK
  <2>3. \A w \in Pools : /\ pm_max_children[w] \in Nat
                         /\ pm[w] = "dynamic" => pm_start_servers[w] =< pm_max_children[w]
    BY ConfAssumption
  <2> QED
    BY <2>1, <2>2, <2>3 DEF WithinLimits
<1>4. CASE SpawnIdle
  BY <1>4, SpawnTarget DEF SpawnIdle, StartMake, WithinLimits, books
<1>5. CASE UNCHANGED running_children /\ pc' # "make"
  BY <1>5 DEF WithinLimits
<1>6. ASSUME \/ Made \/ ForkFails \/ ReadSignal \/ Drained \/ NoneToBury \/ Skip \/ Timers
             \/ NextPool \/ Suffices \/ TerminateRequest \/ Checked
             \/ (\E c \in Pids : ReadSlot(c) \/ KillIdle(c) \/ CopySlot(c))
      PROVE  UNCHANGED running_children /\ pc' # "make"
  <2>1. UNCHANGED running_children
    BY <1>6 DEF Made, ForkFails, ReadSignal, Drained, NoneToBury, Skip, Timers, PctlTimer,
                IdleTimer, RequestTimer, NextPool, Suffices, TerminateRequest, Checked, ReadSlot,
                KillIdle, CopySlot, books
  <2>2. pc' # "make"
    BY <1>6 DEF Made, ForkFails, Return, ReadSignal, Drained, NoneToBury, Skip, Timers, PctlTimer,
                IdleTimer, RequestTimer, NextPool, Suffices, EndScan, TerminateRequest, Checked,
                ReadSlot, KillIdle, CopySlot, At, Goto, TypeOK
  <2> QED
    BY <2>1, <2>2
<1>7. CASE UNCHANGED <<running_children, pc, wp, max>>
  BY <1>7 DEF WithinLimits
<1>8. ASSUME \/ FaultsAge \/ (\E s \in Signals : Signal(s))
             \/ (\E s \in Signals \union {"CHLD"} : sig_handler(s))
             \/ (\E c \in Pids : WorkerStep(c) \/ \E sig \in Kills : Deliver(c, sig))
             \/ UNCHANGED vars
      PROVE  UNCHANGED <<running_children, pc, wp, max>>
  BY <1>8 DEF FaultsAge, Signal, sig_handler, WorkerStep, InitChild, InitChildFails, Accept,
              QuitIdle, CloseConnection, Retire, KeepConnection, NextRequest, TimePasses, Crash,
              Deliver, masters, control, books, vars
<1> QED
  BY <1>1, <1>2, <1>3, <1>4, <1>5, <1>6, <1>7, <1>8 DEF Next, MasterStep

-----------------------------------------------------------------------------
(* How the mode moves, and when the master leaves.                          *)

\* The states of the stop, the weaker first, and the end of the master.
Urgent(old, new) ==
  \/ old = new
  \/ old = "normal" /\ new \in {"reloading", "finishing", "terminating"}
  \/ old = "reloading" /\ new \in {"finishing", "terminating"}
  \/ old = "finishing" /\ new = "terminating"

\* A step leaves master and fpm_state alone, or a running master moves to a
\* state at least as urgent and leaves only if it leaves nobody.
Moves ==
  \/ UNCHANGED <<master, fpm_state>>
  \/ /\ master = "running" /\ Urgent(fpm_state, fpm_state')
     /\ master' # "running" => Linked' = {}

\* Every way to the end, the action at once, the timer or the last burial,
\* looks at the counter, which is zero, or one at the last burial, only if
\* nobody else is left.
LEMMA ModeStep ==
  ASSUME TypeOK, Books, [Next]_vars
  PROVE  Moves
<1>1. CASE ReadSignal
  <2>1. master = "running" /\ UNCHANGED children
    BY <1>1 DEF ReadSignal, At, books
  <2>2. UNCHANGED <<master, fpm_state>> \/ \E new \in States : SetState(new)
    BY <1>1, SignalSetsState DEF stop
  <2>3. ASSUME NEW new \in States, SetState(new), ~ UNCHANGED <<master, fpm_state>> PROVE Moves
    <3>1. Overrides(new, fpm_state) /\ fpm_state' = new /\ ActionNext(new, NONE, TRUE)
      BY <2>3 DEF SetState, stop
    <3>2. Urgent(fpm_state, new)
      BY <3>1, <2>3 DEF Overrides, Urgent, TypeOK, States
    <3>3. UNCHANGED master \/ fpm_globals_running_children = 0
      BY <3>1 DEF ActionNext
    <3> QED
      BY <2>1, <3>1, <3>2, <3>3, CounterTells DEF Moves, Linked
  <2> QED
    BY <2>2, <2>3 DEF Moves
<1>2. CASE PctlTimer
  <2>1. master = "running" /\ UNCHANGED <<children, fpm_state>>
    BY <1>2 DEF PctlTimer, At, books
  <2>2. UNCHANGED master \/ fpm_globals_running_children = 0
    BY <1>2 DEF PctlTimer, ActionNext
  <2> QED
    BY <2>1, <2>2, CounterTells DEF Moves, Linked, Urgent
<1>3. ASSUME NEW c \in Pids, Bury(c) PROVE Moves
  <2>1. master = "running" /\ ChildExited(c) /\ Linked' = Linked \ {c} /\ c \in Linked
    BY <1>3, BuryUnlinks DEF Bury, At
  <2>2. fpm_globals_running_children = 1 => Linked' = {}
    BY <2>1, CounterTells
  <2>3. CASE fpm_state # "normal" /\ fpm_globals_running_children = 1
    BY <2>1, <2>2, <2>3 DEF ChildExited, Moves, Urgent
  <2>4. CASE /\ ~ (fpm_state # "normal" /\ fpm_globals_running_children = 1)
             /\ ThresholdReached(c) /\ Overrides("reloading", fpm_state)
    <3>1. fpm_state' = "reloading" /\ Urgent(fpm_state, "reloading")
      BY <2>1, <2>4 DEF ChildExited, Overrides, Urgent
    <3>2. UNCHANGED master \/ fpm_globals_running_children = 1
      BY <2>1, <2>4 DEF ChildExited
    <3> QED
      BY <2>1, <2>2, <3>1, <3>2 DEF Moves
  <2>5. CASE /\ ~ (fpm_state # "normal" /\ fpm_globals_running_children = 1)
             /\ ~ (ThresholdReached(c) /\ Overrides("reloading", fpm_state))
    BY <2>1, <2>5 DEF ChildExited, stop, Moves
  <2> QED
    BY <2>3, <2>4, <2>5
<1>4. CASE UNCHANGED <<master, fpm_state>>
  BY <1>4 DEF Moves
<1>5. ASSUME \/ CreateInitial \/ Made \/ ForkFails \/ Drained \/ NoneToBury \/ Skip
             \/ IdleTimer \/ RequestTimer \/ NextPool \/ SpawnIdle \/ Suffices
             \/ TerminateRequest \/ Checked
             \/ (\E c \in Pids : Fork(c) \/ ReadSlot(c) \/ KillIdle(c) \/ CopySlot(c))
      PROVE  UNCHANGED <<master, fpm_state>>
  BY <1>5 DEF CreateInitial, Made, ForkFails, Drained, NoneToBury, Skip, IdleTimer, RequestTimer,
              NextPool, SpawnIdle, Suffices, TerminateRequest, Checked, Fork, ReadSlot, KillIdle,
              CopySlot, stop
<1>6. ASSUME \/ FaultsAge \/ (\E s \in Signals : Signal(s))
             \/ (\E s \in Signals \union {"CHLD"} : sig_handler(s))
             \/ (\E c \in Pids : WorkerStep(c) \/ \E sig \in Kills : Deliver(c, sig))
             \/ UNCHANGED vars
      PROVE  UNCHANGED <<master, fpm_state>>
  BY <1>6 DEF FaultsAge, Signal, sig_handler, WorkerStep, InitChild, InitChildFails, Accept,
              QuitIdle, CloseConnection, Retire, KeepConnection, NextRequest, TimePasses, Crash,
              Deliver, masters, stop, vars
<1> QED
  BY <1>1, <1>2, <1>3, <1>4, <1>5, <1>6 DEF Next, MasterStep, Timers
\* The master that left does nothing any more.
LEMMA LeftForGood ==
  ASSUME TypeOK, Books, NobodyIsLeft, [Next]_vars
  PROVE  NobodyIsLeft'
<1>1. ASSUME NEW c \in Pids, Fork(c) PROVE NobodyIsLeft'
  BY <1>1 DEF Fork, At, stop, NobodyIsLeft
<1>2. ASSUME NEW c \in Pids, Bury(c) PROVE NobodyIsLeft'
  <2>1. master = "running"
    BY <1>2 DEF Bury, At
  <2> QED
    BY <2>1, ModeStep DEF Moves, NobodyIsLeft
<1>3. CASE UNCHANGED books
  <2>1. Linked' = Linked
    BY <1>3 DEF books, Linked
  <2> QED
    BY <2>1, ModeStep DEF Moves, NobodyIsLeft
<1> QED
  BY <1>1, <1>2, <1>3, BooksChange

\* The invariant holds when the master starts.
LEMMA InvariantStarts ==
  ASSUME Init
  PROVE  IInv
<1>1. FirstPool \in Pools
  BY ConfAssumption DEF FirstPool
<1>2. Linked = {}
  BY DEF Init, Linked
<1>3. TypeOK
  <2>1. ControlType /\ BooksType
    BY <1>1 DEF Init, ControlType, BooksType
  <2>2. StopType
    BY DEF Init, StopType, States
  <2>4. TuningType
    BY BoundAssumption DEF Init, TuningType
  <2>3. WorldType
    BY DEF Init, WorldType
  <2> QED
    BY <2>1, <2>2, <2>3, <2>4 DEF TypeOK, ControlType, BooksType, StopType, TuningType, WorldType
<1>4. Books
  BY <1>2, FS_EmptySet DEF Init, Books
<1>5. WithinLimits
  BY ConfAssumption DEF Init, WithinLimits
<1> QED
  BY <1>2, <1>3, <1>4, <1>5 DEF IInv, NobodyIsLeft

\* The inductive invariant holds in every state.
LEMMA Invariant == Spec => []IInv
<1>1. IInv /\ [Next]_vars => IInv'
  BY TypeStep, BooksStep, LimitsStep, LeftForGood DEF IInv
<1> QED
  BY <1>1, InvariantStarts, PTL DEF Spec

\* The state stays typed, whatever the configuration and however many
\* processes, signals and failures there are.
THEOREM TypeCorrect == Spec => []TypeOK
<1>1. IInv => TypeOK
  BY DEF IInv
<1> QED
  BY <1>1, Invariant, PTL

\* The master's lists and counters agree with the processes there are, after
\* any order of forks, deaths, burials and signals: the counter that lets the
\* master leave (fpm_pctl_child_exited) never forgets a worker.
THEOREM BooksAreTheKernels == Spec => []Books
<1>1. IInv => Books
  BY DEF IInv
<1> QED
  BY <1>1, Invariant, PTL

-----------------------------------------------------------------------------
(* The master implements the service.                                       *)

\* What the service sees of the state of the stop.
Mode == IF master = "running" THEN fpm_state ELSE "gone"

\* The service's mode moves as the master's does.
LEMMA ModeMoves ==
  ASSUME IInv, IInv', Moves
  PROVE  Service!Urge
<1>1. /\ master \in {"running", "exec", "exit"} /\ master' \in {"running", "exec", "exit"}
      /\ fpm_state \in States /\ fpm_state' \in States
  BY DEF IInv, TypeOK
<1>2. /\ Service!Modes[1] = "normal" /\ Service!Modes[2] = "reloading"
      /\ Service!Modes[3] = "finishing" /\ Service!Modes[4] = "terminating"
      /\ Service!Modes[5] = "gone"
  BY DEF Service!Modes
<1>3. \E i \in 1 .. 5 : \E j \in i .. 5 : Mode = Service!Modes[i] /\ Mode' = Service!Modes[j]
  <2>1. CASE master' # "running"
    BY <1>1, <1>2, <2>1 DEF Mode, States
  <2>2. CASE master' = "running"
    <3>1. /\ master = "running" /\ Mode = fpm_state /\ Mode' = fpm_state'
          /\ Urgent(fpm_state, fpm_state')
      BY <2>2 DEF Moves, Mode, Urgent
    <3> HIDE DEF Mode
    <3> QED
      BY <1>1, <1>2, <3>1 DEF Urgent, States
  <2> QED
    BY <2>1, <2>2
<1>4. Mode' = "gone" => \A w \in Pools : children'[w] = {}
  BY <1>1 DEF Mode, States, IInv, NobodyIsLeft, Linked
<1> QED
  BY <1>3, <1>4 DEF Service!Urge, Service!Nobody, Mode

\* A step of the master is a step of the service, or one it does not see.
LEMMA ServiceStep ==
  ASSUME IInv, IInv', [Next]_vars
  PROVE  Service!Next \/ UNCHANGED <<children, Mode>>
<1>0. /\ TypeOK /\ Books /\ WithinLimits /\ TypeOK'
      /\ children \in [Pools -> SUBSET Pids] /\ wp \in Pools
      /\ Linked = UNION {children[v] : v \in Pools}
  BY DEF IInv, TypeOK, Linked
<1>1. ASSUME NEW c \in Pids, Fork(c) PROVE Service!Next
  <2>1. /\ master = "running" /\ fpm_state = "normal" /\ UNCHANGED <<master, fpm_state>>
        /\ proc[c] = "free" /\ running_children[wp] < max /\ pc = "make"
        /\ children' = [children EXCEPT ![wp] = children[wp] \union {c}]
    BY <1>1 DEF Fork, At, WantsChild, fpm_pctl_can_spawn_children, stop
  <2>2. Cardinality(children[wp]) < pm_max_children[wp]
    <3>1. /\ running_children[wp] \in Nat /\ pm_max_children[wp] \in Nat /\ max \in Nat
          /\ max =< pm_max_children[wp] /\ running_children[wp] = Cardinality(children[wp])
      BY <1>0, <2>1, ConfAssumption DEF TypeOK, Books, WithinLimits
    <3> QED
      BY <2>1, <3>1
  <2>3. c \notin Linked
    BY <1>0, <2>1 DEF Books
  <2>4. Service!Join(wp, c)
    <3>1. c \notin UNION {children[v] : v \in Pools}
      BY <1>0, <2>3
    <3>2. Mode = "normal" /\ Mode' = Mode
      BY <2>1 DEF Mode
    <3> QED
      BY <2>1, <2>2, <3>1, <3>2 DEF Service!Join, Mode, Cardinality, Service!Cardinality
  <2> QED
    BY <1>0, <2>4 DEF Service!Next
<1>2. ASSUME NEW c \in Pids, Bury(c) PROVE Service!Next
  <2>1. /\ PoolOf(c) \in Pools /\ c \in children[PoolOf(c)]
        /\ children' = [children EXCEPT ![PoolOf(c)] = children[PoolOf(c)] \ {c}]
    BY <1>0, <1>2, BuryUnlinks
  <2>2. Service!Urge
    BY <1>0, ModeStep, ModeMoves
  <2>3. Service!Leave(PoolOf(c), c)
    BY <2>1, <2>2 DEF Service!Leave
  <2> QED
    BY <2>1, <2>3 DEF Service!Next
<1>3. CASE UNCHANGED children
  <2>1. Service!Urge
    BY <1>0, ModeStep, ModeMoves
  <2>2. CASE Mode' # Mode
    <3>1. Mode # "gone"
      BY <1>0, <2>2, ModeStep DEF Mode, Moves, TypeOK, States
    <3>2. Service!Stop
      BY <1>3, <2>1, <2>2, <3>1 DEF Service!Stop, Mode
    <3> QED
      BY <3>2 DEF Service!Next
  <2> QED
    BY <1>3, <2>2
<1> QED
  BY <1>0, <1>1, <1>2, <1>3, BooksChange DEF books

\* Seen from outside, the master is the service: pools never above
\* pm.max_children whoever adds or replaces workers, no worker after a stop
\* began, a stop that is only made more urgent, nobody left behind.
THEOREM ImplementsService == Spec => AbstractSpec
<1>1. Init => Service!Init
  BY DEF Init, Service!Init
<1>2. IInv /\ IInv' /\ [Next]_vars => [Service!Next]_(Service!vars)
  BY ServiceStep DEF Service!vars, Mode
<1> QED
  BY <1>1, <1>2, Invariant, PTL DEF Spec, AbstractSpec, Service!Spec

-----------------------------------------------------------------------------
(* No worker the maintenance gave up stays.                                 *)

\* A worker that starts is not marked, shows an empty slot, and is not among
\* those the scan has read as idle.
MarkedOf(c) ==
  /\ c \in idle_kill /\ Live(c) => "QUIT" \in pending[c] \/ c \in in_shutdown
  /\ proc[c] = "starting" =>
       c \notin idle_kill /\ request_stage[c] = NONE /\ (pc = "scan" => c \notin seen)

Marks == \A c \in Pids : MarkedOf(c)

\* Signals are taken from a process by its delivery, its end or its fork only.
Keeps(c) == pending[c] \subseteq pending'[c]

\* What fpm_pctl does adds signals.
LEMMA StopAddsSignals ==
  ASSUME TypeOK, NEW c \in Pids
  PROVE  /\ \A who, sig : Kill(who, sig) => Keeps(c)
         /\ \A who, sig : Kill(who, sig) /\ c \in who /\ Live(c) => sig \in pending'[c]
         /\ \A state, sent_before, armed : ActionNext(state, sent_before, armed) => Keeps(c)
         /\ \A state : SetState(state) => Keeps(c)
         /\ UNCHANGED pending => Keeps(c)
<1>1. \A who, sig : Kill(who, sig) => Keeps(c)
  BY DEF Kill, Keeps, TypeOK
<1>2. \A who, sig : Kill(who, sig) /\ c \in who /\ Live(c) => sig \in pending'[c]
  BY DEF Kill, TypeOK
<1>3. UNCHANGED pending => Keeps(c)
  BY DEF Keeps
<1>4. \A state, sent_before, armed : ActionNext(state, sent_before, armed) => Keeps(c)
  BY <1>1, <1>3 DEF ActionNext
<1>5. \A state : SetState(state) => Keeps(c)
  BY <1>3, <1>4 DEF SetState
<1> QED
  BY <1>1, <1>2, <1>3, <1>4, <1>5

\* The steps of the master that neither mark, fork, bury nor read a slot.
LEMMA MasterMarks ==
  ASSUME TypeOK, Marks, NEW c \in Pids,
         \/ CreateInitial \/ Made \/ ReadSignal \/ Drained \/ NoneToBury \/ Skip \/ Timers
         \/ NextPool \/ SpawnIdle \/ Suffices \/ TerminateRequest \/ Checked \/ ForkFails \/ FaultsAge
         \/ (\E d \in Pids : CopySlot(d)) \/ (\E s \in Signals : Signal(s))
         \/ (\E s \in Signals \union {"CHLD"} : sig_handler(s)) \/ UNCHANGED vars
  PROVE  MarkedOf(c)'
<1>1. MarkedOf(c)
  BY DEF Marks
<1>2. UNCHANGED <<idle_kill, proc, request_stage, in_shutdown>>
  BY DEF CreateInitial, Made, ReadSignal, Drained, NoneToBury, Skip, Timers, PctlTimer, IdleTimer,
         RequestTimer, NextPool, SpawnIdle, Suffices, TerminateRequest, Checked, ForkFails,
         FaultsAge, CopySlot, Signal, sig_handler, vars, tuning, kernel, worker
<1>3. Keeps(c)
  <2>1. CASE ReadSignal
    BY <2>1, StopAddsSignals DEF ReadSignal
  <2>2. CASE Timers
    BY <2>2, StopAddsSignals DEF Timers, PctlTimer, IdleTimer, RequestTimer, kernel
  <2>3. CASE TerminateRequest
    BY <2>3, StopAddsSignals DEF TerminateRequest
  <2>4. CASE ~ (ReadSignal \/ Timers \/ TerminateRequest)
    <3>1. UNCHANGED pending
      BY <2>4 DEF CreateInitial, Made, Drained, NoneToBury, Skip, NextPool, SpawnIdle, Suffices,
                  Checked, ForkFails, FaultsAge, CopySlot, Signal, sig_handler, vars, kernel
    <3> QED
      BY <3>1, StopAddsSignals
  <2> QED
    BY <2>1, <2>2, <2>3, <2>4
<1>4. pc' = "scan" => seen' = {} \/ (seen' = seen /\ pc = "scan")
  BY DEF CreateInitial, Made, ReadSignal, Drained, NoneToBury, Skip, Timers, PctlTimer, IdleTimer,
         RequestTimer, NextPool, SpawnIdle, Suffices, TerminateRequest, Checked, ForkFails,
         FaultsAge, CopySlot, Signal, sig_handler, vars, control, StartMake, Return, EndScan,
         At, Goto, TypeOK
<1> QED
  BY <1>1, <1>2, <1>3, <1>4 DEF MarkedOf, Live, Keeps

\* The steps of a worker, and a signal's way to it.
LEMMA WorkerMarks ==
  ASSUME TypeOK, Marks, NEW c \in Pids, NEW d \in Pids,
         WorkerStep(d) \/ \E sig \in Kills : Deliver(d, sig)
  PROVE  MarkedOf(c)'
<1>0. /\ MarkedOf(c) /\ pending \in [Pids -> SUBSET Kills]
      /\ proc \in [Pids -> Alive \union Dead \union {"free"}]
      /\ request_stage \in [Pids -> {NONE, "accepting", "active"}]
  BY DEF Marks, TypeOK
<1>1. UNCHANGED <<idle_kill, pc, seen>>
  BY DEF WorkerStep, InitChild, InitChildFails, Accept, QuitIdle, CloseConnection, Retire,
         KeepConnection, NextRequest, TimePasses, Crash, Deliver, masters, control, tuning
<1>2. ASSUME NEW how \in Dead, Ends(d, how) PROVE MarkedOf(c)'
  <2>1. proc'[d] = how /\ ~ (how = "starting") /\ how \notin Alive
    BY <1>0, <1>2 DEF Ends, Dead, Alive, Serving
  <2>2. c # d => /\ proc'[c] = proc[c] /\ pending'[c] = pending[c]
                 /\ (c \in in_shutdown' <=> c \in in_shutdown)
    BY <1>0, <1>2 DEF Ends
  <2> QED
    BY <1>0, <1>1, <1>2, <2>1, <2>2 DEF MarkedOf, Live, Ends
<1>3. ASSUME NEW state \in Alive \ {"starting"}, NEW stage, Becomes(d, state, stage), Live(d),
             UNCHANGED in_shutdown,
             proc[d] = "starting" => d \notin idle_kill
      PROVE  MarkedOf(c)'
  <2>1. proc'[d] = state /\ UNCHANGED pending
    BY <1>0, <1>3 DEF Becomes
  <2>2. c # d => proc'[c] = proc[c] /\ request_stage'[c] = request_stage[c]
    BY <1>0, <1>3 DEF Becomes
  <2> QED
    BY <1>0, <1>1, <1>3, <2>1, <2>2 DEF MarkedOf, Live
<1>4. CASE InitChild(d) \/ Accept(d) \/ CloseConnection(d) \/ KeepConnection(d) \/ NextRequest(d)
  <2>1. proc[d] = "starting" => d \notin idle_kill
    BY DEF Marks, MarkedOf
  <2>2. Live(d) /\ UNCHANGED in_shutdown
    BY <1>4 DEF InitChild, Accept, CloseConnection, KeepConnection, NextRequest, Live, Alive, Serving
  <2>3. \E state \in Alive \ {"starting"} : \E stage : Becomes(d, state, stage)
    BY <1>4 DEF InitChild, Accept, CloseConnection, KeepConnection, NextRequest, Alive, Serving
  <2> QED
    BY <1>3, <2>1, <2>2, <2>3
<1>5. CASE InitChildFails(d) \/ QuitIdle(d) \/ Retire(d) \/ Crash(d)
  BY <1>2, <1>5 DEF InitChildFails, QuitIdle, Retire, Crash, Dead
<1>6. CASE TimePasses(d)
  BY <1>0, <1>1, <1>6 DEF TimePasses, kernel, MarkedOf, Live
<1>7. ASSUME NEW sig \in Kills, Deliver(d, sig) PROVE MarkedOf(c)'
  <2>1. CASE Ends(d, "killed")
    BY <1>2, <2>1 DEF Dead
  <2>2. CASE ~ Ends(d, "killed")
    <3>1. /\ pending' = [pending EXCEPT ![d] = pending[d] \ {sig}]
          /\ in_shutdown' = IF sig = "QUIT" /\ proc[d] # "starting"
                            THEN in_shutdown \union {d} ELSE in_shutdown
          /\ UNCHANGED <<proc, request_stage>>
      BY <1>7, <2>2 DEF Deliver
    <3>2. c # d => pending'[c] = pending[c]
      BY <1>0, <3>1
    <3>3. pending'[d] = pending[d] \ {sig}
      BY <1>0, <3>1
    <3> QED
      BY <1>0, <1>1, <3>1, <3>2, <3>3 DEF MarkedOf, Live
  <2> QED
    BY <2>1, <2>2
<1> QED
  BY <1>4, <1>5, <1>6, <1>7 DEF WorkerStep

\* A worker is marked when the scan has read its slot as idle, which a worker
\* that starts does not show, and forgotten when it is forked again.
LEMMA MarksStep ==
  ASSUME TypeOK, Marks, [Next]_vars
  PROVE  Marks'
<1> SUFFICES ASSUME NEW c \in Pids PROVE MarkedOf(c)'
  BY DEF Marks
<1>0. MarkedOf(c) /\ proc \in [Pids -> Alive \union Dead \union {"free"}]
  BY DEF Marks, TypeOK
<1>1. ASSUME NEW d \in Pids, Fork(d) PROVE MarkedOf(c)'
  <2>1. /\ pc = "make" /\ UNCHANGED <<pc, seen, in_shutdown>>
        /\ proc' = [proc EXCEPT ![d] = "starting"]
        /\ pending' = [pending EXCEPT ![d] = {}]
        /\ request_stage' = [request_stage EXCEPT ![d] = NONE]
        /\ idle_kill' = idle_kill \ {d}
    BY <1>1 DEF Fork, At, ClearSlot, control
  <2>2. CASE c = d
    <3>1. request_stage'[c] = NONE
      BY <2>1, <2>2 DEF TypeOK
    <3> QED
      BY <2>1, <2>2, <3>1 DEF MarkedOf
  <2>3. CASE c # d
    <3>1. /\ proc'[c] = proc[c] /\ pending'[c] = pending[c]
          /\ request_stage'[c] = request_stage[c]
      BY <2>1, <2>3 DEF TypeOK
    <3> QED
      BY <1>0, <2>1, <2>3, <3>1 DEF MarkedOf, Live
  <2> QED
    BY <2>2, <2>3
<1>2. ASSUME NEW d \in Pids, Bury(d) PROVE MarkedOf(c)'
  <2>1. /\ proc' = [proc EXCEPT ![d] = "free"]
        /\ UNCHANGED <<seen, idle_kill, request_stage, in_shutdown>>
        /\ pc' \in {"bury", "make"}
    BY <1>2 DEF Bury, At, StartMake, Goto, worker
  <2>2. Keeps(c)
    BY <1>2, StopAddsSignals DEF Bury, ChildExited
  <2>3. proc'[c] = IF c = d THEN "free" ELSE proc[c]
    BY <1>0, <2>1
  <2> QED
    BY <1>0, <2>1, <2>2, <2>3 DEF MarkedOf, Live, Keeps, Alive, Serving
<1>3. ASSUME NEW d \in Pids, ReadSlot(d) PROVE MarkedOf(c)'
  <2>1. /\ UNCHANGED <<pc, idle_kill, proc, pending, request_stage, in_shutdown>> /\ pc = "scan"
        /\ seen' = IF request_stage[d] = "accepting" THEN seen \union {d} ELSE seen
    BY <1>3 DEF ReadSlot, At, kernel, tuning, worker
  <2> QED
    BY <1>0, <2>1 DEF MarkedOf, Live, NONE
<1>4. ASSUME NEW d \in Pids, KillIdle(d) PROVE MarkedOf(c)'
  <2>1. /\ UNCHANGED <<proc, request_stage, in_shutdown>> /\ pc = "scan" /\ d \in seen
        /\ idle_kill' = idle_kill \union {d} /\ Kill({d}, "QUIT") /\ pc' = "pools"
    BY <1>4 DEF KillIdle, Scanned, EndScan, At, Goto, worker
  <2>2. Keeps(c) /\ (c = d /\ Live(c) => "QUIT" \in pending'[c])
    BY <2>1, StopAddsSignals
  <2> QED
    BY <1>0, <2>1, <2>2 DEF MarkedOf, Live, Keeps
<1> QED
  BY <1>1, <1>2, <1>3, <1>4, MasterMarks, WorkerMarks DEF Next, MasterStep

\* A worker the maintenance marked, and will not replace, leaves: it has its
\* SIGQUIT before it or has taken it (fpm_pctl_perform_idle_server_maintenance,
\* fpm_children_bury), whatever the pools, the processes and their order.
THEOREM MarkedWorkersLeave == Spec => []MarkedAreLeaving
<1>1. Init => Marks
  BY DEF Init, Marks, MarkedOf
<1>2. IInv /\ Marks /\ [Next]_vars => Marks'
  BY MarksStep DEF IInv
<1>3. IInv /\ Marks => MarkedAreLeaving
  BY DEF IInv, TypeOK, Marks, MarkedOf, MarkedAreLeaving
<1> QED
  BY <1>1, <1>2, <1>3, Invariant, PTL DEF Spec

-----------------------------------------------------------------------------
(* No death goes unnoticed.                                                 *)

\* The characters of the socketpair that are not SIGCHLD's, and the signals of
\* an operator on their way: no more than were sent.
Orders == {i \in DOMAIN sp : sp[i] # "CHLD"}
Coming == raised \intersect Signals

OrdersAreSent ==
  /\ Cardinality(Orders) + Cardinality(Coming) =< sent
  /\ sent =< MaxSignals

LEMMA FiniteOrders ==
  ASSUME TypeOK
  PROVE  /\ Orders \subseteq 1 .. Len(sp) /\ IsFiniteSet(Orders) /\ Cardinality(Orders) \in Nat
         /\ IsFiniteSet(Coming) /\ Cardinality(Coming) \in Nat /\ sent \in Nat
<1>1. Len(sp) \in Nat /\ DOMAIN sp = 1 .. Len(sp)
  BY DEF TypeOK
<1>2. Orders \subseteq 1 .. Len(sp) /\ IsFiniteSet(1 .. Len(sp))
  BY <1>1, FS_Interval DEF Orders
<1>3. IsFiniteSet(Signals)
  <2>1. Signals = ({"TERM"} \union {"QUIT"}) \union {"USR2"}
    BY DEF Signals
  <2>2. \A s : IsFiniteSet({s})
    BY FS_Singleton
  <2> QED
    BY <2>1, <2>2, FS_Union
<1>4. IsFiniteSet(Coming)
  BY <1>3, FS_Subset DEF Coming
<1> QED
  BY <1>2, <1>4, FS_Subset, FS_CardinalityType DEF TypeOK

\* Reading a character leaves no more orders than there were.
LEMMA FewerOrders ==
  ASSUME TypeOK, sp # <<>>, sp' = Tail(sp)
  PROVE  Cardinality(Orders') =< Cardinality(Orders) /\ Cardinality(Orders') \in Nat
<1> DEFINE f == [i \in Orders |-> i - 1]
           S == {f[i] : i \in Orders}
<1>1. sp \in Seq(Signals \union {"CHLD"}) /\ Len(sp) \in Nat /\ Len(sp) > 0
  BY EmptySeq DEF TypeOK
<1>2. /\ Len(sp') = Len(sp) - 1 /\ DOMAIN sp' = 1 .. Len(sp) - 1
      /\ \A i \in 1 .. Len(sp) - 1 : sp'[i] = sp[i + 1]
  BY <1>1, HeadTailProperties
<1>3. Orders' \subseteq S
  <2> SUFFICES ASSUME NEW i \in 1 .. Len(sp) - 1, sp'[i] # "CHLD" PROVE i \in S
    BY <1>2 DEF Orders
  <2>1. i + 1 \in Orders
    BY <1>1, <1>2 DEF Orders
  <2>2. f[i + 1] = i
    BY <1>1, <2>1
  <2> QED
    BY <2>1, <2>2
<1>4. IsFiniteSet(Orders)
  BY FiniteOrders
<1>5. IsFiniteSet(S) /\ Cardinality(S) =< Cardinality(Orders)
  <2>1. f \in Surjection(Orders, S)
    BY DEF Surjection
  <2> HIDE DEF f, S
  <2> QED
    BY <1>4, <2>1, FS_Surjection
<1>6. IsFiniteSet(Orders') /\ Cardinality(Orders') =< Cardinality(S)
  BY <1>3, <1>5, FS_Subset
<1> QED
  BY <1>4, <1>5, <1>6, FS_CardinalityType

\* A character that is written is an order less on its way.
LEMMA OrderWritten ==
  ASSUME TypeOK, OrdersAreSent, NEW s \in Signals \union {"CHLD"}, sig_handler(s)
  PROVE  OrdersAreSent'
<1>0. /\ s \in raised /\ raised' = raised \ {s} /\ UNCHANGED sent
      /\ sp' = IF Len(sp) < PipeSize THEN Append(sp, s) ELSE sp
  BY DEF sig_handler, bounds
<1>1. /\ IsFiniteSet(Orders) /\ Cardinality(Orders) \in Nat /\ Orders \subseteq 1 .. Len(sp)
      /\ IsFiniteSet(Coming) /\ Cardinality(Coming) \in Nat /\ sent \in Nat /\ MaxSignals \in Nat
  BY FiniteOrders, BoundAssumption
<1>2. Len(sp) \in Nat /\ DOMAIN sp = 1 .. Len(sp)
  BY DEF TypeOK
<1>3. Orders' \subseteq IF s = "CHLD" THEN Orders ELSE Orders \union {Len(sp) + 1}
  <2>1. CASE Len(sp) < PipeSize
    <3>1. /\ DOMAIN sp' = 1 .. Len(sp) + 1 /\ sp'[Len(sp) + 1] = s
          /\ \A i \in 1 .. Len(sp) : sp'[i] = sp[i]
      BY <1>0, <2>1, AppendProperties DEF TypeOK
    <3> QED
      BY <1>2, <3>1 DEF Orders
  <2>2. CASE ~ Len(sp) < PipeSize
    BY <1>0, <2>2 DEF Orders
  <2> QED
    BY <2>1, <2>2
<1>4. CASE s = "CHLD"
  <2>1. Coming' = Coming
    BY <1>0, <1>4 DEF Coming, Signals
  <2>2. Cardinality(Orders') =< Cardinality(Orders) /\ Cardinality(Orders') \in Nat
    BY <1>1, <1>3, <1>4, FS_Subset, FS_CardinalityType
  <2> QED
    BY <1>0, <1>1, <2>1, <2>2 DEF OrdersAreSent
<1>5. CASE s # "CHLD"
  <2>1. s \in Coming /\ Coming' = Coming \ {s}
    BY <1>0, <1>5 DEF Coming
  <2>2. Cardinality(Coming') = Cardinality(Coming) - 1
    BY <1>1, <2>1, FS_RemoveElement
  <2>3. Len(sp) + 1 \notin Orders
    BY <1>1, <1>2
  <2>4. /\ IsFiniteSet(Orders \union {Len(sp) + 1})
        /\ Cardinality(Orders \union {Len(sp) + 1}) = Cardinality(Orders) + 1
    BY <1>1, <2>3, FS_AddElement
  <2>5. Cardinality(Orders') =< Cardinality(Orders) + 1 /\ Cardinality(Orders') \in Nat
    BY <1>3, <1>5, <2>4, FS_Subset, FS_CardinalityType
  <2> QED
    BY <1>0, <1>1, <2>2, <2>5 DEF OrdersAreSent
<1> QED
  BY <1>4, <1>5

\* Workers raise SIGCHLD only, and nobody else touches signals and socketpair.
LEMMA QuietSignals ==
  ASSUME TypeOK, [Next]_vars,
         ~ ReadSignal, ~ (\E s \in Signals : Signal(s)),
         ~ (\E s \in Signals \union {"CHLD"} : sig_handler(s))
  PROVE  UNCHANGED <<sp, sent>> /\ (raised' = raised \/ raised' = raised \union {"CHLD"})
<1>1. ASSUME \/ CreateInitial \/ Made \/ ForkFails \/ Drained \/ NoneToBury \/ Skip \/ Timers
             \/ NextPool \/ SpawnIdle \/ Suffices \/ TerminateRequest \/ Checked \/ FaultsAge
             \/ (\E c \in Pids : Fork(c) \/ Bury(c) \/ ReadSlot(c) \/ KillIdle(c) \/ CopySlot(c))
             \/ UNCHANGED vars
      PROVE  UNCHANGED <<sp, sent, raised>>
  BY <1>1 DEF CreateInitial, Made, ForkFails, Drained, NoneToBury, Skip, Timers, PctlTimer,
       IdleTimer, RequestTimer, NextPool, SpawnIdle, Suffices, TerminateRequest, Checked,
       FaultsAge, Fork, Bury, ReadSlot, KillIdle, CopySlot, vars, kernel, bounds
<1>2. ASSUME NEW c \in Pids, WorkerStep(c) \/ \E sig \in Kills : Deliver(c, sig)
      PROVE  UNCHANGED <<sp, sent>> /\ (raised' = raised \/ raised' = raised \union {"CHLD"})
  BY <1>2 DEF WorkerStep, InitChild, InitChildFails, Accept, QuitIdle, CloseConnection, Retire,
       KeepConnection, NextRequest, TimePasses, Crash, Deliver, Ends, Becomes, masters, bounds, kernel
<1> QED
  BY <1>1, <1>2 DEF Next, MasterStep

LEMMA OrdersStep ==
  ASSUME TypeOK, OrdersAreSent, [Next]_vars
  PROVE  OrdersAreSent'
<1>0. /\ Cardinality(Orders) \in Nat /\ IsFiniteSet(Coming) /\ Cardinality(Coming) \in Nat
      /\ sent \in Nat /\ MaxSignals \in Nat
  BY FiniteOrders, BoundAssumption
<1>1. CASE ReadSignal
  <2>1. sp # <<>> /\ sp' = Tail(sp) /\ UNCHANGED <<raised, sent>>
    BY <1>1 DEF ReadSignal, bounds
  <2>2. Cardinality(Orders') =< Cardinality(Orders) /\ Cardinality(Orders') \in Nat /\ Coming' = Coming
    BY <2>1, FewerOrders DEF Coming
  <2> QED
    BY <1>0, <2>1, <2>2 DEF OrdersAreSent
<1>2. ASSUME NEW s \in Signals, Signal(s) PROVE OrdersAreSent'
  <2>1. /\ s \notin Coming /\ Coming' = Coming \union {s} /\ Orders' = Orders
        /\ sent < MaxSignals /\ sent' = sent + 1
    BY <1>2 DEF Signal, Coming, Orders
  <2>2. Cardinality(Coming') = Cardinality(Coming) + 1
    BY <1>0, <2>1, FS_AddElement
  <2> QED
    BY <1>0, <2>1, <2>2 DEF OrdersAreSent
<1>3. CASE \E s \in Signals \union {"CHLD"} : sig_handler(s)
  BY <1>3, OrderWritten
<1>4. CASE UNCHANGED <<sp, sent>> /\ (raised' = raised \/ raised' = raised \union {"CHLD"})
  <2>1. Orders' = Orders /\ Coming' = Coming
    BY <1>4 DEF Orders, Coming, Signals
  <2> QED
    BY <1>4, <2>1 DEF OrdersAreSent
<1> QED
  BY <1>1, <1>2, <1>3, <1>4, QuietSignals

\* A socketpair that takes no more has a SIGCHLD in it.
LEMMA FullHasChild ==
  ASSUME TypeOK, OrdersAreSent, MaxSignals < PipeSize, ~ Len(sp) < PipeSize
  PROVE  \E i \in DOMAIN sp : sp[i] = "CHLD"
<1> SUFFICES ASSUME Orders = DOMAIN sp PROVE FALSE
  BY DEF Orders
<1>1. Len(sp) \in Nat /\ Orders = 1 .. Len(sp) /\ PipeSize \in Nat /\ MaxSignals \in Nat
  BY BoundAssumption DEF TypeOK
<1>2. Cardinality(Orders) = Len(sp)
  <2>1. Cardinality(1 .. Len(sp)) = IF 1 > Len(sp) THEN 0 ELSE Len(sp) - 1 + 1
    BY <1>1, FS_Interval
  <2> QED
    BY <1>1, <2>1
<1> QED
  BY <1>1, <1>2, FiniteOrders DEF OrdersAreSent

\* Where SIGCHLD is on its way, and the master in its waitpid loop.
Told == "CHLD" \in raised \/ \E i \in DOMAIN sp : sp[i] = "CHLD"
Burying == pc = "bury" \/ (pc = "make" /\ back = "bury")

\* A process that dies raises SIGCHLD.
LEMMA DeathTells ==
  ASSUME TypeOK, [Next]_vars, NEW c \in Pids, ~ Zombie(c), Zombie(c)'
  PROVE  "CHLD" \in raised'
<1>0. proc \in [Pids -> Alive \union Dead \union {"free"}]
  BY DEF TypeOK
<1>1. ASSUME UNCHANGED proc PROVE FALSE
  BY <1>1 DEF Zombie
<1>2. ASSUME NEW d \in Pids, NEW s, s \notin Dead, proc' = [proc EXCEPT ![d] = s] PROVE FALSE
  BY <1>0, <1>2 DEF Zombie
<1>3. ASSUME NEW d \in Pids, Fork(d) \/ Bury(d) PROVE FALSE
  <2>1. proc' = [proc EXCEPT ![d] = "starting"] \/ proc' = [proc EXCEPT ![d] = "free"]
    BY <1>3 DEF Fork, Bury
  <2> QED
    BY <1>2, <2>1 DEF Dead
<1>4. ASSUME NEW d \in Pids, WorkerStep(d) \/ \E sig \in Kills : Deliver(d, sig)
      PROVE  "CHLD" \in raised'
  <2>1. CASE \E how : Ends(d, how)
    BY <2>1 DEF Ends
  <2>2. CASE ~ \E how : Ends(d, how)
    <3>1. UNCHANGED proc \/ \E s \in Alive : proc' = [proc EXCEPT ![d] = s]
      BY <1>4, <2>2 DEF WorkerStep, InitChild, InitChildFails, Accept, QuitIdle, CloseConnection,
           Retire, KeepConnection, NextRequest, TimePasses, Crash, Deliver, Becomes, kernel,
           Alive, Serving
    <3> QED
      BY <1>1, <1>2, <3>1 DEF Alive, Dead, Serving
  <2> QED
    BY <2>1, <2>2
<1>5. ASSUME \/ CreateInitial \/ Made \/ ForkFails \/ ReadSignal \/ Drained \/ NoneToBury \/ Skip
             \/ Timers \/ NextPool \/ SpawnIdle \/ Suffices \/ TerminateRequest \/ Checked
             \/ FaultsAge \/ (\E d \in Pids : ReadSlot(d) \/ KillIdle(d) \/ CopySlot(d))
             \/ (\E s \in Signals : Signal(s))
             \/ (\E s \in Signals \union {"CHLD"} : sig_handler(s)) \/ UNCHANGED vars
      PROVE  UNCHANGED proc
  BY <1>5 DEF CreateInitial, Made, ForkFails, ReadSignal, Drained, NoneToBury, Skip, Timers,
       PctlTimer, IdleTimer, RequestTimer, NextPool, SpawnIdle, Suffices, TerminateRequest,
       Checked, FaultsAge, ReadSlot, KillIdle, CopySlot, Signal, sig_handler, vars, kernel
<1> QED
  BY <1>1, <1>3, <1>4, <1>5 DEF Next, MasterStep

\* Word of a death is lost to nobody but the waitpid loop.
LEMMA WordIsKept ==
  ASSUME TypeOK, OrdersAreSent, MaxSignals < PipeSize, [Next]_vars, Told
  PROVE  Told' \/ pc' = "bury"
<1>1. CASE ReadSignal
  <2>1. sp # <<>> /\ sp' = Tail(sp) /\ UNCHANGED raised /\ (Head(sp) = "CHLD" => pc' = "bury")
    BY <1>1 DEF ReadSignal, Goto
  <2>2. CASE Head(sp) # "CHLD"
    <3>1. /\ sp \in Seq(Signals \union {"CHLD"}) /\ Len(sp) \in Nat /\ DOMAIN sp = 1 .. Len(sp)
          /\ Head(sp) = sp[1] /\ DOMAIN sp' = 1 .. Len(sp) - 1
          /\ \A i \in 1 .. Len(sp) - 1 : sp'[i] = sp[i + 1]
      BY <2>1, HeadTailProperties, EmptySeq DEF TypeOK
    <3>2. ASSUME NEW i \in DOMAIN sp, sp[i] = "CHLD" PROVE \E j \in DOMAIN sp' : sp'[j] = "CHLD"
      <4>1. i # 1 /\ i - 1 \in 1 .. Len(sp) - 1
        BY <2>2, <3>1, <3>2
      <4>2. sp'[i - 1] = "CHLD"
        BY <3>1, <3>2, <4>1
      <4> QED
        BY <3>1, <4>1, <4>2
    <3> QED
      BY <2>1, <3>2 DEF Told
  <2> QED
    BY <2>1, <2>2
<1>2. ASSUME NEW s \in Signals \union {"CHLD"}, sig_handler(s) PROVE Told'
  <2>1. raised' = raised \ {s} /\ sp' = IF Len(sp) < PipeSize THEN Append(sp, s) ELSE sp
    BY <1>2 DEF sig_handler
  <2>2. CASE Len(sp) < PipeSize
    <3>1. /\ Len(sp) \in Nat /\ DOMAIN sp = 1 .. Len(sp)
          /\ DOMAIN sp' = 1 .. Len(sp) + 1 /\ sp'[Len(sp) + 1] = s
          /\ \A i \in 1 .. Len(sp) : sp'[i] = sp[i]
      BY <2>1, <2>2, AppendProperties DEF TypeOK
    <3> QED
      BY <2>1, <3>1 DEF Told
  <2>3. CASE ~ Len(sp) < PipeSize
    BY <2>1, <2>3, FullHasChild DEF Told
  <2> QED
    BY <2>2, <2>3
<1>3. CASE \E s \in Signals : Signal(s)
  BY <1>3 DEF Signal, Told
<1>4. CASE UNCHANGED <<sp, sent>> /\ (raised' = raised \/ raised' = raised \union {"CHLD"})
  BY <1>4 DEF Told
<1> QED
  BY <1>1, <1>2, <1>3, <1>4, QuietSignals

\* The master leaves its waitpid loop when there is nobody to bury.
LEMMA BuriesAll ==
  ASSUME TypeOK, [Next]_vars, Burying, ~ Burying'
  PROVE  \A c \in Pids : ~ Zombie(c)'
<1>1. CASE NoneToBury
  BY <1>1 DEF NoneToBury, kernel, Zombie
<1>2. ASSUME NEW c \in Pids, Bury(c) PROVE FALSE
  BY <1>2 DEF Bury, At, StartMake, Goto, Burying
<1>3. CASE Made \/ ForkFails
  BY <1>3 DEF Made, ForkFails, Return, At, Goto, Burying
<1>4. ASSUME \/ CreateInitial \/ ReadSignal \/ Drained \/ Skip
             \/ Timers \/ NextPool \/ SpawnIdle \/ Suffices \/ TerminateRequest \/ Checked
             \/ (\E d \in Pids : ReadSlot(d) \/ KillIdle(d) \/ CopySlot(d))
      PROVE  FALSE
  BY <1>4 DEF CreateInitial, ReadSignal, Drained, Skip, Timers, PctlTimer, IdleTimer,
       RequestTimer, NextPool, SpawnIdle, Suffices, TerminateRequest, Checked, ReadSlot,
       KillIdle, CopySlot, Scanned, At, Burying
<1>5. ASSUME \/ FaultsAge \/ (\E d \in Pids : Fork(d)) \/ (\E s \in Signals : Signal(s))
             \/ (\E s \in Signals \union {"CHLD"} : sig_handler(s))
             \/ (\E c \in Pids : WorkerStep(c) \/ \E sig \in Kills : Deliver(c, sig))
             \/ UNCHANGED vars
      PROVE  UNCHANGED <<pc, back>>
  BY <1>5 DEF FaultsAge, Fork, Signal, sig_handler, WorkerStep, InitChild, InitChildFails, Accept,
       QuitIdle, CloseConnection, Retire, KeepConnection, NextRequest, TimePasses, Crash,
       Deliver, masters, control, vars
<1>6. ASSUME UNCHANGED <<pc, back>> PROVE FALSE
  BY <1>6 DEF Burying
<1> QED
  BY <1>1, <1>2, <1>3, <1>4, <1>5, <1>6 DEF Next, MasterStep

\* Somebody who died is to be buried soon.
Noticed == (\E c \in Pids : Zombie(c)) => Told \/ Burying

LEMMA NoticedStep ==
  ASSUME TypeOK, OrdersAreSent, MaxSignals < PipeSize, Noticed, [Next]_vars
  PROVE  Noticed'
<1> SUFFICES ASSUME NEW c \in Pids, Zombie(c)' PROVE Told' \/ Burying'
  BY DEF Noticed
<1>1. CASE ~ Zombie(c)
  BY <1>1, DeathTells DEF Told
<1>2. CASE Zombie(c) /\ Told
  BY <1>2, WordIsKept DEF Burying
<1>3. CASE Zombie(c) /\ Burying
  BY <1>3, BuriesAll
<1> QED
  BY <1>1, <1>2, <1>3 DEF Noticed

\* No worker dies unnoticed, for any number of processes and any order of
\* deaths and signals, when the signals an operator sends do not fill the
\* socketpair: SIGCHLD is raised, or in the socketpair, or the master is in
\* its waitpid loop (sig_handler, fpm_got_signal, fpm_children_bury).
THEOREM NoDeathIsMissed == MaxSignals < PipeSize => (Spec => []DeathsAreNoticed)
<1> SUFFICES ASSUME MaxSignals < PipeSize PROVE Spec => []DeathsAreNoticed
  OBVIOUS
<1>1. Init => OrdersAreSent /\ Noticed
  <2> SUFFICES ASSUME Init PROVE OrdersAreSent /\ Noticed
    OBVIOUS
  <2>1. Orders = {} /\ Coming = {} /\ sent = 0
    BY DEF Init, Orders, Coming
  <2>2. Cardinality(Orders) = 0 /\ Cardinality(Coming) = 0
    BY <2>1, FS_EmptySet
  <2> QED
    BY <2>1, <2>2, BoundAssumption DEF Init, OrdersAreSent, Noticed, Zombie, Dead
<1>2. IInv /\ OrdersAreSent /\ Noticed /\ [Next]_vars => (OrdersAreSent /\ Noticed)'
  BY OrdersStep, NoticedStep DEF IInv
<1>3. Noticed => DeathsAreNoticed
  BY DEF Noticed, DeathsAreNoticed, Told, Burying
<1> QED
  BY <1>1, <1>2, <1>3, Invariant, PTL DEF Spec
=============================================================================
