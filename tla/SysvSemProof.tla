---------------------------- MODULE SysvSemProof ----------------------------
(***************************************************************************)
(* sem_get is serialised among any number of processes that die in it, and  *)
(* every counter stays a natural number.  USAGE is the number of the uses   *)
(* there are, whoever dies when: each use is a member of one finite set, and *)
(* the undo of a process counts its own.  What SEM lacks of the limit is     *)
(* what the processes hold, so that the three are one semaphore.             *)
(***************************************************************************)
EXTENDS SysvSem, FiniteSetTheorems, TLAPS

\* The undo of a process has its part of SETVAL, which is raised while one is between its
\* semop and the next.
Raised ==
  /\ \A p \in Proc : semadj[p]["SETVAL"] = IF Serialised(p) THEN -1 ELSE 0
  /\ semval["SETVAL"] = IF \E p \in Proc : Serialised(p) THEN 1 ELSE 0

\* A handle that was told of the removal of its set is not used on another: ids of sets are
\* never used again.
Removed ==
  /\ \A p \in Proc : arg[p].semid <= semid
  /\ \A p \in Proc, h \in Slot : handle[p][h] # NoHandle =>
       /\ handle[p][h].semid <= semid
       /\ handle[p][h].count = -1 => ~Alive(handle[p][h].semid)

\* A process that waits in sem_acquire has the handle.
Waiting ==
  \A p \in Proc :
    /\ pc[p] = "waiting" => arg[p].slot \in Slot /\ handle[p][arg[p].slot] # NoHandle
    /\ pc[p] \in Getting => arg[p].slot \in Slot

\* The types of the kernel's part and of the processes' part.
ArgType == [semid : 0..MaxSets, max : MaxAcquire \cup {0}, auto : BOOLEAN, slot : Slot \cup {NoHandle}]
KernelTyped ==
  /\ semid \in 0..MaxSets /\ exists \in BOOLEAN
  /\ semval \in [Sems -> Nat] /\ semadj \in [Proc -> [Sems -> Int]]
CallsTyped ==
  /\ pc \in [Proc -> Getting \cup {"idle", "waiting"}]
  /\ arg \in [Proc -> ArgType]
  /\ handle \in [Proc -> [Slot -> Handle \cup {NoHandle}]]
  /\ kept \in [Proc -> [uses : Nat, held : Nat]]
  /\ gets \in [Proc -> 0..MaxGets] /\ deaths \in 0..MaxDeaths

Inv == TypeOK /\ Removed /\ Waiting /\ Raised /\ OneInGet

USE SemAssumption DEF SemAssumption, Goto

LEMMA Limits == \A m \in MaxAcquire \cup {0} : m \in Nat
  OBVIOUS

LEMMA TypeOKParts == TypeOK <=> KernelTyped /\ CallsTyped
  BY DEF TypeOK, KernelTyped, CallsTyped, ArgType

\* What a semop keeps.
LEMMA SemopTypes ==
  ASSUME KernelTyped, NEW p \in Proc, NEW ops \in [Sems -> Int], Semop(p, ops)
  PROVE  KernelTyped'
  BY DEF KernelTyped, Semop

LEMMA OpsTypes ==
  ASSUME NEW i \in Int, NEW j \in Int, NEW k \in Int
  PROVE  Ops(i, j, k) \in [Sems -> Int]
  BY DEF Ops, Sems

LEMMA ConstantTypes ==
  /\ NoArg \in ArgType /\ (\A h \in Slot : ArgFor(h) \in ArgType)
  /\ Nothing \in [uses : Nat, held : Nat]
  /\ None3 \in [Sems -> Nat] /\ None3 \in [Sems -> Int]
  BY DEF NoArg, ArgFor, ArgType, Nothing, None3, Ops, Sems

\* The semaphores stay natural numbers.
LEMMA KeepsKernelTyped ==
  ASSUME KernelTyped, CallsTyped, Removed, [Next]_vars
  PROVE  KernelTyped'
<1>1. ASSUME NEW p \in Proc, SemGet(p) PROVE KernelTyped'
  BY <1>1 DEF SemGet, KernelTyped
<1>2. ASSUME NEW p \in Proc, CountUse(p) PROVE KernelTyped'
  <2>1. Ops(0, 1, 1) \in [Sems -> Int]
    BY OpsTypes
  <2>2. UNCHANGED kernel \/ Semop(p, Ops(0, 1, 1))
    BY <1>2 DEF CountUse
  <2>. QED  BY <2>1, <2>2, SemopTypes DEF KernelTyped, kernel
<1>3. ASSUME NEW p \in Proc, ReadUsage(p) PROVE KernelTyped'
  BY <1>3 DEF ReadUsage, KernelTyped, kernel
<1>4. ASSUME NEW p \in Proc, SetMax(p) PROVE KernelTyped'
  <2>0. arg[p] \in ArgType
    BY DEF CallsTyped
  <2>1. arg[p].max \in MaxAcquire \cup {0}
    BY <2>0 DEF ArgType
  <2>2. arg[p].max \in Nat
    BY <2>1, Limits
  <2>. QED  BY <1>4, <2>2 DEF SetMax, KernelTyped, kernel, None3, Sems
<1>5. ASSUME NEW p \in Proc, Register(p) PROVE KernelTyped'
  <2>1. Ops(0, 0, -1) \in [Sems -> Int]
    BY OpsTypes
  <2>2. UNCHANGED kernel \/ Semop(p, Ops(0, 0, -1))
    BY <1>5 DEF Register
  <2>. QED  BY <2>1, <2>2, SemopTypes DEF KernelTyped, kernel
<1>6. ASSUME NEW p \in Proc, CallAcquire(p) PROVE KernelTyped'
  BY <1>6 DEF CallAcquire, KernelTyped, kernel
<1>7. ASSUME NEW p \in Proc, Acquire(p) PROVE KernelTyped'
  <2>1. Ops(-1, 0, 0) \in [Sems -> Int]
    BY OpsTypes
  <2>2. UNCHANGED kernel \/ Semop(p, Ops(-1, 0, 0))
    BY <1>7 DEF Acquire, kernel
  <2>. QED  BY <2>1, <2>2, SemopTypes DEF KernelTyped, kernel
<1>8. ASSUME NEW p \in Proc, Release(p) PROVE KernelTyped'
  <2>1. Ops(1, 0, 0) \in [Sems -> Int]
    BY OpsTypes
  <2>. QED  BY <1>8, <2>1, SemopTypes DEF Release
<1>9. ASSUME NEW p \in Proc, Remove(p) PROVE KernelTyped'
  BY <1>9, ConstantTypes DEF Remove, KernelTyped
<1>10. ASSUME NEW p \in Proc, Destroy(p) PROVE KernelTyped'
  <2>1. PICK h \in Slot :
          /\ handle[p][h] # NoHandle
          /\ UNCHANGED kernel \/ Semop(p, Ops(handle[p][h].count, -1, 0))
    BY <1>10 DEF Destroy
  <2>2. handle[p][h].count \in Int
    BY <2>1 DEF CallsTyped, Handle
  <2>. QED  BY <2>1, <2>2, SemopTypes, OpsTypes DEF KernelTyped, kernel
<1>11. ASSUME NEW p \in Proc, Exit(p) PROVE KernelTyped'
  BY <1>11, ConstantTypes DEF Exit, KernelTyped
<1>12. CASE UNCHANGED vars
  BY <1>12 DEF vars, kernel, KernelTyped
<1>. QED  BY <1>1, <1>2, <1>3, <1>4, <1>5, <1>6, <1>7, <1>8, <1>9, <1>10, <1>11, <1>12 DEF Next, Step

\* The count of a handle is written.
LEMMA CountTypes ==
  ASSUME CallsTyped, NEW p \in Proc, NEW h \in Slot, handle[p][h] # NoHandle,
         NEW c \in Nat \cup {-1}, handle' = [handle EXCEPT ![p][h].count = c]
  PROVE  handle' \in [Proc -> [Slot -> Handle \cup {NoHandle}]]
<1>1. handle[p][h] \in Handle
  BY DEF CallsTyped
<1>2. [handle[p][h] EXCEPT !.count = c] \in Handle
  BY <1>1 DEF Handle
<1>. QED  BY <1>2 DEF CallsTyped

\* Calls and handles keep their types.
LEMMA KeepsCallsTyped ==
  ASSUME KernelTyped, CallsTyped, Removed, Waiting, [Next]_vars
  PROVE  CallsTyped'
<1>1. ASSUME NEW p \in Proc, SemGet(p) PROVE CallsTyped'
  BY <1>1 DEF SemGet, KernelTyped, CallsTyped, Getting, ArgType
<1>2. ASSUME NEW p \in Proc, CountUse(p) PROVE CallsTyped'
  BY <1>2 DEF CountUse, CallsTyped, Getting
<1>3. ASSUME NEW p \in Proc, ReadUsage(p) PROVE CallsTyped'
  BY <1>3 DEF ReadUsage, CallsTyped, Getting
<1>4. ASSUME NEW p \in Proc, SetMax(p) PROVE CallsTyped'
  BY <1>4 DEF SetMax, CallsTyped, Getting
<1>5. ASSUME NEW p \in Proc, Register(p) PROVE CallsTyped'
  BY <1>5, ConstantTypes DEF Register, CallsTyped, Getting, Handle, ArgType
<1>6. ASSUME NEW p \in Proc, CallAcquire(p) PROVE CallsTyped'
  BY <1>6, ConstantTypes DEF CallAcquire, CallsTyped
<1>7. ASSUME NEW p \in Proc, Acquire(p) PROVE CallsTyped'
  <2>1. arg[p].slot \in Slot /\ handle[p][arg[p].slot] # NoHandle
    BY <1>7 DEF Acquire, Waiting
  <2>2. Alive(handle[p][arg[p].slot].semid) => handle[p][arg[p].slot].count \in Nat
    BY <2>1 DEF CallsTyped, Handle, Removed
  <2> DEFINE o == handle[p][arg[p].slot]
  <2>3. o \in Handle
    BY <2>1 DEF CallsTyped
  <2>4. Alive(o.semid) => [o EXCEPT !.count = o.count + 1] \in Handle
    BY <2>2, <2>3 DEF Handle
  <2>5. \/ handle' = handle
        \/ /\ Alive(o.semid)
           /\ handle' = [handle EXCEPT ![p] =
                [handle[p] EXCEPT ![arg[p].slot] = [o EXCEPT !.count = o.count + 1]]]
    BY <1>7, <2>1 DEF Acquire, CallsTyped
  <2>6. handle' \in [Proc -> [Slot -> Handle \cup {NoHandle}]]
    <3>1. CASE handle' = handle
      BY <3>1 DEF CallsTyped
    <3>2. CASE handle' # handle
      <4>1. [o EXCEPT !.count = o.count + 1] \in Handle
        BY <2>4, <2>5, <3>2
      <4>2. [handle[p] EXCEPT ![arg[p].slot] = [o EXCEPT !.count = o.count + 1]]
              \in [Slot -> Handle \cup {NoHandle}]
        BY <2>1, <4>1 DEF CallsTyped
      <4>. QED  BY <2>5, <3>2, <4>2 DEF CallsTyped
    <3>. QED  BY <3>1, <3>2
  <2>. QED  BY <1>7, <2>6, ConstantTypes DEF Acquire, CallsTyped, Getting
<1>8. ASSUME NEW p \in Proc, Release(p) PROVE CallsTyped'
  <2>1. PICK h \in Slot :
          /\ handle[p][h] # NoHandle /\ handle[p][h].count # 0 /\ Alive(handle[p][h].semid)
          /\ handle' = [handle EXCEPT ![p][h].count = handle[p][h].count - 1]
    BY <1>8 DEF Release
  <2>2. handle[p][h].count \in Nat \ {0}
    BY <2>1 DEF CallsTyped, Handle, Removed
  <2>3. handle[p][h] \in Handle
    BY <2>1 DEF CallsTyped
  <2>4. [handle[p][h] EXCEPT !.count = handle[p][h].count - 1] \in Handle
    BY <2>2, <2>3 DEF Handle
  <2>5. handle' = [handle EXCEPT ![p] =
          [handle[p] EXCEPT ![h] = [handle[p][h] EXCEPT !.count = handle[p][h].count - 1]]]
    BY <2>1 DEF CallsTyped
  <2>6. handle' \in [Proc -> [Slot -> Handle \cup {NoHandle}]]
    BY <2>4, <2>5 DEF CallsTyped
  <2>. QED  BY <1>8, <2>6 DEF Release, CallsTyped
<1>9. ASSUME NEW p \in Proc, Remove(p) PROVE CallsTyped'
  BY <1>9, CountTypes, ConstantTypes DEF Remove, CallsTyped
<1>10. ASSUME NEW p \in Proc, Destroy(p) PROVE CallsTyped'
  <2>1. PICK h \in Slot :
          /\ handle[p][h] # NoHandle /\ handle' = [handle EXCEPT ![p][h] = NoHandle]
          /\ \/ kept' = kept
             \/ /\ Alive(handle[p][h].semid)
                /\ kept' = [kept EXCEPT ![p].held = @ + handle[p][h].count, ![p].uses = @ + 1]
    BY <1>10 DEF Destroy
  <2>2. Alive(handle[p][h].semid) => handle[p][h].count \in Nat
    BY <2>1 DEF CallsTyped, Handle, Removed
  <2>3. kept' \in [Proc -> [uses : Nat, held : Nat]]
    BY <2>1, <2>2 DEF CallsTyped
  <2>. QED  BY <1>10, <2>1, <2>3 DEF Destroy, CallsTyped
<1>11. ASSUME NEW p \in Proc, Exit(p) PROVE CallsTyped'
  BY <1>11, ConstantTypes DEF Exit, CallsTyped, Getting
<1>12. CASE UNCHANGED vars
  BY <1>12 DEF vars, CallsTyped
<1>. QED  BY <1>1, <1>2, <1>3, <1>4, <1>5, <1>6, <1>7, <1>8, <1>9, <1>10, <1>11, <1>12 DEF Next, Step

LEMMA KeepsWaiting ==
  ASSUME CallsTyped, Waiting, [Next]_vars
  PROVE  Waiting'
<1>1. ASSUME NEW p \in Proc, SemGet(p) PROVE Waiting'
  BY <1>1 DEF SemGet, CallsTyped, Waiting, Getting
<1>2. ASSUME NEW p \in Proc, CountUse(p) PROVE Waiting'
  BY <1>2 DEF CountUse, CallsTyped, Waiting, Getting
<1>3. ASSUME NEW p \in Proc, ReadUsage(p) PROVE Waiting'
  BY <1>3 DEF ReadUsage, CallsTyped, Waiting, Getting
<1>4. ASSUME NEW p \in Proc, SetMax(p) PROVE Waiting'
  BY <1>4 DEF SetMax, CallsTyped, Waiting, Getting
<1>5. ASSUME NEW p \in Proc, Register(p) PROVE Waiting'
  BY <1>5 DEF Register, CallsTyped, Waiting, Getting, Handle
<1>6. ASSUME NEW p \in Proc, CallAcquire(p) PROVE Waiting'
  BY <1>6 DEF CallAcquire, CallsTyped, Waiting, Getting, ArgType, ArgFor
<1>7. ASSUME NEW p \in Proc, Acquire(p) PROVE Waiting'
  BY <1>7 DEF Acquire, CallsTyped, Waiting, Getting
<1>8. ASSUME NEW p \in Proc, Release(p) PROVE Waiting'
  BY <1>8 DEF Release, CallsTyped, Waiting, Getting
<1>9. ASSUME NEW p \in Proc, Remove(p) PROVE Waiting'
  BY <1>9 DEF Remove, CallsTyped, Waiting, Getting
<1>10. ASSUME NEW p \in Proc, Destroy(p) PROVE Waiting'
  BY <1>10 DEF Destroy, CallsTyped, Waiting, Getting
<1>11. ASSUME NEW p \in Proc, Exit(p) PROVE Waiting'
  BY <1>11 DEF Exit, CallsTyped, Waiting, Getting
<1>12. CASE UNCHANGED vars
  BY <1>12 DEF vars, Waiting
<1>. QED  BY <1>1, <1>2, <1>3, <1>4, <1>5, <1>6, <1>7, <1>8, <1>9, <1>10, <1>11, <1>12 DEF Next, Step

\* Only sem_remove leaves handles behind, and ids of sets are not used again.
LEMMA KeepsRemoved ==
  ASSUME CallsTyped, KernelTyped, Removed, Waiting, [Next]_vars
  PROVE  Removed'
<1>1. ASSUME NEW p \in Proc, SemGet(p) PROVE Removed'
  <2>1. semid' = IF exists THEN semid ELSE semid + 1
    BY <1>1 DEF SemGet
  <2>2. arg'[p].semid = semid' /\ \A q \in Proc \ {p} : arg'[q] = arg[q]
    BY <1>1 DEF SemGet, CallsTyped
  <2>3. \A q \in Proc, h \in Slot : handle[q][h] # NoHandle => handle[q][h].semid \in Nat
    BY DEF CallsTyped, Handle
  <2>4. \A q \in Proc : arg[q].semid \in Nat
    <3>1. \A q \in Proc : arg[q] \in ArgType
      BY DEF CallsTyped
    <3>2. \A a \in ArgType : a.semid \in Nat
      BY DEF ArgType
    <3>. QED  BY <3>1, <3>2
  <2>5. handle' = handle /\ semid \in Nat /\ (exists => exists')
    BY <1>1 DEF SemGet, KernelTyped
  <2>. QED  BY <2>1, <2>2, <2>3, <2>4, <2>5 DEF Removed, Alive
<1>2. ASSUME NEW p \in Proc, CountUse(p) PROVE Removed'
  BY <1>2 DEF CountUse, CallsTyped, KernelTyped, Removed, Alive, Handle, kernel, ArgFor, NoArg, Semop
<1>3. ASSUME NEW p \in Proc, ReadUsage(p) PROVE Removed'
  BY <1>3 DEF ReadUsage, CallsTyped, KernelTyped, Removed, Alive, Handle, kernel, ArgFor, NoArg
<1>4. ASSUME NEW p \in Proc, SetMax(p) PROVE Removed'
  BY <1>4 DEF SetMax, CallsTyped, KernelTyped, Removed, Alive, Handle, kernel, ArgFor, NoArg
<1>5. ASSUME NEW p \in Proc, Register(p) PROVE Removed'
  <2>1. semid' = semid /\ exists' = exists
    BY <1>5 DEF Register, Semop, kernel
  <2>2. handle' = [handle EXCEPT ![p][arg[p].slot] =
          [semid |-> arg[p].semid, count |-> 0, auto_release |-> arg[p].auto]]
    BY <1>5 DEF Register
  <2>3. arg' = [arg EXCEPT ![p] = NoArg] /\ NoArg.semid = 0 /\ 0 <= semid
    BY <1>5 DEF Register, NoArg, ArgFor, KernelTyped
  <2>4. arg[p].slot \in Slot
    BY <1>5 DEF Register, Waiting, Getting
  <2>. QED  BY <2>1, <2>2, <2>3, <2>4 DEF CallsTyped, Removed, Alive
<1>6. ASSUME NEW p \in Proc, CallAcquire(p) PROVE Removed'
  BY <1>6 DEF CallAcquire, CallsTyped, KernelTyped, Removed, Alive, Handle, kernel, ArgFor, NoArg
<1>7. ASSUME NEW p \in Proc, Acquire(p) PROVE Removed'
  <2> DEFINE o == handle[p][arg[p].slot]
  <2>1. semid' = semid /\ exists' = exists
    BY <1>7 DEF Acquire, Semop, kernel
  <2>2. arg[p].slot \in Slot /\ o \in Handle
    BY <1>7 DEF Acquire, Waiting, CallsTyped
  <2>3. \/ handle' = handle
        \/ /\ Alive(o.semid)
           /\ handle' = [handle EXCEPT ![p] =
                [handle[p] EXCEPT ![arg[p].slot] = [o EXCEPT !.count = o.count + 1]]]
    BY <1>7, <2>2 DEF Acquire, CallsTyped
  <2>4. Alive(o.semid) => o.count + 1 # -1
    BY <1>7, <2>2 DEF Acquire, Waiting, Removed, Handle
  <2>5. arg' = [arg EXCEPT ![p] = NoArg] /\ NoArg.semid = 0 /\ 0 <= semid
    BY <1>7 DEF Acquire, NoArg, ArgFor, KernelTyped
  <2>6. CASE handle' = handle
    BY <2>1, <2>5, <2>6 DEF CallsTyped, Removed, Alive
  <2>7. CASE handle' # handle
    <3> DEFINE new == [o EXCEPT !.count = o.count + 1]
    <3>1. new.semid = o.semid /\ new.count # -1 /\ Alive(o.semid)
      BY <2>2, <2>3, <2>4, <2>7 DEF Handle
    <3>2. handle'[p][arg[p].slot] = new
          /\ \A q \in Proc, h \in Slot :
               q # p \/ h # arg[p].slot => handle'[q][h] = handle[q][h]
      BY <2>2, <2>3, <2>7 DEF CallsTyped
    <3>3. o # NoHandle
      BY <1>7 DEF Acquire, Waiting
    <3> HIDE DEF new, o
    <3>4. o.semid <= semid
      BY <2>2, <3>3 DEF Removed, o
    <3>. QED  BY <2>1, <2>2, <2>5, <3>1, <3>2, <3>4 DEF CallsTyped, Removed, Alive
  <2>. QED  BY <2>6, <2>7
<1>8. ASSUME NEW p \in Proc, Release(p) PROVE Removed'
  BY <1>8 DEF Release, CallsTyped, KernelTyped, Removed, Alive, Handle, kernel, ArgFor, NoArg, Semop
<1>9. ASSUME NEW p \in Proc, Remove(p) PROVE Removed'
  BY <1>9 DEF Remove, CallsTyped, KernelTyped, Removed, Alive, Handle, kernel, ArgFor, NoArg
<1>10. ASSUME NEW p \in Proc, Destroy(p) PROVE Removed'
  BY <1>10 DEF Destroy, CallsTyped, KernelTyped, Removed, Alive, Handle, kernel, ArgFor, NoArg, Semop
<1>11. ASSUME NEW p \in Proc, Exit(p) PROVE Removed'
  BY <1>11 DEF Exit, CallsTyped, KernelTyped, Removed, Alive, Handle, kernel, ArgFor, NoArg
<1>12. CASE UNCHANGED vars
  BY <1>12 DEF vars, kernel, Removed, Alive
<1>. QED  BY <1>1, <1>2, <1>3, <1>4, <1>5, <1>6, <1>7, <1>8, <1>9, <1>10, <1>11, <1>12 DEF Next, Step

\* What leaves SETVAL and the calls in sem_get alone.
LEMMA StillRaised ==
  ASSUME KernelTyped, Raised, OneInGet,
         semval'["SETVAL"] = semval["SETVAL"],
         \A q \in Proc : semadj'[q]["SETVAL"] = semadj[q]["SETVAL"],
         \A q \in Proc : Serialised(q)' <=> Serialised(q)
  PROVE  Raised' /\ OneInGet'
  BY DEF Raised, OneInGet

LEMMA SemopSetval ==
  ASSUME KernelTyped, NEW p \in Proc, NEW i \in Int, NEW j \in Int, NEW k \in Int,
         Semop(p, Ops(i, j, k))
  PROVE  /\ semval'["SETVAL"] = semval["SETVAL"] + k
         /\ semadj'[p]["SETVAL"] = semadj[p]["SETVAL"] - k
         /\ \A q \in Proc \ {p} : semadj'[q] = semadj[q]
         /\ semid' = semid /\ exists' = exists
<1>1. "SETVAL" \in Sems /\ Ops(i, j, k)["SETVAL"] = k
  BY DEF Sems, Ops
<1>. QED  BY <1>1 DEF KernelTyped, Semop

\* Other operations than on SETVAL.
LEMMA SemopOther ==
  ASSUME KernelTyped, NEW p \in Proc, NEW i \in Int, NEW j \in Int, Semop(p, Ops(i, j, 0))
  PROVE  /\ semval'["SETVAL"] = semval["SETVAL"]
         /\ \A q \in Proc : semadj'[q]["SETVAL"] = semadj[q]["SETVAL"]
         /\ semid' = semid /\ exists' = exists
<1>1. semval["SETVAL"] \in Nat /\ semadj[p]["SETVAL"] \in Int
  BY DEF KernelTyped, Sems
<1>. QED  BY <1>1, SemopSetval

\* SETVAL is raised by who finds it down, put back by who raised it, and by the kernel when
\* that process dies.
LEMMA KeepsRaised ==
  ASSUME KernelTyped, CallsTyped, Removed, Raised, OneInGet, [Next]_vars
  PROVE  Raised' /\ OneInGet'
<1> USE DEF KernelTyped, CallsTyped
<1>1. ASSUME NEW p \in Proc, SemGet(p) PROVE Raised' /\ OneInGet'
  <2>1. CASE exists
    <3>1. \A q \in Proc : Serialised(q)' <=> Serialised(q)
      BY <1>1, <2>1 DEF SemGet, Serialised, Alive, Getting
    <3>. QED  BY <1>1, <3>1, StillRaised DEF SemGet
  <2>2. CASE ~exists
    <3>1. \A q \in Proc : ~Serialised(q)
      BY <2>2 DEF Serialised, Alive
    <3>2. \A q \in Proc : ~Serialised(q)'
      BY <1>1, <2>2 DEF SemGet, Serialised, Alive, Getting, Removed
    <3>. QED  BY <1>1, <3>1, <3>2, StillRaised DEF SemGet
  <2>. QED  BY <2>1, <2>2
<1>2. ASSUME NEW p \in Proc, CountUse(p) PROVE Raised' /\ OneInGet'
  <2>1. CASE Alive(arg[p].semid)
    <3>1. semval["SETVAL"] = 0 /\ Semop(p, Ops(0, 1, 1))
      BY <1>2, <2>1 DEF CountUse
    <3>2. \A q \in Proc : ~Serialised(q)
      BY <3>1 DEF Raised
    <3>3. semid' = semid /\ exists' = exists
      BY <3>1 DEF Semop
    <3>4. Serialised(p)' /\ \A q \in Proc \ {p} : ~Serialised(q)'
      BY <1>2, <2>1, <3>2, <3>3 DEF CountUse, Serialised, Alive, Getting
    <3>5. semval'["SETVAL"] = 1 /\ semadj'[p]["SETVAL"] = -1
          /\ \A q \in Proc \ {p} : semadj'[q] = semadj[q]
      BY <3>1, <3>2, SemopSetval DEF Raised
    <3>. QED  BY <3>2, <3>4, <3>5 DEF Raised, OneInGet
  <2>2. CASE ~Alive(arg[p].semid)
    <3>1. \A q \in Proc : Serialised(q)' <=> Serialised(q)
      BY <1>2, <2>2 DEF CountUse, Serialised, Alive, Getting, kernel
    <3>. QED  BY <1>2, <2>2, <3>1, StillRaised DEF CountUse, kernel
  <2>. QED  BY <2>1, <2>2
<1>3. ASSUME NEW p \in Proc, ReadUsage(p) PROVE Raised' /\ OneInGet'
  <2>1. \A q \in Proc : Serialised(q)' <=> Serialised(q)
    BY <1>3 DEF ReadUsage, Serialised, Alive, Getting, kernel
  <2>. QED  BY <1>3, <2>1, StillRaised DEF ReadUsage, kernel
<1>4. ASSUME NEW p \in Proc, SetMax(p) PROVE Raised' /\ OneInGet'
  <2>1. \A q \in Proc : Serialised(q)' <=> Serialised(q)
    BY <1>4 DEF SetMax, Serialised, Alive, Getting, kernel
  <2>2. "SETVAL" \in Sems /\ "SETVAL" # "SEM"
    BY DEF Sems
  <2>3. semval'["SETVAL"] = semval["SETVAL"] /\ \A q \in Proc : semadj'[q]["SETVAL"] = semadj[q]["SETVAL"]
    BY <1>4, <2>2 DEF SetMax, kernel
  <2>. QED  BY <2>1, <2>3, StillRaised
<1>5. ASSUME NEW p \in Proc, Register(p) PROVE Raised' /\ OneInGet'
  <2>0. semid' = semid /\ exists' = exists
    BY <1>5 DEF Register, Semop, kernel
  <2>1. ~Serialised(p)' /\ \A q \in Proc \ {p} : Serialised(q)' <=> Serialised(q)
    BY <1>5, <2>0 DEF Register, Serialised, Alive, Getting
  <2>2. CASE Alive(arg[p].semid)
    <3>1. Semop(p, Ops(0, 0, -1))
      BY <1>5, <2>2 DEF Register
    <3>2. Serialised(p) /\ \A q \in Proc \ {p} : ~Serialised(q)
      BY <1>5, <2>2 DEF Register, Serialised, Getting, OneInGet
    <3>3. semval["SETVAL"] = 1 /\ semadj[p]["SETVAL"] = -1
      BY <3>2 DEF Raised
    <3>4. -1 \in Int /\ 0 \in Int
      OBVIOUS
    <3>5. /\ semval'["SETVAL"] = semval["SETVAL"] + (-1)
          /\ semadj'[p]["SETVAL"] = semadj[p]["SETVAL"] - (-1)
          /\ \A q \in Proc \ {p} : semadj'[q] = semadj[q]
      BY <3>1, <3>4, SemopSetval
    <3>6. semval'["SETVAL"] = 0 /\ semadj'[p]["SETVAL"] = 0
      BY <3>3, <3>5
    <3>. QED  BY <2>1, <3>2, <3>5, <3>6 DEF Raised, OneInGet
  <2>3. CASE ~Alive(arg[p].semid)
    <3>1. \A q \in Proc : Serialised(q)' <=> Serialised(q)
      BY <2>1, <2>3 DEF Serialised
    <3>. QED  BY <1>5, <2>3, <3>1, StillRaised DEF Register, kernel
  <2>. QED  BY <2>2, <2>3
<1>6. ASSUME NEW p \in Proc, CallAcquire(p) PROVE Raised' /\ OneInGet'
  <2>1. \A q \in Proc : Serialised(q)' <=> Serialised(q)
    BY <1>6 DEF CallAcquire, Serialised, Alive, Getting, kernel
  <2>. QED  BY <1>6, <2>1, StillRaised DEF CallAcquire, kernel
<1>7. ASSUME NEW p \in Proc, Acquire(p) PROVE Raised' /\ OneInGet'
  <2>0. UNCHANGED kernel \/ Semop(p, Ops(-1, 0, 0))
    BY <1>7 DEF Acquire, kernel
  <2>1. semid' = semid /\ exists' = exists /\ semval'["SETVAL"] = semval["SETVAL"]
        /\ \A q \in Proc : semadj'[q]["SETVAL"] = semadj[q]["SETVAL"]
    BY <2>0, SemopOther DEF kernel
  <2>2. \A q \in Proc : Serialised(q)' <=> Serialised(q)
    BY <1>7, <2>1 DEF Acquire, Serialised, Alive, Getting
  <2>. QED  BY <2>1, <2>2, StillRaised
<1>8. ASSUME NEW p \in Proc, Release(p) PROVE Raised' /\ OneInGet'
  <2>0. Semop(p, Ops(1, 0, 0))
    BY <1>8 DEF Release
  <2>1. semid' = semid /\ exists' = exists /\ semval'["SETVAL"] = semval["SETVAL"]
        /\ \A q \in Proc : semadj'[q]["SETVAL"] = semadj[q]["SETVAL"]
    BY <2>0, SemopOther
  <2>2. \A q \in Proc : Serialised(q)' <=> Serialised(q)
    BY <1>8, <2>1 DEF Release, Serialised, Alive
  <2>. QED  BY <2>1, <2>2, StillRaised
<1>9. ASSUME NEW p \in Proc, Remove(p) PROVE Raised' /\ OneInGet'
  <2>1. semval' = None3 /\ semadj' = [q \in Proc |-> None3] /\ None3["SETVAL"] = 0
    BY <1>9 DEF Remove, None3, Ops
  <2>2. \A q \in Proc : ~Serialised(q)'
    BY <1>9 DEF Remove, Serialised, Alive
  <2>. QED  BY <2>1, <2>2 DEF Raised, OneInGet
<1>10. ASSUME NEW p \in Proc, Destroy(p) PROVE Raised' /\ OneInGet'
  <2>0. PICK c : UNCHANGED kernel \/ (Semop(p, Ops(c, -1, 0)) /\ c \in Int)
    <3>1. PICK h \in Slot :
            /\ handle[p][h] # NoHandle
            /\ UNCHANGED kernel \/ Semop(p, Ops(handle[p][h].count, -1, 0))
      BY <1>10 DEF Destroy
    <3>2. handle[p][h].count \in Int
      BY <3>1 DEF Handle
    <3>. QED  BY <3>1, <3>2
  <2>2. semid' = semid /\ exists' = exists /\ semval'["SETVAL"] = semval["SETVAL"]
        /\ \A q \in Proc : semadj'[q]["SETVAL"] = semadj[q]["SETVAL"]
    BY <2>0, SemopOther DEF kernel
  <2>3. \A q \in Proc : Serialised(q)' <=> Serialised(q)
    BY <1>10, <2>2 DEF Destroy, Serialised, Alive
  <2>. QED  BY <2>2, <2>3, StillRaised
<1>11. ASSUME NEW p \in Proc, Exit(p) PROVE Raised' /\ OneInGet'
  <2>1. ~Serialised(p)' /\ \A q \in Proc \ {p} : Serialised(q)' <=> Serialised(q)
    BY <1>11 DEF Exit, Serialised, Alive, Getting
  <2>2. /\ semval'["SETVAL"] = IF Serialised(p) THEN 0 ELSE semval["SETVAL"]
        /\ semadj'[p]["SETVAL"] = 0 /\ \A q \in Proc \ {p} : semadj'[q] = semadj[q]
    BY <1>11 DEF Exit, Raised, Sems, None3, Ops
  <2>. QED  BY <2>1, <2>2 DEF Raised, OneInGet
<1>12. CASE UNCHANGED vars
  <2>1. \A q \in Proc : Serialised(q)' <=> Serialised(q)
    BY <1>12 DEF vars, Serialised, Alive, kernel
  <2>. QED  BY <1>12, <2>1, StillRaised DEF vars, kernel
<1>. QED  BY <1>1, <1>2, <1>3, <1>4, <1>5, <1>6, <1>7, <1>8, <1>9, <1>10, <1>11, <1>12 DEF Next, Step

\* The invariant is inductive.
LEMMA InvInit == Init => Inv
<1> SUFFICES ASSUME Init PROVE Inv
  OBVIOUS
<1>1. KernelTyped
  <2>1. semval = None3 /\ semadj = [p \in Proc |-> None3]
    BY DEF Init
  <2>2. semval \in [Sems -> Nat] /\ semadj \in [Proc -> [Sems -> Int]]
    BY <2>1, ConstantTypes
  <2>3. 0 \in 0..MaxSets
    OBVIOUS
  <2>4. semid = 0 /\ exists \in BOOLEAN
    BY DEF Init
  <2>. QED  BY <2>2, <2>3, <2>4 DEF KernelTyped
<1>2. CallsTyped
  BY ConstantTypes DEF Init, CallsTyped
<1>3. Removed /\ Waiting
  BY DEF Init, Removed, Waiting, Getting, NoArg, ArgFor
<1>4. None3["SETVAL"] = 0
  BY DEF None3, Ops
<1>5. \A p \in Proc : ~Serialised(p)
  BY DEF Init, Serialised, Alive
<1>6. Raised /\ OneInGet
  BY <1>4, <1>5 DEF Init, Raised, OneInGet
<1>. QED  BY <1>1, <1>2, <1>3, <1>6, TypeOKParts DEF Inv

LEMMA InvNext == Inv /\ [Next]_vars => Inv'
<1> SUFFICES ASSUME Inv, [Next]_vars PROVE Inv'
  OBVIOUS
<1>1. KernelTyped /\ CallsTyped
  BY TypeOKParts DEF Inv
<1>2. KernelTyped' /\ CallsTyped'
  BY <1>1, KeepsKernelTyped, KeepsCallsTyped DEF Inv
<1>3. TypeOK'
  BY <1>2 DEF TypeOK, KernelTyped, CallsTyped, ArgType
<1>4. Removed' /\ Waiting'
  BY <1>1, KeepsRemoved, KeepsWaiting DEF Inv
<1>5. Raised' /\ OneInGet'
  BY <1>1, KeepsRaised DEF Inv
<1>. QED  BY <1>3, <1>4, <1>5 DEF Inv

LEMMA Invariant == Spec => []Inv
  BY InvInit, InvNext, PTL DEF Spec

-----------------------------------------------------------------------------
\* Semaphores never go below zero, and a handle that was told its set is gone never counts on
\* (sem_release, release_sysvsem_sem).
THEOREM Typed == Spec => []TypeOK
<1>1. Inv => TypeOK
  BY DEF Inv
<1>. QED  BY <1>1, Invariant, PTL

\* Between its semop on SETVAL and the one that puts it back (sem_get) a process is alone, so
\* that only one can take itself for the first user, whoever dies when.
THEOREM FirstUserIsAlone == Spec => []OneInGet
<1>1. Inv => OneInGet
  BY DEF Inv
<1>. QED  BY <1>1, Invariant, PTL

-----------------------------------------------------------------------------
\* What USAGE counts.

HIDE SemAssumption DEF SemAssumption

\* A live handle, what a handle without auto_release left, the call that is being served.
Use == Proc \X {"slot", "kept", "get"} \X (Slot \cup Nat)
Owned(p, kind, i) ==
  \/ kind = "slot" /\ i \in Slot /\ handle[p][i] # NoHandle /\ Alive(handle[p][i].semid)
  \/ kind = "kept" /\ i \in Nat \ {0} /\ i <= kept[p].uses
  \/ kind = "get" /\ i = 0 /\ Serialised(p)

InUse == {u \in Use : Owned(u[1], u[2], u[3])}
Of(p) == {u \in InUse : u[1] = p}

\* USAGE counts the uses, and each process's undo those of its own.
Counted ==
  /\ IsFiniteSet(InUse)
  /\ semval["USAGE"] = Cardinality(InUse)
  /\ \A p \in Proc : semadj[p]["USAGE"] = - Cardinality(Of(p))

\* The slot that a sem_get is to fill is empty.
Empty == \A p \in Proc : pc[p] \in Getting => handle[p][arg[p].slot] = NoHandle

LEMMA FiniteOf ==
  ASSUME IsFiniteSet(InUse), NEW p \in Proc
  PROVE  IsFiniteSet(Of(p)) /\ Cardinality(Of(p)) \in Nat /\ Cardinality(InUse) \in Nat
         /\ Cardinality(Of(p)) <= Cardinality(InUse)
<1>1. Of(p) \in SUBSET InUse
  BY DEF Of
<1>2. IsFiniteSet(Of(p)) /\ Cardinality(Of(p)) <= Cardinality(InUse)
  BY <1>1, FS_Subset
<1>. QED  BY <1>2, FS_CardinalityType

\* What is owned before and after is the same.
LEMMA SameUses ==
  ASSUME Counted,
         \A u \in Use : Owned(u[1], u[2], u[3])' <=> Owned(u[1], u[2], u[3]),
         semval'["USAGE"] = semval["USAGE"],
         \A q \in Proc : semadj'[q]["USAGE"] = semadj[q]["USAGE"]
  PROVE  Counted'
<1>1. InUse' = InUse
  BY DEF InUse, Use
<1>2. \A q \in Proc : Of(q)' = Of(q)
  BY <1>1 DEF Of
<1>. QED  BY <1>1, <1>2 DEF Counted

\* One use more, one less, and one in the place of another, of the same process.
LEMMA OneMore ==
  ASSUME Counted, NEW p \in Proc, NEW x \in Use, x[1] = p, x \notin InUse,
         \A u \in Use : Owned(u[1], u[2], u[3])' <=> Owned(u[1], u[2], u[3]) \/ u = x,
         semval'["USAGE"] = semval["USAGE"] + 1,
         semadj'[p]["USAGE"] = semadj[p]["USAGE"] - 1,
         \A q \in Proc \ {p} : semadj'[q]["USAGE"] = semadj[q]["USAGE"]
  PROVE  Counted'
<1>1. InUse' = InUse \cup {x}
  BY DEF InUse, Use
<1>2. Of(p)' = Of(p) \cup {x} /\ x \notin Of(p)
  BY <1>1 DEF Of
<1>3. \A q \in Proc \ {p} : Of(q)' = Of(q)
  BY <1>1 DEF Of
<1>4. IsFiniteSet(Of(p)) /\ Cardinality(Of(p)) \in Nat /\ Cardinality(InUse) \in Nat
  BY FiniteOf DEF Counted
<1>5. IsFiniteSet(InUse)' /\ Cardinality(InUse)' = Cardinality(InUse) + 1
  BY <1>1, FS_AddElement DEF Counted
<1>6. Cardinality(Of(p))' = Cardinality(Of(p)) + 1
  BY <1>2, <1>4, FS_AddElement
<1>7. semadj'[p]["USAGE"] = - Cardinality(Of(p))'
  BY <1>4, <1>6 DEF Counted
<1>8. \A q \in Proc \ {p} : semadj'[q]["USAGE"] = - Cardinality(Of(q))'
  BY <1>3 DEF Counted
<1>. QED  BY <1>5, <1>7, <1>8 DEF Counted

LEMMA OneLess ==
  ASSUME Counted, NEW p \in Proc, NEW x \in InUse, x[1] = p,
         \A u \in Use : Owned(u[1], u[2], u[3])' <=> Owned(u[1], u[2], u[3]) /\ u # x,
         semval'["USAGE"] = semval["USAGE"] - 1,
         semadj'[p]["USAGE"] = semadj[p]["USAGE"] + 1,
         \A q \in Proc \ {p} : semadj'[q]["USAGE"] = semadj[q]["USAGE"]
  PROVE  Counted'
<1>1. InUse' = InUse \ {x}
  BY DEF InUse, Use
<1>2. Of(p)' = Of(p) \ {x} /\ x \in Of(p)
  BY <1>1 DEF Of
<1>3. \A q \in Proc \ {p} : Of(q)' = Of(q)
  BY <1>1 DEF Of
<1>4. IsFiniteSet(Of(p)) /\ Cardinality(Of(p)) \in Nat /\ Cardinality(InUse) \in Nat
  BY FiniteOf DEF Counted
<1>5. IsFiniteSet(InUse)' /\ Cardinality(InUse)' = Cardinality(InUse) - 1
  BY <1>1, FS_RemoveElement DEF Counted
<1>6. Cardinality(Of(p))' = Cardinality(Of(p)) - 1
  BY <1>2, <1>4, FS_RemoveElement
<1>7. semadj'[p]["USAGE"] = - Cardinality(Of(p))'
  BY <1>4, <1>6 DEF Counted
<1>8. \A q \in Proc \ {p} : semadj'[q]["USAGE"] = - Cardinality(Of(q))'
  BY <1>3 DEF Counted
<1>. QED  BY <1>5, <1>7, <1>8 DEF Counted

LEMMA Replaced ==
  ASSUME NEW S, IsFiniteSet(S), NEW a \in S, NEW b, b \notin S
  PROVE  IsFiniteSet((S \ {a}) \cup {b}) /\ Cardinality((S \ {a}) \cup {b}) = Cardinality(S)
<1>1. IsFiniteSet(S \ {a}) /\ Cardinality(S \ {a}) = Cardinality(S) - 1 /\ Cardinality(S) \in Nat
  BY FS_RemoveElement, FS_CardinalityType
<1>2. Cardinality((S \ {a}) \cup {b}) = Cardinality(S \ {a}) + 1 /\ IsFiniteSet((S \ {a}) \cup {b})
  BY <1>1, FS_AddElement
<1>. QED  BY <1>1, <1>2

LEMMA Exchanged ==
  ASSUME Counted, NEW p \in Proc, NEW x \in InUse, NEW y \in Use, x[1] = p, y[1] = p,
         y \notin InUse,
         \A u \in Use : Owned(u[1], u[2], u[3])' <=> (Owned(u[1], u[2], u[3]) /\ u # x) \/ u = y,
         semval'["USAGE"] = semval["USAGE"],
         \A q \in Proc : semadj'[q]["USAGE"] = semadj[q]["USAGE"]
  PROVE  Counted'
<1>1. InUse' = (InUse \ {x}) \cup {y}
  BY DEF InUse, Use
<1>2. Of(p)' = (Of(p) \ {x}) \cup {y} /\ x \in Of(p) /\ y \notin Of(p)
  BY <1>1 DEF Of
<1>3. \A q \in Proc \ {p} : Of(q)' = Of(q)
  BY <1>1 DEF Of
<1>4. IsFiniteSet(Of(p)) /\ Cardinality(Of(p)) \in Nat /\ Cardinality(InUse) \in Nat
  BY FiniteOf DEF Counted
<1>6. IsFiniteSet(InUse)' /\ Cardinality(InUse)' = Cardinality(InUse)
  BY <1>1, Replaced DEF Counted
<1>7. Cardinality(Of(p))' = Cardinality(Of(p))
  BY <1>2, <1>4, Replaced
<1>. QED  BY <1>3, <1>6, <1>7 DEF Counted

\* All uses of one process.
LEMMA NoneOf ==
  ASSUME Counted, NEW p \in Proc,
         \A u \in Use : Owned(u[1], u[2], u[3])' <=> Owned(u[1], u[2], u[3]) /\ u[1] # p,
         semval'["USAGE"] = IF semval["USAGE"] + semadj[p]["USAGE"] < 0 THEN 0
                            ELSE semval["USAGE"] + semadj[p]["USAGE"],
         semadj'[p]["USAGE"] = 0,
         \A q \in Proc \ {p} : semadj'[q]["USAGE"] = semadj[q]["USAGE"]
  PROVE  Counted'
<1>1. InUse' = InUse \ Of(p)
  BY DEF InUse, Of, Use
<1>2. Of(p)' = {}
  BY <1>1 DEF Of
<1>3. \A q \in Proc \ {p} : Of(q)' = Of(q)
  BY <1>1 DEF Of
<1>4. /\ IsFiniteSet(Of(p)) /\ Cardinality(Of(p)) \in Nat /\ Cardinality(InUse) \in Nat
      /\ Cardinality(Of(p)) <= Cardinality(InUse)
  BY FiniteOf DEF Counted
<1>5. InUse \cap Of(p) = Of(p)
  BY DEF Of
<1>6. IsFiniteSet(InUse)' /\ Cardinality(InUse)' = Cardinality(InUse) - Cardinality(Of(p))
  <2>1. IsFiniteSet(InUse)
    BY DEF Counted
  <2>2. IsFiniteSet(InUse \ Of(p))
        /\ Cardinality(InUse \ Of(p)) = Cardinality(InUse) - Cardinality(InUse \cap Of(p))
    BY <2>1, FS_Difference
  <2>. QED  BY <1>1, <1>5, <2>2
<1>7. semval'["USAGE"] = Cardinality(InUse)'
  BY <1>4, <1>6 DEF Counted
<1>8. semadj'[p]["USAGE"] = - Cardinality(Of(p))'
  BY <1>2, FS_EmptySet
<1>9. \A q \in Proc \ {p} : semadj'[q]["USAGE"] = - Cardinality(Of(q))'
  BY <1>3 DEF Counted
<1>. QED  BY <1>6, <1>7, <1>8, <1>9 DEF Counted

-----------------------------------------------------------------------------
\* Nothing else fills the slot while the process is in sem_get.
LEMMA KeepsEmpty ==
  ASSUME CallsTyped, Waiting, Empty, [Next]_vars
  PROVE  Empty'
<1> USE DEF CallsTyped, Empty, Getting
<1>1. ASSUME NEW p \in Proc, SemGet(p) PROVE Empty'
  BY <1>1 DEF SemGet
<1>2. ASSUME NEW p \in Proc, Step(p) PROVE Empty'
  BY <1>2 DEF Step, CountUse, ReadUsage, SetMax, Register
<1>3. ASSUME NEW p \in Proc, CallAcquire(p) \/ Acquire(p) \/ Release(p) PROVE Empty'
  BY <1>3 DEF CallAcquire, Acquire, Release
<1>4. ASSUME NEW p \in Proc, Remove(p) \/ Destroy(p) \/ Exit(p) PROVE Empty'
  BY <1>4 DEF Remove, Destroy, Exit
<1>5. CASE UNCHANGED vars
  BY <1>5 DEF vars
<1>. QED  BY <1>1, <1>2, <1>3, <1>4, <1>5 DEF Next

LEMMA SemopUsage ==
  ASSUME KernelTyped, NEW p \in Proc, NEW i \in Int, NEW j \in Int, NEW k \in Int,
         Semop(p, Ops(i, j, k))
  PROVE  /\ semval'["USAGE"] = semval["USAGE"] + j
         /\ semadj'[p]["USAGE"] = semadj[p]["USAGE"] - j
         /\ \A q \in Proc \ {p} : semadj'[q] = semadj[q]
         /\ semval["USAGE"] \in Nat /\ semadj[p]["USAGE"] \in Int
         /\ semid' = semid /\ exists' = exists
<1>1. "USAGE" \in Sems /\ Ops(i, j, k)["USAGE"] = j
  BY DEF Sems, Ops
<1>. QED  BY <1>1 DEF KernelTyped, Semop

LEMMA SemopNoUse ==
  ASSUME KernelTyped, NEW p \in Proc, NEW i \in Int, NEW k \in Int, Semop(p, Ops(i, 0, k))
  PROVE  /\ semval'["USAGE"] = semval["USAGE"]
         /\ \A q \in Proc : semadj'[q]["USAGE"] = semadj[q]["USAGE"]
         /\ semid' = semid /\ exists' = exists
<1>1. 0 \in Int
  OBVIOUS
<1>2. semval["USAGE"] \in Nat /\ \A q \in Proc : semadj[q]["USAGE"] \in Int
  BY DEF KernelTyped, Sems
<1>3. /\ semval'["USAGE"] = semval["USAGE"] + 0
      /\ semadj'[p]["USAGE"] = semadj[p]["USAGE"] - 0
      /\ \A q \in Proc \ {p} : semadj'[q] = semadj[q]
      /\ semid' = semid /\ exists' = exists
  BY <1>1, SemopUsage
<1>. QED  BY <1>2, <1>3

\* What the uses are made of, and what the kernel counts of them, are left alone.
LEMMA SameParts ==
  ASSUME KernelTyped, Counted, semid' = semid, exists' = exists, kept' = kept,
         \A q \in Proc : Serialised(q)' <=> Serialised(q),
         \A q \in Proc, h \in Slot :
           (handle[q][h] # NoHandle /\ Alive(handle[q][h].semid))' <=>
              (handle[q][h] # NoHandle /\ Alive(handle[q][h].semid)),
         semval'["USAGE"] = semval["USAGE"],
         \A q \in Proc : semadj'[q]["USAGE"] = semadj[q]["USAGE"]
  PROVE  Counted'
<1>1. \A u \in Use : Owned(u[1], u[2], u[3])' <=> Owned(u[1], u[2], u[3])
  BY DEF Use, Owned
<1>. QED  BY <1>1, SameUses

LEMMA SemGetCounted ==
  ASSUME KernelTyped, CallsTyped, Removed, Counted, NEW p \in Proc, SemGet(p)
  PROVE  Counted'
<1>1. CASE exists
  <2>1. \A q \in Proc : Serialised(q)' <=> Serialised(q)
    BY <1>1 DEF SemGet, Serialised, Alive, Getting, CallsTyped
  <2>. QED  BY <1>1, <2>1, SameParts DEF SemGet, Alive
<1>2. CASE ~exists
  <2>1. \A q \in Proc : ~Serialised(q) /\ ~Serialised(q)'
    BY <1>2 DEF SemGet, Serialised, Alive, Getting, CallsTyped, KernelTyped, Removed
  <2>2. \A q \in Proc, h \in Slot : handle[q][h] # NoHandle =>
          ~Alive(handle[q][h].semid) /\ ~Alive(handle[q][h].semid)'
    <3>1. \A q \in Proc, h \in Slot : handle[q][h] # NoHandle => handle[q][h].semid \in Nat
      BY DEF CallsTyped, Handle
    <3>. QED  BY <1>2, <3>1 DEF SemGet, Alive, KernelTyped, Removed
  <2>3. \A u \in Use : Owned(u[1], u[2], u[3])' <=> Owned(u[1], u[2], u[3])
    BY <2>1, <2>2 DEF SemGet, Use, Owned
  <2>. QED  BY <2>3, SameUses DEF SemGet
<1>. QED  BY <1>1, <1>2

\* sem_get adds its own use...
LEMMA CountUseCounted ==
  ASSUME KernelTyped, CallsTyped, Counted, NEW p \in Proc, CountUse(p)
  PROVE  Counted'
<1> DEFINE x == <<p, "get", 0>>
<1>1. CASE Alive(arg[p].semid)
  <2>1. /\ semval'["USAGE"] = semval["USAGE"] + 1
        /\ semadj'[p]["USAGE"] = semadj[p]["USAGE"] - 1
        /\ \A q \in Proc \ {p} : semadj'[q] = semadj[q]
        /\ semid' = semid /\ exists' = exists
    <3>1. Semop(p, Ops(0, 1, 1)) /\ 0 \in Int /\ 1 \in Int
      BY <1>1 DEF CountUse
    <3>. QED  BY <3>1, SemopUsage
  <2>2. ~Serialised(p) /\ Serialised(p)'
    BY <1>1, <2>1 DEF CountUse, CallsTyped, Serialised, Alive, Getting
  <2>3. \A q \in Proc \ {p} : Serialised(q)' <=> Serialised(q)
    BY <2>1 DEF CountUse, CallsTyped, Serialised, Alive, Getting
  <2>4. x \in Use /\ x \notin InUse /\ x[1] = p
    BY <2>2 DEF Use, InUse, Owned
  <2>5. \A u \in Use : Owned(u[1], u[2], u[3])' <=> Owned(u[1], u[2], u[3]) \/ u = x
    BY <2>1, <2>2, <2>3 DEF CountUse, Use, Owned, Alive
  <2> HIDE DEF x
  <2>. QED  BY <2>1, <2>4, <2>5, OneMore
<1>2. CASE ~Alive(arg[p].semid)
  <2>1. \A q \in Proc : Serialised(q)' <=> Serialised(q)
    BY <1>2 DEF CountUse, CallsTyped, Serialised, Alive, Getting, kernel
  <2>. QED  BY <1>2, <2>1, SameParts DEF CountUse, kernel, Alive
<1>. QED  BY <1>1, <1>2

\* ... and makes a handle's use of it.
LEMMA RegisterCounted ==
  ASSUME KernelTyped, CallsTyped, Waiting, Empty, Counted, NEW p \in Proc, Register(p)
  PROVE  Counted'
<1>1. PICK h \in Slot : h = arg[p].slot /\ handle[p][h] = NoHandle
  BY DEF Register, Waiting, Empty, Getting
<1> DEFINE x == <<p, "get", 0>>
           y == <<p, "slot", h>>
<1>2. ~Serialised(p)'
  BY DEF Register, CallsTyped, Serialised, Getting
<1>3. /\ handle'[p][h] = [semid |-> arg[p].semid, count |-> 0, auto_release |-> arg[p].auto]
      /\ \A q \in Proc, i \in Slot : q # p \/ i # h => handle'[q][i] = handle[q][i]
  BY <1>1 DEF Register, CallsTyped
<1>4. CASE Alive(arg[p].semid)
  <2>1. /\ semval'["USAGE"] = semval["USAGE"]
        /\ \A q \in Proc : semadj'[q]["USAGE"] = semadj[q]["USAGE"]
        /\ semid' = semid /\ exists' = exists
    <3>1. Semop(p, Ops(0, 0, -1)) /\ 0 \in Int /\ -1 \in Int
      BY <1>4 DEF Register
    <3>. QED  BY <3>1, SemopNoUse
  <2>2. Serialised(p)
    BY <1>4 DEF Register, Serialised, Getting
  <2>3. \A q \in Proc \ {p} : Serialised(q)' <=> Serialised(q)
    BY <2>1 DEF Register, CallsTyped, Serialised, Alive
  <2>4. x \in InUse /\ y \in Use /\ y \notin InUse /\ x[1] = p /\ y[1] = p
    BY <1>1, <2>2 DEF Use, InUse, Owned
  <2>5. handle'[p][h] # NoHandle /\ handle'[p][h].semid = arg[p].semid
    <3>1. arg[p].semid \in 0..MaxSets /\ arg[p].auto \in BOOLEAN
      BY DEF CallsTyped, ArgType
    <3>2. handle'[p][h] \in Handle
      BY <1>3, <3>1 DEF Handle
    <3>. QED  BY <1>3, <3>2, SemAssumption DEF SemAssumption
  <2>6. \A q \in Proc, i \in Slot : q # p \/ i # h =>
          ((handle[q][i] # NoHandle /\ Alive(handle[q][i].semid))' <=>
             (handle[q][i] # NoHandle /\ Alive(handle[q][i].semid)))
    BY <1>3, <2>1 DEF Alive
  <2>7. (handle[p][h] # NoHandle /\ Alive(handle[p][h].semid))'
    BY <1>4, <2>1, <2>5 DEF Alive
  <2>8. kept' = kept
    BY DEF Register
  <2>9. \A u \in Use : Owned(u[1], u[2], u[3])' <=> (Owned(u[1], u[2], u[3]) /\ u # x) \/ u = y
    BY <1>1, <1>2, <2>2, <2>3, <2>6, <2>7, <2>8 DEF Use, Owned
  <2> HIDE DEF x, y
  <2>. QED  BY <2>1, <2>4, <2>9, Exchanged
<1>5. CASE ~Alive(arg[p].semid)
  <2>1. UNCHANGED kernel /\ kept' = kept
    BY <1>5 DEF Register
  <2>2. \A q \in Proc : Serialised(q)' <=> Serialised(q)
    BY <1>5, <2>1 DEF Register, CallsTyped, Serialised, Alive, kernel, Getting
  <2>3. \A q \in Proc, i \in Slot :
          (handle[q][i] # NoHandle /\ Alive(handle[q][i].semid))' <=>
             (handle[q][i] # NoHandle /\ Alive(handle[q][i].semid))
    BY <1>1, <1>3, <1>5, <2>1 DEF Alive, kernel
  <2>. QED  BY <2>1, <2>2, <2>3, SameParts DEF kernel
<1>. QED  BY <1>4, <1>5

\* A death takes the uses of the process.
LEMMA ExitCounted ==
  ASSUME KernelTyped, CallsTyped, Counted, NEW p \in Proc, Exit(p)
  PROVE  Counted'
<1>1. /\ semval'["USAGE"] = IF semval["USAGE"] + semadj[p]["USAGE"] < 0 THEN 0
                            ELSE semval["USAGE"] + semadj[p]["USAGE"]
      /\ semadj'[p]["USAGE"] = 0 /\ \A q \in Proc \ {p} : semadj'[q] = semadj[q]
      /\ semid' = semid /\ exists' = exists
  BY DEF Exit, KernelTyped, Sems, None3, Ops
<1>2. ~Serialised(p)' /\ \A q \in Proc \ {p} : Serialised(q)' <=> Serialised(q)
  BY <1>1 DEF Exit, CallsTyped, Serialised, Alive, Getting
<1>3. /\ \A h \in Slot : handle'[p][h] = NoHandle
      /\ \A q \in Proc \ {p} : handle'[q] = handle[q] /\ kept'[q] = kept[q]
      /\ kept'[p].uses = 0
  BY DEF Exit, CallsTyped, Nothing
<1>4. \A u \in Use : Owned(u[1], u[2], u[3])' <=> Owned(u[1], u[2], u[3]) /\ u[1] # p
  BY <1>1, <1>2, <1>3 DEF Use, Owned, Alive
<1>. QED  BY <1>1, <1>4, NoneOf

\* A handle is counted on or down: it stays what it was for USAGE.
LEMMA CountedOn ==
  ASSUME KernelTyped, CallsTyped, Counted, NEW p \in Proc, NEW h \in Slot, NEW i \in Int, NEW c,
         handle[p][h] # NoHandle, Alive(handle[p][h].semid), c \in Nat,
         Semop(p, Ops(i, 0, 0)), handle' = [handle EXCEPT ![p][h].count = c],
         kept' = kept, \A q \in Proc : Serialised(q)' <=> Serialised(q)
  PROVE  Counted'
<1> DEFINE new == [handle[p][h] EXCEPT !.count = c]
<1>1. /\ semval'["USAGE"] = semval["USAGE"]
      /\ \A q \in Proc : semadj'[q]["USAGE"] = semadj[q]["USAGE"]
      /\ semid' = semid /\ exists' = exists
  <2>1. 0 \in Int
    OBVIOUS
  <2>. QED  BY <2>1, SemopNoUse
<1>2. handle[p][h] \in Handle
  BY DEF CallsTyped
<1>3. new \in Handle /\ new.semid = handle[p][h].semid
  BY <1>2 DEF Handle
<1>4. new # NoHandle
  BY <1>3, SemAssumption DEF SemAssumption
<1>5. handle'[p][h] = new /\ \A q \in Proc, j \in Slot : q # p \/ j # h => handle'[q][j] = handle[q][j]
  BY DEF CallsTyped
<1> HIDE DEF new
<1>6. \A q \in Proc, j \in Slot :
        (handle[q][j] # NoHandle /\ Alive(handle[q][j].semid))' <=>
           (handle[q][j] # NoHandle /\ Alive(handle[q][j].semid))
  BY <1>1, <1>3, <1>4, <1>5 DEF Alive
<1>. QED  BY <1>1, <1>6, SameParts

LEMMA AcquireCounted ==
  ASSUME KernelTyped, CallsTyped, Removed, Waiting, Counted, NEW p \in Proc, Acquire(p)
  PROVE  Counted'
<1>1. PICK h \in Slot : h = arg[p].slot /\ handle[p][h] # NoHandle
  BY DEF Acquire, Waiting
<1>2. semid' = semid /\ exists' = exists
  BY DEF Acquire, Semop, kernel
<1>3. \A q \in Proc : Serialised(q)' <=> Serialised(q)
  BY <1>2 DEF Acquire, CallsTyped, Serialised, Alive, Getting
<1>4. CASE Alive(handle[p][h].semid)
  <2>1. handle[p][h].count \in Nat
    BY <1>1, <1>4 DEF CallsTyped, Handle, Removed
  <2> DEFINE c == handle[p][h].count + 1
  <2>2. handle' = [handle EXCEPT ![p][h].count = c] /\ Semop(p, Ops(-1, 0, 0)) /\ kept' = kept
    BY <1>1, <1>4 DEF Acquire
  <2>3. c \in Nat /\ -1 \in Int
    BY <2>1
  <2> HIDE DEF c
  <2>. QED  BY <1>1, <1>3, <1>4, <2>2, <2>3, CountedOn
<1>5. CASE ~Alive(handle[p][h].semid)
  <2>1. UNCHANGED <<kernel, handle, kept>>
    BY <1>1, <1>5 DEF Acquire
  <2>. QED  BY <1>3, <2>1, SameParts DEF kernel, Alive
<1>. QED  BY <1>4, <1>5

LEMMA ReleaseCounted ==
  ASSUME KernelTyped, CallsTyped, Removed, Counted, NEW p \in Proc, Release(p)
  PROVE  Counted'
<1>1. PICK h \in Slot :
        /\ handle[p][h] # NoHandle /\ handle[p][h].count # 0 /\ Alive(handle[p][h].semid)
        /\ Semop(p, Ops(1, 0, 0))
        /\ handle' = [handle EXCEPT ![p][h].count = handle[p][h].count - 1]
  BY DEF Release
<1>2. handle[p][h].count \in Nat \ {0}
  BY <1>1 DEF CallsTyped, Handle, Removed
<1>3. semid' = semid /\ exists' = exists
  BY <1>1 DEF Semop
<1>4. \A q \in Proc : Serialised(q)' <=> Serialised(q)
  BY <1>3 DEF Release, Serialised, Alive
<1> DEFINE c == handle[p][h].count - 1
<1>5. c \in Nat /\ 1 \in Int
  BY <1>2
<1>6. kept' = kept
  BY DEF Release
<1>7. handle' = [handle EXCEPT ![p][h].count = c]
  BY <1>1
<1> HIDE DEF c
<1>. QED  BY <1>1, <1>4, <1>5, <1>6, <1>7, CountedOn

LEMMA RemoveCounted ==
  ASSUME CallsTyped, NEW p \in Proc, Remove(p)
  PROVE  Counted'
<1>1. /\ semval'["USAGE"] = 0 /\ \A q \in Proc : semadj'[q]["USAGE"] = 0
      /\ exists' = FALSE /\ \A q \in Proc : kept'[q].uses = 0
  BY DEF Remove, None3, Ops, Nothing
<1>2. \A u \in Use : ~Owned(u[1], u[2], u[3])'
  BY <1>1 DEF Use, Owned, Serialised, Alive
<1>3. InUse' = {} /\ \A q \in Proc : Of(q)' = {}
  BY <1>2 DEF InUse, Of, Use
<1>. QED  BY <1>1, <1>3, FS_EmptySet DEF Counted

\* The end of a handle: without auto_release its use becomes one that is kept.
LEMMA DestroyCounted ==
  ASSUME KernelTyped, CallsTyped, Removed, Counted, NEW p \in Proc, Destroy(p)
  PROVE  Counted'
<1>1. PICK h \in Slot :
        /\ handle[p][h] # NoHandle
        /\ handle' = [handle EXCEPT ![p][h] = NoHandle]
        /\ IF handle[p][h].count = -1 \/ ~handle[p][h].auto_release
           THEN /\ kept' = IF ~Alive(handle[p][h].semid) THEN kept
                           ELSE [kept EXCEPT ![p].held = @ + handle[p][h].count, ![p].uses = @ + 1]
                /\ UNCHANGED kernel
           ELSE /\ IF Alive(handle[p][h].semid) THEN Semop(p, Ops(handle[p][h].count, -1, 0))
                   ELSE UNCHANGED kernel
                /\ kept' = kept
  BY DEF Destroy
<1> DEFINE x == <<p, "slot", h>>
           y == <<p, "kept", kept[p].uses + 1>>
<1>2. semid' = semid /\ exists' = exists
  BY <1>1 DEF Semop, kernel
<1>3. \A q \in Proc : Serialised(q)' <=> Serialised(q)
  BY <1>2 DEF Destroy, Serialised, Alive
<1>4. handle'[p][h] = NoHandle /\ \A q \in Proc, i \in Slot : q # p \/ i # h => handle'[q][i] = handle[q][i]
  BY <1>1 DEF CallsTyped
<1>5. CASE ~Alive(handle[p][h].semid)
  <2>1. UNCHANGED <<kernel, kept>>
    BY <1>1, <1>5
  <2>2. \A q \in Proc, i \in Slot :
          (handle[q][i] # NoHandle /\ Alive(handle[q][i].semid))' <=>
             (handle[q][i] # NoHandle /\ Alive(handle[q][i].semid))
    BY <1>1, <1>2, <1>4, <1>5 DEF Alive
  <2>. QED  BY <1>3, <2>1, <2>2, SameParts DEF kernel
<1>6. CASE Alive(handle[p][h].semid) /\ ~handle[p][h].auto_release
  <2>1. UNCHANGED kernel
    BY <1>1, <1>6
  <2>2. kept[p] \in [uses : Nat, held : Nat]
    BY DEF CallsTyped
  <2>3. kept'[p].uses = kept[p].uses + 1 /\ \A q \in Proc \ {p} : kept'[q] = kept[q]
    BY <1>1, <1>6, <2>2 DEF CallsTyped
  <2>4. kept[p].uses \in Nat
    BY <2>2
  <2>5. x \in InUse /\ y \in Use /\ y \notin InUse /\ x[1] = p /\ y[1] = p
    BY <1>1, <1>6, <2>4 DEF Use, InUse, Owned
  <2>6. \A u \in Use : Owned(u[1], u[2], u[3])' <=> (Owned(u[1], u[2], u[3]) /\ u # x) \/ u = y
    BY <1>2, <1>3, <1>4, <1>6, <2>3, <2>4, <2>5 DEF Use, InUse, Owned, Alive
  <2> HIDE DEF x, y
  <2>. QED  BY <2>1, <2>5, <2>6, Exchanged DEF kernel
<1>7. CASE Alive(handle[p][h].semid) /\ handle[p][h].auto_release
  <2>1. handle[p][h].count \in Nat
    BY <1>1, <1>7 DEF CallsTyped, Handle, Removed
  <2>2. Semop(p, Ops(handle[p][h].count, -1, 0)) /\ kept' = kept
    BY <1>1, <1>7, <2>1
  <2>3. handle[p][h].count \in Int /\ -1 \in Int /\ 0 \in Int
    BY <2>1
  <2>4. /\ semval'["USAGE"] = semval["USAGE"] + (-1)
        /\ semadj'[p]["USAGE"] = semadj[p]["USAGE"] - (-1)
        /\ \A q \in Proc \ {p} : semadj'[q] = semadj[q]
        /\ semval["USAGE"] \in Nat /\ semadj[p]["USAGE"] \in Int
    BY <2>2, <2>3, SemopUsage
  <2>5. semval'["USAGE"] = semval["USAGE"] - 1 /\ semadj'[p]["USAGE"] = semadj[p]["USAGE"] + 1
    BY <2>4
  <2>6. x \in InUse /\ x[1] = p
    BY <1>1, <1>7 DEF Use, InUse, Owned
  <2>7. \A u \in Use : Owned(u[1], u[2], u[3])' <=> Owned(u[1], u[2], u[3]) /\ u # x
    BY <1>2, <1>3, <1>4, <2>2 DEF Use, Owned, Alive
  <2> HIDE DEF x
  <2>. QED  BY <2>4, <2>5, <2>6, <2>7, OneLess
<1>. QED  BY <1>5, <1>6, <1>7

\* Reading USAGE, setting SEM and the start of sem_acquire change none.
LEMMA OthersCounted ==
  ASSUME KernelTyped, CallsTyped, Counted, NEW p \in Proc,
         ReadUsage(p) \/ SetMax(p) \/ CallAcquire(p)
  PROVE  Counted'
<1>1. /\ semval'["USAGE"] = semval["USAGE"]
      /\ \A q \in Proc : semadj'[q]["USAGE"] = semadj[q]["USAGE"]
      /\ semid' = semid /\ exists' = exists /\ handle' = handle /\ kept' = kept
  BY DEF ReadUsage, SetMax, CallAcquire, kernel, KernelTyped, Sems
<1>2. \A q \in Proc : Serialised(q)' <=> Serialised(q)
  BY <1>1 DEF ReadUsage, SetMax, CallAcquire, CallsTyped, Serialised, Alive, Getting
<1>. QED  BY <1>1, <1>2, SameParts DEF Alive

CountInv == Inv /\ Empty /\ Counted

LEMMA CountInvInit == Init => CountInv
<1> SUFFICES ASSUME Init PROVE CountInv
  OBVIOUS
<1>1. Empty
  BY DEF Init, Empty, Getting
<1>2. \A u \in Use : ~Owned(u[1], u[2], u[3])
  BY DEF Init, Use, Owned, Serialised, Alive, Nothing
<1>3. InUse = {} /\ \A q \in Proc : Of(q) = {}
  BY <1>2 DEF InUse, Of, Use
<1>4. semval["USAGE"] = 0 /\ \A q \in Proc : semadj[q]["USAGE"] = 0
  BY DEF Init, None3, Ops
<1>5. Counted
  BY <1>3, <1>4, FS_EmptySet DEF Counted
<1>. QED  BY <1>1, <1>5, InvInit DEF CountInv

LEMMA CountInvNext == CountInv /\ [Next]_vars => CountInv'
<1> SUFFICES ASSUME CountInv, [Next]_vars PROVE CountInv'
  OBVIOUS
<1>1. KernelTyped /\ CallsTyped /\ Removed /\ Waiting /\ Empty /\ Counted
  BY TypeOKParts DEF CountInv, Inv
<1>2. Inv' /\ Empty'
  BY <1>1, InvNext, KeepsEmpty DEF CountInv
<1>3. Counted'
  <2>1. ASSUME NEW p \in Proc, SemGet(p) PROVE Counted'
    BY <1>1, <2>1, SemGetCounted
  <2>2. ASSUME NEW p \in Proc, Step(p) PROVE Counted'
    BY <1>1, <2>2, CountUseCounted, OthersCounted, RegisterCounted DEF Step
  <2>3. ASSUME NEW p \in Proc, CallAcquire(p) PROVE Counted'
    BY <1>1, <2>3, OthersCounted
  <2>4. ASSUME NEW p \in Proc, Acquire(p) PROVE Counted'
    BY <1>1, <2>4, AcquireCounted
  <2>5. ASSUME NEW p \in Proc, Release(p) PROVE Counted'
    BY <1>1, <2>5, ReleaseCounted
  <2>6. ASSUME NEW p \in Proc, Remove(p) PROVE Counted'
    BY <1>1, <2>6, RemoveCounted
  <2>7. ASSUME NEW p \in Proc, Destroy(p) PROVE Counted'
    BY <1>1, <2>7, DestroyCounted
  <2>8. ASSUME NEW p \in Proc, Exit(p) PROVE Counted'
    BY <1>1, <2>8, ExitCounted
  <2>9. CASE UNCHANGED vars
    <3>1. UNCHANGED <<semval, semadj, semid, exists, handle, kept>>
      BY <2>9 DEF vars, kernel
    <3>2. \A q \in Proc : Serialised(q)' <=> Serialised(q)
      BY <2>9 DEF vars, kernel, Serialised, Alive
    <3>. QED  BY <1>1, <3>1, <3>2, SameParts DEF Alive
  <2>. QED  BY <2>1, <2>2, <2>3, <2>4, <2>5, <2>6, <2>7, <2>8, <2>9 DEF Next
<1>. QED  BY <1>2, <1>3 DEF CountInv

LEMMA CountInvariant == Spec => []CountInv
  BY CountInvInit, CountInvNext, PTL DEF Spec

-----------------------------------------------------------------------------
\* What sem_get reads in USAGE, and what a death takes from it (SEM_UNDO), is the number of
\* live handles, uses kept by handles without auto_release, and calls between their
\* first and their last semop.
THEOREM UsageCountsTheUses == Spec => []Counted
<1>1. CountInv => Counted
  BY DEF CountInv
<1>. QED  BY <1>1, CountInvariant, PTL

\* The semop of release_sysvsem_sem, which takes one from USAGE, does not wait for it: the end of a
\* request does not hang, whatever the other processes and the kernel did before.
THEOREM EndOfHandleGoesThrough == Spec => []DestroyNeverWaits
<1>1. CountInv => DestroyNeverWaits
  <2> SUFFICES ASSUME CountInv, NEW p \in Proc, NEW h \in Live(p)
               PROVE  semval["USAGE"] >= 1
    BY DEF DestroyNeverWaits
  <2>1. IsFiniteSet(InUse) /\ semval["USAGE"] = Cardinality(InUse)
    BY DEF CountInv, Counted
  <2>2. <<p, "slot", h>> \in InUse
    BY DEF Live, InUse, Use, Owned
  <2>3. Cardinality(InUse) # 0 /\ Cardinality(InUse) \in Nat
    BY <2>1, <2>2, FS_EmptySet, FS_CardinalityType
  <2>. QED  BY <2>1, <2>3
<1>. QED  BY <1>1, CountInvariant, PTL

-----------------------------------------------------------------------------
\* Sums.

LEMMA UnitsOfOne ==
  ASSUME NEW x, NEW n \in Nat
  PROVE  IsFiniteSet({x} \X (1..n)) /\ Cardinality({x} \X (1..n)) = n
<1>1. IsFiniteSet({x}) /\ Cardinality({x}) = 1
  BY FS_Singleton
<1>2. IsFiniteSet(1..n) /\ Cardinality(1..n) = n
  BY FS_Interval
<1>3. /\ IsFiniteSet({x} \X (1..n))
      /\ Cardinality({x} \X (1..n)) = Cardinality({x}) * Cardinality(1..n)
  BY <1>1, <1>2, FS_Product
<1>. QED  BY <1>1, <1>2, <1>3

\* A sum over a finite set is a natural number.
LEMMA TotalType ==
  ASSUME NEW S, IsFiniteSet(S), NEW f \in [S -> Nat]
  PROVE  IsFiniteSet(Units(f)) /\ Total(f) \in Nat
<1> DEFINE F == {{x} \X (1..f[x]) : x \in S}
           g == [x \in S |-> {x} \X (1..f[x])]
<1>1. g \in Surjection(S, F)
  BY DEF Surjection
<1>2. IsFiniteSet(F)
  BY <1>1, FS_Surjection
<1>3. ASSUME NEW T \in F PROVE IsFiniteSet(T)
  <2>1. PICK x \in S : T = {x} \X (1..f[x])
    OBVIOUS
  <2>2. f[x] \in Nat
    OBVIOUS
  <2>. QED  BY <2>1, <2>2, UnitsOfOne
<1>4. IsFiniteSet(UNION F)
  BY <1>2, <1>3, FS_UNION
<1>5. Units(f) = UNION F
  BY DEF Units
<1>. QED  BY <1>4, <1>5, FS_CardinalityType DEF Total

\* One summand taken out.
LEMMA TotalSplit ==
  ASSUME NEW S, IsFiniteSet(S), NEW f \in [S -> Nat], NEW x \in S
  PROVE  Total(f) = f[x] + Total([y \in S \ {x} |-> f[y]])
<1> DEFINE r == [y \in S \ {x} |-> f[y]]
<1>1. IsFiniteSet(S \ {x}) /\ r \in [S \ {x} -> Nat]
  BY FS_RemoveElement
<1>2. IsFiniteSet(Units(r)) /\ Total(r) \in Nat
  BY <1>1, TotalType
<1>3. IsFiniteSet({x} \X (1..f[x])) /\ Cardinality({x} \X (1..f[x])) = f[x]
  BY UnitsOfOne
<1>4. Units(f) = ({x} \X (1..f[x])) \cup Units(r)
  BY DEF Units
<1>5. ({x} \X (1..f[x])) \cap Units(r) = {}
  BY DEF Units
<1> HIDE DEF r
<1>6. Cardinality(({x} \X (1..f[x])) \cup Units(r)) = f[x] + Cardinality(Units(r)) - Cardinality({})
  BY <1>2, <1>3, <1>5, FS_Union
<1>7. Cardinality({}) = 0 /\ f[x] \in Nat
  BY FS_EmptySet
<1>8. Total(f) = f[x] + Total(r)
  BY <1>2, <1>4, <1>6, <1>7 DEF Total
<1>. QED  BY <1>8 DEF r

\* One summand changed.
LEMMA TotalChange ==
  ASSUME NEW S, IsFiniteSet(S), NEW f \in [S -> Nat], NEW g \in [S -> Nat], NEW x \in S,
         \A y \in S \ {x} : g[y] = f[y]
  PROVE  Total(g) = Total(f) - f[x] + g[x] /\ f[x] <= Total(f)
<1>1. [y \in S \ {x} |-> f[y]] = [y \in S \ {x} |-> g[y]]
  OBVIOUS
<1>2. Total([y \in S \ {x} |-> f[y]]) \in Nat
  <2>1. IsFiniteSet(S \ {x}) /\ [y \in S \ {x} |-> f[y]] \in [S \ {x} -> Nat]
    BY FS_RemoveElement
  <2>. QED  BY <2>1, TotalType
<1>3. Total(f) = f[x] + Total([y \in S \ {x} |-> f[y]]) /\ Total(g) = g[x] + Total([y \in S \ {x} |-> g[y]])
  BY TotalSplit
<1>4. f[x] \in Nat /\ g[x] \in Nat
  OBVIOUS
<1>. QED  BY <1>1, <1>2, <1>3, <1>4

LEMMA TotalOfZeros ==
  ASSUME NEW S, NEW f \in [S -> Nat], \A x \in S : f[x] = 0
  PROVE  Total(f) = 0
<1>1. Units(f) = {}
  BY DEF Units
<1>. QED  BY <1>1, FS_EmptySet DEF Total

-----------------------------------------------------------------------------
\* What a process has, and what the steps do to it.

Joined(p) == pc[p] \in {"first", "registering"} /\ Alive(arg[p].semid)
Counts(p) == [h \in Live(p) |-> handle[p][h].count]

\* A process that holds without a handle has a use without one, and a set that is gone
\* leaves neither.
Backed ==
  /\ \A p \in Proc : kept[p].uses = 0 => kept[p].held = 0
  /\ ~exists => \A p \in Proc : kept[p].uses = 0

\* What sem_get asks for is a limit.
Asks == \A p \in Proc : pc[p] \in Getting => arg[p].max \in MaxAcquire

\* The undo of a process gives back what it holds.
GivesBack == \A p \in Proc : semadj[p]["SEM"] = Holds(p)

\* Nobody has a use while the first user sets the limit.
FirstIsAlone == \A p \in Proc : First(p) => Uses(p) = 1 /\ \A q \in Proc \ {p} : Uses(q) = 0

LEMMA LiveCounts ==
  ASSUME CallsTyped, Removed, NEW p \in Proc
  PROVE  /\ IsFiniteSet(Live(p)) /\ Cardinality(Live(p)) \in Nat
         /\ Counts(p) \in [Live(p) -> Nat] /\ Total(Counts(p)) \in Nat
         /\ kept[p].uses \in Nat /\ kept[p].held \in Nat
<1>1. Live(p) \in SUBSET Slot /\ IsFiniteSet(Slot)
  BY SemAssumption DEF Live, SemAssumption
<1>2. IsFiniteSet(Live(p))
  BY <1>1, FS_Subset
<1>3. \A h \in Live(p) : handle[p][h].count \in Nat
  BY DEF Live, CallsTyped, Handle, Removed
<1>4. Counts(p) \in [Live(p) -> Nat]
  BY <1>3 DEF Counts
<1>5. kept[p] \in [uses : Nat, held : Nat]
  BY DEF CallsTyped
<1>. QED  BY <1>2, <1>4, <1>5, TotalType, FS_CardinalityType

LEMMA UsesAndHolds ==
  ASSUME CallsTyped, Removed, NEW p \in Proc
  PROVE  /\ Uses(p) \in Nat /\ Holds(p) \in Nat
         /\ Uses(p) = Cardinality(Live(p)) + kept[p].uses + (IF Joined(p) THEN 1 ELSE 0)
         /\ Holds(p) = kept[p].held + Total(Counts(p))
         /\ Uses(p) = 0 <=> Live(p) = {} /\ kept[p].uses = 0 /\ ~Joined(p)
         /\ Live(p) = {} => Total(Counts(p)) = 0
<1>1. /\ Cardinality(Live(p)) \in Nat /\ kept[p].uses \in Nat
      /\ kept[p].held \in Nat /\ Total(Counts(p)) \in Nat
      /\ Counts(p) \in [Live(p) -> Nat] /\ IsFiniteSet(Live(p))
  BY LiveCounts
<1>2. /\ Uses(p) = Cardinality(Live(p)) + kept[p].uses + (IF Joined(p) THEN 1 ELSE 0)
      /\ Holds(p) = kept[p].held + Total(Counts(p))
  BY DEF Uses, Holds, Joined, Counts
<1>3. Cardinality(Live(p)) = 0 <=> Live(p) = {}
  BY <1>1, FS_EmptySet
<1>4. Live(p) = {} => Total(Counts(p)) = 0
  BY <1>1, TotalOfZeros
<1>. QED  BY <1>1, <1>2, <1>3, <1>4

\* What the abstract semaphore is made of, of one process.
Same(q) ==
  /\ Uses(q)' = Uses(q) /\ Holds(q)' = Holds(q)
  /\ First(q)' <=> First(q)
  /\ First(q) => arg'[q].max = arg[q].max

\* A step that nobody sees in it.
Quiet ==
  /\ \A q \in Proc : Same(q) /\ semadj'[q]["SEM"] = semadj[q]["SEM"]
  /\ semval'["SEM"] = semval["SEM"]

LEMMA SameHandles ==
  ASSUME NEW q \in Proc, handle'[q] = handle[q], kept'[q] = kept[q],
         semid' = semid, exists' = exists
  PROVE  /\ Live(q)' = Live(q) /\ Holds(q)' = Holds(q)
         /\ (Joined(q)' <=> Joined(q)) => Uses(q)' = Uses(q)
<1>1. Live(q)' = Live(q)
  BY DEF Live, Alive
<1>. QED  BY <1>1 DEF Holds, Uses, Joined

LEMMA SameProcess ==
  ASSUME NEW q \in Proc, handle'[q] = handle[q], kept'[q] = kept[q],
         pc'[q] = pc[q], arg'[q] = arg[q], semid' = semid, exists' = exists
  PROVE  Same(q)
<1>1. (Joined(q)' <=> Joined(q)) /\ (First(q)' <=> First(q))
  BY DEF Joined, First, Alive
<1>. QED  BY <1>1, SameHandles DEF Same

LEMMA SemopSem ==
  ASSUME KernelTyped, NEW p \in Proc, NEW i \in Int, NEW j \in Int, NEW k \in Int,
         Semop(p, Ops(i, j, k))
  PROVE  /\ semval["SEM"] + i >= 0
         /\ semval'["SEM"] = semval["SEM"] + i
         /\ semadj'[p]["SEM"] = semadj[p]["SEM"] - i
         /\ \A q \in Proc \ {p} : semadj'[q] = semadj[q]
         /\ semval["SEM"] \in Nat /\ semadj[p]["SEM"] \in Int
         /\ semid' = semid /\ exists' = exists
<1>1. "SEM" \in Sems /\ Ops(i, j, k)["SEM"] = i
  BY DEF Sems, Ops
<1>. QED  BY <1>1 DEF KernelTyped, Semop

LEMMA SemopNotSem ==
  ASSUME KernelTyped, NEW p \in Proc, NEW j \in Int, NEW k \in Int, Semop(p, Ops(0, j, k))
  PROVE  /\ semval'["SEM"] = semval["SEM"]
         /\ \A q \in Proc : semadj'[q]["SEM"] = semadj[q]["SEM"]
         /\ semid' = semid /\ exists' = exists
<1>1. 0 \in Int
  OBVIOUS
<1>2. semval["SEM"] \in Nat /\ \A q \in Proc : semadj[q]["SEM"] \in Int
  BY DEF KernelTyped, Sems
<1>3. /\ semval'["SEM"] = semval["SEM"] + 0
      /\ semadj'[p]["SEM"] = semadj[p]["SEM"] - 0
      /\ \A q \in Proc \ {p} : semadj'[q] = semadj[q]
      /\ semid' = semid /\ exists' = exists
  BY <1>1, SemopSem
<1>. QED  BY <1>2, <1>3

\* semget makes a set nobody has a handle of.
LEMMA SemGetQuiet ==
  ASSUME KernelTyped, CallsTyped, Removed, Backed, NEW p \in Proc, SemGet(p)
  PROVE  Quiet
<1>1. semval' = semval /\ semadj' = semadj /\ handle' = handle /\ kept' = kept
  BY DEF SemGet
<1>2. \A q \in Proc \ {p} : pc'[q] = pc[q] /\ arg'[q] = arg[q]
  BY DEF SemGet, CallsTyped
<1>3. pc[p] = "idle" /\ pc'[p] = "semget"
  BY DEF SemGet, CallsTyped
<1>4. CASE exists
  <2>1. semid' = semid /\ exists' = exists
    BY <1>4 DEF SemGet
  <2>2. \A q \in Proc \ {p} : Same(q)
    BY <1>1, <1>2, <2>1, SameProcess
  <2>3. ~Joined(p) /\ ~Joined(p)' /\ ~First(p) /\ ~First(p)'
    BY <1>3 DEF Joined, First
  <2>4. Same(p)
    BY <1>1, <2>1, <2>3, SameHandles DEF Same
  <2>. QED  BY <1>1, <2>2, <2>4 DEF Quiet
<1>5. CASE ~exists
  <2>1. semid' = semid + 1 /\ semid \in Nat
    BY <1>5 DEF SemGet, KernelTyped
  <2>2. \A q \in Proc : Live(q) = {} /\ Live(q)' = {}
    <3>1. \A q \in Proc, h \in Slot : handle[q][h] # NoHandle =>
            handle[q][h].semid \in Nat /\ handle[q][h].semid <= semid
      BY DEF CallsTyped, Handle, Removed
    <3>. QED  BY <1>1, <1>5, <2>1, <3>1 DEF Live, Alive
  <2>3. \A q \in Proc : ~Joined(q) /\ ~First(q)
    BY <1>5 DEF Joined, First, Alive
  <2>4. \A q \in Proc : ~Joined(q)' /\ ~First(q)'
    <3>1. \A q \in Proc : arg[q].semid \in Nat /\ arg[q].semid <= semid
      <4>1. \A q \in Proc : arg[q] \in ArgType
        BY DEF CallsTyped
      <4>. QED  BY <4>1 DEF ArgType, Removed
    <3>2. \A q \in Proc \ {p} : ~Alive(arg[q].semid)'
      BY <1>2, <2>1, <3>1 DEF Alive
    <3>. QED  BY <1>3, <3>2 DEF Joined, First
  <2>5. \A q \in Proc : Holds(q)' = Holds(q) /\ Uses(q)' = Uses(q)
    BY <1>1, <2>2, <2>3, <2>4 DEF Holds, Uses, Joined
  <2>. QED  BY <1>1, <2>3, <2>4, <2>5 DEF Quiet, Same
<1>. QED  BY <1>4, <1>5

\* Calls that go on, or fail on a set that is gone.
LEMMA CallsQuiet ==
  ASSUME KernelTyped, CallsTyped, NEW p \in Proc,
         CountUse(p) \/ CallAcquire(p) \/ ((ReadUsage(p) \/ SetMax(p)) /\ ~Alive(arg[p].semid))
  PROVE  Quiet
<1>1. /\ semval'["SEM"] = semval["SEM"]
      /\ \A q \in Proc : semadj'[q]["SEM"] = semadj[q]["SEM"]
      /\ semid' = semid /\ exists' = exists
  <2>1. 1 \in Int
    OBVIOUS
  <2>2. UNCHANGED kernel \/ Semop(p, Ops(0, 1, 1))
    BY DEF CountUse, CallAcquire, ReadUsage, SetMax
  <2>. QED  BY <2>1, <2>2, SemopNotSem DEF kernel
<1>2. handle' = handle /\ kept' = kept /\ \A q \in Proc \ {p} : pc'[q] = pc[q] /\ arg'[q] = arg[q]
  BY DEF CountUse, CallAcquire, ReadUsage, SetMax, CallsTyped
<1>3. \A q \in Proc \ {p} : Same(q)
  BY <1>1, <1>2, SameProcess
<1>4. ~Joined(p) /\ ~Joined(p)' /\ ~First(p) /\ ~First(p)'
  BY <1>1 DEF CountUse, CallAcquire, ReadUsage, SetMax, CallsTyped, Joined, First, Alive
<1>5. Same(p)
  BY <1>1, <1>2, <1>4, SameHandles DEF Same
<1>. QED  BY <1>1, <1>3, <1>5 DEF Quiet

\* A handle is added to, taken from and counted in those of a process.
LEMMA HandleMade ==
  ASSUME CallsTyped, Removed, NEW p \in Proc, NEW h \in Slot, h \notin Live(p),
         Live(p)' = Live(p) \cup {h}, \A i \in Live(p) : handle'[p][i] = handle[p][i],
         handle'[p][h].count = 0
  PROVE  /\ Cardinality(Live(p))' = Cardinality(Live(p)) + 1
         /\ Total(Counts(p))' = Total(Counts(p))
<1>1. IsFiniteSet(Live(p)) /\ Counts(p) \in [Live(p) -> Nat] /\ Total(Counts(p)) \in Nat
  BY LiveCounts
<1>2. IsFiniteSet(Live(p)') /\ Cardinality(Live(p)') = Cardinality(Live(p)) + 1
  BY <1>1, FS_AddElement
<1>3. \A i \in Live(p) : handle'[p][i].count \in Nat /\ Counts(p)[i] = handle'[p][i].count
  BY <1>1 DEF Counts
<1>4. Counts(p)' \in [Live(p)' -> Nat] /\ Counts(p)'[h] = 0 /\ h \in Live(p)'
  BY <1>3 DEF Counts
<1>5. [i \in Live(p)' \ {h} |-> Counts(p)'[i]] = Counts(p)
  BY <1>3, <1>4 DEF Counts
<1>6. Total(Counts(p)') = Counts(p)'[h] + Total([i \in Live(p)' \ {h} |-> Counts(p)'[i]])
  BY <1>2, <1>4, TotalSplit
<1>. QED  BY <1>1, <1>2, <1>4, <1>5, <1>6

LEMMA HandleGone ==
  ASSUME CallsTyped, Removed, NEW p \in Proc, NEW h \in Live(p),
         Live(p)' = Live(p) \ {h}, \A i \in Live(p) \ {h} : handle'[p][i] = handle[p][i]
  PROVE  /\ Cardinality(Live(p))' = Cardinality(Live(p)) - 1
         /\ handle[p][h].count \in Nat /\ handle[p][h].count <= Total(Counts(p))
         /\ Total(Counts(p))' = Total(Counts(p)) - handle[p][h].count
<1>1. IsFiniteSet(Live(p)) /\ Counts(p) \in [Live(p) -> Nat] /\ Total(Counts(p)) \in Nat
  BY LiveCounts
<1>2. IsFiniteSet(Live(p) \ {h}) /\ Cardinality(Live(p) \ {h}) = Cardinality(Live(p)) - 1
  BY <1>1, FS_RemoveElement
<1>3. Counts(p)[h] = handle[p][h].count /\ Counts(p)[h] \in Nat
  BY <1>1 DEF Counts
<1>4. [i \in Live(p) \ {h} |-> Counts(p)[i]] = Counts(p)'
  BY DEF Counts
<1>5. Total(Counts(p)) = Counts(p)[h] + Total([i \in Live(p) \ {h} |-> Counts(p)[i]])
  <2>1. h \in Live(p)
    OBVIOUS
  <2> DEFINE S == Live(p)
             f == Counts(p)
  <2>2. IsFiniteSet(S) /\ f \in [S -> Nat] /\ h \in S
    BY <1>1, <2>1
  <2> HIDE DEF S, f
  <2>3. Total(f) = f[h] + Total([i \in S \ {h} |-> f[i]])
    BY <2>2, TotalSplit
  <2>. QED  BY <2>3 DEF S, f
<1>6. Total(Counts(p)') \in Nat
  <2>1. [i \in Live(p) \ {h} |-> Counts(p)[i]] \in [Live(p) \ {h} -> Nat]
    BY <1>1
  <2>. QED  BY <1>2, <1>4, <2>1, TotalType
<1>. QED  BY <1>1, <1>2, <1>3, <1>4, <1>5, <1>6

LEMMA HandleCounts ==
  ASSUME CallsTyped, Removed, NEW p \in Proc, NEW h \in Live(p), NEW c \in Nat,
         Live(p)' = Live(p), \A i \in Live(p) \ {h} : handle'[p][i] = handle[p][i],
         handle'[p][h].count = c
  PROVE  Total(Counts(p))' = Total(Counts(p)) - handle[p][h].count + c
         /\ handle[p][h].count <= Total(Counts(p))
<1>1. IsFiniteSet(Live(p)) /\ Counts(p) \in [Live(p) -> Nat]
  BY LiveCounts
<1>2. \A i \in Live(p) \ {h} : Counts(p)'[i] = Counts(p)[i]
  BY DEF Counts
<1>3. Counts(p)'[h] = c /\ Counts(p)[h] = handle[p][h].count
  BY DEF Counts
<1>4. Counts(p)' \in [Live(p) -> Nat]
  <2>1. \A i \in Live(p) : handle'[p][i].count \in Nat
    BY <1>1, <1>2, <1>3 DEF Counts
  <2>. QED  BY <2>1 DEF Counts
<1>. QED  BY <1>1, <1>2, <1>3, <1>4, TotalChange

\* A step that changes how many uses a process has, by m, and how often it holds, by n.
Takes(p, m, n) ==
  /\ \A q \in Proc \ {p} : Same(q) /\ semadj'[q]["SEM"] = semadj[q]["SEM"]
  /\ Live(p) # {} /\ ~First(p) /\ ~First(p)'
  /\ Uses(p)' = Uses(p) + m /\ Holds(p)' = Holds(p) + n
  /\ semval'["SEM"] = semval["SEM"] - n /\ semadj'[p]["SEM"] = semadj[p]["SEM"] + n

\* The use of the call becomes that of the handle.
LEMMA RegisterQuiet ==
  ASSUME KernelTyped, CallsTyped, Removed, Waiting, Empty, NEW p \in Proc, Register(p)
  PROVE  Quiet
<1>1. PICK h \in Slot : h = arg[p].slot /\ handle[p][h] = NoHandle
  BY DEF Register, Waiting, Empty, Getting
<1>2. /\ semval'["SEM"] = semval["SEM"]
      /\ \A q \in Proc : semadj'[q]["SEM"] = semadj[q]["SEM"]
      /\ semid' = semid /\ exists' = exists
  <2>1. 0 \in Int /\ -1 \in Int
    OBVIOUS
  <2>2. UNCHANGED kernel \/ Semop(p, Ops(0, 0, -1))
    BY DEF Register
  <2>. QED  BY <2>1, <2>2, SemopNotSem DEF kernel
<1>3. kept' = kept /\ \A q \in Proc \ {p} : handle'[q] = handle[q] /\ pc'[q] = pc[q] /\ arg'[q] = arg[q]
  BY DEF Register, CallsTyped
<1>4. \A q \in Proc \ {p} : Same(q)
  BY <1>2, <1>3, SameProcess
<1>5. ~First(p) /\ ~First(p)' /\ ~Joined(p)' /\ (Joined(p) <=> Alive(arg[p].semid))
  BY DEF Register, CallsTyped, First, Joined
<1>6. /\ handle'[p][h] = [semid |-> arg[p].semid, count |-> 0, auto_release |-> arg[p].auto]
      /\ \A i \in Slot \ {h} : handle'[p][i] = handle[p][i]
  BY <1>1 DEF Register, CallsTyped
<1>7. handle'[p][h] # NoHandle
  <2>1. arg[p] \in ArgType
    BY DEF CallsTyped
  <2>2. handle'[p][h] \in Handle
    BY <1>6, <2>1 DEF Handle, ArgType
  <2>. QED  BY <2>2, SemAssumption DEF SemAssumption
<1>8. h \notin Live(p) /\ Live(p) \subseteq Slot
  BY <1>1 DEF Live
<1>9. CASE Alive(arg[p].semid)
  <2>1. Live(p)' = Live(p) \cup {h}
    BY <1>2, <1>6, <1>7, <1>9 DEF Live, Alive
  <2>2. /\ Cardinality(Live(p))' = Cardinality(Live(p)) + 1
        /\ Total(Counts(p))' = Total(Counts(p))
    <3>1. handle'[p][h].count = 0 /\ \A i \in Live(p) : handle'[p][i] = handle[p][i]
      BY <1>6, <1>8
    <3>. QED  BY <1>8, <2>1, <3>1, HandleMade
  <2>3. Uses(p)' = Uses(p) /\ Holds(p)' = Holds(p)
    <3>1. /\ Uses(p)' = Cardinality(Live(p))' + kept'[p].uses + 0
          /\ Holds(p)' = kept'[p].held + Total(Counts(p))'
      BY <1>5 DEF Uses, Holds, Joined, Counts
    <3>2. Uses(p) = Cardinality(Live(p)) + kept[p].uses + 1 /\ Holds(p) = kept[p].held + Total(Counts(p))
      BY <1>5, <1>9, UsesAndHolds
    <3>. QED  BY <1>3, <2>2, <3>1, <3>2, LiveCounts
  <2>. QED  BY <1>2, <1>4, <1>5, <2>3 DEF Quiet, Same
<1>10. CASE ~Alive(arg[p].semid)
  <2>1. Live(p)' = Live(p)
    BY <1>1, <1>2, <1>6, <1>10 DEF Live, Alive
  <2>2. [i \in Live(p)' |-> handle'[p][i].count] = [i \in Live(p) |-> handle[p][i].count]
    BY <1>6, <1>8, <2>1
  <2>3. Uses(p)' = Uses(p) /\ Holds(p)' = Holds(p)
    BY <1>3, <1>5, <1>10, <2>1, <2>2 DEF Uses, Holds, Joined
  <2>. QED  BY <1>2, <1>4, <1>5, <2>3 DEF Quiet, Same
<1>. QED  BY <1>9, <1>10

\* A live handle counts on or down.
LEMMA CountTakes ==
  ASSUME KernelTyped, CallsTyped, Removed, NEW p \in Proc, NEW h \in Live(p), NEW n \in Int, NEW i \in Int,
         i + n = 0, handle[p][h].count + n \in Nat,
         Semop(p, Ops(i, 0, 0)), handle' = [handle EXCEPT ![p][h].count = handle[p][h].count + n],
         kept' = kept, pc[p] \in {"idle", "waiting"}, pc'[p] \in {"idle", "waiting"},
         \A q \in Proc \ {p} : pc'[q] = pc[q] /\ arg'[q] = arg[q]
  PROVE  Takes(p, 0, n) /\ semval["SEM"] - n >= 0
<1>1. /\ semval["SEM"] - n >= 0
      /\ semval'["SEM"] = semval["SEM"] - n
      /\ semadj'[p]["SEM"] = semadj[p]["SEM"] + n
      /\ \A q \in Proc \ {p} : semadj'[q] = semadj[q]
      /\ semid' = semid /\ exists' = exists
  <2>1. 0 \in Int
    OBVIOUS
  <2>2. /\ semval["SEM"] + i >= 0
        /\ semval'["SEM"] = semval["SEM"] + i
        /\ semadj'[p]["SEM"] = semadj[p]["SEM"] - i
        /\ \A q \in Proc \ {p} : semadj'[q] = semadj[q]
        /\ semval["SEM"] \in Nat /\ semadj[p]["SEM"] \in Int
        /\ semid' = semid /\ exists' = exists
    BY <2>1, SemopSem
  <2>. QED  BY <2>2
<1>2. \A q \in Proc \ {p} : handle'[q] = handle[q]
  BY DEF CallsTyped
<1>3. \A q \in Proc \ {p} : Same(q)
  BY <1>1, <1>2, SameProcess
<1> DEFINE new == [handle[p][h] EXCEPT !.count = handle[p][h].count + n]
<1>4. h \in Slot /\ handle[p][h] \in Handle
  BY DEF Live, CallsTyped
<1>5. new \in Handle /\ new.semid = handle[p][h].semid /\ new.count = handle[p][h].count + n
  BY <1>4 DEF Handle
<1>6. new # NoHandle
  BY <1>5, SemAssumption DEF SemAssumption
<1>7. handle'[p][h] = new /\ \A j \in Slot \ {h} : handle'[p][j] = handle[p][j]
  BY <1>4 DEF CallsTyped
<1> HIDE DEF new
<1>8. Live(p)' = Live(p)
  BY <1>1, <1>5, <1>6, <1>7 DEF Live, Alive
<1>9. \A j \in Live(p) \ {h} : handle'[p][j] = handle[p][j]
  BY <1>7 DEF Live
<1>10. Total(Counts(p))' = Total(Counts(p)) - handle[p][h].count + (handle[p][h].count + n)
  BY <1>5, <1>7, <1>8, <1>9, HandleCounts
<1>11. ~Joined(p) /\ ~Joined(p)' /\ ~First(p) /\ ~First(p)'
  BY DEF Joined, First
<1>12. Uses(p)' = Uses(p) + 0
  <2>1. Uses(p)' = Uses(p)
    BY <1>8, <1>11 DEF Uses, Joined
  <2>. QED  BY <2>1, UsesAndHolds
<1>13. Holds(p)' = Holds(p) + n
  <2>1. Holds(p)' = kept'[p].held + Total(Counts(p))'
    BY DEF Holds, Counts
  <2>2. Holds(p) = kept[p].held + Total(Counts(p)) /\ kept[p].held \in Nat /\ Total(Counts(p)) \in Nat
    BY UsesAndHolds, LiveCounts
  <2>3. handle[p][h].count \in Int
    BY <1>4 DEF Handle
  <2>. QED  BY <1>10, <2>1, <2>2, <2>3
<1>. QED  BY <1>1, <1>3, <1>11, <1>12, <1>13 DEF Takes

LEMMA AcquireTakes ==
  ASSUME KernelTyped, CallsTyped, Removed, Waiting, NEW p \in Proc, Acquire(p)
  PROVE  Quiet \/ (Takes(p, 0, 1) /\ semval["SEM"] >= 1)
<1>1. PICK h \in Slot : h = arg[p].slot /\ handle[p][h] # NoHandle
  BY DEF Acquire, Waiting
<1>2. /\ pc[p] = "waiting" /\ pc'[p] = "idle" /\ kept' = kept
      /\ \A q \in Proc \ {p} : pc'[q] = pc[q] /\ arg'[q] = arg[q]
  BY DEF Acquire, CallsTyped
<1>3. CASE Alive(handle[p][h].semid)
  <2>1. h \in Live(p)
    BY <1>1, <1>3 DEF Live
  <2>2. handle[p][h].count \in Nat
    BY <1>1, <1>3 DEF CallsTyped, Handle, Removed
  <2>3. Semop(p, Ops(-1, 0, 0)) /\ handle' = [handle EXCEPT ![p][h].count = handle[p][h].count + 1]
    BY <1>1, <1>3 DEF Acquire
  <2>4. 1 \in Int /\ -1 \in Int /\ -1 + 1 = 0 /\ handle[p][h].count + 1 \in Nat
    BY <2>2
  <2>5. Takes(p, 0, 1) /\ semval["SEM"] - 1 >= 0
    BY <1>2, <2>1, <2>3, <2>4, CountTakes
  <2>. QED  BY <2>5 DEF KernelTyped, Sems
<1>4. CASE ~Alive(handle[p][h].semid)
  <2>1. UNCHANGED <<kernel, handle>>
    BY <1>1, <1>4 DEF Acquire
  <2>2. \A q \in Proc \ {p} : Same(q)
    BY <1>2, <2>1, SameProcess DEF kernel
  <2>3. ~Joined(p) /\ ~Joined(p)' /\ ~First(p) /\ ~First(p)'
    BY <1>2 DEF Joined, First
  <2>4. Same(p)
    BY <1>2, <2>1, <2>3, SameHandles DEF Same, kernel
  <2>. QED  BY <2>1, <2>2, <2>4 DEF Quiet, kernel
<1>. QED  BY <1>3, <1>4

LEMMA ReleaseTakes ==
  ASSUME KernelTyped, CallsTyped, Removed, NEW p \in Proc, Release(p)
  PROVE  Takes(p, 0, -1)
<1>1. PICK h \in Slot :
        /\ handle[p][h] # NoHandle /\ handle[p][h].count # 0 /\ Alive(handle[p][h].semid)
        /\ Semop(p, Ops(1, 0, 0))
        /\ handle' = [handle EXCEPT ![p][h].count = handle[p][h].count - 1]
  BY DEF Release
<1>2. h \in Live(p) /\ handle[p][h].count \in Nat \ {0}
  BY <1>1 DEF Live, CallsTyped, Handle, Removed
<1>3. pc[p] = "idle" /\ UNCHANGED <<pc, arg, kept>>
  BY DEF Release
<1>4. /\ handle[p][h].count + (-1) \in Nat /\ handle[p][h].count + (-1) = handle[p][h].count - 1
      /\ 1 \in Int /\ -1 \in Int /\ 1 + (-1) = 0
  <2>1. \A c \in Nat \ {0} : c + (-1) \in Nat /\ c + (-1) = c - 1
    OBVIOUS
  <2>. QED  BY <1>2, <2>1
<1>5. handle' = [handle EXCEPT ![p][h].count = handle[p][h].count + (-1)]
  BY <1>1, <1>4
<1>. QED  BY <1>1, <1>2, <1>3, <1>4, <1>5, CountTakes

\* The end of a handle gives back what it acquired, or leaves all of it.
LEMMA DestroyTakes ==
  ASSUME KernelTyped, CallsTyped, Removed, NEW p \in Proc, Destroy(p)
  PROVE  Quiet \/ \E c \in Nat : c <= Holds(p) /\ Takes(p, -1, -c)
<1>1. PICK h \in Slot :
        /\ handle[p][h] # NoHandle
        /\ handle' = [handle EXCEPT ![p][h] = NoHandle]
        /\ IF handle[p][h].count = -1 \/ ~handle[p][h].auto_release
           THEN /\ kept' = IF ~Alive(handle[p][h].semid) THEN kept
                           ELSE [kept EXCEPT ![p].held = @ + handle[p][h].count, ![p].uses = @ + 1]
                /\ UNCHANGED kernel
           ELSE /\ IF Alive(handle[p][h].semid) THEN Semop(p, Ops(handle[p][h].count, -1, 0))
                   ELSE UNCHANGED kernel
                /\ kept' = kept
  BY DEF Destroy
<1>2. semid' = semid /\ exists' = exists
  BY <1>1 DEF Semop, kernel
<1>3. /\ \A q \in Proc \ {p} : handle'[q] = handle[q] /\ kept'[q] = kept[q]
      /\ pc' = pc /\ arg' = arg /\ pc[p] = "idle"
  BY <1>1 DEF Destroy, CallsTyped
<1>4. \A q \in Proc \ {p} : Same(q)
  BY <1>2, <1>3, SameProcess
<1>5. ~Joined(p) /\ ~Joined(p)' /\ ~First(p) /\ ~First(p)'
  BY <1>3 DEF Joined, First
<1>6. handle'[p][h] = NoHandle /\ \A i \in Slot \ {h} : handle'[p][i] = handle[p][i]
  BY <1>1 DEF CallsTyped
<1>7. /\ Uses(p)' = Cardinality(Live(p))' + kept'[p].uses + 0
      /\ Holds(p)' = kept'[p].held + Total(Counts(p))'
      /\ Uses(p) = Cardinality(Live(p)) + kept[p].uses + 0
      /\ Holds(p) = kept[p].held + Total(Counts(p))
      /\ Uses(p) \in Nat /\ Holds(p) \in Nat
  BY <1>5, UsesAndHolds DEF Uses, Holds, Joined, Counts
<1>8. /\ Cardinality(Live(p)) \in Nat /\ Total(Counts(p)) \in Nat
      /\ kept[p].uses \in Nat /\ kept[p].held \in Nat /\ Live(p) \subseteq Slot
  BY LiveCounts DEF Live
<1>9. CASE ~Alive(handle[p][h].semid)
  <2>1. UNCHANGED <<kernel, kept>>
    BY <1>1, <1>9
  <2>2. Live(p)' = Live(p) /\ h \notin Live(p)
    BY <1>1, <1>2, <1>6, <1>9 DEF Live, Alive
  <2>3. Counts(p)' = Counts(p)
    BY <1>6, <1>8, <2>2 DEF Counts
  <2>4. Same(p)
    BY <1>5, <1>7, <2>1, <2>2, <2>3 DEF Same
  <2>. QED  BY <1>4, <2>1, <2>4 DEF Quiet, kernel
<1>10. CASE Alive(handle[p][h].semid)
  <2>1. h \in Live(p) /\ Live(p)' = Live(p) \ {h}
    BY <1>1, <1>2, <1>6, <1>10 DEF Live, Alive
  <2>2. \A i \in Live(p) \ {h} : handle'[p][i] = handle[p][i]
    BY <1>6, <1>8
  <2>3. /\ Cardinality(Live(p))' = Cardinality(Live(p)) - 1
        /\ handle[p][h].count \in Nat /\ handle[p][h].count <= Total(Counts(p))
        /\ Total(Counts(p))' = Total(Counts(p)) - handle[p][h].count
    BY <2>1, <2>2, HandleGone
  <2>4. CASE ~handle[p][h].auto_release
    <3>1. kept'[p].held = kept[p].held + handle[p][h].count /\ kept'[p].uses = kept[p].uses + 1
      <4>1. kept' = [kept EXCEPT ![p].held = @ + handle[p][h].count, ![p].uses = @ + 1]
        BY <1>1, <1>10, <2>4
      <4>2. kept[p] \in [uses : Nat, held : Nat]
        BY DEF CallsTyped
      <4>. QED  BY <4>1, <4>2 DEF CallsTyped
    <3>2. Uses(p)' = Uses(p)
      <4>1. Uses(p)' = Cardinality(Live(p)) - 1 + (kept[p].uses + 1) + 0
        BY <1>7, <2>3, <3>1
      <4>. QED  BY <1>7, <1>8, <4>1
    <3>4. Holds(p)' = Holds(p)
      <4>1. Holds(p)' = kept[p].held + handle[p][h].count + (Total(Counts(p)) - handle[p][h].count)
        BY <1>7, <2>3, <3>1
      <4>. QED  BY <1>7, <1>8, <2>3, <4>1
    <3>3. UNCHANGED kernel
      BY <1>1, <2>4
    <3>. QED  BY <1>4, <1>5, <3>2, <3>3, <3>4 DEF Quiet, Same, kernel
  <2>5. CASE handle[p][h].auto_release
    <3>1. Semop(p, Ops(handle[p][h].count, -1, 0)) /\ kept' = kept
      BY <1>1, <1>10, <2>3, <2>5
    <3> DEFINE c == handle[p][h].count
    <3>2. c \in Nat /\ c \in Int /\ -1 \in Int /\ 0 \in Int
      BY <2>3
    <3> HIDE DEF c
    <3>3. /\ semval'["SEM"] = semval["SEM"] + c
          /\ semadj'[p]["SEM"] = semadj[p]["SEM"] - c
          /\ \A q \in Proc \ {p} : semadj'[q] = semadj[q]
          /\ semval["SEM"] \in Nat /\ semadj[p]["SEM"] \in Int
      BY <3>1, <3>2, SemopSem DEF c
    <3>4. Uses(p)' = Uses(p) + (-1) /\ Holds(p)' = Holds(p) + (-c) /\ c <= Holds(p)
      BY <1>7, <1>8, <2>3, <3>1 DEF c
    <3>5. semval'["SEM"] = semval["SEM"] - (-c) /\ semadj'[p]["SEM"] = semadj[p]["SEM"] + (-c)
      BY <3>2, <3>3
    <3>6. Takes(p, -1, -c)
      BY <1>4, <1>5, <2>1, <3>3, <3>4, <3>5 DEF Takes
    <3>. QED  BY <3>2, <3>4, <3>6
  <2>. QED  BY <2>4, <2>5
<1>. QED  BY <1>9, <1>10

\* Reading USAGE makes a user, and tells the first from the others.
LEMMA ReadUsageJoins ==
  ASSUME KernelTyped, CallsTyped, Removed, OneInGet, Counted, NEW p \in Proc, ReadUsage(p),
         Alive(arg[p].semid)
  PROVE  /\ \A q \in Proc : Holds(q)' = Holds(q) /\ ~First(q)
         /\ UNCHANGED <<semval, semadj, arg>>
         /\ \A q \in Proc \ {p} : Same(q)
         /\ Uses(p)' = Uses(p) + 1
         /\ First(p)' <=> \A q \in Proc : Uses(q) = 0
<1>1. /\ UNCHANGED <<semval, semadj, arg, handle, kept, semid, exists>>
      /\ pc[p] = "counting" /\ \A q \in Proc \ {p} : pc'[q] = pc[q]
      /\ pc'[p] = IF semval["USAGE"] = 1 THEN "first" ELSE "registering"
  BY DEF ReadUsage, CallsTyped, kernel
<1>2. \A q \in Proc \ {p} : Same(q)
  BY <1>1, SameProcess
<1>3. \A q \in Proc : Holds(q)' = Holds(q) /\ Live(q)' = Live(q)
  BY <1>1, SameHandles
<1>4. Serialised(p)
  BY <1>1 DEF Serialised, Getting
<1>5. \A q \in Proc : ~First(q) /\ ~Joined(q)
  <2>1. ~First(p) /\ ~Joined(p)
    BY <1>1 DEF First, Joined
  <2>2. \A q \in Proc : First(q) \/ Joined(q) => Serialised(q)
    BY DEF First, Joined, Serialised, Getting
  <2>. QED  BY <1>4, <2>1, <2>2 DEF OneInGet
<1>6. Joined(p)' /\ (First(p)' <=> semval["USAGE"] = 1)
  BY <1>1 DEF Joined, First, Alive
<1>7. Uses(p)' = Uses(p) + 1
  <2>1. Uses(p)' = Cardinality(Live(p)) + kept[p].uses + 1
    BY <1>1, <1>3, <1>6 DEF Uses, Joined
  <2>. QED  BY <1>5, <2>1, UsesAndHolds, LiveCounts
<1> DEFINE x == <<p, "get", 0>>
<1>8. x \in InUse /\ IsFiniteSet(InUse) /\ semval["USAGE"] = Cardinality(InUse)
  BY <1>4 DEF InUse, Use, Owned, Counted
<1>9. semval["USAGE"] = 1 <=> InUse = {x}
  <2> HIDE DEF x
  <2>1. Cardinality(InUse) = 1 <=> \E y : InUse = {y}
    BY <1>8, FS_Singleton
  <2>. QED  BY <1>8, <2>1
<1>10. InUse = {x} <=> \A q \in Proc : Live(q) = {} /\ kept[q].uses = 0
  <2>1. ASSUME InUse = {x}, NEW q \in Proc PROVE Live(q) = {} /\ kept[q].uses = 0
    <3>1. Live(q) = {}
      <4> SUFFICES ASSUME NEW h \in Live(q) PROVE FALSE
        OBVIOUS
      <4>1. <<q, "slot", h>> \in InUse
        BY DEF Live, InUse, Use, Owned
      <4>. QED  BY <2>1, <4>1
    <3>2. kept[q].uses \in Nat
      BY LiveCounts
    <3>3. CASE kept[q].uses # 0
      <4>1. <<q, "kept", 1>> \in InUse
        BY <3>2, <3>3 DEF InUse, Use, Owned
      <4>. QED  BY <2>1, <4>1
    <3>. QED  BY <3>1, <3>3
  <2>2. ASSUME \A q \in Proc : Live(q) = {} /\ kept[q].uses = 0, NEW u \in InUse PROVE u = x
    <3>1. u \in Use /\ Owned(u[1], u[2], u[3])
      BY DEF InUse
    <3>2. ~(u[2] = "slot" /\ u[3] \in Slot /\ handle[u[1]][u[3]] # NoHandle
            /\ Alive(handle[u[1]][u[3]].semid))
      BY <2>2, <3>1 DEF Live, Use
    <3>3. ~(u[2] = "kept" /\ u[3] \in Nat \ {0} /\ u[3] <= kept[u[1]].uses)
      BY <2>2, <3>1 DEF Use
    <3>4. u[2] = "get" /\ u[3] = 0 /\ Serialised(u[1])
      BY <3>1, <3>2, <3>3 DEF Owned
    <3>5. u[1] = p
      BY <1>4, <3>1, <3>4 DEF Use, OneInGet
    <3>. QED  BY <3>1, <3>4, <3>5 DEF Use
  <2>. QED  BY <1>8, <2>1, <2>2
<1>11. (\A q \in Proc : Live(q) = {} /\ kept[q].uses = 0) <=> \A q \in Proc : Uses(q) = 0
  BY <1>5, UsesAndHolds
<1>. QED  BY <1>1, <1>2, <1>3, <1>5, <1>6, <1>7, <1>9, <1>10, <1>11

\* SETVAL of SEM touches no use and takes back every undo.
LEMMA SetMaxSets ==
  ASSUME KernelTyped, CallsTyped, OneInGet, NEW p \in Proc, SetMax(p), Alive(arg[p].semid)
  PROVE  /\ First(p) /\ \A q \in Proc : ~First(q)'
         /\ \A q \in Proc : Holds(q)' = Holds(q) /\ Uses(q)' = Uses(q) /\ semadj'[q]["SEM"] = 0
         /\ semval'["SEM"] = arg[p].max
<1>1. /\ UNCHANGED <<arg, handle, kept, semid, exists>>
      /\ pc[p] = "first" /\ pc'[p] = "registering" /\ \A q \in Proc \ {p} : pc'[q] = pc[q]
  BY DEF SetMax, CallsTyped
<1>2. "SEM" \in Sems
  BY DEF Sems
<1>3. semval'["SEM"] = arg[p].max /\ \A q \in Proc : semadj'[q]["SEM"] = 0
  BY <1>2 DEF SetMax, KernelTyped
<1>4. \A q \in Proc : Joined(q)' <=> Joined(q)
  BY <1>1 DEF Joined, Alive
<1>5. First(p) /\ ~First(p)'
  BY <1>1 DEF First
<1>6. \A q \in Proc \ {p} : ~First(q) /\ (First(q)' <=> First(q))
  BY <1>1, <1>5 DEF First, Alive, Serialised, Getting, OneInGet
<1>. QED  BY <1>1, <1>3, <1>4, <1>5, <1>6, SameHandles

\* A death and a removal.
LEMMA ExitLeaves ==
  ASSUME KernelTyped, CallsTyped, NEW p \in Proc, Exit(p)
  PROVE  /\ \A q \in Proc \ {p} : Same(q) /\ semadj'[q]["SEM"] = semadj[q]["SEM"]
         /\ ~First(p)' /\ Uses(p)' = 0 /\ Holds(p)' = 0 /\ semadj'[p]["SEM"] = 0
         /\ semval'["SEM"] = IF semval["SEM"] + semadj[p]["SEM"] < 0 THEN 0
                             ELSE semval["SEM"] + semadj[p]["SEM"]
<1>1. /\ UNCHANGED <<semid, exists>> /\ pc'[p] = "idle" /\ kept'[p] = Nothing
      /\ \A h \in Slot : handle'[p][h] = NoHandle
      /\ \A q \in Proc \ {p} : /\ pc'[q] = pc[q] /\ arg'[q] = arg[q] /\ kept'[q] = kept[q]
                               /\ handle'[q] = handle[q] /\ semadj'[q] = semadj[q]
      /\ semadj'[p]["SEM"] = 0
      /\ semval'["SEM"] = IF semval["SEM"] + semadj[p]["SEM"] < 0 THEN 0
                          ELSE semval["SEM"] + semadj[p]["SEM"]
  BY DEF Exit, CallsTyped, KernelTyped, Sems, None3, Ops
<1>2. \A q \in Proc \ {p} : Same(q)
  BY <1>1, SameProcess
<1>3. ~First(p)' /\ Live(p)' = {} /\ ~Joined(p)'
  BY <1>1 DEF First, Live, Joined
<1>4. Total(Counts(p))' = 0
  <2>1. Counts(p)' \in [{} -> Nat]
    BY <1>3 DEF Counts
  <2>. QED  BY <2>1, TotalOfZeros
<1>5. Uses(p)' = 0 /\ Holds(p)' = 0
  BY <1>1, <1>3, <1>4, FS_EmptySet DEF Uses, Holds, Joined, Counts, Nothing
<1>. QED  BY <1>1, <1>2, <1>3, <1>5

LEMMA RemoveLeaves ==
  ASSUME CallsTyped, NEW p \in Proc, Remove(p), NEW q \in Proc
  PROVE  Uses(q)' = 0 /\ Holds(q)' = 0 /\ ~First(q)' /\ semadj'[q]["SEM"] = 0
<1>1. exists' = FALSE /\ kept'[q] = Nothing /\ semadj'[q]["SEM"] = 0
  BY DEF Remove, None3, Ops
<1>2. Live(q)' = {} /\ ~Joined(q)' /\ ~First(q)'
  BY <1>1 DEF Live, Alive, Joined, First
<1>4. Total(Counts(q))' = 0
  <2>1. Counts(q)' \in [{} -> Nat]
    BY <1>2 DEF Counts
  <2>. QED  BY <2>1, TotalOfZeros
<1>. QED  BY <1>1, <1>2, <1>4, FS_EmptySet DEF Uses, Holds, Joined, Counts, Nothing

-----------------------------------------------------------------------------
\* The invariant of what is held.

Shared == GivesBack /\ FirstIsAlone
HeldInv == CountInv /\ Backed /\ Asks /\ Shared

LEMMA AloneHoldsNothing ==
  ASSUME CallsTyped, Removed, Backed, FirstIsAlone, NEW p \in Proc, First(p)
  PROVE  \A q \in Proc : Live(q) = {} /\ Holds(q) = 0
<1>1. ASSUME NEW q \in Proc PROVE Live(q) = {} /\ kept[q].uses = 0
  <2>1. CASE q = p
    <3>1. Uses(p) = Cardinality(Live(p)) + kept[p].uses + 1 /\ Uses(p) = 1
      BY UsesAndHolds DEF FirstIsAlone, First, Joined
    <3>2. Cardinality(Live(p)) = 0 /\ kept[p].uses = 0
      BY <3>1, LiveCounts
    <3>. QED  BY <2>1, <3>2, LiveCounts, FS_EmptySet
  <2>2. CASE q # p
    BY <2>2, UsesAndHolds DEF FirstIsAlone
  <2>. QED  BY <2>1, <2>2
<1>2. ASSUME NEW q \in Proc PROVE Holds(q) = 0
  BY <1>1, UsesAndHolds DEF Backed
<1>. QED  BY <1>1, <1>2

LEMMA QuietShares ==
  ASSUME Quiet, Shared
  PROVE  Shared'
BY DEF Quiet, Shared, Same, GivesBack, FirstIsAlone

LEMMA TakesShares ==
  ASSUME CallsTyped, Removed, Backed, Shared, NEW p \in Proc, NEW m \in Int, NEW n \in Int, Takes(p, m, n)
  PROVE  Shared' /\ \A q \in Proc : ~First(q) /\ ~First(q)'
<1>1. \A q \in Proc : ~First(q)
  BY AloneHoldsNothing DEF Takes, Shared
<1>2. \A q \in Proc : ~First(q)'
  BY <1>1 DEF Takes, Same
<1>3. GivesBack'
  BY DEF Takes, Same, Shared, GivesBack
<1>. QED  BY <1>1, <1>2, <1>3 DEF Shared, FirstIsAlone

LEMMA KeepsShared ==
  ASSUME KernelTyped, CallsTyped, Removed, Waiting, Empty, Counted, OneInGet, Backed, Shared, [Next]_vars
  PROVE  Shared'
<1>1. ASSUME NEW p \in Proc, SemGet(p) PROVE Shared'
  BY <1>1, SemGetQuiet, QuietShares
<1>2. ASSUME NEW p \in Proc, CountUse(p) \/ CallAcquire(p) PROVE Shared'
  BY <1>2, CallsQuiet, QuietShares
<1>3. ASSUME NEW p \in Proc, ReadUsage(p) PROVE Shared'
  <2>1. CASE ~Alive(arg[p].semid)
    BY <1>3, <2>1, CallsQuiet, QuietShares
  <2>2. CASE Alive(arg[p].semid)
    <3>1. /\ \A q \in Proc : Holds(q)' = Holds(q) /\ ~First(q)
          /\ UNCHANGED <<semval, semadj, arg>>
          /\ \A q \in Proc \ {p} : Same(q)
          /\ Uses(p)' = Uses(p) + 1
          /\ First(p)' <=> \A q \in Proc : Uses(q) = 0
      BY <1>3, <2>2, ReadUsageJoins
    <3>2. GivesBack'
      BY <3>1 DEF Shared, GivesBack
    <3>3. FirstIsAlone'
      BY <3>1 DEF FirstIsAlone, Same
    <3>. QED  BY <3>2, <3>3 DEF Shared
  <2>. QED  BY <2>1, <2>2
<1>4. ASSUME NEW p \in Proc, SetMax(p) PROVE Shared'
  <2>1. CASE ~Alive(arg[p].semid)
    BY <1>4, <2>1, CallsQuiet, QuietShares
  <2>2. CASE Alive(arg[p].semid)
    BY <1>4, <2>2, SetMaxSets, AloneHoldsNothing DEF Shared, GivesBack, FirstIsAlone
  <2>. QED  BY <2>1, <2>2
<1>5. ASSUME NEW p \in Proc, Register(p) PROVE Shared'
  BY <1>5, RegisterQuiet, QuietShares
<1>6. ASSUME NEW p \in Proc, Acquire(p) PROVE Shared'
  <2>1. 0 \in Int /\ 1 \in Int
    OBVIOUS
  <2>. QED  BY <1>6, <2>1, AcquireTakes, QuietShares, TakesShares
<1>7. ASSUME NEW p \in Proc, Release(p) PROVE Shared'
  <2>1. 0 \in Int /\ -1 \in Int
    OBVIOUS
  <2>. QED  BY <1>7, <2>1, ReleaseTakes, TakesShares
<1>8. ASSUME NEW p \in Proc, Destroy(p) PROVE Shared'
  <2>1. -1 \in Int /\ \A c \in Nat : -c \in Int
    OBVIOUS
  <2>. QED  BY <1>8, <2>1, DestroyTakes, QuietShares, TakesShares
<1>9. ASSUME NEW p \in Proc, Remove(p) PROVE Shared'
  BY <1>9, RemoveLeaves DEF Shared, GivesBack, FirstIsAlone
<1>10. ASSUME NEW p \in Proc, Exit(p) PROVE Shared'
  BY <1>10, ExitLeaves DEF Shared, GivesBack, FirstIsAlone, Same
<1>11. CASE UNCHANGED vars
  <2>1. \A q \in Proc : Same(q)
    BY <1>11, SameProcess DEF vars, kernel
  <2>. QED  BY <1>11, <2>1, QuietShares DEF Quiet, vars, kernel
<1>. QED
  BY <1>1, <1>2, <1>3, <1>4, <1>5, <1>6, <1>7, <1>8, <1>9, <1>10, <1>11 DEF Next, Step

LEMMA KeepsAsks ==
  ASSUME CallsTyped, Asks, [Next]_vars
  PROVE  Asks'
<1> USE DEF CallsTyped, Asks, Getting
<1>1. ASSUME NEW p \in Proc, SemGet(p) PROVE Asks'
  BY <1>1 DEF SemGet
<1>2. ASSUME NEW p \in Proc, Step(p) PROVE Asks'
  BY <1>2 DEF Step, CountUse, ReadUsage, SetMax, Register
<1>3. ASSUME NEW p \in Proc, CallAcquire(p) \/ Acquire(p) \/ Release(p) PROVE Asks'
  BY <1>3 DEF CallAcquire, Acquire, Release
<1>4. ASSUME NEW p \in Proc, Remove(p) \/ Destroy(p) \/ Exit(p) PROVE Asks'
  BY <1>4 DEF Remove, Destroy, Exit
<1>5. CASE UNCHANGED vars
  BY <1>5 DEF vars
<1>. QED  BY <1>1, <1>2, <1>3, <1>4, <1>5 DEF Next

LEMMA KeepsBacked ==
  ASSUME CallsTyped, Backed, [Next]_vars
  PROVE  Backed'
<1>1. ASSUME NEW p \in Proc, SemGet(p) PROVE Backed'
  BY <1>1 DEF SemGet, Backed
<1>2. ASSUME NEW p \in Proc, Step(p) PROVE Backed'
  BY <1>2 DEF Step, CountUse, ReadUsage, SetMax, Register, Semop, kernel, Backed
<1>3. ASSUME NEW p \in Proc, CallAcquire(p) \/ Acquire(p) \/ Release(p) PROVE Backed'
  BY <1>3 DEF CallAcquire, Acquire, Release, Semop, kernel, Backed
<1>4. ASSUME NEW p \in Proc, Remove(p) PROVE Backed'
  BY <1>4 DEF Remove, Nothing, Backed
<1>5. ASSUME NEW p \in Proc, Exit(p) PROVE Backed'
  BY <1>5 DEF Exit, Nothing, CallsTyped, Backed
<1>6. ASSUME NEW p \in Proc, Destroy(p) PROVE Backed'
  <2>1. PICK h \in Slot :
          \/ kept' = kept
          \/ /\ Alive(handle[p][h].semid)
             /\ kept' = [kept EXCEPT ![p].held = @ + handle[p][h].count, ![p].uses = @ + 1]
    BY <1>6 DEF Destroy
  <2>2. exists' = exists
    BY <1>6 DEF Destroy, Semop, kernel
  <2>3. CASE kept' = kept
    BY <2>2, <2>3 DEF Backed
  <2>4. CASE kept' # kept
    <3>1. kept[p] \in [uses : Nat, held : Nat]
      BY DEF CallsTyped
    <3>2. kept'[p].uses = kept[p].uses + 1 /\ \A q \in Proc \ {p} : kept'[q] = kept[q]
      BY <2>1, <2>4, <3>1 DEF CallsTyped
    <3>3. kept'[p].uses # 0 /\ exists
      BY <2>1, <2>4, <3>1, <3>2 DEF Alive
    <3>. QED  BY <2>2, <3>2, <3>3 DEF Backed
  <2>. QED  BY <2>3, <2>4
<1>7. CASE UNCHANGED vars
  BY <1>7 DEF vars, kernel, Backed
<1>. QED  BY <1>1, <1>2, <1>3, <1>4, <1>5, <1>6, <1>7 DEF Next

LEMMA HeldInvInit == Init => HeldInv
<1> SUFFICES ASSUME Init PROVE HeldInv
  OBVIOUS
<1>1. CountInv
  BY CountInvInit
<1>2. CallsTyped /\ Removed
  BY <1>1, TypeOKParts DEF CountInv, Inv
<1>3. \A q \in Proc : /\ Live(q) = {} /\ kept[q].uses = 0 /\ kept[q].held = 0
                      /\ ~First(q) /\ ~Joined(q) /\ semadj[q]["SEM"] = 0
  BY DEF Init, Live, Alive, First, Joined, Nothing, None3, Ops
<1>4. \A q \in Proc : Uses(q) = 0 /\ Holds(q) = 0
  BY <1>2, <1>3, UsesAndHolds
<1>5. Backed /\ Asks
  BY <1>3 DEF Init, Backed, Asks, Getting
<1>. QED  BY <1>1, <1>3, <1>4, <1>5 DEF HeldInv, Shared, GivesBack, FirstIsAlone

LEMMA HeldInvNext == HeldInv /\ [Next]_vars => HeldInv'
<1> SUFFICES ASSUME HeldInv, [Next]_vars PROVE HeldInv'
  OBVIOUS
<1>1. KernelTyped /\ CallsTyped /\ Removed /\ Waiting /\ Empty /\ Counted /\ OneInGet
  BY TypeOKParts DEF HeldInv, CountInv, Inv
<1>. QED  BY <1>1, CountInvNext, KeepsShared, KeepsAsks, KeepsBacked DEF HeldInv

LEMMA HeldInvariant == Spec => []HeldInv
  BY HeldInvInit, HeldInvNext, PTL DEF Spec

-----------------------------------------------------------------------------
\* The steps of the one semaphore.

\* The limit, by cases.
LimitIs ==
  /\ (\A q \in Proc : Uses(q) = 0) => limit = 0
  /\ \A p \in Proc : First(p) => limit = arg[p].max
  /\ (\E q \in Proc : Uses(q) # 0) /\ (\A q \in Proc : ~First(q)) => limit = semval["SEM"] + Total(held)

LEMMA LimitCases == HeldInv => LimitIs
<1> SUFFICES ASSUME HeldInv PROVE LimitIs
  OBVIOUS
<1>1. CallsTyped /\ Removed /\ OneInGet
  BY TypeOKParts DEF HeldInv, CountInv, Inv
<1>2. ASSUME NEW p \in Proc, First(p) PROVE limit = arg[p].max
  <2>1. Uses(p) # 0
    BY <1>2 DEF HeldInv, Shared, FirstIsAlone
  <2>2. \A q \in Proc : First(q) => q = p
    BY <1>1, <1>2 DEF OneInGet, Serialised, First, Getting
  <2>3. (CHOOSE q \in Proc : First(q)) = p
    BY <1>2, <2>2
  <2>. QED  BY <1>2, <2>1, <2>3 DEF limit
<1>. QED  BY <1>2 DEF LimitIs, limit

LEMMA LimitCasesNext == HeldInv' => LimitIs'
  BY LimitCases, PTL

\* How many there are of each.
Numbers == \A q \in Proc : Uses(q) \in Nat /\ Holds(q) \in Nat

LEMMA NumbersType == HeldInv => Numbers
<1>1. HeldInv => CallsTyped /\ Removed
  BY TypeOKParts DEF HeldInv, CountInv, Inv
<1>. QED  BY <1>1, UsesAndHolds DEF Numbers

LEMMA NumbersTypeNext == HeldInv' => Numbers'
  BY NumbersType, PTL

\* What one process holds is part of the whole.
LEMMA HeldChange ==
  ASSUME Numbers, Numbers', NEW p \in Proc, \A q \in Proc \ {p} : Holds(q)' = Holds(q)
  PROVE  /\ Total(held)' = Total(held) - Holds(p) + Holds(p)'
         /\ Total(held) \in Nat /\ Total(held)' \in Nat
<1> DEFINE f == [q \in Proc |-> Holds(q)]
           g == [q \in Proc |-> Holds(q)']
<1>1. f \in [Proc -> Nat] /\ g \in [Proc -> Nat] /\ IsFiniteSet(Proc)
  BY SemAssumption DEF Numbers, SemAssumption
<1>2. \A q \in Proc \ {p} : g[q] = f[q]
  OBVIOUS
<1>3. f[p] = Holds(p) /\ g[p] = Holds(p)'
  OBVIOUS
<1>4. held = f /\ held' = g
  BY DEF held
<1> HIDE DEF f, g
<1>5. Total(g) = Total(f) - f[p] + g[p]
  BY <1>1, <1>2, TotalChange
<1>6. Total(f) \in Nat /\ Total(g) \in Nat
  BY <1>1, TotalType
<1>. QED  BY <1>3, <1>4, <1>5, <1>6

LEMMA NobodyMeans ==
  /\ (users = Service!Nobody) <=> \A q \in Proc : Uses(q) = 0
  /\ (users' = Service!Nobody) <=> \A q \in Proc : Uses(q)' = 0
BY DEF users, Service!Nobody

\* What stays the same for all.
LEMMA QuietStutters ==
  ASSUME HeldInv, HeldInv', Quiet
  PROVE  UNCHANGED Service!vars
<1>1. users' = users /\ held' = held
  BY DEF Quiet, Same, users, held
<1>2. \A q \in Proc : Uses(q)' = Uses(q) /\ (First(q)' <=> First(q)) /\ (First(q) => arg'[q].max = arg[q].max)
  BY DEF Quiet, Same
<1>3. LimitIs /\ LimitIs'
  BY LimitCases, LimitCasesNext
<1>4. limit' = limit
  <2>1. CASE \E q \in Proc : First(q)
    BY <1>2, <1>3, <2>1 DEF LimitIs
  <2>2. CASE \A q \in Proc : ~First(q)
    BY <1>1, <1>2, <1>3, <2>2 DEF LimitIs, Quiet
  <2>. QED  BY <2>1, <2>2
<1>. QED  BY <1>1, <1>4 DEF Service!vars

\* The look at USAGE is where a process joins.
LEMMA ReadUsageRefines ==
  ASSUME HeldInv, HeldInv', NEW p \in Proc, ReadUsage(p), Alive(arg[p].semid)
  PROVE  Service!Join(p)
<1>1. KernelTyped /\ CallsTyped /\ Removed /\ Counted /\ OneInGet
  BY TypeOKParts DEF HeldInv, CountInv, Inv
<1>2. /\ \A q \in Proc : Holds(q)' = Holds(q) /\ ~First(q)
      /\ UNCHANGED <<semval, semadj, arg>>
      /\ \A q \in Proc \ {p} : Same(q)
      /\ Uses(p)' = Uses(p) + 1
      /\ First(p)' <=> \A q \in Proc : Uses(q) = 0
  BY <1>1, ReadUsageJoins
<1>3. held' = held /\ users' = [users EXCEPT ![p] = @ + 1]
  BY <1>2 DEF held, users, Same
<1>4. LimitIs /\ LimitIs' /\ Numbers
  BY LimitCases, LimitCasesNext, NumbersType
<1>5. CASE \A q \in Proc : Uses(q) = 0
  <2>1. limit' = arg[p].max
    BY <1>2, <1>4, <1>5 DEF LimitIs
  <2>2. arg[p].max \in MaxAcquire
    BY DEF HeldInv, Asks, ReadUsage, Getting
  <2>. QED  BY <1>3, <1>5, <2>1, <2>2, NobodyMeans DEF Service!Join
<1>6. CASE \E q \in Proc : Uses(q) # 0
  <2>1. \A q \in Proc : ~First(q)'
    BY <1>2, <1>6 DEF Same
  <2>2. \E q \in Proc : Uses(q)' # 0
    BY <1>2, <1>4, <1>6 DEF Same, Numbers
  <2>3. limit' = limit
    BY <1>2, <1>3, <1>4, <1>6, <2>1, <2>2 DEF LimitIs
  <2>. QED  BY <1>3, <1>6, <2>3, NobodyMeans DEF Service!Join
<1>. QED  BY <1>5, <1>6

\* The limit is set where nobody sees it change.
LEMMA SetMaxRefines ==
  ASSUME HeldInv, HeldInv', NEW p \in Proc, SetMax(p), Alive(arg[p].semid)
  PROVE  UNCHANGED Service!vars
<1>1. KernelTyped /\ CallsTyped /\ Removed /\ OneInGet /\ Backed /\ FirstIsAlone
  BY TypeOKParts DEF HeldInv, CountInv, Inv, Shared
<1>2. /\ First(p) /\ \A q \in Proc : ~First(q)'
      /\ \A q \in Proc : Holds(q)' = Holds(q) /\ Uses(q)' = Uses(q) /\ semadj'[q]["SEM"] = 0
      /\ semval'["SEM"] = arg[p].max
  BY <1>1, SetMaxSets
<1>3. held' = held /\ users' = users
  BY <1>2 DEF held, users
<1>4. Total(held') = 0
  <2>1. \A q \in Proc : Holds(q) = 0
    BY <1>1, <1>2, AloneHoldsNothing
  <2>2. held \in [Proc -> Nat] /\ \A q \in Proc : held[q] = 0
    BY <2>1 DEF held
  <2>. QED  BY <1>3, <2>2, TotalOfZeros
<1>5. limit = arg[p].max
  BY <1>2, LimitCases DEF LimitIs
<1>6. limit' = semval'["SEM"] + Total(held')
  <2>1. Uses(p)' # 0
    BY <1>1, <1>2 DEF FirstIsAlone
  <2>. QED  BY <1>2, <2>1, LimitCasesNext DEF LimitIs
<1>7. arg[p].max \in Nat
  <2>1. arg[p].max \in MaxAcquire /\ MaxAcquire \subseteq Nat
    BY SemAssumption DEF HeldInv, Asks, SetMax, Getting, SemAssumption
  <2>. QED  BY <2>1
<1>. QED  BY <1>2, <1>3, <1>4, <1>5, <1>6, <1>7 DEF Service!vars

\* What is given moves between the semaphore and the process: the limit stays, or goes with the
\* last use.
LEMMA TakesKeepLimit ==
  ASSUME HeldInv, HeldInv', NEW p \in Proc, NEW m \in Int, NEW n \in Int, Takes(p, m, n)
  PROVE  /\ users' = [users EXCEPT ![p] = @ + m] /\ held' = [held EXCEPT ![p] = @ + n]
         /\ m = 0 => users' = users /\ users # Service!Nobody
         /\ users[p] > 0 /\ held[p] \in Nat /\ held[p] + n \in Nat
         /\ limit = semval["SEM"] + Total(held)
         /\ limit' = IF users' = Service!Nobody THEN 0 ELSE limit
<1>1. KernelTyped /\ CallsTyped /\ Removed /\ Backed /\ Shared
  BY TypeOKParts DEF HeldInv, CountInv, Inv
<1>2. Numbers /\ Numbers' /\ LimitIs /\ LimitIs'
  BY NumbersType, NumbersTypeNext, LimitCases, LimitCasesNext
<1>3. \A q \in Proc : ~First(q) /\ ~First(q)'
  BY <1>1, TakesShares
<1>4. users' = [users EXCEPT ![p] = @ + m] /\ held' = [held EXCEPT ![p] = @ + n]
  BY DEF Takes, Same, users, held
<1>5. Uses(p) # 0 /\ Uses(p) > 0
  <2>1. Uses(p) # 0
    BY <1>1, UsesAndHolds DEF Takes
  <2>. QED  BY <1>2, <2>1 DEF Numbers
<1>6. limit = semval["SEM"] + Total(held)
  BY <1>2, <1>3, <1>5 DEF LimitIs
<1>7. Total(held)' = Total(held) - Holds(p) + (Holds(p) + n) /\ Total(held) \in Nat /\ Holds(p) \in Nat
  BY <1>2, HeldChange DEF Takes, Same, Numbers
<1>8. limit' = IF users' = Service!Nobody THEN 0 ELSE limit
  <2>1. CASE users' = Service!Nobody
    BY <1>2, <2>1, NobodyMeans DEF LimitIs
  <2>2. CASE users' # Service!Nobody
    <3>1. limit' = semval'["SEM"] + Total(held)'
      BY <1>2, <1>3, <2>2, NobodyMeans DEF LimitIs
    <3>2. semval'["SEM"] = semval["SEM"] - n /\ semval["SEM"] \in Nat
      BY <1>1 DEF Takes, KernelTyped, Sems
    <3>. QED  BY <1>6, <1>7, <2>2, <3>1, <3>2
  <2>. QED  BY <2>1, <2>2
<1>9. users[p] = Uses(p) /\ held[p] = Holds(p) /\ Holds(p) \in Nat /\ Holds(p)' \in Nat /\ Holds(p)' = Holds(p) + n
  BY <1>2 DEF users, held, Numbers, Takes
<1>10. m = 0 => users' = users
  <2>1. \A q \in Proc : Uses(q) \in Nat
    BY <1>2 DEF Numbers
  <2>. QED  BY <2>1 DEF users, Takes, Same
<1>. QED  BY <1>4, <1>5, <1>6, <1>8, <1>9, <1>10, NobodyMeans

LEMMA SameTotal ==
  ASSUME NEW f
  PROVE  Service!Total(f) = Total(f)
<1>1. Service!Units(f) = Units(f)
  BY DEF Service!Units, Units
<1>2. \A S : Service!Cardinality(S) = Cardinality(S)
  BY DEF Service!Cardinality, Cardinality
<1>. QED  BY <1>1, <1>2 DEF Service!Total, Total

LEMMA AcquireRefines ==
  ASSUME HeldInv, HeldInv', NEW p \in Proc, Acquire(p)
  PROVE  Service!Acquire(p) \/ UNCHANGED Service!vars
<1>1. KernelTyped /\ CallsTyped /\ Removed /\ Waiting
  BY TypeOKParts DEF HeldInv, CountInv, Inv
<1>2. CASE Quiet
  BY <1>2, QuietStutters
<1>3. CASE Takes(p, 0, 1) /\ semval["SEM"] >= 1
  <2>1. 0 \in Int /\ 1 \in Int
    OBVIOUS
  <2>2. /\ users' = [users EXCEPT ![p] = @ + 0] /\ held' = [held EXCEPT ![p] = @ + 1]
        /\ users[p] > 0 /\ limit = semval["SEM"] + Total(held)
        /\ limit' = IF users' = Service!Nobody THEN 0 ELSE limit
    BY <1>3, <2>1, TakesKeepLimit
  <2>3. users' = users /\ users # Service!Nobody
    BY <1>3, <2>1, TakesKeepLimit
  <2>4. Total(held) < limit
    <3>1. Total(held) \in Nat
      BY NumbersType, TotalType, SemAssumption DEF Numbers, held, SemAssumption
    <3>2. semval["SEM"] \in Nat
      BY <1>1 DEF KernelTyped, Sems
    <3>. QED  BY <1>3, <2>2, <3>1, <3>2
  <2>. QED  BY <2>2, <2>3, <2>4, SameTotal DEF Service!Acquire
<1>. QED  BY <1>1, <1>2, <1>3, AcquireTakes

LEMMA ReleaseRefines ==
  ASSUME HeldInv, HeldInv', NEW p \in Proc, Release(p)
  PROVE  Service!Release(p)
<1>1. KernelTyped /\ CallsTyped /\ Removed
  BY TypeOKParts DEF HeldInv, CountInv, Inv
<1>2. 0 \in Int /\ -1 \in Int
  OBVIOUS
<1>3. /\ users' = [users EXCEPT ![p] = @ + 0] /\ held' = [held EXCEPT ![p] = @ + (-1)]
      /\ users[p] > 0 /\ held[p] \in Nat /\ held[p] + (-1) \in Nat
      /\ limit' = IF users' = Service!Nobody THEN 0 ELSE limit
  BY <1>1, <1>2, ReleaseTakes, TakesKeepLimit
<1>4. users' = users /\ users # Service!Nobody
  BY <1>1, <1>2, ReleaseTakes, TakesKeepLimit
<1>5. held[p] > 0 /\ held' = [held EXCEPT ![p] = @ - 1]
  <2>1. \A n \in Nat : n + (-1) = n - 1 /\ (n + (-1) \in Nat => n > 0)
    OBVIOUS
  <2>2. held[p] + (-1) = held[p] - 1 /\ held[p] > 0
    BY <1>3, <2>1
  <2>3. held' = [held EXCEPT ![p] = held[p] + (-1)]
    BY <1>3
  <2>. QED  BY <2>2, <2>3
<1>. QED  BY <1>3, <1>4, <1>5 DEF Service!Release

LEMMA DestroyRefines ==
  ASSUME HeldInv, HeldInv', NEW p \in Proc, Destroy(p)
  PROVE  Service!Leave(p) \/ UNCHANGED Service!vars
<1>1. KernelTyped /\ CallsTyped /\ Removed
  BY TypeOKParts DEF HeldInv, CountInv, Inv
<1>2. CASE Quiet
  BY <1>2, QuietStutters
<1>3. ASSUME NEW c \in Nat, c <= Holds(p), Takes(p, -1, -c) PROVE Service!Leave(p)
  <2>1. -1 \in Int /\ -c \in Int
    OBVIOUS
  <2>2. /\ users' = [users EXCEPT ![p] = @ + (-1)] /\ held' = [held EXCEPT ![p] = @ + (-c)]
        /\ users[p] > 0 /\ held[p] \in Nat /\ held[p] + (-c) \in Nat
        /\ limit' = IF users' = Service!Nobody THEN 0 ELSE limit
    BY <1>3, <2>1, TakesKeepLimit
  <2>3. users[p] \in Nat
    BY NumbersType DEF Numbers, users
  <2>4. users' = [users EXCEPT ![p] = @ - 1]
    <3>1. \A n \in Nat : n + (-1) = n - 1
      OBVIOUS
    <3>. QED  BY <2>2, <2>3, <3>1
  <2>5. \E n \in 0..held[p] : held' = [held EXCEPT ![p] = n]
    <3>1. held[p] + (-c) \in 0..held[p]
      BY <2>2
    <3>. QED  BY <2>2, <3>1
  <2>. QED  BY <2>2, <2>4, <2>5 DEF Service!Leave, Service!Forget
<1>. QED  BY <1>1, <1>2, <1>3, DestroyTakes

LEMMA ExitRefines ==
  ASSUME HeldInv, HeldInv', NEW p \in Proc, Exit(p)
  PROVE  Service!Die(p)
<1>1. KernelTyped /\ CallsTyped /\ Shared
  BY TypeOKParts DEF HeldInv, CountInv, Inv
<1>2. /\ \A q \in Proc \ {p} : Same(q) /\ semadj'[q]["SEM"] = semadj[q]["SEM"]
      /\ ~First(p)' /\ Uses(p)' = 0 /\ Holds(p)' = 0 /\ semadj'[p]["SEM"] = 0
      /\ semval'["SEM"] = IF semval["SEM"] + semadj[p]["SEM"] < 0 THEN 0
                          ELSE semval["SEM"] + semadj[p]["SEM"]
  BY <1>1, ExitLeaves
<1>3. Numbers /\ Numbers' /\ LimitIs /\ LimitIs'
  BY NumbersType, NumbersTypeNext, LimitCases, LimitCasesNext
<1>4. users' = [users EXCEPT ![p] = 0] /\ held' = [held EXCEPT ![p] = 0]
  BY <1>2 DEF Same, users, held
<1>5. semval'["SEM"] = semval["SEM"] + Holds(p) /\ semval["SEM"] \in Nat
  <2>1. semval["SEM"] \in Nat /\ semadj[p]["SEM"] = Holds(p) /\ Holds(p) \in Nat
    BY <1>1, <1>3 DEF KernelTyped, Sems, Shared, GivesBack, Numbers
  <2>. QED  BY <1>2, <2>1
<1>6. limit' = IF users' = Service!Nobody THEN 0 ELSE limit
  <2>1. CASE \A q \in Proc : Uses(q)' = 0
    BY <1>3, <2>1, NobodyMeans DEF LimitIs
  <2>2. CASE \E q \in Proc : Uses(q)' # 0
    <3>1. PICK q \in Proc : Uses(q)' # 0
      BY <2>2
    <3>2. q # p /\ Uses(q) # 0
      BY <1>2, <3>1 DEF Same
    <3>3. CASE \E r \in Proc : First(r)'
      <4>1. PICK r \in Proc : First(r)'
        BY <3>3
      <4>2. r # p /\ First(r) /\ arg'[r].max = arg[r].max
        BY <1>2, <4>1 DEF Same
      <4>3. limit' = limit
        BY <1>3, <4>1, <4>2 DEF LimitIs
      <4>. QED  BY <2>2, <4>3, NobodyMeans
    <3>4. CASE \A r \in Proc : ~First(r)'
      <4>1. ~First(p)
        BY <1>1, <3>2 DEF Shared, FirstIsAlone
      <4>2. \A r \in Proc : ~First(r)
        BY <1>2, <3>4, <4>1 DEF Same
      <4>3. limit = semval["SEM"] + Total(held) /\ limit' = semval'["SEM"] + Total(held)'
        BY <1>3, <3>1, <3>2, <3>4, <4>2 DEF LimitIs
      <4>4. Total(held)' = Total(held) - Holds(p) + 0 /\ Total(held) \in Nat /\ Holds(p) \in Nat
        BY <1>2, <1>3, HeldChange DEF Same, Numbers
      <4>5. limit' = limit
        BY <1>5, <4>3, <4>4
      <4>. QED  BY <2>2, <4>5, NobodyMeans
    <3>. QED  BY <3>3, <3>4
  <2>. QED  BY <2>1, <2>2
<1>. QED  BY <1>4, <1>6 DEF Service!Die, Service!Forget

LEMMA RemoveRefines ==
  ASSUME HeldInv, HeldInv', NEW p \in Proc, Remove(p)
  PROVE  Service!Remove
<1>1. CallsTyped
  BY TypeOKParts DEF HeldInv, CountInv, Inv
<1>2. \A q \in Proc : Uses(q)' = 0 /\ Holds(q)' = 0
  BY <1>1, RemoveLeaves
<1>3. users' = Service!Nobody /\ held' = Service!Nobody
  BY <1>2 DEF users, held, Service!Nobody
<1>4. limit' = 0
  BY <1>2, LimitCasesNext DEF LimitIs
<1>. QED  BY <1>3, <1>4 DEF Service!Remove

LEMMA StepRefines ==
  ASSUME HeldInv, HeldInv', [Next]_vars
  PROVE  [Service!Next]_(Service!vars)
<1>1. KernelTyped /\ CallsTyped /\ Removed /\ Waiting /\ Empty /\ Backed
  BY TypeOKParts DEF HeldInv, CountInv, Inv
<1>2. ASSUME NEW p \in Proc, SemGet(p) PROVE UNCHANGED Service!vars
  BY <1>1, <1>2, SemGetQuiet, QuietStutters
<1>3. ASSUME NEW p \in Proc, CountUse(p) \/ CallAcquire(p) PROVE UNCHANGED Service!vars
  BY <1>1, <1>3, CallsQuiet, QuietStutters
<1>4. ASSUME NEW p \in Proc, ReadUsage(p) PROVE Service!Join(p) \/ UNCHANGED Service!vars
  BY <1>1, <1>4, CallsQuiet, QuietStutters, ReadUsageRefines
<1>5. ASSUME NEW p \in Proc, SetMax(p) PROVE UNCHANGED Service!vars
  BY <1>1, <1>5, CallsQuiet, QuietStutters, SetMaxRefines
<1>6. ASSUME NEW p \in Proc, Register(p) PROVE UNCHANGED Service!vars
  BY <1>1, <1>6, RegisterQuiet, QuietStutters
<1>7. CASE UNCHANGED vars
  <2>1. \A q \in Proc : Same(q)
    BY <1>7, SameProcess DEF vars, kernel
  <2>. QED  BY <1>7, <2>1, QuietStutters DEF Quiet, vars, kernel
<1>. QED
  BY <1>2, <1>3, <1>4, <1>5, <1>6, <1>7, AcquireRefines, ReleaseRefines, DestroyRefines, ExitRefines,
     RemoveRefines DEF Next, Step, Service!Next

\* Whoever dies in whatever step of sem_get, sem_acquire or release_sysvsem_sem, the three
\* semaphores are one with the limit of its first user, and what the dead held is back.
THEOREM OneSemaphore == Spec => ServiceSpec
<1>1. Init => Service!Init
  <2> SUFFICES ASSUME Init PROVE Service!Init
    OBVIOUS
  <2>1. CallsTyped /\ Removed /\ LimitIs
    BY HeldInvInit, TypeOKParts, LimitCases DEF HeldInv, CountInv, Inv
  <2>2. \A q \in Proc : Live(q) = {} /\ kept[q].uses = 0 /\ kept[q].held = 0 /\ ~Joined(q)
    BY DEF Init, Live, Alive, Joined, Nothing
  <2>3. \A q \in Proc : Uses(q) = 0 /\ Holds(q) = 0
    BY <2>1, <2>2, UsesAndHolds
  <2>. QED  BY <2>1, <2>3 DEF LimitIs, users, held, Service!Init, Service!Nobody
<1>2. HeldInv /\ HeldInv' /\ [Next]_vars => [Service!Next]_(Service!vars)
  BY StepRefines
<1>. QED  BY <1>1, <1>2, HeldInvariant, PTL DEF Spec, ServiceSpec, Service!Spec
=============================================================================
