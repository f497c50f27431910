------------------------------- MODULE TsHash -------------------------------
(***************************************************************************)
(* Zend/zend_ts_hash.c in a ZTS build: hash tables shared by threads, each  *)
(* with a readers-writer lock made of two mutexes and a count of readers.   *)
(* The first reader locks mx_writer for all of them and the last one, often *)
(* another thread, unlocks it.                                              *)
(*                                                                         *)
(* Every step between two points where another thread can be seen is an     *)
(* action of its own; inside the lock a call goes through its keys one by   *)
(* one, so that a call that got in too early would see half of another's    *)
(* work. Mutexes are those of the pthreads build: not recursive, and free   *)
(* to be unlocked by a thread that did not lock them.                       *)
(***************************************************************************)
EXTENDS Integers, FiniteSets

CONSTANTS
  Thread, Table, Key, Val, NoVal, Call,   \* as in TsHashAtomic
  None,       \* no thread, no call
  Readers,    \* who holds mx_writer when a group of readers does
  MaxCalls,   \* bound: how many calls a thread makes
  ReaderMod   \* `reader' counts modulo this (2^32, a zend_uint)

VARIABLES
  hash,       \* contents of the tables
  call,       \* the call a thread is in
  pc,         \* where the thread is in it
  holds,      \* tables whose lock the thread has
  left,       \* keys the call has still to go through
  seen,       \* what the call found
  reader,     \* ht->reader
  mx_reader,  \* who holds ht->mx_reader
  mx_writer,  \* who holds ht->mx_writer
  calls       \* calls made by each thread

locks == <<reader, mx_reader, mx_writer>>
vars == <<hash, call, pc, holds, left, seen, locks, calls>>

\* What the threads of TsHashAtomic would see. A call is done when its last key is.
StatusNow ==
  [t \in Thread |-> CASE pc[t] = "idle" -> "idle"
                      [] pc[t] \in {"release", "uncount", "last", "uncounted"} -> "done"
                      [] OTHER -> "pending"]
SeenNow ==
  [t \in Thread |-> IF StatusNow[t] = "done" THEN seen[t] ELSE [k \in Key |-> <<NoVal, NoVal>>]]

\* What is half done is not done: until the body ends, the keys a call has
\* written still count with the value it found there.
HalfDone(h, k) ==
  {t \in Thread : /\ pc[t] = "body" /\ call[t].ht = h /\ k \in call[t].keys \ left[t]
                  /\ call[t].op \notin {"find", "compare"}}
Only(S) == CHOOSE t \in S : TRUE
HashNow ==
  [h \in Table |-> [k \in Key |->
     IF HalfDone(h, k) = {} THEN hash[h][k] ELSE seen[Only(HalfDone(h, k))][k][1]]]

Atomic == INSTANCE TsHashAtomic WITH status <- StatusNow, hash <- HashNow, seen <- SeenNow

ASSUME TsHashAssumption ==
  /\ IsFiniteSet(Thread) /\ Cardinality(Thread) < ReaderMod /\ ReaderMod \in Nat
  /\ None \notin Thread /\ Readers \notin Thread /\ None # Readers
  /\ MaxCalls \in Nat
  /\ Call \subseteq Atomic!CallRecord
  \* The two tables of a call differ: zend_ts_hash_copy(a, a) waits for itself.
  /\ None \notin Call
  /\ \A c \in Call : c.op \in {"copy", "merge", "compare"} <=> c.src # c.ht

-----------------------------------------------------------------------------
(* Which locks a call takes, and in which order.                            *)

Reads(c)  == CASE c.op = "find"              -> {c.ht}
               [] c.op \in {"copy", "merge"} -> {c.src}
               [] c.op = "compare"           -> {c.ht, c.src}
               [] OTHER                      -> {}
Writes(c) == IF c.op \in {"find", "compare"} THEN {} ELSE {c.ht}

\* Mutant: a copy forgets the lock on its source.
OuterTarget(c) == c.ht
\* The table locked first and released last, and the other one.
Outer(c) == IF c.op \in {"copy", "merge"} THEN c.src ELSE c.ht
Inner(c) == IF c.op \in {"copy", "merge"} THEN c.ht ELSE c.src

Acquiring == {"acquire", "count", "first", "counted"}
Releasing == {"release", "uncount", "last", "uncounted"}

\* The table whose lock the thread is taking or giving back.
Cur(t) ==
  LET c == call[t] IN
  IF pc[t] \in Acquiring THEN IF Outer(c) \in holds[t] THEN Inner(c) ELSE Outer(c)
                          ELSE IF Inner(c) \in holds[t] THEN Inner(c) ELSE Outer(c)

TypeOK ==
  /\ hash \in [Table -> [Key -> Val \cup {NoVal}]]
  /\ call \in [Thread -> Call \cup {None}]
  /\ pc \in [Thread -> Acquiring \cup Releasing \cup {"idle", "reset", "body"}]
  /\ holds \in [Thread -> SUBSET Table]
  /\ left \in [Thread -> SUBSET Key]
  /\ seen \in [Thread -> [Key -> (Val \cup {NoVal}) \X (Val \cup {NoVal})]]
  /\ reader \in [Table -> 0..(ReaderMod - 1)]
  /\ mx_reader \in [Table -> Thread \cup {None}]
  /\ mx_writer \in [Table -> Thread \cup {None, Readers}]
  /\ calls \in [Thread -> 0..MaxCalls]

Init ==
  /\ hash = [h \in Table |-> [k \in Key |-> NoVal]]
  /\ call = [t \in Thread |-> None]
  /\ pc = [t \in Thread |-> "idle"]
  /\ holds = [t \in Thread |-> {}]
  /\ left = [t \in Thread |-> {}]
  /\ seen = [t \in Thread |-> Atomic!Blank]
  /\ reader = [h \in Table |-> 0]
  /\ mx_reader = [h \in Table |-> None]
  /\ mx_writer = [h \in Table |-> None]
  /\ calls = [t \in Thread |-> 0]

-----------------------------------------------------------------------------
(* begin_read and begin_write.                                              *)

Goto(t, label) == pc' = [pc EXCEPT ![t] = label]

\* zend_ts_hash_clean alone starts by clearing the count of readers.
Invoke(t) ==
  /\ pc[t] = "idle" /\ calls[t] < MaxCalls
  /\ \E c \in Call : /\ call' = [call EXCEPT ![t] = c]
                     /\ left' = [left EXCEPT ![t] = c.keys]
                     /\ Goto(t, IF c.op = "clean" THEN "reset" ELSE "acquire")
  /\ calls' = [calls EXCEPT ![t] = @ + 1]
  /\ UNCHANGED <<hash, holds, seen, locks>>

\* Mutant: the count goes down instead of to zero.
ResetReaderDown(t) ==
  /\ pc[t] = "reset"
  /\ reader' = [reader EXCEPT ![call[t].ht] = @ - 1]
  /\ Goto(t, "acquire")
  /\ UNCHANGED <<hash, call, holds, left, seen, mx_reader, mx_writer, calls>>

\* ht->reader = 0, under no lock.
ResetReader(t) ==
  /\ pc[t] = "reset"
  /\ reader' = [reader EXCEPT ![call[t].ht] = 0]
  /\ Goto(t, "acquire")
  /\ UNCHANGED <<hash, call, holds, left, seen, mx_reader, mx_writer, calls>>

\* The thread has the lock on Cur(t): on to the second table or to the work.
Acquired(t) ==
  /\ holds' = [holds EXCEPT ![t] = @ \cup {Cur(t)}]
  /\ Goto(t, IF {Outer(call[t]), Inner(call[t])} \subseteq holds'[t] THEN "body" ELSE "acquire")

LockWriter(t) ==
  /\ pc[t] = "acquire" /\ Cur(t) \in Writes(call[t])
  /\ mx_writer[Cur(t)] = None
  /\ mx_writer' = [mx_writer EXCEPT ![Cur(t)] = t]
  /\ Acquired(t)
  /\ UNCHANGED <<hash, call, left, seen, reader, mx_reader, calls>>

LockReader(t) ==
  /\ \/ /\ pc[t] = "acquire" /\ Cur(t) \in Reads(call[t]) /\ Goto(t, "count")
     \/ /\ pc[t] = "release" /\ Cur(t) \in Reads(call[t]) /\ Goto(t, "uncount")
  /\ mx_reader[Cur(t)] = None
  /\ mx_reader' = [mx_reader EXCEPT ![Cur(t)] = t]
  /\ UNCHANGED <<hash, call, holds, left, seen, reader, mx_writer, calls>>

\* Mutant: ht->reader++ for ++ht->reader.
CountPost(t) ==
  /\ pc[t] = "count"
  /\ reader' = [reader EXCEPT ![Cur(t)] = (@ + 1) % ReaderMod]
  /\ Goto(t, IF reader[Cur(t)] = 1 THEN "first" ELSE "counted")
  /\ UNCHANGED <<hash, call, holds, left, seen, mx_reader, mx_writer, calls>>

Count(t) ==
  /\ pc[t] = "count"
  /\ reader' = [reader EXCEPT ![Cur(t)] = (@ + 1) % ReaderMod]
  /\ Goto(t, IF reader'[Cur(t)] = 1 THEN "first" ELSE "counted")
  /\ UNCHANGED <<hash, call, holds, left, seen, mx_reader, mx_writer, calls>>

FirstReader(t) ==
  /\ pc[t] = "first"
  /\ mx_writer[Cur(t)] = None
  /\ mx_writer' = [mx_writer EXCEPT ![Cur(t)] = Readers]
  /\ Goto(t, "counted")
  /\ UNCHANGED <<hash, call, holds, left, seen, reader, mx_reader, calls>>

BeginRead(t) ==
  /\ pc[t] = "counted"
  /\ mx_reader' = [mx_reader EXCEPT ![Cur(t)] = None]
  /\ Acquired(t)
  /\ UNCHANGED <<hash, call, left, seen, reader, mx_writer, calls>>

-----------------------------------------------------------------------------
(* The work, between begin and end.                                         *)

Body(t) ==
  LET c == call[t] IN
  /\ pc[t] = "body"
  /\ \E k \in left[t] :
       /\ seen' = [seen EXCEPT ![t][k] = Atomic!Found(c, hash, k)]
       /\ hash' = [hash EXCEPT ![c.ht][k] = Atomic!Stored(c, hash, k)]
       /\ left' = [left EXCEPT ![t] = @ \ {k}]
       /\ Goto(t, IF left[t] = {k} THEN "release" ELSE "body")
  /\ UNCHANGED <<call, holds, locks, calls>>

-----------------------------------------------------------------------------
(* end_read and end_write.                                                  *)

\* The lock on Cur(t) is given back, the last one ends the call.
Released(t) ==
  /\ holds' = [holds EXCEPT ![t] = @ \ {Cur(t)}]
  /\ IF holds'[t] = {}
     THEN /\ Goto(t, "idle")
          /\ call' = [call EXCEPT ![t] = None]
          /\ seen' = [seen EXCEPT ![t] = Atomic!Blank]
     ELSE /\ Goto(t, "release")
          /\ UNCHANGED <<call, seen>>

UnlockWriter(t) ==
  /\ pc[t] = "release" /\ Cur(t) \in Writes(call[t])
  /\ mx_writer' = [mx_writer EXCEPT ![Cur(t)] = None]
  /\ Released(t)
  /\ UNCHANGED <<hash, left, reader, mx_reader, calls>>

\* Mutant: ht->reader-- for --ht->reader.
UncountPost(t) ==
  /\ pc[t] = "uncount"
  /\ reader' = [reader EXCEPT ![Cur(t)] = (@ - 1) % ReaderMod]
  /\ Goto(t, IF reader[Cur(t)] = 0 THEN "last" ELSE "uncounted")
  /\ UNCHANGED <<hash, call, holds, left, seen, mx_reader, mx_writer, calls>>

Uncount(t) ==
  /\ pc[t] = "uncount"
  /\ reader' = [reader EXCEPT ![Cur(t)] = (@ - 1) % ReaderMod]
  /\ Goto(t, IF reader'[Cur(t)] = 0 THEN "last" ELSE "uncounted")
  /\ UNCHANGED <<hash, call, holds, left, seen, mx_reader, mx_writer, calls>>

LastReader(t) ==
  /\ pc[t] = "last"
  /\ mx_writer' = [mx_writer EXCEPT ![Cur(t)] = None]
  /\ Goto(t, "uncounted")
  /\ UNCHANGED <<hash, call, holds, left, seen, reader, mx_reader, calls>>

EndRead(t) ==
  /\ pc[t] = "uncounted"
  /\ mx_reader' = [mx_reader EXCEPT ![Cur(t)] = None]
  /\ Released(t)
  /\ UNCHANGED <<hash, left, reader, mx_writer, calls>>

-----------------------------------------------------------------------------
Step(t) ==
  \/ ResetReader(t) \/ LockWriter(t) \/ LockReader(t) \/ Count(t) \/ FirstReader(t)
  \/ BeginRead(t) \/ Body(t) \/ UnlockWriter(t) \/ Uncount(t) \/ LastReader(t) \/ EndRead(t)

Next == \E t \in Thread : Invoke(t) \/ Step(t)

\* Only that a running thread goes on: no mutex is fair.
Spec == Init /\ [][Next]_vars /\ \A t \in Thread : WF_vars(Step(t))

-----------------------------------------------------------------------------
(* Properties.                                                              *)

\* Inside the lock: a thread between begin and end, on table h.
Reading(t, h) == pc[t] = "body" /\ h \in Reads(call[t])
Writing(t, h) == pc[t] = "body" /\ h \in Writes(call[t])

\* A writer is alone in a table, whichever threads locked and unlocked
\* mx_writer for the readers before it (begin_write against begin_read).
Exclusion ==
  \A t, u \in Thread, h \in Table :
    Writing(t, h) /\ u # t => ~ Reading(u, h) /\ ~ Writing(u, h)

\* A call that is over left nothing behind: when no thread is in a call both
\* mutexes of every table are free and no reader is counted, so the next
\* writer can get in (end_read's last reader unlocks for the first).
LocksAreReturned ==
  (\A t \in Thread : pc[t] = "idle") =>
    \A h \in Table : reader[h] = 0 /\ mx_reader[h] = None /\ mx_writer[h] = None

\* Calls are atomic: TsHash implements TsHashAtomic.
AtomicSpec == Atomic!Spec

\* Every call returns although the mutexes are not fair, when threads make
\* finitely many calls and lock pairs of tables in one order.
EveryCallReturns == \A t \in Thread : pc[t] # "idle" ~> pc[t] = "idle"
=============================================================================
