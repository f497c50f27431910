----------------------------- MODULE TsHashProof -----------------------------
(***************************************************************************)
(* The two mutexes and the count of Zend/zend_ts_hash.c exclude, for any    *)
(* number of threads, tables and calls. Nothing is claimed of               *)
(* zend_ts_hash_clean, which clears the count under no lock, on a table     *)
(* that other calls read.                                                   *)
(***************************************************************************)
EXTENDS TsHash, FiniteSetTheorems, TLAPS

\* Nobody cleans a table that another call reads: the count that
\* zend_ts_hash_clean clears is zero already.
CleansApart == \A c, e \in Call : c.op = "clean" => c.ht \notin Reads(e)

\* Where a thread has mx_reader.
Counting == {"count", "first", "counted", "uncount", "last", "uncounted"}

\* The tables whose mx_reader a thread holds, and those whose count includes it.
Latched(t) == IF pc[t] \in Counting THEN {Cur(t)} ELSE {}

CountedIn(t) ==
  IF pc[t] \in {"first", "counted"}   THEN (holds[t] \cap Reads(call[t])) \cup {Cur(t)}
  ELSE IF pc[t] \in {"last", "uncounted"} THEN (holds[t] \cap Reads(call[t])) \ {Cur(t)}
  ELSE IF pc[t] = "idle" THEN {}
  ELSE holds[t] \cap Reads(call[t])

Counted(h) == {t \in Thread : h \in CountedIn(t)}

\* Tables for which the thread is about to lock, or unlock, mx_writer as the
\* first or last reader.
Opening(t) == IF pc[t] = "first" THEN {Cur(t)} ELSE {}
Closing(t) == IF pc[t] = "last" THEN {Cur(t)} ELSE {}

\* Tables a thread has locked for writing.
Owned(t) == IF pc[t] = "idle" THEN {} ELSE holds[t] \cap Writes(call[t])

\* Where a thread is in its call and which of its locks it has.
CallShape ==
  \A t \in Thread :
    LET c == call[t] IN
    /\ pc[t] = "idle" => holds[t] = {} /\ c = None
    /\ pc[t] # "idle" => c \in Call
    /\ pc[t] = "reset" => holds[t] = {} /\ c.op = "clean"
    /\ pc[t] \in Acquiring => holds[t] \subseteq {Outer(c)} /\ Cur(t) \notin holds[t]
    /\ pc[t] = "body" => holds[t] = {Outer(c), Inner(c)}
    /\ pc[t] \in Releasing => Outer(c) \in holds[t] /\ holds[t] \subseteq {Outer(c), Inner(c)}
    /\ pc[t] \in Counting => Cur(t) \in Reads(c)

\* mx_reader protects the count.
Latches == \A h \in Table, t \in Thread : mx_reader[h] = t <=> h \in Latched(t)

\* The count counts, and the first and the last reader see that they are.
Counts ==
  \A h \in Table :
    /\ reader[h] = Cardinality(Counted(h))
    /\ \A t \in Thread : h \in Opening(t) => Counted(h) = {t}
    /\ \A t \in Thread : h \in Closing(t) => Counted(h) = {}

\* mx_writer is a writer's, or the readers' from the first to the last.
Owners ==
  \A h \in Table :
    /\ \A t \in Thread : mx_writer[h] = t <=> h \in Owned(t)
    /\ mx_writer[h] = Readers <=>
         \/ Counted(h) # {} /\ \A t \in Thread : h \notin Opening(t)
         \/ \E t \in Thread : h \in Closing(t)

\* The inductive invariant.
IInv == TypeOK /\ CallShape /\ Latches /\ Counts /\ Owners

-----------------------------------------------------------------------------
(* Calls and types.                                                         *)

\* A call reads or writes each of its tables, none both ways.
LEMMA CallSets ==
  ASSUME NEW c \in Call
  PROVE  /\ c.ht \in Table /\ c.src \in Table /\ c.keys \in SUBSET Key /\ c.val \in Val
         /\ Outer(c) \in Table /\ Inner(c) \in Table
         /\ Reads(c) \subseteq Table /\ Writes(c) \subseteq Table
         /\ Reads(c) \cap Writes(c) = {}
<1>1. c \in Atomic!CallRecord
  BY TsHashAssumption
<1>2. c.ht \in Table /\ c.src \in Table /\ c.keys \in SUBSET Key /\ c.val \in Val
  BY <1>1 DEF Atomic!CallRecord
<1>3. c.op \in {"copy", "merge", "compare"} <=> c.src # c.ht
  BY TsHashAssumption
<1> QED
  BY <1>2, <1>3 DEF Outer, Inner, Reads, Writes

\* The counts of the assumption, for the steps below.
LEMMA ModFacts ==
  /\ ReaderMod \in Nat /\ ReaderMod > 0 /\ MaxCalls \in Nat
  /\ \A i \in Int : i % ReaderMod \in 0..(ReaderMod - 1)
  /\ \A i \in 0..(ReaderMod - 1) : i % ReaderMod = i
<1>1. Cardinality(Thread) \in Nat /\ Cardinality(Thread) < ReaderMod /\ ReaderMod \in Nat
  BY TsHashAssumption, FS_CardinalityType
<1> QED
  BY <1>1, TsHashAssumption

\* A thread in a call works on one of the tables of the call.
LEMMA CurType ==
  ASSUME TypeOK, CallShape, NEW t \in Thread, pc[t] # "idle"
  PROVE  call[t] \in Call /\ Cur(t) \in Table
<1>1. call[t] \in Call
  BY DEF CallShape
<1> QED
  BY <1>1, CallSets DEF Cur

\* What a call stores and finds are values.
LEMMA BodyType ==
  ASSUME TypeOK, NEW c \in Call, NEW k \in Key
  PROVE  /\ Atomic!Stored(c, hash, k) \in Val \cup {NoVal}
         /\ Atomic!Found(c, hash, k) \in (Val \cup {NoVal}) \X (Val \cup {NoVal})
<1>1. c.ht \in Table /\ c.src \in Table /\ c.val \in Val
  BY CallSets
<1>2. hash[c.ht][k] \in Val \cup {NoVal} /\ hash[c.src][k] \in Val \cup {NoVal}
  BY <1>1 DEF TypeOK
<1>3. Atomic!Found(c, hash, k) \in (Val \cup {NoVal}) \X (Val \cup {NoVal})
  BY <1>2 DEF Atomic!Found
<1>4. Atomic!Stored(c, hash, k) \in Val \cup {NoVal}
  BY <1>1, <1>2 DEF Atomic!Stored
<1> QED
  BY <1>3, <1>4

\* A blank result is a result.
LEMMA BlankType == Atomic!Blank \in [Key -> (Val \cup {NoVal}) \X (Val \cup {NoVal})]
BY DEF Atomic!Blank

LEMMA TypeStep ==
  ASSUME TypeOK, CallShape, [Next]_vars
  PROVE  TypeOK'
<1>1. CASE UNCHANGED vars
  BY <1>1 DEF TypeOK, vars, locks
<1> SUFFICES ASSUME NEW t \in Thread, Invoke(t) \/ Step(t)
             PROVE  TypeOK'
  BY <1>1 DEF Next
<1> USE DEF Goto, Acquiring, Releasing
<1>2. CASE Invoke(t)
  <2>1. PICK c \in Call : /\ call' = [call EXCEPT ![t] = c]
                          /\ left' = [left EXCEPT ![t] = c.keys]
                          /\ Goto(t, IF c.op = "clean" THEN "reset" ELSE "acquire")
    BY <1>2 DEF Invoke
  <2>2. calls'[t] \in 0..MaxCalls
    BY <1>2, ModFacts DEF Invoke, TypeOK
  <2>3. c.keys \in SUBSET Key
    BY CallSets
  <2> QED
    BY <1>2, <2>1, <2>2, <2>3 DEF Invoke, TypeOK, locks
<1>3. pc[t] # "idle" => Cur(t) \in Table /\ call[t] \in Call
  BY CurType
<1>4. CASE ResetReader(t)
  BY <1>3, <1>4, CallSets, ModFacts DEF ResetReader, TypeOK
<1>5. CASE LockWriter(t)
  BY <1>3, <1>5 DEF LockWriter, Acquired, TypeOK
<1>6. CASE LockReader(t)
  BY <1>3, <1>6 DEF LockReader, TypeOK
<1>7. CASE Count(t)
  <2>1. (reader[Cur(t)] + 1) % ReaderMod \in 0..(ReaderMod - 1)
    BY <1>3, <1>7, ModFacts DEF Count, TypeOK
  <2> QED
    BY <1>3, <1>7, <2>1 DEF Count, TypeOK
<1>8. CASE FirstReader(t)
  BY <1>3, <1>8 DEF FirstReader, TypeOK
<1>9. CASE BeginRead(t)
  BY <1>3, <1>9 DEF BeginRead, Acquired, TypeOK
<1>10. CASE Body(t)
  <2>1. PICK k \in left[t] :
          /\ seen' = [seen EXCEPT ![t][k] = Atomic!Found(call[t], hash, k)]
          /\ hash' = [hash EXCEPT ![call[t].ht][k] = Atomic!Stored(call[t], hash, k)]
          /\ left' = [left EXCEPT ![t] = @ \ {k}]
          /\ Goto(t, IF left[t] = {k} THEN "release" ELSE "body")
    BY <1>10 DEF Body
  <2>2. k \in Key /\ call[t] \in Call /\ call[t].ht \in Table
    BY <1>3, <1>10, CallSets DEF Body, TypeOK
  <2>3. /\ Atomic!Stored(call[t], hash, k) \in Val \cup {NoVal}
        /\ Atomic!Found(call[t], hash, k) \in (Val \cup {NoVal}) \X (Val \cup {NoVal})
    BY <2>2, BodyType
  <2>4. hash' \in [Table -> [Key -> Val \cup {NoVal}]]
    BY <2>1, <2>2, <2>3 DEF TypeOK
  <2>5. seen' \in [Thread -> [Key -> (Val \cup {NoVal}) \X (Val \cup {NoVal})]]
    BY <2>1, <2>2, <2>3 DEF TypeOK
  <2> QED
    BY <1>10, <2>1, <2>4, <2>5 DEF Body, TypeOK, locks
<1>11. ASSUME Released(t)
       PROVE  /\ holds' \in [Thread -> SUBSET Table]
              /\ call' \in [Thread -> Call \cup {None}]
              /\ seen' \in [Thread -> [Key -> (Val \cup {NoVal}) \X (Val \cup {NoVal})]]
              /\ pc' \in [Thread -> Acquiring \cup Releasing \cup {"idle", "reset", "body"}]
  BY <1>11, BlankType DEF Released, TypeOK
<1>12. CASE UnlockWriter(t)
  BY <1>3, <1>11, <1>12 DEF UnlockWriter, TypeOK
<1>13. CASE Uncount(t)
  <2>1. (reader[Cur(t)] - 1) % ReaderMod \in 0..(ReaderMod - 1)
    BY <1>3, <1>13, ModFacts DEF Uncount, TypeOK
  <2> QED
    BY <1>3, <1>13, <2>1 DEF Uncount, TypeOK
<1>14. CASE LastReader(t)
  BY <1>3, <1>14 DEF LastReader, TypeOK
<1>15. CASE EndRead(t)
  BY <1>3, <1>11, <1>15 DEF EndRead, TypeOK
<1> QED
  BY <1>2, <1>4, <1>5, <1>6, <1>7, <1>8, <1>9, <1>10, <1>12, <1>13, <1>14, <1>15 DEF Step

-----------------------------------------------------------------------------
(* The way through a call.                                                  *)

\* Each step moves a thread along its call: a lock it takes it does not have,
\* a lock it gives back it has.
LEMMA ShapeStep ==
  ASSUME TypeOK, CallShape, [Next]_vars
  PROVE  CallShape'
<1>1. CASE UNCHANGED vars
  BY <1>1 DEF CallShape, Cur, vars
<1> SUFFICES ASSUME NEW t \in Thread, Invoke(t) \/ Step(t)
             PROVE  CallShape'
  BY <1>1 DEF Next
<1> DEFINE Shape(u) ==
      LET c == call[u] IN
      /\ pc[u] = "idle" => holds[u] = {} /\ c = None
      /\ pc[u] # "idle" => c \in Call
      /\ pc[u] = "reset" => holds[u] = {} /\ c.op = "clean"
      /\ pc[u] \in Acquiring => holds[u] \subseteq {Outer(c)} /\ Cur(u) \notin holds[u]
      /\ pc[u] = "body" => holds[u] = {Outer(c), Inner(c)}
      /\ pc[u] \in Releasing => Outer(c) \in holds[u] /\ holds[u] \subseteq {Outer(c), Inner(c)}
      /\ pc[u] \in Counting => Cur(u) \in Reads(c)
<1>2. Shape(t)
  BY DEF CallShape
<1>3. ASSUME NEW u \in Thread, u # t PROVE Shape(u)'
  <2>1. pc'[u] = pc[u] /\ holds'[u] = holds[u] /\ call'[u] = call[u]
    BY <1>3 DEF Step, Invoke, ResetReader, LockWriter, LockReader, Count, FirstReader, BeginRead,
        Body, UnlockWriter, Uncount, LastReader, EndRead, Acquired, Released, Goto, TypeOK
  <2>2. Shape(u) /\ Cur(u)' = Cur(u)
    BY <2>1 DEF CallShape, Cur
  <2> QED
    BY <2>1, <2>2
<1>4. Shape(t)'
  <2> USE DEF Goto, Acquiring, Releasing, Counting
  <2>1. CASE Invoke(t)
    <3>1. PICK c \in Call : /\ call' = [call EXCEPT ![t] = c]
                            /\ Goto(t, IF c.op = "clean" THEN "reset" ELSE "acquire")
      BY <2>1 DEF Invoke
    <3> QED
      BY <1>2, <2>1, <3>1 DEF Invoke, TypeOK, Cur
  <2>2. CASE ResetReader(t)
    BY <1>2, <2>2 DEF ResetReader, TypeOK, Cur
  <2>3. ASSUME Acquired(t), call' = call, pc[t] \in Acquiring PROVE Shape(t)'
    BY <1>2, <2>3 DEF Acquired, TypeOK, Cur
  <2>4. CASE LockWriter(t)
    BY <2>3, <2>4 DEF LockWriter
  <2>5. CASE LockReader(t)
    BY <1>2, <2>5 DEF LockReader, TypeOK, Cur
  <2>6. CASE Count(t)
    BY <1>2, <2>6 DEF Count, TypeOK, Cur
  <2>7. CASE FirstReader(t)
    BY <1>2, <2>7 DEF FirstReader, TypeOK, Cur
  <2>8. CASE BeginRead(t)
    BY <2>3, <2>8 DEF BeginRead
  <2>9. CASE Body(t)
    BY <1>2, <2>9 DEF Body, TypeOK, Cur
  <2>10. ASSUME Released(t), pc[t] \in Releasing PROVE Shape(t)'
    BY <1>2, <2>10 DEF Released, TypeOK, Cur
  <2>11. CASE UnlockWriter(t)
    BY <2>10, <2>11 DEF UnlockWriter
  <2>12. CASE Uncount(t)
    BY <1>2, <2>12 DEF Uncount, TypeOK, Cur
  <2>13. CASE LastReader(t)
    BY <1>2, <2>13 DEF LastReader, TypeOK, Cur
  <2>14. CASE EndRead(t)
    BY <2>10, <2>14 DEF EndRead
  <2> QED
    BY <2>1, <2>2, <2>4, <2>5, <2>6, <2>7, <2>8, <2>9, <2>11, <2>12, <2>13, <2>14 DEF Step
<1> QED
  BY <1>3, <1>4 DEF CallShape

\* In the initial state no thread is in a call.
LEMMA ShapeInit == Init => TypeOK /\ CallShape
<1> SUFFICES ASSUME Init PROVE TypeOK /\ CallShape
  OBVIOUS
<1>1. TypeOK
  BY BlankType, ModFacts DEF Init, TypeOK
<1>2. CallShape
  BY DEF Init, CallShape, Acquiring, Releasing, Counting
<1> QED
  BY <1>1, <1>2

\* Type correctness: no count of readers leaves its width and no mutex has an
\* owner that does not exist, whatever calls the threads make.
THEOREM TypeCorrect == Spec => []TypeOK
<1>1. TypeOK /\ CallShape /\ [Next]_vars => (TypeOK /\ CallShape)'
  BY TypeStep, ShapeStep
<1> QED
  BY ShapeInit, <1>1, PTL DEF Spec

-----------------------------------------------------------------------------
(* What a step changes.                                                     *)

\* A step of one thread leaves the locks of the others alone.
LEMMA Frame ==
  ASSUME TypeOK, NEW t \in Thread, Invoke(t) \/ Step(t), NEW u \in Thread, u # t
  PROVE  /\ Latched(u)' = Latched(u) /\ CountedIn(u)' = CountedIn(u) /\ Owned(u)' = Owned(u)
         /\ Opening(u)' = Opening(u) /\ Closing(u)' = Closing(u)
<1>1. pc'[u] = pc[u] /\ holds'[u] = holds[u] /\ call'[u] = call[u]
  BY DEF Step, Invoke, ResetReader, LockWriter, LockReader, Count, FirstReader, BeginRead,
      Body, UnlockWriter, Uncount, LastReader, EndRead, Acquired, Released, Goto, TypeOK
<1>2. Cur(u)' = Cur(u)
  BY <1>1 DEF Cur
<1> QED
  BY <1>1, <1>2 DEF Latched, CountedIn, Owned, Opening, Closing

\* What holds of a thread in a call, for the steps below.
LEMMA InCall ==
  ASSUME TypeOK, CallShape, NEW t \in Thread, pc[t] # "idle"
  PROVE  /\ call[t] \in Call /\ Cur(t) \in Table
         /\ Reads(call[t]) \cap Writes(call[t]) = {}
BY CurType, CallSets

\* Steps that only move a thread along change none of its lock sets, nor does
\* zend_ts_hash_clean's store to a count that is zero.
LEMMA QuietStep ==
  ASSUME CleansApart, TypeOK, CallShape, Counts,
         NEW t \in Thread, Invoke(t) \/ ResetReader(t) \/ Body(t)
  PROVE  /\ Latched(t)' = Latched(t) /\ CountedIn(t)' = CountedIn(t) /\ Owned(t)' = Owned(t)
         /\ Opening(t)' = Opening(t) /\ Closing(t)' = Closing(t)
         /\ reader' = reader /\ mx_reader' = mx_reader /\ mx_writer' = mx_writer
<1>1. CASE Invoke(t)
  <2>1. pc[t] = "idle" /\ pc'[t] \in {"reset", "acquire"} /\ holds'[t] = {}
    BY <1>1 DEF Invoke, Goto, TypeOK, CallShape
  <2> QED
    BY <1>1, <2>1 DEF Invoke, locks, Latched, CountedIn, Owned, Opening, Closing, Counting
<1>2. CASE ResetReader(t)
  <2>1. /\ pc[t] = "reset" /\ pc'[t] = "acquire" /\ holds[t] = {} /\ holds' = holds
        /\ call[t] \in Call /\ call[t].op = "clean"
    BY <1>2 DEF ResetReader, Goto, TypeOK, CallShape
  <2> DEFINE h == call[t].ht
  <2>2. h \in Table /\ \A e \in Call : h \notin Reads(e)
    BY <2>1, CallSets DEF CleansApart
  <2>3. \A u \in Thread : h \notin CountedIn(u)
    <3> SUFFICES ASSUME NEW u \in Thread, h \in CountedIn(u) PROVE FALSE
      OBVIOUS
    <3>1. pc[u] # "idle" /\ call[u] \in Call
      BY DEF CountedIn, CallShape
    <3>2. pc[u] \in Counting => Cur(u) \in Reads(call[u])
      BY DEF CallShape
    <3> QED
      BY <2>2, <3>1, <3>2 DEF CountedIn, Counting
  <2>4. Counted(h) = {}
    BY <2>3 DEF Counted
  <2>5. reader[h] = 0
    BY <2>2, <2>4, FS_EmptySet DEF Counts
  <2>6. reader' = reader
    BY <1>2, <2>5 DEF ResetReader, TypeOK
  <2> QED
    BY <1>2, <2>1, <2>6 DEF ResetReader, Latched, CountedIn, Owned, Opening, Closing, Counting
<1>3. CASE Body(t)
  <2>1. pc[t] = "body" /\ pc'[t] \in {"body", "release"} /\ holds' = holds /\ call' = call
    BY <1>3 DEF Body, Goto, TypeOK
  <2> QED
    BY <1>3, <2>1 DEF Body, locks, Latched, CountedIn, Owned, Opening, Closing, Counting
<1> QED
  BY <1>1, <1>2, <1>3

\* begin_write and end_write change who owns Cur(t), nothing else.
LEMMA WriterStep ==
  ASSUME TypeOK, CallShape, NEW t \in Thread, LockWriter(t) \/ UnlockWriter(t)
  PROVE  /\ Latched(t)' = Latched(t) /\ CountedIn(t)' = CountedIn(t)
         /\ Opening(t)' = Opening(t) /\ Closing(t)' = Closing(t)
         /\ LockWriter(t) => Owned(t)' = Owned(t) \cup {Cur(t)} /\ Cur(t) \notin Owned(t)
         /\ UnlockWriter(t) => Owned(t)' = Owned(t) \ {Cur(t)} /\ Cur(t) \in Owned(t)
<1>1. CASE LockWriter(t)
  <2>1. /\ pc[t] = "acquire" /\ pc'[t] \in {"acquire", "body"} /\ call' = call
        /\ holds'[t] = holds[t] \cup {Cur(t)} /\ Cur(t) \notin holds[t]
        /\ Cur(t) \in Writes(call[t]) /\ Cur(t) \notin Reads(call[t])
    BY <1>1, InCall DEF LockWriter, Acquired, Goto, TypeOK, CallShape, Acquiring
  <2> QED
    BY <1>1, <2>1 DEF LockWriter, UnlockWriter, Latched, CountedIn, Owned, Opening, Closing, Counting
<1>2. CASE UnlockWriter(t)
  <2>1. /\ pc[t] = "release" /\ pc'[t] \in {"release", "idle"}
        /\ pc'[t] # "idle" => call'[t] = call[t]
        /\ pc'[t] = "idle" => holds'[t] = {}
        /\ holds'[t] = holds[t] \ {Cur(t)}
        /\ Cur(t) \in Writes(call[t]) /\ Cur(t) \notin Reads(call[t])
    BY <1>2, InCall DEF UnlockWriter, Released, Goto, TypeOK
  <2>2. Cur(t) \in holds[t]
    BY <2>1 DEF CallShape, Acquiring, Releasing, Cur
  <2> QED
    BY <1>2, <2>1, <2>2 DEF LockWriter, UnlockWriter, Latched, CountedIn, Owned, Opening, Closing, Counting
<1> QED
  BY <1>1, <1>2

\* Taking and giving back mx_reader changes what the thread has latched.
LEMMA LatchStep ==
  ASSUME TypeOK, CallShape, NEW t \in Thread, LockReader(t) \/ BeginRead(t) \/ EndRead(t)
  PROVE  /\ CountedIn(t)' = CountedIn(t) /\ Owned(t)' = Owned(t)
         /\ Opening(t)' = Opening(t) /\ Closing(t)' = Closing(t)
         /\ LockReader(t) => Latched(t) = {} /\ Latched(t)' = {Cur(t)}
         /\ BeginRead(t) \/ EndRead(t) => Latched(t) = {Cur(t)} /\ Latched(t)' = {}
<1>1. CASE LockReader(t)
  <2>1. /\ \/ pc[t] = "acquire" /\ pc'[t] = "count"
           \/ pc[t] = "release" /\ pc'[t] = "uncount"
        /\ call' = call /\ holds' = holds
    BY <1>1 DEF LockReader, Goto, TypeOK
  <2>2. Cur(t)' = Cur(t)
    BY <2>1 DEF Cur, Acquiring
  <2> QED
    BY <1>1, <2>1, <2>2
    DEF LockReader, BeginRead, EndRead, Latched, CountedIn, Owned, Opening, Closing, Counting
<1>2. CASE BeginRead(t)
  <2>1. /\ pc[t] = "counted" /\ pc'[t] \in {"acquire", "body"} /\ call' = call
        /\ holds'[t] = holds[t] \cup {Cur(t)}
        /\ Cur(t) \in Reads(call[t]) /\ Cur(t) \notin Writes(call[t])
    BY <1>2, InCall DEF BeginRead, Acquired, Goto, TypeOK, CallShape, Counting
  <2> QED
    BY <1>2, <2>1
    DEF LockReader, BeginRead, EndRead, Latched, CountedIn, Owned, Opening, Closing, Counting
<1>3. CASE EndRead(t)
  <2>1. /\ pc[t] = "uncounted" /\ pc'[t] \in {"release", "idle"}
        /\ pc'[t] # "idle" => call'[t] = call[t]
        /\ pc'[t] = "idle" => holds'[t] = {}
        /\ holds'[t] = holds[t] \ {Cur(t)}
        /\ Cur(t) \in Reads(call[t]) /\ Cur(t) \notin Writes(call[t])
    BY <1>3, InCall DEF EndRead, Released, Goto, TypeOK, CallShape, Counting
  <2> QED
    BY <1>3, <2>1
    DEF LockReader, BeginRead, EndRead, Latched, CountedIn, Owned, Opening, Closing, Counting
<1> QED
  BY <1>1, <1>2, <1>3

\* Between the two, the thread is counted in or out of Cur(t), and the first
\* and the last reader deal with mx_writer.
LEMMA CountStep ==
  ASSUME TypeOK, CallShape, NEW t \in Thread,
         Count(t) \/ Uncount(t) \/ FirstReader(t) \/ LastReader(t)
  PROVE  /\ Latched(t)' = Latched(t) /\ Latched(t) = {Cur(t)} /\ Owned(t)' = Owned(t)
         /\ Count(t) => /\ CountedIn(t)' = CountedIn(t) \cup {Cur(t)} /\ Cur(t) \notin CountedIn(t)
                        /\ Opening(t)' = IF reader'[Cur(t)] = 1 THEN {Cur(t)} ELSE {}
         /\ Uncount(t) => /\ CountedIn(t)' = CountedIn(t) \ {Cur(t)} /\ Cur(t) \in CountedIn(t)
                          /\ Closing(t)' = IF reader'[Cur(t)] = 0 THEN {Cur(t)} ELSE {}
         /\ ~ Count(t) => Opening(t)' = {}
         /\ ~ Uncount(t) => Closing(t)' = {}
         /\ FirstReader(t) => CountedIn(t)' = CountedIn(t) /\ Opening(t) = {Cur(t)}
         /\ LastReader(t) => CountedIn(t)' = CountedIn(t) /\ Closing(t) = {Cur(t)}
         /\ ~ FirstReader(t) => Opening(t) = {}
         /\ ~ LastReader(t) => Closing(t) = {}
<1>0. call' = call /\ holds' = holds
  BY DEF Count, Uncount, FirstReader, LastReader
<1> USE DEF Latched, CountedIn, Owned, Opening, Closing, Counting
<1>1. CASE Count(t)
  <2>1. /\ pc[t] = "count" /\ pc'[t] = IF reader'[Cur(t)] = 1 THEN "first" ELSE "counted"
        /\ Cur(t) \notin holds[t]
    BY <1>1 DEF Count, Goto, TypeOK, CallShape, Acquiring
  <2>2. Cur(t)' = Cur(t)
    BY <1>0, <2>1 DEF Cur, Acquiring
  <2> QED
    BY <1>0, <1>1, <2>1, <2>2 DEF Uncount, FirstReader, LastReader
<1>2. CASE Uncount(t)
  <2>1. /\ pc[t] = "uncount" /\ pc'[t] = IF reader'[Cur(t)] = 0 THEN "last" ELSE "uncounted"
        /\ Cur(t) \in holds[t] /\ Cur(t) \in Reads(call[t])
    BY <1>2 DEF Uncount, Goto, TypeOK, CallShape, Releasing, Cur, Acquiring
  <2>2. Cur(t)' = Cur(t)
    BY <1>0, <2>1 DEF Cur, Acquiring
  <2> QED
    BY <1>0, <1>2, <2>1, <2>2 DEF Count, FirstReader, LastReader
<1>3. CASE FirstReader(t)
  <2>1. pc[t] = "first" /\ pc'[t] = "counted"
    BY <1>3 DEF FirstReader, Goto, TypeOK
  <2>2. Cur(t)' = Cur(t)
    BY <1>0, <2>1 DEF Cur, Acquiring
  <2> QED
    BY <1>0, <1>3, <2>1, <2>2 DEF Count, Uncount, LastReader
<1>4. CASE LastReader(t)
  <2>1. pc[t] = "last" /\ pc'[t] = "uncounted"
    BY <1>4 DEF LastReader, Goto, TypeOK
  <2>2. Cur(t)' = Cur(t)
    BY <1>0, <2>1 DEF Cur, Acquiring
  <2> QED
    BY <1>0, <1>4, <2>1, <2>2 DEF Count, Uncount, FirstReader
<1> QED
  BY <1>1, <1>2, <1>3, <1>4

-----------------------------------------------------------------------------
(* The invariant is kept.                                                   *)

\* A thread that has mx_reader is the only one between its lock and its unlock.
LEMMA LatchAlone ==
  ASSUME Latches, NEW t \in Thread, NEW h \in Table, Latched(t) = {h}, NEW u \in Thread, u # t
  PROVE  h \notin Opening(u) /\ h \notin Closing(u) /\ mx_reader[h] = t
BY DEF Latches, Latched, Opening, Closing, Counting

\* The kinds of steps, by what they do to the mutexes and the count.
LEMMA LockStep ==
  ASSUME NEW t \in Thread, Invoke(t) \/ Step(t)
  PROVE  \/ Invoke(t) \/ ResetReader(t) \/ Body(t)
         \/ LockWriter(t) \/ UnlockWriter(t)
         \/ LockReader(t) \/ BeginRead(t) \/ EndRead(t)
         \/ Count(t) \/ Uncount(t) \/ FirstReader(t) \/ LastReader(t)
BY DEF Step

\* mx_reader is held by the thread that is between its lock and its unlock.
LEMMA LatchesStep ==
  ASSUME CleansApart, TypeOK, CallShape, Latches, Counts, NEW t \in Thread, Invoke(t) \/ Step(t)
  PROVE  Latches'
<1> SUFFICES ASSUME NEW h \in Table, NEW u \in Thread
             PROVE  mx_reader'[h] = u <=> h \in Latched(u)'
  BY DEF Latches
<1>1. mx_reader[h] = u <=> h \in Latched(u)
  BY DEF Latches
<1>2. u # t => Latched(u)' = Latched(u)
  BY Frame
<1>3. CASE Invoke(t) \/ ResetReader(t) \/ Body(t)
  BY <1>1, <1>2, <1>3, QuietStep
<1>4. CASE LockWriter(t) \/ UnlockWriter(t)
  BY <1>1, <1>2, <1>4, WriterStep DEF LockWriter, UnlockWriter
<1>5. CASE LockReader(t)
  <2>1. /\ mx_reader' = [mx_reader EXCEPT ![Cur(t)] = t] /\ mx_reader[Cur(t)] = None
        /\ Latched(t) = {} /\ Latched(t)' = {Cur(t)}
    BY <1>5, LatchStep DEF LockReader
  <2>2. mx_reader'[h] = IF h = Cur(t) THEN t ELSE mx_reader[h]
    BY <2>1 DEF TypeOK
  <2> QED
    BY <1>1, <1>2, <2>1, <2>2, TsHashAssumption
<1>6. CASE BeginRead(t) \/ EndRead(t)
  <2>1. /\ mx_reader' = [mx_reader EXCEPT ![Cur(t)] = None]
        /\ Latched(t) = {Cur(t)} /\ Latched(t)' = {}
    BY <1>6, LatchStep DEF BeginRead, EndRead
  <2>2. mx_reader'[h] = IF h = Cur(t) THEN None ELSE mx_reader[h]
    BY <2>1 DEF TypeOK
  <2>3. h = Cur(t) => mx_reader[h] = t
    BY <2>1 DEF Latches
  <2> QED
    BY <1>1, <1>2, <2>1, <2>2, <2>3, TsHashAssumption
<1>7. CASE Count(t) \/ Uncount(t) \/ FirstReader(t) \/ LastReader(t)
  <2>1. Latched(t)' = Latched(t)
    BY <1>7, CountStep
  <2>2. mx_reader' = mx_reader
    BY <1>7 DEF Count, Uncount, FirstReader, LastReader
  <2> QED
    BY <1>1, <1>2, <2>1, <2>2
<1> QED
  BY <1>3, <1>4, <1>5, <1>6, <1>7, LockStep

\* The readers of a table, after a step of t.
LEMMA CountedStep ==
  ASSUME TypeOK, NEW t \in Thread, Invoke(t) \/ Step(t), NEW h \in Table
  PROVE  Counted(h)' = IF h \in CountedIn(t)' THEN Counted(h) \cup {t} ELSE Counted(h) \ {t}
<1>1. \A u \in Thread : u # t => CountedIn(u)' = CountedIn(u)
  BY Frame
<1>2. \A u \in Thread : u \in Counted(h)' <=> IF u = t THEN h \in CountedIn(t)' ELSE u \in Counted(h)
  BY <1>1 DEF Counted
<1> QED
  BY <1>2 DEF Counted

\* Sets of threads and how many they are, modulo the width of the count.
LEMMA CountFacts ==
  ASSUME NEW S \in SUBSET Thread, NEW t \in Thread
  PROVE  /\ IsFiniteSet(S) /\ Cardinality(S) \in 0..(ReaderMod - 1)
         /\ t \notin S => Cardinality(S \cup {t}) = Cardinality(S) + 1
         /\ t \in S => Cardinality(S \ {t}) = Cardinality(S) - 1
         /\ Cardinality(S) = 0 <=> S = {}
         /\ Cardinality(S) = 1 /\ t \in S => S = {t}
<1>1. IsFiniteSet(S) /\ Cardinality(S) <= Cardinality(Thread)
  BY TsHashAssumption, FS_Subset
<1>2. Cardinality(S) \in Nat /\ Cardinality(Thread) \in Nat
  BY <1>1, TsHashAssumption, FS_CardinalityType
<1>3. t \notin S => Cardinality(S \cup {t}) = Cardinality(S) + 1
  BY <1>1, FS_AddElement
<1>4. t \in S => Cardinality(S \ {t}) = Cardinality(S) - 1
  BY <1>1, FS_RemoveElement
<1>5. Cardinality(S) = 0 <=> S = {}
  BY <1>1, FS_EmptySet
<1>6. Cardinality(S) = 1 => \E x : S = {x}
  BY <1>1, FS_Singleton
<1> QED
  BY <1>1, <1>2, <1>3, <1>4, <1>5, <1>6, TsHashAssumption

\* The count counts, and whoever sees it become one, or zero, is the first, or
\* the last: mx_reader keeps the others away until it has dealt with mx_writer.
LEMMA CountsStep ==
  ASSUME CleansApart, TypeOK, CallShape, Latches, Counts,
         NEW t \in Thread, Invoke(t) \/ Step(t)
  PROVE  Counts'
<1> SUFFICES ASSUME NEW h \in Table
             PROVE  /\ reader'[h] = Cardinality(Counted(h)')
                    /\ \A u \in Thread : h \in Opening(u)' => Counted(h)' = {u}
                    /\ \A u \in Thread : h \in Closing(u)' => Counted(h)' = {}
  BY DEF Counts
<1>1. /\ reader[h] = Cardinality(Counted(h))
      /\ \A u \in Thread : h \in Opening(u) => Counted(h) = {u}
      /\ \A u \in Thread : h \in Closing(u) => Counted(h) = {}
  BY DEF Counts
<1>2. \A u \in Thread : u # t => Opening(u)' = Opening(u) /\ Closing(u)' = Closing(u)
  BY Frame
<1>3. ASSUME reader' = reader, CountedIn(t)' = CountedIn(t),
             Opening(t)' \subseteq Opening(t), Closing(t)' \subseteq Closing(t)
      PROVE  /\ reader'[h] = Cardinality(Counted(h)')
             /\ \A u \in Thread : h \in Opening(u)' => Counted(h)' = {u}
             /\ \A u \in Thread : h \in Closing(u)' => Counted(h)' = {}
  <2>1. Counted(h)' = Counted(h)
    BY <1>3, CountedStep DEF Counted
  <2> QED
    BY <1>1, <1>2, <1>3, <2>1
<1>4. CASE Invoke(t) \/ ResetReader(t) \/ Body(t)
  BY <1>3, <1>4, QuietStep
<1>5. CASE LockWriter(t) \/ UnlockWriter(t)
  BY <1>3, <1>5, WriterStep DEF LockWriter, UnlockWriter
<1>6. CASE LockReader(t) \/ BeginRead(t) \/ EndRead(t)
  BY <1>3, <1>6, LatchStep DEF LockReader, BeginRead, EndRead
<1>7. CASE FirstReader(t) \/ LastReader(t)
  <2>1. reader' = reader /\ CountedIn(t)' = CountedIn(t)
    BY <1>7, CountStep DEF FirstReader, LastReader
  <2>2. Opening(t)' = {} /\ Closing(t)' = {}
    BY <1>7, CountStep DEF FirstReader, LastReader, Count, Uncount
  <2> QED
    BY <1>3, <2>1, <2>2
<1>8. CASE Count(t)
  <2>1. /\ reader' = [reader EXCEPT ![Cur(t)] = (@ + 1) % ReaderMod]
        /\ Latched(t) = {Cur(t)} /\ Closing(t)' = {}
        /\ CountedIn(t)' = CountedIn(t) \cup {Cur(t)} /\ Cur(t) \notin CountedIn(t)
        /\ Opening(t)' = IF reader'[Cur(t)] = 1 THEN {Cur(t)} ELSE {}
    BY <1>8, CountStep DEF Count, Uncount
  <2>2. CASE h # Cur(t)
    <3>1. reader'[h] = reader[h] /\ h \notin Opening(t)'
      BY <2>1, <2>2 DEF TypeOK
    <3>2. Counted(h)' = Counted(h)
      BY <2>1, <2>2, CountedStep DEF Counted
    <3> QED
      BY <1>1, <1>2, <2>1, <3>1, <3>2
  <2>3. CASE h = Cur(t)
    <3>1. Counted(h)' = Counted(h) \cup {t} /\ t \notin Counted(h)
      BY <2>1, <2>3, CountedStep DEF Counted
    <3>2. Counted(h) \in SUBSET Thread /\ Counted(h)' \in SUBSET Thread
      BY <3>1 DEF Counted
    <3>3. Cardinality(Counted(h)') = Cardinality(Counted(h)) + 1
      <4>1. Cardinality(Counted(h) \cup {t}) = Cardinality(Counted(h)) + 1
        BY <3>1, <3>2, CountFacts
      <4> QED
        BY <3>1, <4>1
    <3>4. /\ Cardinality(Counted(h)') \in 0..(ReaderMod - 1)
          /\ Cardinality(Counted(h)') = 1 => Counted(h)' = {t}
      <4> DEFINE S == Counted(h) \cup {t}
      <4>1. S \in SUBSET Thread /\ S = Counted(h)'
        BY <3>1, <3>2
      <4> HIDE DEF S
      <4>2. Cardinality(S) \in 0..(ReaderMod - 1) /\ (Cardinality(S) = 1 => S = {t})
        BY <3>1, <4>1, CountFacts
      <4> QED
        BY <4>1, <4>2
    <3>5. reader'[h] = (reader[h] + 1) % ReaderMod
      BY <2>1, <2>3 DEF TypeOK
    <3>6. reader'[h] = Cardinality(Counted(h)')
      BY <1>1, <3>3, <3>4, <3>5, ModFacts
    <3>7. \A u \in Thread : u # t => h \notin Opening(u) /\ h \notin Closing(u)
      BY <2>1, <2>3, LatchAlone
    <3> QED
      BY <1>2, <2>1, <2>3, <3>4, <3>6, <3>7
  <2> QED
    BY <2>2, <2>3
<1>9. CASE Uncount(t)
  <2>1. /\ reader' = [reader EXCEPT ![Cur(t)] = (@ - 1) % ReaderMod]
        /\ Latched(t) = {Cur(t)} /\ Opening(t)' = {}
        /\ CountedIn(t)' = CountedIn(t) \ {Cur(t)} /\ Cur(t) \in CountedIn(t)
        /\ Closing(t)' = IF reader'[Cur(t)] = 0 THEN {Cur(t)} ELSE {}
    BY <1>9, CountStep DEF Count, Uncount
  <2>2. CASE h # Cur(t)
    <3>1. reader'[h] = reader[h] /\ h \notin Closing(t)'
      BY <2>1, <2>2 DEF TypeOK
    <3>2. Counted(h)' = Counted(h)
      BY <2>1, <2>2, CountedStep DEF Counted
    <3> QED
      BY <1>1, <1>2, <2>1, <3>1, <3>2
  <2>3. CASE h = Cur(t)
    <3>1. Counted(h)' = Counted(h) \ {t} /\ t \in Counted(h)
      BY <2>1, <2>3, CountedStep DEF Counted
    <3>2. Counted(h) \in SUBSET Thread /\ Counted(h)' \in SUBSET Thread
      BY <3>1 DEF Counted
    <3>3. Cardinality(Counted(h)') = Cardinality(Counted(h)) - 1
      <4>1. Cardinality(Counted(h) \ {t}) = Cardinality(Counted(h)) - 1
        BY <3>1, <3>2, CountFacts
      <4> QED
        BY <3>1, <4>1
    <3>4. /\ Cardinality(Counted(h)') \in 0..(ReaderMod - 1)
          /\ Cardinality(Counted(h)') = 0 => Counted(h)' = {}
      <4> DEFINE S == Counted(h) \ {t}
      <4>1. S \in SUBSET Thread /\ S = Counted(h)'
        BY <3>1, <3>2
      <4> HIDE DEF S
      <4>2. Cardinality(S) \in 0..(ReaderMod - 1) /\ (Cardinality(S) = 0 => S = {})
        BY <3>1, <4>1, CountFacts
      <4> QED
        BY <4>1, <4>2
    <3>5. reader'[h] = (reader[h] - 1) % ReaderMod
      BY <2>1, <2>3 DEF TypeOK
    <3>6. reader'[h] = Cardinality(Counted(h)')
      BY <1>1, <3>3, <3>4, <3>5, ModFacts
    <3>7. \A u \in Thread : u # t => h \notin Opening(u) /\ h \notin Closing(u)
      BY <2>1, <2>3, LatchAlone
    <3> QED
      BY <1>2, <2>1, <2>3, <3>4, <3>6, <3>7
  <2> QED
    BY <2>2, <2>3
<1> QED
  BY <1>4, <1>5, <1>6, <1>7, <1>8, <1>9, LockStep

\* When the readers have mx_writer: from the first one's lock to the last one's unlock.
ReadersOwn(h) ==
  \/ Counted(h) # {} /\ \A t \in Thread : h \notin Opening(t)
  \/ \E t \in Thread : h \in Closing(t)

\* mx_writer goes from hand to hand: a writer takes it free and gives it back,
\* the first reader takes it free and the last one frees it.
LEMMA OwnersStep ==
  ASSUME CleansApart, TypeOK, CallShape, Latches, Counts, Counts', Owners,
         NEW t \in Thread, Invoke(t) \/ Step(t)
  PROVE  Owners'
<1> SUFFICES ASSUME NEW h \in Table
             PROVE  /\ \A u \in Thread : mx_writer'[h] = u <=> h \in Owned(u)'
                    /\ mx_writer'[h] = Readers <=> ReadersOwn(h)'
  BY DEF Owners, ReadersOwn
<1>1. /\ \A u \in Thread : mx_writer[h] = u <=> h \in Owned(u)
      /\ mx_writer[h] = Readers <=> ReadersOwn(h)
  BY DEF Owners, ReadersOwn
<1>2. \A u \in Thread : u # t => /\ Owned(u)' = Owned(u)
                                 /\ Opening(u)' = Opening(u) /\ Closing(u)' = Closing(u)
  BY Frame
<1>3. ASSUME Owned(t)' = Owned(t), mx_writer'[h] = mx_writer[h], ReadersOwn(h)' <=> ReadersOwn(h)
      PROVE  /\ \A u \in Thread : mx_writer'[h] = u <=> h \in Owned(u)'
             /\ mx_writer'[h] = Readers <=> ReadersOwn(h)'
  BY <1>1, <1>2, <1>3
<1>4. ASSUME CountedIn(t)' = CountedIn(t), Opening(t)' = Opening(t), Closing(t)' = Closing(t)
      PROVE  ReadersOwn(h)' <=> ReadersOwn(h)
  <2>1. Counted(h)' = Counted(h)
    BY <1>4, CountedStep DEF Counted
  <2> QED
    BY <1>2, <1>4, <2>1 DEF ReadersOwn
<1>5. CASE Invoke(t) \/ ResetReader(t) \/ Body(t)
  BY <1>3, <1>4, <1>5, QuietStep
<1>6. CASE LockReader(t) \/ BeginRead(t) \/ EndRead(t)
  BY <1>3, <1>4, <1>6, LatchStep DEF LockReader, BeginRead, EndRead
<1>7. CASE LockWriter(t)
  <2>1. /\ mx_writer[Cur(t)] = None /\ mx_writer' = [mx_writer EXCEPT ![Cur(t)] = t]
        /\ Owned(t)' = Owned(t) \cup {Cur(t)}
        /\ ReadersOwn(h)' <=> ReadersOwn(h)
    BY <1>4, <1>7, WriterStep DEF LockWriter
  <2>2. mx_writer'[h] = IF h = Cur(t) THEN t ELSE mx_writer[h]
    BY <2>1 DEF TypeOK
  <2> QED
    BY <1>1, <1>2, <2>1, <2>2, TsHashAssumption
<1>8. CASE UnlockWriter(t)
  <2>1. /\ mx_writer' = [mx_writer EXCEPT ![Cur(t)] = None]
        /\ Owned(t)' = Owned(t) \ {Cur(t)} /\ Cur(t) \in Owned(t)
        /\ ReadersOwn(h)' <=> ReadersOwn(h)
    BY <1>4, <1>8, WriterStep DEF UnlockWriter
  <2>2. mx_writer'[h] = IF h = Cur(t) THEN None ELSE mx_writer[h]
    BY <2>1 DEF TypeOK
  <2> QED
    BY <1>1, <1>2, <2>1, <2>2, TsHashAssumption
<1>9. ASSUME h # Cur(t), Count(t) \/ Uncount(t) \/ FirstReader(t) \/ LastReader(t)
      PROVE  Owned(t)' = Owned(t) /\ mx_writer'[h] = mx_writer[h] /\ (ReadersOwn(h)' <=> ReadersOwn(h))
  <2>1. Owned(t)' = Owned(t) /\ mx_writer'[h] = mx_writer[h]
    BY <1>9, CountStep DEF Count, Uncount, FirstReader, LastReader, TypeOK
  <2>2. h \in CountedIn(t)' <=> h \in CountedIn(t)
    BY <1>9, CountStep
  <2>3. Counted(h)' = Counted(h)
    BY <2>2, CountedStep DEF Counted
  <2>4. h \notin Opening(t) /\ h \notin Closing(t) /\ h \notin Opening(t)' /\ h \notin Closing(t)'
    BY <1>9, CountStep
  <2> QED
    BY <1>2, <2>1, <2>3, <2>4 DEF ReadersOwn
<1>10. ASSUME h = Cur(t), Count(t) \/ Uncount(t) \/ FirstReader(t) \/ LastReader(t)
       PROVE  \A u \in Thread \ {t} : /\ h \notin Opening(u) /\ h \notin Closing(u)
                                      /\ h \notin Opening(u)' /\ h \notin Closing(u)'
  <2>1. Latched(t) = {h}
    BY <1>10, CountStep
  <2> QED
    BY <1>2, <2>1, LatchAlone
<1>11. CASE Count(t)
  <2>1. ASSUME h = Cur(t) PROVE ReadersOwn(h)' <=> ReadersOwn(h)
    <3>1. /\ Opening(t) = {} /\ Closing(t) = {} /\ Closing(t)' = {}
          /\ Opening(t)' = IF reader'[h] = 1 THEN {h} ELSE {}
          /\ h \in CountedIn(t)' /\ h \notin CountedIn(t)
      BY <1>11, <2>1, CountStep DEF Count, Uncount, FirstReader, LastReader
    <3>2. Counted(h)' = Counted(h) \cup {t} /\ t \notin Counted(h)
      BY <3>1, CountedStep DEF Counted
    <3>3. reader'[h] = Cardinality(Counted(h)')
      BY DEF Counts
    <3>4. reader'[h] = 1 <=> Counted(h) = {}
      <4>1. Counted(h) \in SUBSET Thread
        BY DEF Counted
      <4>2. Cardinality(Counted(h) \cup {t}) = Cardinality(Counted(h)) + 1
        BY <3>2, <4>1, CountFacts
      <4>3. Cardinality(Counted(h)) \in Nat /\ (Cardinality(Counted(h)) = 0 <=> Counted(h) = {})
        BY <4>1, TsHashAssumption, FS_Subset, FS_CardinalityType, FS_EmptySet
      <4>4. reader'[h] = Cardinality(Counted(h)) + 1
        BY <3>2, <3>3, <4>2
      <4> QED
        BY <4>3, <4>4
    <3> QED
      BY <1>10, <1>11, <2>1, <3>1, <3>2, <3>4 DEF ReadersOwn
  <2> QED
    BY <1>3, <1>9, <1>11, <2>1, CountStep DEF Count
<1>12. CASE Uncount(t)
  <2>1. ASSUME h = Cur(t) PROVE ReadersOwn(h)' <=> ReadersOwn(h)
    <3>1. /\ Opening(t) = {} /\ Closing(t) = {} /\ Opening(t)' = {}
          /\ Closing(t)' = IF reader'[h] = 0 THEN {h} ELSE {}
          /\ h \notin CountedIn(t)' /\ h \in CountedIn(t)
      BY <1>12, <2>1, CountStep DEF Count, Uncount, FirstReader, LastReader
    <3>2. Counted(h)' = Counted(h) \ {t} /\ t \in Counted(h)
      BY <3>1, CountedStep DEF Counted
    <3>3. reader'[h] = Cardinality(Counted(h)')
      BY DEF Counts
    <3>4. IsFiniteSet(Counted(h)')
      BY TsHashAssumption, FS_Subset DEF Counted
    <3>5. reader'[h] = 0 <=> Counted(h)' = {}
      BY <3>3, <3>4, FS_EmptySet
    <3> QED
      BY <1>10, <1>12, <2>1, <3>1, <3>2, <3>5 DEF ReadersOwn
  <2> QED
    BY <1>3, <1>9, <1>12, <2>1, CountStep DEF Uncount
<1>13. CASE FirstReader(t)
  <2>1. /\ mx_writer[Cur(t)] = None /\ mx_writer' = [mx_writer EXCEPT ![Cur(t)] = Readers]
        /\ Owned(t)' = Owned(t) /\ Opening(t) = {Cur(t)} /\ Opening(t)' = {}
        /\ CountedIn(t)' = CountedIn(t)
    BY <1>13, CountStep DEF FirstReader, Count
  <2>2. ASSUME h = Cur(t)
        PROVE  /\ \A u \in Thread : mx_writer'[h] = u <=> h \in Owned(u)'
               /\ mx_writer'[h] = Readers <=> ReadersOwn(h)'
    <3>1. Counted(h)' = {t}
      <4>1. Counted(h) = {t}
        BY <2>1, <2>2 DEF Counts
      <4> QED
        BY <2>1, <4>1, CountedStep DEF Counted
    <3>2. ReadersOwn(h)'
      BY <1>10, <1>13, <2>1, <2>2, <3>1 DEF ReadersOwn
    <3>3. mx_writer'[h] = Readers
      BY <2>1, <2>2 DEF TypeOK
    <3> QED
      BY <1>1, <1>2, <2>1, <2>2, <3>2, <3>3, TsHashAssumption
  <2> QED
    BY <1>3, <1>9, <1>13, <2>2
<1>14. CASE LastReader(t)
  <2>1. /\ mx_writer' = [mx_writer EXCEPT ![Cur(t)] = None]
        /\ Owned(t)' = Owned(t) /\ Closing(t) = {Cur(t)} /\ Closing(t)' = {}
        /\ CountedIn(t)' = CountedIn(t)
    BY <1>14, CountStep DEF LastReader, Uncount
  <2>2. ASSUME h = Cur(t)
        PROVE  /\ \A u \in Thread : mx_writer'[h] = u <=> h \in Owned(u)'
               /\ mx_writer'[h] = Readers <=> ReadersOwn(h)'
    <3>1. Counted(h)' = {}
      <4>1. Counted(h) = {}
        BY <2>1, <2>2 DEF Counts
      <4> QED
        BY <2>1, <4>1, CountedStep DEF Counted
    <3>2. ~ ReadersOwn(h)'
      BY <1>10, <1>14, <2>1, <2>2, <3>1 DEF ReadersOwn
    <3>3. ReadersOwn(h)
      BY <2>1, <2>2 DEF ReadersOwn
    <3>4. mx_writer'[h] = None
      BY <2>1, <2>2 DEF TypeOK
    <3> QED
      BY <1>1, <1>2, <2>1, <3>2, <3>3, <3>4, TsHashAssumption
  <2> QED
    BY <1>3, <1>9, <1>14, <2>2
<1> QED
  BY <1>5, <1>6, <1>7, <1>8, <1>11, <1>12, <1>13, <1>14, LockStep

\* Nobody has a lock at first.
LEMMA InvariantInit == Init => IInv
<1> SUFFICES ASSUME Init PROVE IInv
  OBVIOUS
<1>1. TypeOK /\ CallShape
  BY ShapeInit
<1>2. \A t \in Thread : /\ Latched(t) = {} /\ CountedIn(t) = {} /\ Owned(t) = {}
                        /\ Opening(t) = {} /\ Closing(t) = {}
  BY DEF Init, Latched, CountedIn, Owned, Opening, Closing, Counting
<1>3. \A h \in Table : Counted(h) = {}
  BY <1>2 DEF Counted
<1>4. Latches /\ Owners
  BY <1>2, <1>3, TsHashAssumption DEF Init, Latches, Owners
<1>5. Counts
  BY <1>2, <1>3, FS_EmptySet DEF Init, Counts
<1> QED
  BY <1>1, <1>4, <1>5 DEF IInv

\* The locks do what they are for as long as nobody clears a count of readers that counts any.
LEMMA InvariantStep ==
  ASSUME CleansApart, IInv, [Next]_vars
  PROVE  IInv'
<1>1. TypeOK' /\ CallShape'
  BY TypeStep, ShapeStep DEF IInv
<1>2. CASE UNCHANGED vars
  <2>1. \A t \in Thread : /\ Latched(t)' = Latched(t) /\ CountedIn(t)' = CountedIn(t)
                          /\ Owned(t)' = Owned(t)
                          /\ Opening(t)' = Opening(t) /\ Closing(t)' = Closing(t)
    BY <1>2 DEF vars, locks, Latched, CountedIn, Owned, Opening, Closing, Cur
  <2>2. \A h \in Table : Counted(h)' = Counted(h)
    BY <2>1 DEF Counted
  <2>3. Latches' /\ Counts' /\ Owners'
    BY <1>2, <2>1, <2>2 DEF IInv, Latches, Counts, Owners, vars, locks
  <2> QED
    BY <1>1, <2>3 DEF IInv
<1>3. CASE Next
  <2>1. PICK t \in Thread : Invoke(t) \/ Step(t)
    BY <1>3 DEF Next
  <2>2. Latches' /\ Counts'
    BY <1>1, <2>1, LatchesStep, CountsStep DEF IInv
  <2>3. Owners'
    BY <1>1, <2>1, <2>2, OwnersStep DEF IInv
  <2> QED
    BY <1>1, <2>2, <2>3 DEF IInv
<1> QED
  BY <1>2, <1>3

LEMMA Invariant == CleansApart => (Spec => []IInv)
<1> SUFFICES ASSUME CleansApart PROVE Spec => []IInv
  OBVIOUS
<1>1. IInv /\ [Next]_vars => IInv'
  BY InvariantStep
<1> QED
  BY InvariantInit, <1>1, PTL DEF Spec

\* Who owns mx_writer says who is in the table.
LEMMA InvariantExcludes == IInv => Exclusion
<1> SUFFICES ASSUME IInv, NEW t \in Thread, NEW u \in Thread, NEW h \in Table,
                    Writing(t, h), u # t
             PROVE  ~ Reading(u, h) /\ ~ Writing(u, h)
  BY DEF Exclusion
<1>1. /\ \A v \in Thread : h \in Owned(v) <=> mx_writer[h] = v
      /\ mx_writer[h] = Readers <=> ReadersOwn(h)
  BY DEF IInv, Owners, ReadersOwn
<1>2. \A v \in Thread : Writing(v, h) => h \in Owned(v)
  BY CallSets DEF IInv, CallShape, Writing, Owned, Writes, Outer, Inner
<1>3. mx_writer[h] = t
  BY <1>1, <1>2
<1>4. ASSUME Reading(u, h) PROVE FALSE
  <2>1. call[u] \in Call /\ h \in holds[u] \cap Reads(call[u])
    BY <1>4, TsHashAssumption DEF IInv, CallShape, Reading, Reads, Outer, Inner
  <2>2. u \in Counted(h) /\ pc[u] = "body"
    BY <1>4, <2>1 DEF Reading, Counted, CountedIn
  <2>3. \A v \in Thread : h \in Opening(v) => Counted(h) = {v} /\ v # u
    BY <2>2 DEF IInv, Counts, Opening
  <2>4. ReadersOwn(h)
    BY <2>2, <2>3 DEF ReadersOwn
  <2> QED
    BY <1>1, <1>3, <2>4, TsHashAssumption
<1> QED
  BY <1>1, <1>2, <1>3, <1>4

\* A writer is alone in its table, for any number of threads, as long as no
\* thread calls zend_ts_hash_clean on a table that others read (begin_read, begin_write).
THEOREM WritersAreAlone == CleansApart => (Spec => []Exclusion)
BY InvariantExcludes, Invariant, PTL

\* No call leaves a lock behind: with no thread in a call every mutex is free
\* and every count zero (end_read, end_write).
THEOREM NoLockIsLeft == CleansApart => (Spec => []LocksAreReturned)
<1>1. IInv => LocksAreReturned
  <2> SUFFICES ASSUME IInv, \A t \in Thread : pc[t] = "idle", NEW h \in Table
               PROVE  reader[h] = 0 /\ mx_reader[h] = None /\ mx_writer[h] = None
    BY DEF LocksAreReturned
  <2>1. \A t \in Thread : /\ Latched(t) = {} /\ CountedIn(t) = {} /\ Owned(t) = {}
                          /\ Opening(t) = {} /\ Closing(t) = {}
    BY DEF Latched, CountedIn, Owned, Opening, Closing, Counting
  <2>2. Counted(h) = {}
    BY <2>1 DEF Counted
  <2>3. reader[h] = 0
    BY <2>2, FS_EmptySet DEF IInv, Counts
  <2>4. mx_reader[h] = None
    BY <2>1 DEF IInv, Latches, TypeOK
  <2>5. mx_writer[h] = None
    BY <2>1, <2>2 DEF IInv, Owners, TypeOK
  <2> QED
    BY <2>3, <2>4, <2>5
<1> QED
  BY <1>1, Invariant, PTL
=============================================================================
