--------------------------- MODULE TsHashAtomicProof ---------------------------
(***************************************************************************)
(* Calls on the tables of Zend/zend_ts_hash.c are atomic, for any number of *)
(* threads, tables and calls: TsHash implements TsHashAtomic. A call takes  *)
(* effect when it is through with its last key.                             *)
(***************************************************************************)
EXTENDS TsHashProof

\* A key the call of t is through with.
Through(t) == call[t].keys \ left[t]

\* What a call has done so far is what it would do at once, on the tables as
\* the other threads are to see them until it is done.
Work ==
  \A t \in Thread :
    LET c == call[t] IN
    /\ pc[t] \in Acquiring \cup {"idle", "reset"} => seen[t] = Atomic!Blank
    /\ pc[t] \in Acquiring \cup {"reset"} => left[t] = c.keys
    /\ pc[t] = "body" =>
         /\ left[t] # {} /\ left[t] \subseteq c.keys
         /\ \A k \in Key \ Through(t) : seen[t][k] = <<NoVal, NoVal>>
         /\ \A k \in Through(t) : /\ seen[t][k] = Atomic!Found(c, HashNow, k)
                                  /\ hash[c.ht][k] = Atomic!Stored(c, HashNow, k)

-----------------------------------------------------------------------------
(* The tables as they are to be seen.                                       *)

\* A call that is not a write changes nothing; a call has a lock on each table it names.
LEMMA Touched ==
  ASSUME NEW c \in Call
  PROVE  /\ {c.ht, c.src} \subseteq Reads(c) \cup Writes(c)
         /\ Writes(c) = IF c.op \in {"find", "compare"} THEN {} ELSE {c.ht}
         /\ c.op \in {"find", "compare"} =>
              \A f, k : Atomic!Stored(c, f, k) = f[c.ht][k]
<1>1. c.op \in {"copy", "merge", "compare"} <=> c.src # c.ht
  BY TsHashAssumption
<1>2. c.op \in {"find", "compare"} => \A f, k : Atomic!Stored(c, f, k) = f[c.ht][k]
  BY DEF Atomic!Stored
<1> QED
  BY <1>1, <1>2 DEF Reads, Writes

\* The one member of a set is the one that is chosen.
LEMMA OnlyOne == \A u : Only({u}) = u
BY DEF Only

\* Nobody else is half done with a table that the call of t names.
LEMMA Alone ==
  ASSUME TypeOK, CallShape, Exclusion, NEW t \in Thread, pc[t] = "body",
         NEW h \in {call[t].ht, call[t].src}, NEW k, NEW u \in Thread, u # t
  PROVE  u \notin HalfDone(h, k)
<1> SUFFICES ASSUME u \in HalfDone(h, k) PROVE FALSE
  OBVIOUS
<1>1. call[t] \in Call /\ call[u] \in Call /\ h \in Table
  BY CallSets DEF CallShape, HalfDone
<1>2. Writing(u, h)
  BY <1>1, Touched DEF Writing, HalfDone
<1>3. Reading(t, h) \/ Writing(t, h)
  BY <1>1, Touched DEF Reading, Writing
<1> QED
  BY <1>1, <1>2, <1>3 DEF Exclusion

\* At most one thread is half done with a key of a table.
LEMMA OneHalfDone ==
  ASSUME TypeOK, CallShape, Exclusion, NEW h, NEW k, NEW t \in HalfDone(h, k)
  PROVE  HalfDone(h, k) = {t}
<1>1. t \in Thread /\ pc[t] = "body" /\ h = call[t].ht
  BY DEF HalfDone
<1>2. \A u \in HalfDone(h, k) : u \in Thread
  BY DEF HalfDone
<1> QED
  BY <1>1, <1>2, Alone

\* What a key of a table counts with.
LEMMA Now ==
  ASSUME TypeOK, CallShape, Exclusion, NEW h \in Table, NEW k \in Key
  PROVE  /\ HalfDone(h, k) = {} => HashNow[h][k] = hash[h][k]
         /\ \A t \in HalfDone(h, k) : HashNow[h][k] = seen[t][k][1]
BY OneHalfDone, OnlyOne DEF HashNow

\* Where t is at work, only what it is through with is other than it seems.
LEMMA NowMine ==
  ASSUME TypeOK, CallShape, Exclusion, NEW t \in Thread, pc[t] = "body",
         NEW h \in {call[t].ht, call[t].src}, NEW k \in Key,
         h # call[t].ht \/ k \notin Through(t) \/ call[t].op \in {"find", "compare"}
  PROVE  HashNow[h][k] = hash[h][k] /\ HalfDone(h, k) = {}
<1>1. t \notin HalfDone(h, k)
  BY DEF HalfDone, Through
<1>2. HalfDone(h, k) = {}
  BY <1>1, Alone DEF HalfDone
<1>3. h \in Table
  BY CallSets DEF CallShape
<1> QED
  BY <1>2, <1>3, Now

-----------------------------------------------------------------------------
(* Steps that do none of the work.                                          *)

\* What a step of t leaves to the others.
LEMMA Elsewhere ==
  ASSUME TypeOK, NEW t \in Thread, Invoke(t) \/ Step(t), NEW u \in Thread, u # t
  PROVE  pc'[u] = pc[u] /\ call'[u] = call[u] /\ left'[u] = left[u] /\ seen'[u] = seen[u]
BY DEF Step, Invoke, ResetReader, LockWriter, LockReader, Count, FirstReader, BeginRead,
    Body, UnlockWriter, Uncount, LastReader, EndRead, Acquired, Released, Goto, TypeOK

\* A thread comes to its work with all of it left.
Idle(t) == seen[t] = Atomic!Blank
Ready(t) == Idle(t) /\ left[t] = call[t].keys

\* Where t is in its call after a step that is not Body.
LEMMA OtherStep ==
  ASSUME TypeOK, CallShape, Work, NEW t \in Thread, Invoke(t) \/ Step(t), ~ Body(t)
  PROVE  /\ hash' = hash /\ pc[t] # "body"
         /\ pc'[t] \in Acquiring \cup {"reset", "body"} => Ready(t)' /\ call'[t] \in Call
         /\ pc'[t] = "idle" => Idle(t)'
         /\ \/ pc[t] = "idle" /\ pc'[t] \in Acquiring \cup {"reset"}
               /\ \E c \in Call : call' = [call EXCEPT ![t] = c]
            \/ pc[t] \in Acquiring \cup {"reset"} /\ pc'[t] \in Acquiring \cup {"body"}
               /\ call' = call /\ seen' = seen
            \/ pc[t] \in Releasing /\ pc'[t] \in Releasing /\ call' = call /\ seen' = seen
            \/ pc[t] \in Releasing /\ pc'[t] = "idle" /\ call' = [call EXCEPT ![t] = None]
<1> USE DEF Goto, Acquiring, Releasing, Idle, Ready
<1>1. /\ pc[t] \in Acquiring \cup {"idle", "reset"} => Idle(t)
      /\ pc[t] \in Acquiring \cup {"reset"} => Ready(t)
      /\ pc[t] # "idle" => call[t] \in Call
  BY DEF Work, CallShape
<1>2. CASE Invoke(t)
  <2>1. PICK c \in Call : /\ call' = [call EXCEPT ![t] = c]
                          /\ left' = [left EXCEPT ![t] = c.keys]
                          /\ Goto(t, IF c.op = "clean" THEN "reset" ELSE "acquire")
    BY <1>2 DEF Invoke
  <2>2. call'[t] = c /\ left'[t] = c.keys /\ seen' = seen /\ pc[t] = "idle" /\ hash' = hash
    BY <1>2, <2>1 DEF Invoke, TypeOK
  <2>3. pc'[t] \in {"reset", "acquire"}
    BY <2>1 DEF TypeOK
  <2> QED
    BY <1>1, <2>1, <2>2, <2>3
<1>3. CASE ResetReader(t)
  BY <1>1, <1>3 DEF ResetReader, TypeOK
<1>4. CASE LockWriter(t) \/ BeginRead(t)
  BY <1>1, <1>4 DEF LockWriter, BeginRead, Acquired, TypeOK
<1>5. CASE LockReader(t) \/ Count(t) \/ FirstReader(t)
  BY <1>1, <1>5 DEF LockReader, Count, FirstReader, TypeOK
<1>6. CASE UnlockWriter(t) \/ EndRead(t)
  BY <1>1, <1>6 DEF UnlockWriter, EndRead, Released, TypeOK
<1>7. CASE Uncount(t) \/ LastReader(t)
  BY <1>1, <1>7 DEF Uncount, LastReader, TypeOK
<1> QED
  BY <1>2, <1>3, <1>4, <1>5, <1>6, <1>7 DEF Step

\* No other step changes what the tables count with.
LEMMA OtherKeeps ==
  ASSUME TypeOK, CallShape, Exclusion, Work,
         NEW t \in Thread, Invoke(t) \/ Step(t), ~ Body(t)
  PROVE  HashNow' = HashNow /\ hash' = hash
<1>1. pc'[t] = "body" => left'[t] = call'[t].keys
  BY OtherStep DEF Ready
<1>2. pc[t] # "body" /\ hash' = hash
  BY OtherStep
<1>3. ASSUME NEW h \in Table, NEW k \in Key
      PROVE  HalfDone(h, k)' = HalfDone(h, k) /\ t \notin HalfDone(h, k)
  <2>1. t \notin HalfDone(h, k) /\ t \notin HalfDone(h, k)'
    BY <1>1, <1>2 DEF HalfDone
  <2>2. \A u \in Thread : u # t => (u \in HalfDone(h, k)' <=> u \in HalfDone(h, k))
    BY Elsewhere DEF HalfDone
  <2> QED
    BY <2>1, <2>2 DEF HalfDone
<1>4. ASSUME NEW h \in Table, NEW k \in Key
      PROVE  HashNow[h][k]' = HashNow[h][k]
  <2>1. CASE HalfDone(h, k) = {}
    BY <1>2, <1>3, <2>1 DEF HashNow
  <2>2. ASSUME NEW u \in HalfDone(h, k) PROVE HashNow[h][k]' = HashNow[h][k]
    <3>1. HalfDone(h, k) = {u} /\ HalfDone(h, k)' = {u} /\ seen'[u] = seen[u]
      BY <1>3, <2>2, OneHalfDone, Elsewhere DEF HalfDone
    <3> QED
      BY <3>1, OnlyOne DEF HashNow
  <2> QED
    BY <2>1, <2>2
<1> QED
  BY <1>2, <1>4 DEF HashNow

LEMMA WorkOther ==
  ASSUME TypeOK, CallShape, Exclusion, Work,
         NEW t \in Thread, Invoke(t) \/ Step(t), ~ Body(t)
  PROVE  Work'
<1> DEFINE Done(u) ==
      LET c == call[u] IN
      /\ pc[u] \in Acquiring \cup {"idle", "reset"} => seen[u] = Atomic!Blank
      /\ pc[u] \in Acquiring \cup {"reset"} => left[u] = c.keys
      /\ pc[u] = "body" =>
           /\ left[u] # {} /\ left[u] \subseteq c.keys
           /\ \A k \in Key \ Through(u) : seen[u][k] = <<NoVal, NoVal>>
           /\ \A k \in Through(u) : /\ seen[u][k] = Atomic!Found(c, HashNow, k)
                                    /\ hash[c.ht][k] = Atomic!Stored(c, HashNow, k)
<1>1. ASSUME NEW u \in Thread, u # t PROVE Done(u)'
  <2>1. pc'[u] = pc[u] /\ call'[u] = call[u] /\ left'[u] = left[u] /\ seen'[u] = seen[u]
    BY <1>1, Elsewhere
  <2>2. Done(u) /\ HashNow' = HashNow /\ hash' = hash
    BY OtherKeeps DEF Work
  <2> QED
    BY <2>1, <2>2 DEF Through, Atomic!Found, Atomic!Stored, Atomic!Blank
<1>2. Done(t)'
  <2>1. /\ pc'[t] \in Acquiring \cup {"reset", "body"} => Ready(t)' /\ call'[t] \in Call
        /\ pc'[t] = "idle" => Idle(t)'
    BY OtherStep
  <2>2. pc'[t] = "body" => call'[t].keys # {}
    <3>1. \A c \in Call : c.keys # {}
      BY TsHashAssumption DEF Atomic!CallRecord
    <3> QED
      BY <2>1, <3>1
  <2>3. pc'[t] = "body" => Through(t)' = {}
    BY <2>1 DEF Ready, Through
  <2> QED
    BY <2>1, <2>2, <2>3 DEF Ready, Idle, Atomic!Blank, Acquiring
<1> QED
  BY <1>1, <1>2 DEF Work

-----------------------------------------------------------------------------
(* Steps that do the work.                                                  *)

\* What Body(t) does with key k.
BodyOf(t, k) ==
  /\ pc[t] = "body" /\ k \in left[t]
  /\ seen' = [seen EXCEPT ![t][k] = Atomic!Found(call[t], hash, k)]
  /\ hash' = [hash EXCEPT ![call[t].ht][k] = Atomic!Stored(call[t], hash, k)]
  /\ left' = [left EXCEPT ![t] = @ \ {k}]
  /\ Goto(t, IF left[t] = {k} THEN "release" ELSE "body")
  /\ UNCHANGED <<call, holds, locks, calls>>

\* The assumptions of the lemmas on Body.
AtWork(t, k) ==
  /\ TypeOK /\ CallShape /\ Exclusion /\ Work
  /\ t \in Thread /\ k \in Key /\ k \notin Through(t) /\ BodyOf(t, k)

LEMMA BodyParts ==
  ASSUME TypeOK, CallShape, Exclusion, Work, NEW t \in Thread, Body(t)
  PROVE  \E k \in Key : AtWork(t, k)
<1>1. PICK k \in left[t] : BodyOf(t, k)
  BY DEF Body, BodyOf
<1>2. k \in Key /\ k \notin Through(t)
  BY DEF TypeOK, Through
<1> QED
  BY <1>1, <1>2 DEF AtWork

\* The call, its key and what it stores there.
LEMMA BodyFacts ==
  ASSUME NEW t, NEW k, AtWork(t, k)
  PROVE  LET c == call[t] IN
         /\ c \in Call /\ c.ht \in Table /\ c.src \in Table /\ call' = call
         /\ k \in c.keys /\ c.keys \subseteq Key
         /\ Through(t)' = Through(t) \cup {k}
         /\ Through(t)' = c.keys <=> left[t] = {k}
         /\ pc'[t] = IF left[t] = {k} THEN "release" ELSE "body"
         /\ Atomic!Found(c, HashNow, k) = Atomic!Found(c, hash, k)
         /\ Atomic!Stored(c, HashNow, k) = Atomic!Stored(c, hash, k)
         /\ \A j \in Key :
              seen'[t][j] = IF j = k THEN Atomic!Found(c, hash, k) ELSE seen[t][j]
         /\ \A h \in Table, j \in Key :
              hash'[h][j] = IF h = c.ht /\ j = k THEN Atomic!Stored(c, hash, k) ELSE hash[h][j]
<1> DEFINE c == call[t]
<1> USE DEF AtWork
<1>1. c \in Call /\ c.ht \in Table /\ c.src \in Table /\ c.keys \subseteq Key
  BY CallSets DEF CallShape, BodyOf
<1>2. left[t] \subseteq c.keys /\ k \in left[t] /\ left[t] \in SUBSET Key
  BY DEF Work, BodyOf, TypeOK
<1>3. left'[t] = left[t] \ {k} /\ call' = call /\ pc'[t] = IF left[t] = {k} THEN "release" ELSE "body"
  BY DEF BodyOf, Goto, TypeOK
<1>4. Through(t)' = Through(t) \cup {k} /\ (Through(t)' = c.keys <=> left[t] = {k})
  BY <1>2, <1>3 DEF Through
<1>5. HashNow[c.ht][k] = hash[c.ht][k] /\ HashNow[c.src][k] = hash[c.src][k]
  BY NowMine DEF BodyOf
<1>6. /\ Atomic!Found(c, HashNow, k) = Atomic!Found(c, hash, k)
      /\ Atomic!Stored(c, HashNow, k) = Atomic!Stored(c, hash, k)
  BY <1>5 DEF Atomic!Found, Atomic!Stored
<1>7. /\ \A j \in Key :
           seen'[t][j] = IF j = k THEN Atomic!Found(c, hash, k) ELSE seen[t][j]
      /\ \A h \in Table, j \in Key :
           hash'[h][j] = IF h = c.ht /\ j = k THEN Atomic!Stored(c, hash, k) ELSE hash[h][j]
  BY <1>1 DEF BodyOf, TypeOK
<1> QED
  BY <1>1, <1>2, <1>3, <1>4, <1>6, <1>7

\* A half-done key of another thread stays as it is.
LEMMA BodyElsewhere ==
  ASSUME NEW t, NEW k, AtWork(t, k), NEW h \in Table, NEW j \in Key
  PROVE  /\ \A u \in Thread : u # t => (u \in HalfDone(h, j)' <=> u \in HalfDone(h, j))
         /\ h # call[t].ht => HalfDone(h, j)' = HalfDone(h, j) /\ HashNow[h][j]' = HashNow[h][j]
<1> USE DEF AtWork
<1>1. Invoke(t) \/ Step(t)
  BY DEF BodyOf, Body, Step
<1>2. \A u \in Thread : u # t => (u \in HalfDone(h, j)' <=> u \in HalfDone(h, j))
  BY <1>1, Elsewhere DEF HalfDone
<1>3. ASSUME h # call[t].ht
      PROVE  HalfDone(h, j)' = HalfDone(h, j) /\ HashNow[h][j]' = HashNow[h][j]
  <2>1. t \notin HalfDone(h, j) /\ t \notin HalfDone(h, j)' /\ hash'[h][j] = hash[h][j]
    BY <1>3, BodyFacts DEF HalfDone
  <2>2. HalfDone(h, j)' = HalfDone(h, j)
    BY <1>2, <2>1 DEF HalfDone
  <2>3. CASE HalfDone(h, j) = {}
    BY <2>1, <2>2, <2>3 DEF HashNow
  <2>4. ASSUME NEW u \in HalfDone(h, j) PROVE HashNow[h][j]' = HashNow[h][j]
    <3>1. u \in Thread /\ u # t
      BY <2>1 DEF HalfDone
    <3>2. HalfDone(h, j) = {u} /\ HalfDone(h, j)' = {u} /\ seen'[u] = seen[u]
      BY <1>1, <2>2, <3>1, OneHalfDone, Elsewhere
    <3> QED
      BY <3>2, OnlyOne DEF HashNow
  <2> QED
    BY <2>2, <2>3, <2>4
<1> QED
  BY <1>2, <1>3

\* While the call has keys left the tables seem as they were.
LEMMA BodyKeeps ==
  ASSUME NEW t, NEW k, AtWork(t, k), left[t] # {k}
  PROVE  HashNow' = HashNow
<1> USE DEF AtWork
<1> DEFINE c == call[t]
<1> SUFFICES ASSUME NEW h \in Table, NEW j \in Key
             PROVE  HashNow[h][j]' = HashNow[h][j]
  BY DEF HashNow
<1>1. CASE h # c.ht
  BY <1>1, BodyElsewhere
<1>2. CASE h = c.ht
  <2>1. \A u \in Thread : u # t => u \notin HalfDone(h, j) /\ u \notin HalfDone(h, j)'
    <3>1. \A u \in Thread : u # t => u \notin HalfDone(h, j)
      BY <1>2, Alone DEF BodyOf
    <3> QED
      BY <3>1, BodyElsewhere
  <2>2. /\ t \in HalfDone(h, j) <=> c.op \notin {"find", "compare"} /\ j \in Through(t)
        /\ t \in HalfDone(h, j)' <=> c.op \notin {"find", "compare"} /\ j \in Through(t) \cup {k}
    BY <1>2, BodyFacts DEF HalfDone, BodyOf, Through
  <2>3. CASE c.op \in {"find", "compare"}
    <3>1. HalfDone(h, j) = {} /\ HalfDone(h, j)' = {}
      BY <2>1, <2>2, <2>3 DEF HalfDone
    <3>2. hash'[h][j] = hash[h][j]
      BY <2>3, BodyFacts, Touched
    <3> QED
      BY <3>1, <3>2 DEF HashNow
  <2>4. CASE c.op \notin {"find", "compare"} /\ j = k
    <3>1. HalfDone(h, j) = {} /\ HalfDone(h, j)' = {t}
      BY <2>1, <2>2, <2>4 DEF HalfDone
    <3>2. seen'[t][j] = Atomic!Found(c, hash, k)
      BY <2>4, BodyFacts
    <3>3. seen'[t][j][1] = hash[h][j]
      BY <1>2, <2>4, <3>2 DEF Atomic!Found
    <3> QED
      BY <3>1, <3>3, OnlyOne DEF HashNow
  <2>5. CASE c.op \notin {"find", "compare"} /\ j # k
    <3>1. HalfDone(h, j)' = HalfDone(h, j) /\ HalfDone(h, j) \in {{}, {t}}
      BY <2>1, <2>2, <2>5 DEF HalfDone
    <3>2. seen'[t][j] = seen[t][j] /\ hash'[h][j] = hash[h][j]
      BY <2>5, BodyFacts
    <3> QED
      BY <3>1, <3>2, OnlyOne DEF HashNow
  <2> QED
    BY <2>3, <2>4, <2>5
<1> QED
  BY <1>1, <1>2

\* The last key makes the whole call count.
LEMMA BodyEnds ==
  ASSUME NEW t, NEW k, AtWork(t, k), left[t] = {k}
  PROVE  LET c == call[t] IN
         HashNow' = [HashNow EXCEPT ![c.ht] =
           [j \in Key |-> IF j \in c.keys THEN Atomic!Stored(c, HashNow, j) ELSE HashNow[c.ht][j]]]
<1> USE DEF AtWork
<1> DEFINE c == call[t]
           Whole == [j \in Key |-> IF j \in c.keys THEN Atomic!Stored(c, HashNow, j)
                                                  ELSE HashNow[c.ht][j]]
<1>1. ASSUME NEW h \in Table, NEW j \in Key, h # c.ht PROVE HashNow[h][j]' = HashNow[h][j]
  BY <1>1, BodyElsewhere
<1>2. ASSUME NEW h \in Table, NEW j \in Key, h = c.ht PROVE HashNow[h][j]' = Whole[j]
  <2>1. \A u \in Thread : u # t => u \notin HalfDone(h, j)'
    <3>1. \A u \in Thread : u # t => u \notin HalfDone(h, j)
      BY <1>2, Alone DEF BodyOf
    <3> QED
      BY <3>1, BodyElsewhere
  <2>2. t \notin HalfDone(h, j)'
    BY BodyFacts DEF HalfDone
  <2>3. HashNow[h][j]' = hash'[h][j]
    <3>1. HalfDone(h, j)' = {}
      BY <2>1, <2>2 DEF HalfDone
    <3> QED
      BY <3>1 DEF HashNow
  <2>4. CASE j = k
    BY <1>2, <2>3, <2>4, BodyFacts
  <2>5. CASE j # k
    <3>1. hash'[h][j] = hash[h][j]
      BY <2>5, BodyFacts
    <3>2. j \in c.keys <=> j \in Through(t)
      BY <2>5 DEF Through
    <3>3. j \in Through(t) => hash[h][j] = Atomic!Stored(c, HashNow, j)
      BY <1>2 DEF Work, BodyOf
    <3>4. j \notin Through(t) => hash[h][j] = HashNow[h][j]
      BY <1>2, NowMine DEF BodyOf
    <3> QED
      BY <1>2, <2>3, <3>1, <3>2, <3>3, <3>4
  <2> QED
    BY <2>4, <2>5
<1>3. ASSUME NEW h \in Table
      PROVE  HashNow[h]' = IF h = c.ht THEN Whole ELSE HashNow[h]
  <2>1. /\ HashNow[h]' = [j \in Key |-> HashNow[h][j]']
        /\ HashNow[h] = [j \in Key |-> HashNow[h][j]]
    BY DEF HashNow
  <2>2. CASE h = c.ht
    <3>1. [j \in Key |-> HashNow[h][j]'] = [j \in Key |-> Whole[j]]
      BY <1>2, <2>2
    <3> QED
      BY <2>1, <2>2, <3>1
  <2>3. CASE h # c.ht
    <3>1. [j \in Key |-> HashNow[h][j]'] = [j \in Key |-> HashNow[h][j]]
      BY <1>1, <2>3
    <3> QED
      BY <2>1, <2>3, <3>1
  <2> QED
    BY <2>2, <2>3
<1>4. c.ht \in Table
  BY BodyFacts
<1>5. HashNow = [h \in Table |-> HashNow[h]] /\ HashNow' = [h \in Table |-> HashNow[h]']
  BY DEF HashNow
<1> QED
  BY <1>3, <1>4, <1>5

LEMMA WorkBody ==
  ASSUME NEW t, NEW k, AtWork(t, k)
  PROVE  Work'
<1> USE DEF AtWork
<1> DEFINE Done(u) ==
      LET c == call[u] IN
      /\ pc[u] \in Acquiring \cup {"idle", "reset"} => seen[u] = Atomic!Blank
      /\ pc[u] \in Acquiring \cup {"reset"} => left[u] = c.keys
      /\ pc[u] = "body" =>
           /\ left[u] # {} /\ left[u] \subseteq c.keys
           /\ \A j \in Key \ Through(u) : seen[u][j] = <<NoVal, NoVal>>
           /\ \A j \in Through(u) : /\ seen[u][j] = Atomic!Found(c, HashNow, j)
                                    /\ hash[c.ht][j] = Atomic!Stored(c, HashNow, j)
<1>1. ASSUME NEW u \in Thread, u # t PROVE Done(u)'
  <2>1. Invoke(t) \/ Step(t)
    BY DEF BodyOf, Body, Step
  <2>2. pc'[u] = pc[u] /\ call'[u] = call[u] /\ left'[u] = left[u] /\ seen'[u] = seen[u]
    BY <1>1, <2>1, Elsewhere
  <2>3. Done(u)
    BY DEF Work
  <2>4. CASE pc[u] # "body"
    BY <2>2, <2>3, <2>4 DEF Atomic!Blank
  <2>5. CASE pc[u] = "body"
    <3>1. /\ call[u] \in Call /\ call[u].ht \in Table /\ call[u].src \in Table
          /\ Through(u) \subseteq Key
      BY <2>5, CallSets DEF CallShape, Through
    <3>2. ASSUME NEW h \in {call[u].ht, call[u].src}, NEW j \in Key
          PROVE  HashNow[h][j]' = HashNow[h][j] /\ hash'[h][j] = hash[h][j]
      <4>0. h \in Table
        BY <3>1
      <4>1. CASE h # call[t].ht
        BY <4>0, <4>1, BodyElsewhere, BodyFacts
      <4>2. CASE h = call[t].ht
        <5>1. Reading(u, h) \/ Writing(u, h)
          BY <2>5, <3>1, Touched DEF Reading, Writing
        <5>2. ~ Writing(t, h)
          BY <1>1, <4>0, <5>1 DEF Exclusion
        <5>3. call[t] \in Call /\ call[t].op \in {"find", "compare"}
          <6>1. call[t] \in Call /\ pc[t] = "body"
            BY BodyFacts DEF BodyOf
          <6> QED
            BY <4>2, <5>2, <6>1, Touched DEF Writing
        <5>4. \A f, i : Atomic!Stored(call[t], f, i) = f[call[t].ht][i]
          BY <5>3, Touched
        <5>5. hash'[h][j] = hash[h][j]
          BY <4>0, <4>2, <5>4, BodyFacts
        <5>6. HashNow[h][j]' = HashNow[h][j]
          <6>1. CASE left[t] # {k}
            BY <6>1, BodyKeeps
          <6>2. CASE left[t] = {k}
            <7>1. HashNow' = [HashNow EXCEPT ![call[t].ht] =
                    [i \in Key |-> IF i \in call[t].keys THEN Atomic!Stored(call[t], HashNow, i)
                                   ELSE HashNow[call[t].ht][i]]]
              BY <6>2, BodyEnds
            <7>2. h \in DOMAIN HashNow
              BY <4>0 DEF HashNow
            <7>3. HashNow'[h] = [i \in Key |-> IF i \in call[t].keys THEN HashNow[h][i] ELSE HashNow[h][i]]
              BY <4>2, <5>4, <7>1, <7>2
            <7> QED
              BY <7>3
          <6> QED
            BY <6>1, <6>2
        <5> QED
          BY <5>5, <5>6
      <4> QED
        BY <4>1, <4>2
    <3>3. ASSUME NEW j \in Through(u)
          PROVE  /\ Atomic!Found(call[u], HashNow, j)' = Atomic!Found(call[u], HashNow, j)
                 /\ Atomic!Stored(call[u], HashNow, j)' = Atomic!Stored(call[u], HashNow, j)
                 /\ hash[call[u].ht][j]' = hash[call[u].ht][j]
      <4>1. /\ HashNow'[call[u].ht][j] = HashNow[call[u].ht][j]
            /\ HashNow'[call[u].src][j] = HashNow[call[u].src][j]
            /\ hash'[call[u].ht][j] = hash[call[u].ht][j]
        BY <3>1, <3>2
      <4> QED
        BY <2>2, <4>1 DEF Atomic!Found, Atomic!Stored
    <3>4. Through(u)' = Through(u)
      BY <2>2 DEF Through
    <3> QED
      BY <2>2, <2>3, <2>5, <3>3, <3>4 DEF Acquiring
  <2> QED
    BY <2>4, <2>5
<1>2. Done(t)'
  <2>1. CASE left[t] = {k}
    BY <2>1, BodyFacts DEF Acquiring
  <2>2. CASE left[t] # {k}
    <3>0. Through(t)' = Through(t) \cup {k} /\ Through(t) \subseteq Key
      <4>1. Through(t) \subseteq call[t].keys
        BY DEF Through
      <4>2. Through(t)' = Through(t) \cup {k} /\ call[t].keys \subseteq Key
        BY BodyFacts
      <4> QED
        BY <4>1, <4>2
    <3>1. HashNow' = HashNow
      BY <2>2, BodyKeeps
    <3>2. pc'[t] = "body" /\ left'[t] # {} /\ left'[t] \subseteq call'[t].keys
      <4>1. left[t] \subseteq call[t].keys /\ k \in left[t]
        BY DEF Work, BodyOf
      <4>2. left'[t] = left[t] \ {k} /\ call' = call
        BY DEF BodyOf, TypeOK
      <4>3. pc'[t] = "body"
        BY <2>2, BodyFacts
      <4> QED
        BY <2>2, <4>1, <4>2, <4>3
    <3>3. ASSUME NEW j \in Key \ Through(t)' PROVE seen'[t][j] = <<NoVal, NoVal>>
      <4>1. j \in Key \ Through(t) /\ j # k
        BY <3>0
      <4>2. seen[t][j] = <<NoVal, NoVal>>
        BY <4>1 DEF Work, BodyOf
      <4> QED
        BY <4>1, <4>2, BodyFacts
    <3>4. ASSUME NEW j \in Through(t)'
          PROVE  /\ seen'[t][j] = Atomic!Found(call[t], HashNow, j)
                 /\ hash'[call[t].ht][j] = Atomic!Stored(call[t], HashNow, j)
      <4>1. j \in Key /\ j \in Through(t) \cup {k}
        BY <3>0
      <4>2. CASE j = k
        BY <4>1, <4>2, BodyFacts
      <4>3. CASE j # k
        <5>1. /\ seen[t][j] = Atomic!Found(call[t], HashNow, j)
              /\ hash[call[t].ht][j] = Atomic!Stored(call[t], HashNow, j)
          BY <4>1, <4>3 DEF Work, BodyOf
        <5> QED
          BY <4>1, <4>3, <5>1, BodyFacts
      <4> QED
        BY <4>2, <4>3
    <3>5. call' = call
      BY DEF BodyOf
    <3> QED
      BY <3>1, <3>2, <3>3, <3>4, <3>5 DEF Acquiring, Atomic!Found, Atomic!Stored
  <2> QED
    BY <2>1, <2>2
<1> QED
  BY <1>1, <1>2 DEF Work

\* The inductive invariant.
WInv == IInv /\ Work

LEMMA WorkInit == Init => WInv
<1> SUFFICES ASSUME Init PROVE Work
  BY InvariantInit DEF WInv
<1> QED
  BY DEF Init, Work, Acquiring

LEMMA WorkStep ==
  ASSUME CleansApart, WInv, [Next]_vars
  PROVE  WInv'
<1>1. IInv' /\ TypeOK /\ CallShape /\ Exclusion /\ Work
  BY InvariantStep, InvariantExcludes DEF WInv, IInv
<1>2. CASE UNCHANGED vars
  <2>1. HashNow' = HashNow
    BY <1>2 DEF vars, HashNow, HalfDone
  <2>2. Work'
    BY <1>1, <1>2, <2>1 DEF vars, Work, Through, Atomic!Found, Atomic!Stored, Atomic!Blank
  <2> QED
    BY <1>1, <2>2 DEF WInv
<1>3. CASE Next
  <2>1. PICK t \in Thread : Invoke(t) \/ Step(t)
    BY <1>3 DEF Next
  <2>2. Work'
    BY <1>1, <2>1, WorkOther, WorkBody, BodyParts
  <2> QED
    BY <1>1, <2>2 DEF WInv
<1> QED
  BY <1>2, <1>3

-----------------------------------------------------------------------------
(* TsHash implements TsHashAtomic.                                          *)

\* What a step of t does to its status and to what it has found.
LEMMA StatusStep ==
  ASSUME TypeOK, NEW t \in Thread, Invoke(t) \/ Step(t),
         NEW a, NEW b, StatusNow[t] = a, StatusNow[t]' = b,
         NEW r, SeenNow[t]' = r
  PROVE  StatusNow' = [StatusNow EXCEPT ![t] = b] /\ SeenNow' = [SeenNow EXCEPT ![t] = r]
<1>1. ASSUME NEW u \in Thread, u # t
      PROVE  StatusNow[u]' = StatusNow[u] /\ SeenNow[u]' = SeenNow[u]
  BY <1>1, Elsewhere DEF StatusNow, SeenNow
<1> QED
  BY <1>1 DEF StatusNow, SeenNow

\* The keys of a call are done one by one without anybody seeing it, and all at once.
LEMMA Refines ==
  ASSUME TypeOK, CallShape, Exclusion, Work, [Next]_vars
  PROVE  [Atomic!Next]_Atomic!vars
<1>1. CASE UNCHANGED vars
  BY <1>1 DEF vars, Atomic!vars, StatusNow, SeenNow, HashNow, HalfDone
<1> SUFFICES ASSUME NEW t \in Thread, Invoke(t) \/ Step(t)
             PROVE  Atomic!Invoke(t) \/ Atomic!Do(t) \/ Atomic!Return(t) \/ UNCHANGED Atomic!vars
  BY <1>1 DEF Next, Atomic!Next
<1> DEFINE Nothing == [k \in Key |-> <<NoVal, NoVal>>]
<1>2. ASSUME NEW u \in Thread
      PROVE  /\ StatusNow[u] = IF pc[u] = "idle" THEN "idle"
                               ELSE IF pc[u] \in Releasing THEN "done" ELSE "pending"
             /\ SeenNow[u] = IF pc[u] \in Releasing THEN seen[u] ELSE Nothing
  BY DEF StatusNow, SeenNow, Releasing
<1>3. ASSUME NEW u \in Thread
      PROVE  /\ StatusNow[u]' = IF pc'[u] = "idle" THEN "idle"
                                ELSE IF pc'[u] \in Releasing THEN "done" ELSE "pending"
             /\ SeenNow[u]' = IF pc'[u] \in Releasing THEN seen'[u] ELSE Nothing
  BY DEF StatusNow, SeenNow, Releasing
<1>4. ASSUME NEW b, NEW r, StatusNow[t]' = b, SeenNow[t]' = r
      PROVE  StatusNow' = [StatusNow EXCEPT ![t] = b] /\ SeenNow' = [SeenNow EXCEPT ![t] = r]
  BY <1>4, StatusStep
<1>5. /\ StatusNow = [StatusNow EXCEPT ![t] = StatusNow[t]]
      /\ SeenNow = [SeenNow EXCEPT ![t] = SeenNow[t]]
  BY DEF StatusNow, SeenNow
<1>6. CASE ~ Body(t)
  <2>1. HashNow' = HashNow
    BY <1>6, OtherKeeps
  <2>2. CASE /\ pc[t] = "idle" /\ pc'[t] \in Acquiring \cup {"reset"}
             /\ \E c \in Call : call' = [call EXCEPT ![t] = c]
    <3>1. /\ StatusNow[t] = "idle" /\ StatusNow[t]' = "pending"
          /\ SeenNow[t] = Nothing /\ SeenNow[t]' = Nothing
      BY <1>2, <1>3, <2>2 DEF Acquiring, Releasing
    <3>2. StatusNow' = [StatusNow EXCEPT ![t] = "pending"] /\ SeenNow' = SeenNow
      BY <1>4, <1>5, <3>1
    <3> QED
      BY <2>1, <2>2, <3>1, <3>2 DEF Atomic!Invoke
  <2>3. CASE /\ pc[t] \in Acquiring \cup {"reset"} /\ pc'[t] \in Acquiring \cup {"body"}
             /\ call' = call /\ seen' = seen
    <3>1. /\ StatusNow[t] = "pending" /\ StatusNow[t]' = "pending"
          /\ SeenNow[t] = Nothing /\ SeenNow[t]' = Nothing
      BY <1>2, <1>3, <2>3 DEF Acquiring, Releasing
    <3>2. StatusNow' = StatusNow /\ SeenNow' = SeenNow
      BY <1>4, <1>5, <3>1
    <3> QED
      BY <2>1, <2>3, <3>2 DEF Atomic!vars
  <2>4. CASE /\ pc[t] \in Releasing /\ pc'[t] \in Releasing /\ call' = call /\ seen' = seen
    <3>1. /\ StatusNow[t] = "done" /\ StatusNow[t]' = "done"
          /\ SeenNow[t] = seen[t] /\ SeenNow[t]' = seen[t]
      BY <1>2, <1>3, <2>4 DEF Releasing
    <3>2. StatusNow' = StatusNow /\ SeenNow' = SeenNow
      BY <1>4, <1>5, <3>1
    <3> QED
      BY <2>1, <2>4, <3>2 DEF Atomic!vars
  <2>5. CASE /\ pc[t] \in Releasing /\ pc'[t] = "idle" /\ call' = [call EXCEPT ![t] = None]
    <3>1. StatusNow[t] = "done" /\ StatusNow[t]' = "idle" /\ SeenNow[t]' = Nothing
      BY <1>2, <1>3, <2>5 DEF Releasing
    <3>2. StatusNow' = [StatusNow EXCEPT ![t] = "idle"] /\ SeenNow' = [SeenNow EXCEPT ![t] = Nothing]
      BY <1>4, <3>1
    <3> QED
      BY <2>1, <2>5, <3>1, <3>2 DEF Atomic!Return, Atomic!Blank
  <2> QED
    BY <1>6, <2>2, <2>3, <2>4, <2>5, OtherStep
<1>7. CASE Body(t)
  <2>1. PICK k \in Key : AtWork(t, k)
    BY <1>7, BodyParts
  <2> DEFINE c == call[t]
  <2>2. pc[t] = "body" /\ StatusNow[t] = "pending" /\ SeenNow[t] = Nothing /\ call' = call
    BY <1>2, <2>1 DEF AtWork, BodyOf, Releasing
  <2>3. CASE left[t] # {k}
    <3>1. pc'[t] = "body"
      BY <2>1, <2>3, BodyFacts
    <3>2. StatusNow[t]' = StatusNow[t] /\ SeenNow[t]' = SeenNow[t]
      BY <1>3, <2>2, <3>1 DEF Releasing
    <3>3. StatusNow' = StatusNow /\ SeenNow' = SeenNow
      BY <1>4, <1>5, <3>2
    <3> QED
      BY <2>1, <2>2, <2>3, <3>3, BodyKeeps DEF Atomic!vars
  <2>4. CASE left[t] = {k}
    <3> DEFINE Result == [j \in Key |-> IF j \in c.keys THEN Atomic!Found(c, HashNow, j)
                                                       ELSE <<NoVal, NoVal>>]
    <3>1. pc'[t] = "release" /\ Through(t) \cup {k} = c.keys /\ k \in c.keys /\ c.keys \subseteq Key
      BY <2>1, <2>4, BodyFacts
    <3>2. seen'[t] = Result
      <4>1. seen'[t] = [j \in Key |-> seen'[t][j]]
        <5>1. seen' \in [Thread -> [Key -> (Val \cup {NoVal}) \X (Val \cup {NoVal})]]
          BY TypeStep DEF TypeOK, Next
        <5> QED
          BY <5>1
      <4>2. ASSUME NEW j \in Key PROVE seen'[t][j] = Result[j]
        <5>1. CASE j = k
          BY <2>1, <3>1, <5>1, BodyFacts
        <5>2. CASE j # k
          <6>1. seen'[t][j] = seen[t][j]
            BY <2>1, <5>2, BodyFacts
          <6>2. j \in c.keys <=> j \in Through(t)
            BY <3>1, <5>2 DEF Through
          <6> QED
            BY <2>2, <6>1, <6>2 DEF Work
        <5> QED
          BY <5>1, <5>2
      <4> QED
        BY <4>1, <4>2
    <3>3. StatusNow[t]' = "done" /\ SeenNow[t]' = Result
      BY <1>3, <3>1, <3>2 DEF Releasing
    <3> HIDE DEF Result
    <3>4. StatusNow' = [StatusNow EXCEPT ![t] = "done"] /\ SeenNow' = [SeenNow EXCEPT ![t] = Result]
      BY <1>4, <3>3
    <3>5. HashNow' = [HashNow EXCEPT ![c.ht] =
            [j \in Key |-> IF j \in c.keys THEN Atomic!Stored(c, HashNow, j) ELSE HashNow[c.ht][j]]]
      BY <2>1, <2>4, BodyEnds
    <3> QED
      BY <2>2, <3>4, <3>5 DEF Atomic!Do, Result
  <2> QED
    BY <2>3, <2>4
<1> QED
  BY <1>6, <1>7

\* No half-done call is ever to be seen: every call takes effect as a whole at
\* one moment, for any number of threads, tables and keys, as long as no thread
\* calls zend_ts_hash_clean on a table that others read.
THEOREM CallsAreAtomic == CleansApart => (Spec => AtomicSpec)
<1> SUFFICES ASSUME CleansApart PROVE Spec => AtomicSpec
  OBVIOUS
<1>1. Init => Atomic!Init
  <2> SUFFICES ASSUME Init PROVE Atomic!Init
    OBVIOUS
  <2>1. \A h, k : HalfDone(h, k) = {}
    BY DEF Init, HalfDone
  <2>2. HashNow = hash
    BY <2>1 DEF Init, HashNow
  <2> QED
    BY <2>2 DEF Init, Atomic!Init, Atomic!Blank, StatusNow, SeenNow
<1>2. WInv /\ [Next]_vars => WInv'
  BY WorkStep
<1>3. WInv /\ [Next]_vars => [Atomic!Next]_Atomic!vars
  BY Refines, InvariantExcludes DEF WInv, IInv
<1> QED
  BY <1>1, <1>2, <1>3, WorkInit, PTL DEF Spec, AtomicSpec, Atomic!Spec
=============================================================================
