---------------------------- MODULE TsHashAtomic ----------------------------
(***************************************************************************)
(* What the thread-safe hash tables of Zend/zend_ts_hash.h promise: every   *)
(* call takes effect as a whole, at one moment between its invocation and   *)
(* its return, on all the tables it names.                                  *)
(***************************************************************************)
EXTENDS Integers

CONSTANTS
  Thread,   \* threads of the server
  Table,    \* hash tables they share
  Key,      \* keys of the tables
  Val,      \* data stored under a key
  NoVal,    \* no data under a key
  Call,     \* the calls that threads make
  None      \* no call

VARIABLES
  hash,     \* hash[h][k]: what table h holds under k
  call,     \* the call a thread is in
  status,   \* of each thread: no call, a call that is pending or done
  seen      \* what the call found: pairs of values of its two tables

vars == <<hash, call, status, seen>>

\* One record per call. `ht' is the table of a call on one table, the target of
\* zend_ts_hash_copy and zend_ts_hash_merge (without overwriting) and the first
\* table of zend_ts_hash_compare; `src' is the other table, or `ht' again. `keys' are the keys the call goes through.
CallRecord ==
  [op : {"find", "update", "add", "del", "clean", "copy", "merge", "compare"},
   ht : Table, src : Table, keys : (SUBSET Key) \ {{}}, val : Val]

Blank == [k \in Key |-> <<NoVal, NoVal>>]

\* What a call on tables h finds under k, and what it stores there.
Found(c, h, k) == <<h[c.ht][k], h[c.src][k]>>

Stored(c, h, k) ==
  CASE c.op = "update"                           -> c.val
    [] c.op = "add" /\ h[c.ht][k] = NoVal        -> c.val
    [] c.op \in {"del", "clean"}                 -> NoVal
    [] c.op = "copy" /\ h[c.src][k] # NoVal      -> h[c.src][k]
    [] c.op = "merge" /\ h[c.ht][k] = NoVal      -> h[c.src][k]
    [] OTHER                                     -> h[c.ht][k]

Init ==
  /\ hash \in [Table -> [Key -> {NoVal}]]
  /\ call = [t \in Thread |-> None]
  /\ status = [t \in Thread |-> "idle"]
  /\ seen = [t \in Thread |-> Blank]

Invoke(t) ==
  /\ status[t] = "idle"
  /\ \E c \in Call : call' = [call EXCEPT ![t] = c]
  /\ status' = [status EXCEPT ![t] = "pending"]
  /\ UNCHANGED <<hash, seen>>

Do(t) ==
  LET c == call[t] IN
  /\ status[t] = "pending"
  /\ status' = [status EXCEPT ![t] = "done"]
  /\ seen' = [seen EXCEPT ![t] =
       [k \in Key |-> IF k \in c.keys THEN Found(c, hash, k) ELSE <<NoVal, NoVal>>]]
  /\ hash' = [hash EXCEPT ![c.ht] =
       [k \in Key |-> IF k \in c.keys THEN Stored(c, hash, k) ELSE hash[c.ht][k]]]
  /\ UNCHANGED call

Return(t) ==
  /\ status[t] = "done"
  /\ status' = [status EXCEPT ![t] = "idle"]
  /\ call' = [call EXCEPT ![t] = None]
  /\ seen' = [seen EXCEPT ![t] = Blank]
  /\ UNCHANGED hash

Next == \E t \in Thread : Invoke(t) \/ Do(t) \/ Return(t)

Spec == Init /\ [][Next]_vars
=============================================================================
