------------------------------ MODULE MCTsHash ------------------------------
(* Calls for TsHash on three tables. Tables are copied one way only: a copy  *)
(* each way would have two threads wait for each other's lock.               *)
EXTENDS TsHash

CONSTANTS a, b, d, x, y, v

One(op, h, k)  == [op |-> op, ht |-> h, src |-> h, keys |-> {k}, val |-> v]
All(op, h, h2) == [op |-> op, ht |-> h, src |-> h2, keys |-> Key, val |-> v]

\* Whole-table reads against zend_ts_hash_apply, copies from a to b; writers of
\* a table that nobody reads, zend_ts_hash_clean among them.
MixedCalls ==
  {All("find", a, a), All("update", a, a), All("copy", b, a), All("compare", b, a)}
  \cup {One("add", d, x), One("del", d, x), All("clean", d, d), All("merge", d, a)}
=============================================================================
