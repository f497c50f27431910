------------------------------ MODULE GcCycle ------------------------------
(***************************************************************************)
(* One run of the cycle collector of the Zend Engine: the three passes      *)
(* gc_mark_roots, gc_scan_roots and gc_collect_roots of Zend/zend_gc.c over *)
(* a heap that does not change meanwhile (no user code runs during the      *)
(* passes, GC_G(gc_active) is set).                                         *)
(*                                                                         *)
(* The heap has two kinds of counted node. A zval is an array or a          *)
(* reference to an object; the objects themselves live in the objects       *)
(* store. Every cell of the heap (an element of an array, a property of an  *)
(* object, the handle inside an object zval) holds one counted reference.   *)
(*                                                                         *)
(* The recursive walks zval_mark_grey, zval_scan, zval_scan_black and       *)
(* zval_collect_white visit one node per action here; the set `work' (and   *)
(* `blackWork' for the walk that zval_scan starts) holds the nodes the      *)
(* recursion still has to visit. The order of a walk is left open.          *)
(***************************************************************************)
EXTENDS Integers, FiniteSets

CONSTANTS
  Array,    \* zvals of type IS_ARRAY
  ObjRef,   \* zvals of type IS_OBJECT
  Obj,      \* handles of the objects store
  Key,      \* keys of a hash table
  Slot,     \* the <<container, key>> pairs that may hold an element
  Handle,   \* names the cell of an object zval that holds its handle
  Globals,  \* the array zval whose hash table is EG(symbol_table)
  Held,     \* nodes that something outside the heap may refer to
  Nil       \* an absent element

Zval      == Array \cup ObjRef
Node      == Zval \cup Obj
Container == Array \cup Obj
Cell      == Slot \cup (ObjRef \X {Handle})

ASSUME HeapAssumption ==
  /\ IsFiniteSet(Array) /\ IsFiniteSet(ObjRef)
  /\ IsFiniteSet(Obj)   /\ IsFiniteSet(Slot)
  /\ Slot \subseteq Container \X Key
  /\ Array \cap ObjRef = {} /\ Zval \cap Obj = {}
  /\ Globals \in Array
  /\ Nil \notin Node

VARIABLES
  target,      \* the node each cell refers to, or Nil
  ext,         \* counted references from outside the heap (locals, C code)
  refcount,    \* refcount__gc of a zval, refcount of a store object
  color,       \* the two GC_COLOR bits of the node's `buffered' word
  buffered,    \* nodes whose `buffered' word holds an address
  roots,       \* nodes on the list GC_G(roots)
  phase,       \* which pass of gc_collect_cycles is running
  current,     \* roots the running pass has still to look at
  work,        \* nodes the running walk has still to visit
  blackWork,   \* nodes zval_scan_black has still to visit
  zval_to_free \* GC_G(zval_to_free)

heap  == <<target, ext>>
gcVars == <<refcount, color, buffered, roots, phase, current, work, blackWork, zval_to_free>>
vars  == <<heap, gcVars>>

-----------------------------------------------------------------------------
(* Cells and counts.                                                        *)

\* The cells of m that a walk over m goes through. zval_mark_grey,
\* zval_scan_black and zval_scan do not walk into EG(symbol_table).
CellsOf(m) == IF m = Globals THEN {} ELSE {c \in Cell : c[1] = m}

\* Mutant: a child is counted once although two elements refer to it.
MultOnce(m, n) == IF \E c \in CellsOf(m) : target[c] = n THEN 1 ELSE 0

\* How many references m holds on n. References on the symbol table's own
\* zval are never counted down or up by the collector.
Mult(m, n) == IF n = Globals THEN 0 ELSE Cardinality({c \in CellsOf(m) : target[c] = n})

Kids(m) == {target[c] : c \in CellsOf(m)} \ {Nil}

\* Every reference on n.
RefsTo(n) == {c \in Cell : target[c] = n}

\* The references on n that start outside the nodes X.
Outside(n, X) == Cardinality({c \in RefsTo(n) : c[1] \notin X})

\* What reference counting says when no pass is running.
TrueCount(n) == ext[n] + Cardinality(RefsTo(n))

-----------------------------------------------------------------------------
Color == {"black", "white", "grey", "purple"}
Phase == {"mark", "scan", "collect", "done"}

TypeOK ==
  /\ target \in [Cell -> Node \cup {Nil}]
  /\ ext \in [Node -> Nat]
  /\ refcount \in [Node -> Int]
  /\ color \in [Node -> Color]
  /\ buffered \subseteq Node
  /\ roots \subseteq Node
  /\ phase \in Phase
  /\ current \subseteq roots
  /\ work \subseteq Node
  /\ blackWork \subseteq Node
  /\ zval_to_free \subseteq Zval

\* An element or property refers to a zval, a handle cell to an object.
WellFormed ==
  \A c \in Cell : target[c] \in (IF c[1] \in ObjRef THEN Obj ELSE Zval) \cup {Nil}

\* A zval or object that nothing refers to is free memory: it has no elements.
FreeIsEmpty ==
  \A c \in Cell : c[1] # Globals /\ TrueCount(c[1]) = 0 => target[c] = Nil

\* A collection may start in any heap whose counts are exact, with any set
\* of counted nodes buffered as possible roots.
Init ==
  /\ \E e \in [Slot -> Zval \cup {Nil}], h \in [ObjRef \X {Handle} -> Obj \cup {Nil}] :
        target = [c \in Cell |-> IF c[1] \in ObjRef THEN h[c] ELSE e[c]]
  /\ ext \in {e \in [Node -> 0..1] : \A n \in Node \ Held : e[n] = 0}
  /\ FreeIsEmpty
  /\ refcount = [n \in Node |-> TrueCount(n)]
  /\ roots \in SUBSET {n \in Node : refcount[n] > 0}
  /\ buffered = roots
  /\ color = [n \in Node |-> IF n \in roots THEN "purple" ELSE "black"]
  /\ phase = "mark"
  /\ current = roots
  /\ work = {}
  /\ blackWork = {}
  /\ zval_to_free = {}

-----------------------------------------------------------------------------
(* The color and count tests of the four walks, each with a mutant of it.   *)

ToMark(n) == color[n] # "grey"

ToScanAgain(n) == color[n] # "black"
ToScan(n) == color[n] = "grey"

HasCountOffByOne(n) == refcount[n] >= 0
HasCount(n) == refcount[n] > 0

ToBlackenGrey(n) == color[n] = "grey"
ToBlacken(n) == color[n] # "black"

\* The buffered word is compared as a whole: white, and no address.
ToCollect(n) == color[n] = "white" /\ n \notin buffered

\* zval_collect_white gives zvals their counts back, objects not.
RestorableAll == Node
Restorable == Zval

-----------------------------------------------------------------------------
(* gc_mark_roots: subtract every reference that starts in a node reachable  *)
(* from a purple root.                                                      *)

\* Mutant: a root leaves the list, but the pass still stands on it.
MarkRootAgain(r) ==
  /\ phase = "mark" /\ work = {} /\ r \in current
  /\ current' = IF color[r] = "purple" THEN current \ {r} ELSE current
  /\ work' = IF color[r] = "purple" THEN {r} ELSE {}
  /\ buffered' = IF color[r] = "purple" THEN buffered ELSE buffered \ {r}
  /\ roots' = IF color[r] = "purple" THEN roots ELSE roots \ {r}
  /\ UNCHANGED <<heap, refcount, color, phase, blackWork, zval_to_free>>

MarkRoot(r) ==
  /\ phase = "mark" /\ work = {} /\ r \in current
  /\ current' = current \ {r}
  /\ \/ /\ color[r] = "purple"
        /\ work' = {r}
        /\ UNCHANGED <<buffered, roots>>
     \/ /\ color[r] # "purple"
        /\ buffered' = buffered \ {r}
        /\ roots' = roots \ {r}
        /\ UNCHANGED work
  /\ UNCHANGED <<heap, refcount, color, phase, blackWork, zval_to_free>>

MarkGrey(n) ==
  /\ phase = "mark" /\ n \in work
  /\ \/ /\ ~ ToMark(n)
        /\ work' = work \ {n}
        /\ UNCHANGED <<color, refcount>>
     \/ /\ ToMark(n)
        /\ color' = [color EXCEPT ![n] = IF n = Globals THEN "black" ELSE "grey"]
        /\ refcount' = [m \in Node |-> refcount[m] - Mult(n, m)]
        /\ work' = (work \ {n}) \cup Kids(n)
  /\ UNCHANGED <<heap, buffered, roots, phase, current, blackWork, zval_to_free>>

MarkDone ==
  /\ phase = "mark" /\ work = {} /\ current = {}
  /\ phase' = "scan"
  /\ current' = roots
  /\ UNCHANGED <<heap, refcount, color, buffered, roots, work, blackWork, zval_to_free>>

-----------------------------------------------------------------------------
(* gc_scan_roots: what still has references is live, and so is what it      *)
(* reaches (black, counts restored); the rest turns white.                  *)

ScanRoot(r) ==
  /\ phase = "scan" /\ work = {} /\ blackWork = {} /\ r \in current
  /\ current' = current \ {r}
  /\ work' = {r}
  /\ UNCHANGED <<heap, refcount, color, buffered, roots, phase, blackWork, zval_to_free>>

Scan(n) ==
  /\ phase = "scan" /\ blackWork = {} /\ n \in work
  /\ \/ /\ ~ ToScan(n)
        /\ work' = work \ {n}
        /\ UNCHANGED <<color, blackWork>>
     \/ /\ ToScan(n) /\ HasCount(n)
        /\ work' = work \ {n}
        /\ blackWork' = {n}
        /\ UNCHANGED color
     \/ /\ ToScan(n) /\ ~ HasCount(n)
        /\ color' = [color EXCEPT ![n] = "white"]
        /\ work' = (work \ {n}) \cup Kids(n)
        /\ UNCHANGED blackWork
  /\ UNCHANGED <<heap, refcount, buffered, roots, phase, current, zval_to_free>>

ScanBlack(n) ==
  /\ phase = "scan" /\ n \in blackWork
  /\ color' = [color EXCEPT ![n] = "black"]
  /\ refcount' = [m \in Node |-> refcount[m] + Mult(n, m)]
  /\ blackWork' = (blackWork \ {n}) \cup {m \in Kids(n) : ToBlacken(m)'}
  /\ UNCHANGED <<heap, buffered, roots, phase, current, work, zval_to_free>>

ScanDone ==
  /\ phase = "scan" /\ work = {} /\ blackWork = {} /\ current = {}
  /\ phase' = "collect"
  /\ current' = roots
  /\ UNCHANGED <<heap, refcount, color, buffered, roots, work, blackWork, zval_to_free>>

-----------------------------------------------------------------------------
(* gc_collect_roots: put the white zvals on the list to free, restore the   *)
(* counts of zvals (not those of objects) and empty the root buffer.        *)

\* Mutant: the address of the root is still in its buffered word.
CollectRootBuffered(r) ==
  /\ phase = "collect" /\ work = {} /\ r \in current
  /\ current' = current \ {r}
  /\ roots' = roots \ {r}
  /\ work' = {r}
  /\ UNCHANGED <<heap, refcount, color, buffered, phase, blackWork, zval_to_free>>

CollectRoot(r) ==
  /\ phase = "collect" /\ work = {} /\ r \in current
  /\ current' = current \ {r}
  /\ buffered' = buffered \ {r}
  /\ roots' = roots \ {r}
  /\ work' = {r}
  /\ UNCHANGED <<heap, refcount, color, phase, blackWork, zval_to_free>>

\* The collected zval itself is counted once more, for the list it is on.
CollectWhite(n) ==
  /\ phase = "collect" /\ n \in work
  /\ \/ /\ ~ ToCollect(n)
        /\ work' = work \ {n}
        /\ UNCHANGED <<color, refcount, zval_to_free>>
     \/ /\ ToCollect(n)
        /\ color' = [color EXCEPT ![n] = "black"]
        /\ zval_to_free' = zval_to_free \cup ({n} \cap Zval)
        /\ refcount' = [m \in Node |->
              IF m \in Restorable
              THEN refcount[m] + Mult(n, m) + (IF m = n THEN 1 ELSE 0)
              ELSE refcount[m]]
        /\ work' = (work \ {n}) \cup Kids(n)
  /\ UNCHANGED <<heap, buffered, roots, phase, current, blackWork>>

CollectDone ==
  /\ phase = "collect" /\ work = {} /\ current = {}
  /\ phase' = "done"
  /\ UNCHANGED <<heap, refcount, color, buffered, roots, current, work, blackWork, zval_to_free>>

-----------------------------------------------------------------------------
Passes ==
  \/ \E n \in Node : \/ MarkRoot(n) \/ MarkGrey(n)
                     \/ ScanRoot(n) \/ Scan(n) \/ ScanBlack(n)
                     \/ CollectRoot(n) \/ CollectWhite(n)
  \/ MarkDone \/ ScanDone \/ CollectDone

Finished == phase = "done" /\ UNCHANGED vars

Next == Passes \/ Finished

Spec == Init /\ [][Next]_vars /\ WF_vars(Passes)

-----------------------------------------------------------------------------
(* Properties.                                                              *)

\* Nodes whose outgoing references are currently subtracted from the counts.
Subtracted == {n \in Node : color[n] \in {"grey", "white"}}

\* While marking and scanning, a count is exactly what the walks have left of
\* it: external references plus the cells of the nodes that are not (or no
\* longer) subtracted. A walk that visited a node twice, or restored one too
\* many, breaks it; zval_mark_grey against zval_scan_black.
Accounting ==
  phase \in {"mark", "scan"} =>
    \A n \in Node \ {Globals} :
      refcount[n] = ext[n] + Outside(n, Subtracted)

\* What gc_collect_cycles will free: white nodes, the zvals already on the
\* list, and the objects it recognises by their count of zero.
Doomed ==
  {n \in Node : color[n] = "white"} \cup zval_to_free
    \cup {o \in Obj : refcount[o] = 0}

\* Nothing outside the doomed set refers into it: no variable, no live array
\* or object, not the symbol table. Freeing it leaves no dangling reference.
DoomedIsClosed ==
  phase \in {"collect", "done"} =>
    \A n \in Doomed \ {Globals} :
      /\ ext[n] = 0
      /\ \A c \in RefsTo(n) : c[1] \in Doomed

\* When the passes are over every zval's count is exact again, plus the one
\* that the free list holds; an object's count has lost the zvals on the list,
\* because gc_collect_cycles frees those without releasing their handle.
CountsRestored ==
  phase = "done" =>
    /\ \A z \in Zval : refcount[z] = TrueCount(z) + (IF z \in zval_to_free THEN 1 ELSE 0)
    /\ \A h \in Obj : refcount[h] = ext[h] + Outside(h, zval_to_free)

\* Reachability, for the properties only: the least set that has the nodes R and
\* whatever its members refer to.
ClosedUnderCells(S) == \A c \in Cell : c[1] \in S => target[c] \in S \cup {Nil}

ReachableFrom(R) ==
  {n \in Node : \A S \in SUBSET Node : R \subseteq S /\ ClosedUnderCells(S) => n \in S}

\* What must survive: what a variable, outside code or a node that no possible
\* root reaches refers to.
Live ==
  ReachableFrom({Globals} \cup {n \in Node : ext[n] > 0} \cup (Node \ ReachableFrom(roots)))

\* The scan misses nothing: a node that only possible roots reach is white when
\* the scan ends, through whichever root zval_scan and zval_scan_black met it.
ScanIsComplete ==
  (phase = "scan" /\ work = {} /\ blackWork = {} /\ current = {}) =>
    \A n \in ReachableFrom(roots) \ Live : color[n] = "white"

\* Every white node is collected although the white test also asks for an
\* empty address: whoever was skipped as a buffered root gets its own turn.
NoWhiteLeft ==
  phase = "done" => /\ \A n \in Node : color[n] = "black"
                    /\ roots = {} /\ buffered = {}

\* The passes end, whatever cycles the heap has.
PassesEnd == <>(phase = "done")
=============================================================================
