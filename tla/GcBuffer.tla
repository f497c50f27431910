------------------------------ MODULE GcBuffer ------------------------------
(***************************************************************************)
(* Zend/zend_gc.c around the three passes of GcCycle: the buffer of         *)
(* possible roots, which every release of a zval or object may write to,    *)
(* and the part of gc_collect_cycles that calls destructors, destroys and   *)
(* frees, in which scripts run, release, and start collections of their     *)
(* own.                                                                     *)
(*                                                                         *)
(* The crux is the word a zval has for the collector. It holds a colour and *)
(* the address of the zval's entry in the buffer; while the zval waits to   *)
(* be freed it holds the next zval of that list instead.                    *)
(*                                                                         *)
(* The heap is abstract. A zval has a number of references and a count; what *)
(* the passes reach and find white is any choice that GcCycle allows, where *)
(* every walk is modelled and a node with references from outside is never  *)
(* white.                                                                   *)
(***************************************************************************)
EXTENDS Integers, Sequences, FiniteSets

CONSTANTS
  Zval,        \* arrays, which can be roots, and references to objects
  Obj,         \* handles of the objects store
  Null, End,   \* the null pointer and FREE_LIST_END
  GC_ROOT_BUFFER_MAX_ENTRIES,
  MaxRefs,     \* bound: the count of a zval that a script copies
  MaxDepth,    \* bound: frames of nested collections
  TouchPinned  \* whether scripts may release the zval whose release is collecting

Node == Zval \cup Obj
Entry == 1..GC_ROOT_BUFFER_MAX_ENTRIES

ASSUME BufferAssumption ==
  /\ IsFiniteSet(Zval) /\ IsFiniteSet(Obj) /\ Zval \cap Obj = {}
  /\ GC_ROOT_BUFFER_MAX_ENTRIES \in Nat \ {0}
  /\ MaxRefs \in Nat \ {0} /\ MaxDepth \in Nat /\ TouchPinned \in BOOLEAN
  /\ Entry \cap Node = {} /\ Null # End /\ {Null, End} \cap (Node \cup Entry) = {}

VARIABLES
  allocated,     \* zvals and objects that exist
  refcount,      \* refcount__gc of a zval
  refs,          \* the references scripts and containers have to it
  color, ptr,    \* the two parts of a node's word
  named,         \* u.pz or handle of each entry
  roots,         \* entries on the list of roots
  unused,        \* entries given back
  first_unused, last_unused, gc_enabled,
  free_list,     \* the zvals a collection in progress will free, and
  next_to_free,  \* where it is in destroying them
  stack          \* calls of gc_collect_cycles and possible_root in progress

heap == <<allocated, refcount, refs>>
word == <<color, ptr>>
buffer == <<named, roots, unused, first_unused, last_unused>>
lists == <<free_list, next_to_free>>
vars == <<heap, word, buffer, gc_enabled, lists, stack>>

Frame ==
  [kind : {"root"}, node : Node, phase : {"full", "collected"}]
    \cup [kind : {"gc"}, phase : {"dtors", "destroy", "destroying", "free"},
          p : Zval \cup {End}, garbage : SUBSET Zval,
          orig_free_list : Zval \cup {Null, End}, orig_next_to_free : Zval \cup {Null, End}]

TypeOK ==
  /\ allocated \in SUBSET Node
  /\ refcount \in [Zval -> 0..(MaxRefs + 1)]
  /\ refs \in [Zval -> 0..MaxRefs]
  /\ color \in [Node -> {"black", "purple"}]
  /\ ptr \in [Node -> Entry \cup Zval \cup {Null, End}]
  /\ named \in [Entry -> Node \cup {Null}]
  /\ roots \in SUBSET Entry /\ unused \in SUBSET Entry
  /\ last_unused \in {0, GC_ROOT_BUFFER_MAX_ENTRIES}
  /\ first_unused \in 1..(last_unused + 1)
  /\ gc_enabled \in BOOLEAN
  /\ free_list \in Zval \cup {Null, End} /\ next_to_free \in Zval \cup {Null, End}
  /\ stack \in Seq(Frame) /\ Len(stack) <= MaxDepth

\* gc_globals_ctor_ex, with or without zend.enable_gc, and gc_init.
Init ==
  /\ allocated = {} /\ refcount = [z \in Zval |-> 0] /\ refs = [z \in Zval |-> 0]
  /\ color = [n \in Node |-> "black"] /\ ptr = [n \in Node |-> Null]
  /\ named = [e \in Entry |-> Null]
  /\ roots = {} /\ unused = {} /\ first_unused = 1
  /\ gc_enabled \in BOOLEAN
  /\ last_unused = IF gc_enabled THEN GC_ROOT_BUFFER_MAX_ENTRIES ELSE 0
  /\ free_list = Null /\ next_to_free = Null
  /\ stack = <<>>

Top == IF stack = <<>> THEN [kind |-> "none", phase |-> "none"] ELSE stack[Len(stack)]
Pop == SubSeq(stack, 1, Len(stack) - 1)
Push(f) == Append(stack, f)
SetTop(f) == [stack EXCEPT ![Len(stack)] = f]

\* Scripts run outside of collections, in the destructors of listed objects, and when
\* what is destroyed releases other things.
Script == stack = <<>> \/ (Top.kind = "gc" /\ Top.p # End /\ Top.phase \in {"dtors", "destroying"})

\* A frame is possible_root, waiting for the collection it started, or gc_collect_cycles
\* with the position in its list (garbage, what is on the list, is there to be stated
\* with).
Collecting(phase) == Top.kind = "gc" /\ Top.phase = phase
Pinned(n) == \E i \in 1..Len(stack) : stack[i].kind = "root" /\ stack[i].node = n

\* "a garbage that is going to be deleted by currently running GC": the address in its
\* word is not one of the buffer. (Mutant: no release asks.)
NeverListed(z) == FALSE
Listed(z) == free_list # Null /\ color[z] = "black" /\ ptr[z] \in Zval \cup {End}

FreeEntries == unused \cup first_unused..last_unused

-----------------------------------------------------------------------------
(* The buffer.                                                              *)

\* GC_REMOVE_FROM_BUFFER.
Give(e) ==
  /\ roots' = roots \ {e} /\ unused' = unused \cup {e}
  /\ named' = [named EXCEPT ![e] = Null]
  /\ UNCHANGED <<first_unused, last_unused>>

\* The new root e of n.
Take(e, n) ==
  /\ roots' = roots \cup {e} /\ unused' = unused \ {e}
  /\ first_unused' = IF e \in unused THEN first_unused ELSE first_unused + 1
  /\ named' = [named EXCEPT ![e] = n]
  /\ color' = [color EXCEPT ![n] = "purple"] /\ ptr' = [ptr EXCEPT ![n] = e]
  /\ UNCHANGED last_unused

\* What an allocation takes first: an entry given back, else the first never used.
\* (Mutant: entries given back are not used again.)
CandidatesNew == IF first_unused <= last_unused THEN {first_unused} ELSE {}
Candidates == IF unused # {} THEN unused
              ELSE IF first_unused <= last_unused THEN {first_unused} ELSE {}

\* No entry is left. With the collector on a collection begins, which needs two frames.
\* With it off the zval turns black again; for an object it is the zval, not the object,
\* that is made black (zend_gc.c:216).
Overflow(n) ==
  IF gc_enabled
  THEN /\ Len(stack) + 2 <= MaxDepth
       /\ color' = [color EXCEPT ![n] = "purple"] /\ ptr' = ptr
       /\ stack' = Push([kind |-> "root", node |-> n, phase |-> "full"])
  ELSE /\ color' = IF n \in Obj THEN [color EXCEPT ![n] = "purple"] ELSE color
       /\ UNCHANGED <<ptr, stack>>

Overflows(n) == /\ color[n] # "purple" /\ ~(n \in Zval /\ Listed(n)) /\ ptr[n] = Null
                /\ Candidates = {} /\ gc_enabled

\* gc_zval_possible_root of an array, gc_zobj_possible_root, up to the collection.
PossibleRoot(n) ==
  IF color[n] = "purple" \/ (n \in Zval /\ Listed(n))
  THEN UNCHANGED <<word, buffer, stack>>
  ELSE IF ptr[n] # Null
  THEN color' = [color EXCEPT ![n] = "purple"] /\ UNCHANGED <<ptr, buffer, stack>>
  ELSE IF Candidates # {}
  THEN (\E e \in Candidates : Take(e, n)) /\ UNCHANGED stack
  ELSE Overflow(n) /\ UNCHANGED buffer

-----------------------------------------------------------------------------
(* What scripts do.                                                         *)

NewZval(z) ==
  /\ Script /\ z \notin allocated
  /\ allocated' = allocated \cup {z}
  /\ refcount' = [refcount EXCEPT ![z] = 1] /\ refs' = [refs EXCEPT ![z] = 1]
  /\ color' = [color EXCEPT ![z] = "black"] /\ ptr' = [ptr EXCEPT ![z] = Null]
  /\ UNCHANGED <<buffer, gc_enabled, lists, stack>>

AddRef(z) ==
  /\ Script /\ refs[z] > 0 /\ refcount[z] < MaxRefs
  /\ refcount' = [refcount EXCEPT ![z] = @ + 1] /\ refs' = [refs EXCEPT ![z] = @ + 1]
  /\ UNCHANGED <<allocated, word, buffer, gc_enabled, lists, stack>>

\* gc_remove_zval_from_buffer, of a zval whose word has an address. (Mutant: the entry
\* stays on the list of roots.)
KeepInBuffer(z) == UNCHANGED <<buffer, next_to_free>>
RemoveFromBuffer(z) ==
  IF ptr[z] = Null THEN UNCHANGED <<buffer, next_to_free>>
  ELSE IF Listed(z)
  THEN next_to_free' = (IF next_to_free = z THEN ptr[z] ELSE next_to_free) /\ UNCHANGED buffer
  ELSE Give(ptr[z]) /\ UNCHANGED next_to_free

\* zval_ptr_dtor: the last reference frees the zval and gives its entry back, another
\* may leave a cycle behind. A zval whose release starts a collection is counted once
\* more until that is over.
DelRef(z) ==
  /\ Script /\ refs[z] > 0
  /\ TouchPinned \/ ~Pinned(z)
  /\ refs' = [refs EXCEPT ![z] = @ - 1]
  /\ IF refcount[z] > 1
     THEN /\ refcount' = [refcount EXCEPT ![z] = IF Overflows(z) THEN @ ELSE @ - 1]
          /\ PossibleRoot(z)
          /\ UNCHANGED <<allocated, next_to_free>>
     ELSE /\ allocated' = allocated \ {z} /\ refcount' = [refcount EXCEPT ![z] = 0]
          /\ RemoveFromBuffer(z)
          /\ color' = [color EXCEPT ![z] = "black"] /\ ptr' = [ptr EXCEPT ![z] = Null]
          /\ UNCHANGED stack
  /\ UNCHANGED <<gc_enabled, free_list>>

NewObject(o) ==
  /\ Script /\ o \notin allocated
  /\ allocated' = allocated \cup {o}
  /\ color' = [color EXCEPT ![o] = "black"] /\ ptr' = [ptr EXCEPT ![o] = Null]
  /\ UNCHANGED <<refcount, refs, buffer, gc_enabled, lists, stack>>

\* A zval that refers to o is released and o stays.
DelObjectRef(o) ==
  /\ Script /\ o \in allocated
  /\ PossibleRoot(o)
  /\ UNCHANGED <<heap, gc_enabled, lists>>

\* The last reference to o goes: GC_REMOVE_ZOBJ_FROM_BUFFER. The one whose release is
\* collecting is counted already, so that a script inside may free the object, and make
\* another in its handle, before possible_root goes on.
FreeObject(o) ==
  /\ Script /\ o \in allocated
  /\ allocated' = allocated \ {o}
  /\ IF ptr[o] = Null THEN UNCHANGED <<buffer, word>>
     ELSE Give(ptr[o]) /\ color' = [color EXCEPT ![o] = "black"] /\ ptr' = [ptr EXCEPT ![o] = Null]
  /\ UNCHANGED <<refcount, refs, gc_enabled, lists, stack>>

\* gc_enable, which makes the buffer when there is none, and gc_disable.
OnUpdateGCEnabled ==
  /\ Script
  /\ gc_enabled' = ~gc_enabled
  /\ last_unused' = IF gc_enabled' THEN GC_ROOT_BUFFER_MAX_ENTRIES ELSE last_unused
  /\ UNCHANGED <<heap, word, named, roots, unused, first_unused, lists, stack>>

-----------------------------------------------------------------------------
(* gc_collect_cycles.                                                       *)

\* Every order in which the zvals of W come to be listed.
Orders(W) == {s \in [1..Cardinality(W) -> W] : \A i, j \in DOMAIN s : s[i] = s[j] => i = j}

Purple == {named[e] : e \in {d \in roots : color[named[d]] = "purple"}}

\* A zval all of whose references come from zvals can be white; one on a list has a
\* count more, and one whose release is collecting as well.
CanBeWhite(z) == refcount[z] = refs[z]

\* The three passes, which reach M from the purple roots and leave W white, and the
\* list of W. Listed zvals are reached too; their count keeps them black.
Passes(M, s) ==
  LET W == {s[i] : i \in DOMAIN s}
      N == {named[e] : e \in roots}
      head == IF s = <<>> THEN End ELSE s[1]
      caller == IF Script THEN stack ELSE SetTop([Top EXCEPT !.phase = "collected"])
      next(z) == LET i == CHOOSE j \in DOMAIN s : s[j] = z
                 IN IF i = Len(s) THEN End ELSE s[i + 1] IN
  /\ color' = [n \in Node |-> IF n \in M THEN "black" ELSE color[n]]
  /\ ptr' = [n \in Node |-> IF n \in W THEN next(n) ELSE IF n \in N THEN Null ELSE ptr[n]]
  /\ refcount' = [z \in Zval |-> IF z \in W THEN refcount[z] + 1 ELSE refcount[z]]
  /\ named' = [e \in Entry |-> Null]
  /\ unused' = unused \cup roots /\ roots' = {}
  /\ free_list' = head
  /\ stack' = Append(caller, [kind |-> "gc", phase |-> "dtors", p |-> head, garbage |-> W,
                              orig_free_list |-> free_list, orig_next_to_free |-> next_to_free])

\* Called by a script, or by possible_root for want of an entry.
gc_collect_cycles ==
  /\ (Script /\ Len(stack) < MaxDepth) \/ (Top.kind = "root" /\ Top.phase = "full")
  /\ roots # {}
  /\ \E X \in SUBSET allocated :
       LET M == X \cup Purple IN
       /\ X \cap Purple = {} /\ (Purple = {} => X = {})
       /\ \E W \in SUBSET {z \in M \cap Zval : CanBeWhite(z)} : \E s \in Orders(W) : Passes(M, s)
  /\ UNCHANGED <<refs, allocated, first_unused, last_unused, gc_enabled, next_to_free>>

\* First the destructors of objects on the list: p = p->u.next. What a destructor does
\* are steps of scripts.
NextDestructor ==
  /\ Collecting("dtors")
  /\ stack' = SetTop(IF Top.p = End THEN [Top EXCEPT !.phase = "destroy", !.p = free_list]
                                     ELSE [Top EXCEPT !.p = ptr[Top.p]])
  /\ UNCHANGED <<heap, word, buffer, gc_enabled, lists>>

\* Then the zvals are destroyed: next_to_free = p->u.next, and what p contains is
\* released, its own garbage and other things.
Destroy ==
  /\ Collecting("destroy") /\ Top.p # End
  /\ next_to_free' = ptr[Top.p]
  /\ stack' = SetTop([Top EXCEPT !.phase = "destroying"])
  /\ UNCHANGED <<heap, word, buffer, gc_enabled, free_list>>

Destroyed ==
  /\ Collecting("destroying")
  /\ stack' = SetTop([Top EXCEPT !.phase = "destroy", !.p = next_to_free])
  /\ UNCHANGED <<heap, word, buffer, gc_enabled, lists>>

\* When all are destroyed nothing refers to them: their references came from garbage
\* (GcCycle!DoomedIsClosed), and no destructor has stored one elsewhere.
AllDestroyed ==
  /\ Collecting("destroy") /\ Top.p = End
  /\ \A z \in Top.garbage : refs[z] = 0
  /\ stack' = SetTop([Top EXCEPT !.phase = "free", !.p = free_list])
  /\ UNCHANGED <<heap, word, buffer, gc_enabled, lists>>

\* FREE_ZVAL_EX, which leaves the buffer alone.
FreeZval ==
  /\ Collecting("free") /\ Top.p # End
  /\ allocated' = allocated \ {Top.p} /\ refcount' = [refcount EXCEPT ![Top.p] = 0]
  /\ color' = [color EXCEPT ![Top.p] = "black"] /\ ptr' = [ptr EXCEPT ![Top.p] = Null]
  /\ stack' = SetTop([Top EXCEPT !.p = ptr[Top.p], !.garbage = @ \ {Top.p}])
  /\ UNCHANGED <<refs, buffer, gc_enabled, lists>>

Collected ==
  /\ Collecting("free") /\ Top.p = End
  /\ free_list' = Top.orig_free_list /\ next_to_free' = Top.orig_next_to_free
  /\ stack' = Pop
  /\ UNCHANGED <<heap, word, buffer, gc_enabled>>

\* possible_root goes on: it takes an entry the collection gave back, if there is one.
Retry ==
  /\ Top.kind = "root" /\ Top.phase = "collected"
  /\ refcount' = [z \in Zval |-> IF z = Top.node THEN refcount[z] - 1 ELSE refcount[z]]
  /\ IF unused = {} THEN UNCHANGED <<word, buffer>> ELSE \E e \in unused : Take(e, Top.node)
  /\ stack' = Pop
  /\ UNCHANGED <<refs, allocated, gc_enabled, lists>>

\* exit or a fatal error in a destructor: a longjmp out of everything, and shutdown
\* functions and other destructors still run in this request.
Bailout ==
  /\ Script /\ stack # <<>>
  /\ stack' = <<>>
  /\ UNCHANGED <<heap, word, buffer, gc_enabled, lists>>

\* The next request: the memory of the last is gone, gc_reset.
gc_reset ==
  /\ stack = <<>>
  /\ allocated' = {} /\ refcount' = [z \in Zval |-> 0] /\ refs' = [z \in Zval |-> 0]
  /\ color' = [n \in Node |-> "black"] /\ ptr' = [n \in Node |-> Null]
  /\ named' = [e \in Entry |-> Null] /\ roots' = {} /\ unused' = {} /\ first_unused' = 1
  /\ UNCHANGED <<last_unused, gc_enabled, lists, stack>>

Next ==
  \/ \E z \in Zval : NewZval(z) \/ AddRef(z) \/ DelRef(z)
  \/ \E o \in Obj : NewObject(o) \/ DelObjectRef(o) \/ FreeObject(o)
  \/ OnUpdateGCEnabled \/ gc_collect_cycles
  \/ NextDestructor \/ Destroy \/ Destroyed \/ AllDestroyed \/ FreeZval \/ Collected
  \/ Retry \/ Bailout \/ gc_reset

Spec == Init /\ [][Next]_vars

-----------------------------------------------------------------------------
(* Properties.                                                              *)

\* The buffer and the words agree, whatever scripts do between and inside collections:
\* a zval is named by the entry in its word and by no other, so that no freed zval is
\* ever a root; an object's entry names it (others may name the handle, of an object that
\* was freed before possible_root went on); an entry is a root or free, once.
BufferAgrees ==
  /\ TypeOK
  /\ \A z \in Zval : \A e \in Entry : e \in roots /\ named[e] = z <=> ptr[z] = e
  /\ \A z \in Zval \ allocated : ptr[z] = Null
  /\ \A o \in Obj \cap allocated : ptr[o] # Null => ptr[o] \in roots /\ named[ptr[o]] = o
  /\ roots \cap unused = {} /\ roots \cup unused = 1..(first_unused - 1)

\* While a collection is between its passes and its end, whatever destructors release
\* and however collections nest, following u.next from where it holds its list visits
\* exactly the zvals it still has to free, all of them allocated and with no colour in the
\* word that is the link, and no zval is on the lists of two collections: each is freed
\* once and none is read after that.
Collections == {i \in 1..Len(stack) : stack[i].kind = "gc"}
Inner(i) == {j \in Collections : j > i}
HeadOf(i) ==
  IF stack[i].phase = "free" THEN stack[i].p
  ELSE IF Inner(i) = {} THEN free_list
  ELSE stack[CHOOSE j \in Inner(i) : \A k \in Inner(i) : j <= k].orig_free_list
Linked(s, head) ==
  /\ head = (IF s = <<>> THEN End ELSE s[1])
  /\ \A k \in DOMAIN s : /\ color[s[k]] = "black"
                        /\ ptr[s[k]] = IF k = Len(s) THEN End ELSE s[k + 1]
ListsIntact ==
  \A i \in Collections :
    /\ stack[i].garbage \subseteq allocated
    /\ \E s \in Orders(stack[i].garbage) : Linked(s, HeadOf(i))
    /\ stack[i].p \in stack[i].garbage \cup {End}
    /\ \A j \in Inner(i) : stack[i].garbage \cap stack[j].garbage = {}

\* A release that leaves a possible cycle behind is not forgotten: a zval or object is
\* purple, which makes later releases of it return early, without an entry in the buffer
\* only when there was none left for it, or an exit cut short the collection that was to
\* make room.
Forgotten == {n \in allocated : color[n] = "purple" /\ ptr[n] = Null /\ ~Pinned(n)}
NeverForgets ==
  [][Forgotten' \subseteq Forgotten \/ FreeEntries' = {} \/ Len(stack') < Len(stack) - 1]_vars

\* "list of possible roots of cycles" (zend_gc.h): what a collection starts from exists.
RootsAreAlive == \A e \in roots : named[e] \in Zval => named[e] \in allocated
=============================================================================
