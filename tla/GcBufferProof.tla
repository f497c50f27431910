---------------------------- MODULE GcBufferProof ----------------------------
(***************************************************************************)
(* Whatever scripts release between and inside collections, the buffer of   *)
(* possible roots and the words of the zvals agree, the lists of nested     *)
(* collections stay whole and apart, and no possible root is forgotten: for *)
(* any number of zvals, objects, entries and frames, when no script         *)
(* releases the zval whose release is collecting.                           *)
(***************************************************************************)
EXTENDS GcBuffer, FiniteSetTheorems, SequenceTheorems, TLAPS

\* The zvals whose word is the link of a list.
Links == {z \in Zval : ptr[z] \in Zval \cup {End}}

\* The zvals on the lists of the collections from the i-th frame on.
GarbageFrom(i) == UNION {stack[j].garbage : j \in {k \in Collections : k >= i}}

\* The zvals of W are linked in some order, from head on, by words of colour c and address p.
Chain(c, p, W, head) ==
  \E s \in [1..Cardinality(W) -> W] :
    /\ \A i, j \in DOMAIN s : s[i] = s[j] => i = j
    /\ \A z \in W : \E i \in DOMAIN s : s[i] = z
    /\ head = (IF s = <<>> THEN End ELSE s[1])
    /\ \A k \in DOMAIN s : c[s[k]] = "black" /\ p[s[k]] = IF k = Len(s) THEN End ELSE s[k + 1]
IsList(W, head) == Chain(color, ptr, W, head)

\* The collection whose frame holds what the i-th had in its globals.
Saves(j, i) == j \in Inner(i) /\ \A k \in Inner(i) : j <= k

Words ==
  /\ \A n \in Node, e \in Entry : ptr[n] = e => e \in roots /\ named[e] = n
  /\ \A z \in Zval, e \in roots : named[e] = z => ptr[z] = e
  /\ \A e \in Entry : named[e] # Null <=> e \in roots
  /\ \A o \in Obj : ptr[o] \in Entry \cup {Null}
  /\ \A z \in Zval \ allocated : ptr[z] = Null
  /\ roots \cap unused = {} /\ roots \cup unused = 1..(first_unused - 1)
  /\ gc_enabled => last_unused = GC_ROOT_BUFFER_MAX_ENTRIES

Counts ==
  \A z \in Zval : /\ refcount[z] >= refs[z]
                  /\ z \in Links \/ Pinned(z) => refcount[z] > refs[z]
                  /\ z \notin allocated => refcount[z] = 0

Pins ==
  /\ \A i \in 1..Len(stack) : stack[i].kind = "root" =>
       /\ stack[i].node \in Zval => stack[i].node \in allocated /\ ptr[stack[i].node] = Null
       /\ first_unused > GC_ROOT_BUFFER_MAX_ENTRIES
  /\ \A i, j \in 1..Len(stack) :
       stack[i].kind = "root" /\ stack[j].kind = "root" /\ stack[i].node = stack[j].node
         => i = j \/ stack[i].node \in Obj

Shape ==
  \A i \in 1..Len(stack) :
    /\ stack[i].kind = "root" /\ i < Len(stack) => stack[i].phase # "full" /\ stack[i + 1].kind = "gc"
    /\ stack[i].kind = "root" /\ stack[i].phase = "full" => Len(stack) < MaxDepth
    /\ stack[i].kind = "gc" /\ i < Len(stack) =>
         stack[i].phase \in {"dtors", "destroying"} /\ stack[i].p # End

Saved ==
  /\ \A z \in Links : color[z] = "black"
  /\ free_list = Null => Links = {}
  /\ Collections # {} => free_list # Null
  /\ \A i \in Collections : stack[i].orig_free_list = Null => Links \subseteq GarbageFrom(i)
  /\ \A i, j \in Collections : i < j => stack[j].orig_free_list # Null

Apart ==
  /\ \A i \in Collections : stack[i].garbage \subseteq Links
  /\ \A i, j \in Collections : i # j => stack[i].garbage \cap stack[j].garbage = {}

Lists ==
  \A i \in Collections :
    /\ stack[i].p \in stack[i].garbage \cup {End}
    /\ stack[i].phase = "free" =>
         IsList(stack[i].garbage, stack[i].p) /\ \A z \in stack[i].garbage : refs[z] = 0
    /\ stack[i].phase # "free" /\ Inner(i) = {} => IsList(stack[i].garbage, free_list)
    /\ stack[i].phase = "destroying" /\ Inner(i) = {} => next_to_free \in stack[i].garbage \cup {End}
    /\ \A j \in Collections : Saves(j, i) =>
         /\ IsList(stack[i].garbage, stack[j].orig_free_list)
         /\ stack[i].phase = "destroying" => stack[j].orig_next_to_free \in stack[i].garbage \cup {End}

IInv == TypeOK /\ Words /\ Counts /\ Pins /\ Shape /\ Saved /\ Apart /\ Lists

-----------------------------------------------------------------------------
(* Frames.                                                                  *)

RootFrame == [kind : {"root"}, node : Node, phase : {"full", "collected"}]
GcFrame == [kind : {"gc"}, phase : {"dtors", "destroy", "destroying", "free"},
            p : Zval \cup {End}, garbage : SUBSET Zval,
            orig_free_list : Zval \cup {Null, End}, orig_next_to_free : Zval \cup {Null, End}]

\* A frame is of one kind or the other.
LEMMA Frames ==
  /\ Frame = RootFrame \cup GcFrame
  /\ \A f \in RootFrame : f.kind = "root" /\ f.node \in Node /\ f.phase \in {"full", "collected"}
  /\ \A f \in GcFrame : /\ f.kind = "gc" /\ f.phase \in {"dtors", "destroy", "destroying", "free"}
                        /\ f.p \in Zval \cup {End} /\ f.garbage \subseteq Zval
                        /\ f.orig_free_list \in Zval \cup {Null, End}
                        /\ f.orig_next_to_free \in Zval \cup {Null, End}
  /\ \A f \in Frame : f.kind = "root" => f \in RootFrame
  /\ \A f \in Frame : f.kind = "gc" => f \in GcFrame
<1>1. Frame = RootFrame \cup GcFrame
  BY DEF Frame, RootFrame, GcFrame
<1>2. \A f \in RootFrame : f.kind = "root" /\ f.node \in Node /\ f.phase \in {"full", "collected"}
  BY DEF RootFrame
<1>3. \A f \in GcFrame : /\ f.kind = "gc" /\ f.phase \in {"dtors", "destroy", "destroying", "free"}
                         /\ f.p \in Zval \cup {End} /\ f.garbage \subseteq Zval
                         /\ f.orig_free_list \in Zval \cup {Null, End}
                         /\ f.orig_next_to_free \in Zval \cup {Null, End}
  BY DEF GcFrame
<1> QED
  BY <1>1, <1>2, <1>3

\* How a call, a return and a step of the topmost frame change the stack.
Pushed(f) == /\ stack' \in Seq(Frame) /\ Len(stack') = Len(stack) + 1
             /\ \A i \in 1..Len(stack) : stack'[i] = stack[i]
             /\ stack'[Len(stack) + 1] = f
Popped == /\ stack' \in Seq(Frame) /\ Len(stack') = Len(stack) - 1
          /\ \A i \in 1..(Len(stack) - 1) : stack'[i] = stack[i]
Stepped(f) == /\ stack' \in Seq(Frame) /\ Len(stack') = Len(stack)
              /\ \A i \in 1..Len(stack) : stack'[i] = IF i = Len(stack) THEN f ELSE stack[i]

LEMMA Stacks ==
  ASSUME stack \in Seq(Frame)
  PROVE  /\ Len(stack) \in Nat /\ \A i \in 1..Len(stack) : stack[i] \in Frame
         /\ stack # <<>> <=> Len(stack) > 0
         /\ \A f \in Frame : stack' = Push(f) => Pushed(f)
         /\ stack # <<>> /\ stack' = Pop => Popped
         /\ \A f \in Frame : stack # <<>> /\ stack' = SetTop(f) => Stepped(f)
<1>1. /\ Len(stack) \in Nat /\ \A i \in 1..Len(stack) : stack[i] \in Frame
      /\ stack # <<>> <=> Len(stack) > 0
  OBVIOUS
<1>2. ASSUME NEW f \in Frame, stack' = Push(f) PROVE Pushed(f)
  BY <1>2 DEF Push, Pushed
<1>3. ASSUME stack # <<>>, stack' = Pop PROVE Popped
  <2>1. \A i \in 1..(Len(stack) - 1) : stack[i] \in Frame
    BY <1>1
  <2> DEFINE t == SubSeq(stack, 1, Len(stack) - 1)
  <2>2. /\ t \in Seq(Frame) /\ Len(t) = IF 1 <= Len(stack) - 1 THEN Len(stack) - 1 - 1 + 1 ELSE 0
        /\ \A i \in 1..(Len(stack) - 1 - 1 + 1) : t[i] = stack[1 + i - 1]
    BY <1>1, <2>1, SubSeqProperties
  <2>3. stack' = t
    BY <1>3 DEF Pop
  <2> HIDE DEF t
  <2> DEFINE n == Len(stack)
  <2>4. Len(t) = n - 1
    <3>1. n \in Nat /\ n > 0
      BY <1>1, <1>3
    <3> HIDE DEF n
    <3>2. CASE n = 1
      BY <2>2, <3>2 DEF n
    <3>3. CASE n # 1
      <4>1. 1 <= n - 1
        BY <3>1, <3>3
      <4> QED
        BY <2>2, <3>1, <4>1 DEF n
    <3> QED
      BY <3>2, <3>3
  <2>5. \A i \in 1..(Len(stack) - 1) : t[i] = stack[i]
    BY <1>1, <2>2
  <2> QED
    BY <2>2, <2>3, <2>4, <2>5 DEF Popped
<1>4. ASSUME NEW f \in Frame, stack # <<>>, stack' = SetTop(f) PROVE Stepped(f)
  <2>1. Len(stack) \in 1..Len(stack)
    BY <1>1, <1>4
  <2> QED
    BY <1>4, <2>1 DEF SetTop, Stepped
<1> QED
  BY <1>1, <1>2, <1>3, <1>4

\* The topmost frame.
LEMMA TopFrame ==
  ASSUME stack \in Seq(Frame), stack # <<>>
  PROVE  /\ Len(stack) \in 1..Len(stack) /\ Top = stack[Len(stack)] /\ Top \in Frame
         /\ Top.kind = "root" \/ Top.kind = "gc"
         /\ Top.kind = "gc" => Top \in GcFrame /\ Len(stack) \in Collections
         /\ Top.kind = "root" => Top \in RootFrame
<1>1. Len(stack) \in 1..Len(stack) /\ Top = stack[Len(stack)] /\ stack[Len(stack)] \in Frame
  BY DEF Top
<1> QED
  BY <1>1, Frames DEF Collections

LEMMA NoFrame == Top.kind \in {"gc", "root"} => stack # <<>>
BY DEF Top

-----------------------------------------------------------------------------
(* Steps of the buffer and of the words.                                    *)

HeapTyped == /\ allocated \in SUBSET Node /\ refcount \in [Zval -> 0..(MaxRefs + 1)]
             /\ refs \in [Zval -> 0..MaxRefs]
WordTyped == color \in [Node -> {"black", "purple"}] /\ ptr \in [Node -> Entry \cup Zval \cup {Null, End}]
BufferTyped == /\ named \in [Entry -> Node \cup {Null}] /\ roots \in SUBSET Entry /\ unused \in SUBSET Entry
               /\ last_unused \in {0, GC_ROOT_BUFFER_MAX_ENTRIES}
               /\ first_unused \in 1..(last_unused + 1)
ListsTyped == free_list \in Zval \cup {Null, End} /\ next_to_free \in Zval \cup {Null, End}
StackTyped == stack \in Seq(Frame) /\ Len(stack) <= MaxDepth

LEMMA TypeParts ==
  TypeOK <=> HeapTyped /\ WordTyped /\ BufferTyped /\ gc_enabled \in BOOLEAN /\ ListsTyped /\ StackTyped
BY DEF TypeOK, HeapTyped, WordTyped, BufferTyped, ListsTyped, StackTyped

\* Entries, nodes and the two null values are apart.
LEMMA Constants ==
  /\ IsFiniteSet(Zval) /\ Zval \cap Obj = {} /\ Zval \subseteq Node /\ Obj \subseteq Node
  /\ Node = Zval \cup Obj /\ \A n \in Node : n \in Zval \/ n \in Obj
  /\ GC_ROOT_BUFFER_MAX_ENTRIES \in Nat /\ GC_ROOT_BUFFER_MAX_ENTRIES > 0
  /\ MaxRefs \in Nat /\ MaxRefs >= 1 /\ MaxDepth \in Nat
  /\ Entry \cap Node = {} /\ Null # End
  /\ Null \notin Node /\ Null \notin Entry /\ End \notin Node /\ End \notin Entry
  /\ Entry = 1..GC_ROOT_BUFFER_MAX_ENTRIES
BY BufferAssumption DEF Node, Entry

\* The zval a release of n leaves as it was: what is on a list keeps its word.
KeepsLinks ==
  \A z \in Zval : /\ ptr'[z] \in Zval \cup {End} <=> z \in Links
                  /\ z \in Links => ptr'[z] = ptr[z] /\ color'[z] = color[z]

\* n may be another colour, and all else of the words and the buffer is as it was.
Colours(n) ==
  /\ color' \in [Node -> {"black", "purple"}] /\ \A m \in Node : color'[m] = color[m] \/ m = n
  /\ UNCHANGED <<ptr, buffer>>

LEMMA ColoursKeeps ==
  ASSUME WordTyped, BufferTyped, NEW n \in Node \ Links, Colours(n)
  PROVE  /\ WordTyped' /\ BufferTyped' /\ KeepsLinks
         /\ Words /\ allocated \subseteq allocated' /\ gc_enabled' = gc_enabled => Words'
<1>1. WordTyped' /\ BufferTyped'
  BY DEF Colours, WordTyped, BufferTyped, buffer
<1>2. KeepsLinks
  BY Constants DEF Colours, KeepsLinks, Links
<1>3. ASSUME Words, allocated \subseteq allocated', gc_enabled' = gc_enabled PROVE Words'
  BY <1>3 DEF Colours, Words, buffer
<1> QED
  BY <1>1, <1>2, <1>3

\* An entry that is free, and the one the buffer gives first.
Free(e) == e \in unused \/ (unused = {} /\ e = first_unused /\ first_unused <= last_unused)

LEMMA FreeEntry ==
  ASSUME BufferTyped, Words, NEW e, Free(e)
  PROVE  e \in Entry /\ e \notin roots
<1>1. CASE e \in unused
  BY <1>1 DEF BufferTyped, Words
<1>2. CASE unused = {} /\ e = first_unused /\ first_unused <= last_unused
  BY <1>2, Constants DEF BufferTyped, Words
<1> QED
  BY <1>1, <1>2 DEF Free

LEMMA TakeKeeps ==
  ASSUME WordTyped, BufferTyped, Words, NEW n \in Node, n \in Zval => ptr[n] = Null /\ n \in allocated,
         NEW e, Free(e), Take(e, n)
  PROVE  /\ WordTyped' /\ BufferTyped' /\ KeepsLinks
         /\ \A m \in Node : ptr'[m] = IF m = n THEN e ELSE ptr[m]
         /\ first_unused' >= first_unused
         /\ allocated \subseteq allocated' /\ gc_enabled' = gc_enabled => Words'
<1>1. e \in Entry /\ e \notin roots
  BY FreeEntry
<1>2. \A m \in Node : ptr'[m] = IF m = n THEN e ELSE ptr[m]
  BY DEF Take, WordTyped
<1>3. \A m \in Node : m # n => color'[m] = color[m]
  BY DEF Take, WordTyped
<1>4. WordTyped'
  BY <1>1 DEF Take, WordTyped
<1>5. first_unused \in Nat /\ first_unused' \in Nat /\ last_unused \in Nat /\ first_unused' >= first_unused
  BY Constants DEF Take, BufferTyped
<1>6. BufferTyped'
  <2>1. named' \in [Entry -> Node \cup {Null}] /\ roots' \in SUBSET Entry /\ unused' \in SUBSET Entry
    BY <1>1 DEF Take, BufferTyped
  <2>2. first_unused' \in 1..(last_unused' + 1) /\ last_unused' = last_unused
    BY <1>5 DEF Take, BufferTyped, Free
  <2> QED
    BY <2>1, <2>2 DEF BufferTyped
<1>7. KeepsLinks
  BY <1>1, <1>2, <1>3, Constants DEF KeepsLinks, Links
<1>8. ASSUME allocated \subseteq allocated', gc_enabled' = gc_enabled PROVE Words'
  <2>1. \A d \in Entry : named'[d] = IF d = e THEN n ELSE named[d]
    BY DEF Take, BufferTyped
  <2>2. /\ \A m \in Node, d \in Entry : ptr'[m] = d => d \in roots' /\ named'[d] = m
        /\ \A z \in Zval, d \in roots' : named'[d] = z => ptr'[z] = d
    <3>1. roots' = roots \cup {e} /\ roots \subseteq Entry
      BY DEF Take, BufferTyped
    <3>2. ASSUME NEW z \in Zval, NEW d \in roots', named'[d] = z PROVE ptr'[z] = d
      <4>1. CASE d = e
        BY <1>1, <1>2, <2>1, <3>2, <4>1, Constants
      <4>2. CASE d # e
        <5>1. d \in roots /\ d \in Entry /\ ptr[z] = d
          BY <2>1, <3>1, <3>2, <4>2 DEF Words
        <5> QED
          BY <1>2, <5>1, Constants
      <4> QED
        BY <4>1, <4>2
    <3> QED
      BY <1>1, <1>2, <2>1, <3>1, <3>2 DEF Words
  <2>3. \A d \in Entry : named'[d] # Null <=> d \in roots'
    BY <1>1, <2>1, Constants DEF Take, Words
  <2>4. \A o \in Obj : ptr'[o] \in Entry \cup {Null}
    BY <1>1, <1>2, Constants DEF Words
  <2>5. \A z \in Zval \ allocated' : ptr'[z] = Null
    BY <1>2, <1>8, Constants DEF Words
  <2>6. roots' \cap unused' = {} /\ roots' \cup unused' = 1..(first_unused' - 1)
    <3>1. CASE e \in unused
      BY <3>1, <1>1 DEF Take, Words
    <3>2. CASE e \notin unused
      <4>1. unused = {} /\ e = first_unused /\ first_unused' = first_unused + 1
        BY <3>2 DEF Free, Take
      <4>2. roots = 1..(first_unused - 1) /\ roots' = roots \cup {first_unused} /\ unused' = {}
        BY <4>1 DEF Words, Take
      <4>3. 1..(first_unused' - 1) = (1..(first_unused - 1)) \cup {first_unused}
        BY <1>5, <4>1, Constants DEF BufferTyped
      <4> QED
        BY <4>2, <4>3
    <3> QED
      BY <3>1, <3>2
  <2>7. gc_enabled' => last_unused' = GC_ROOT_BUFFER_MAX_ENTRIES
    BY <1>8 DEF Words, Take
  <2> QED
    BY <2>2, <2>3, <2>4, <2>5, <2>6, <2>7 DEF Words
<1> QED
  BY <1>2, <1>4, <1>5, <1>6, <1>7, <1>8

\* What is freed is no root any more and its word is null.
Freed(n) ==
  /\ IF ptr[n] = Null THEN UNCHANGED buffer ELSE Give(ptr[n])
  /\ \A m \in Node : ptr'[m] = (IF m = n THEN Null ELSE ptr[m]) /\ (m # n => color'[m] = color[m])
  /\ WordTyped'

LEMMA FreedKeeps ==
  ASSUME WordTyped, BufferTyped, Words, NEW n \in Node \ Links, Freed(n)
  PROVE  /\ BufferTyped' /\ KeepsLinks /\ first_unused' = first_unused
         /\ allocated \ {n} \subseteq allocated' /\ gc_enabled' = gc_enabled => Words'
<1>1. ptr[n] # Null => ptr[n] \in Entry /\ ptr[n] \in roots /\ named[ptr[n]] = n
  BY Constants DEF WordTyped, Words, Links
<1>2. KeepsLinks
  BY Constants DEF Freed, KeepsLinks, Links
<1>3. CASE ptr[n] = Null
  <2>1. UNCHANGED <<named, roots, unused, first_unused, last_unused>>
    BY <1>3 DEF Freed, buffer
  <2>2. \A m \in Node : ptr'[m] = ptr[m]
    BY <1>3 DEF Freed
  <2>3. BufferTyped' /\ first_unused' = first_unused
    BY <2>1 DEF BufferTyped
  <2>4. ASSUME allocated \ {n} \subseteq allocated', gc_enabled' = gc_enabled PROVE Words'
    BY <1>3, <2>1, <2>2, <2>4, Constants DEF Words
  <2> QED
    BY <1>2, <2>3, <2>4
<1>4. CASE ptr[n] # Null
  <2> DEFINE e == ptr[n]
  <2>1. e \in Entry /\ e \in roots /\ Give(e)
    BY <1>1, <1>4 DEF Freed
  <2>2. BufferTyped' /\ first_unused' = first_unused
    BY <2>1 DEF Give, BufferTyped
  <2>3. ASSUME allocated \ {n} \subseteq allocated', gc_enabled' = gc_enabled PROVE Words'
    <3>1. \A d \in Entry : named'[d] = IF d = e THEN Null ELSE named[d]
      BY <2>1 DEF Give, BufferTyped
    <3>2. /\ \A m \in Node, d \in Entry : ptr'[m] = d => d \in roots' /\ named'[d] = m
          /\ \A z \in Zval, d \in roots' : named'[d] = z => ptr'[z] = d
      <4>1. roots' = roots \ {e} /\ roots \subseteq Entry
        BY <2>1 DEF Give, BufferTyped
      <4>2. \A m \in Node : ptr'[m] = IF m = n THEN Null ELSE ptr[m]
        BY DEF Freed
      <4>3. ASSUME NEW z \in Zval, NEW d \in roots', named'[d] = z PROVE ptr'[z] = d
        <5>1. d \in roots /\ d # e /\ d \in Entry
          BY <4>1
        <5>2. ptr[z] = d
          BY <3>1, <4>3, <5>1 DEF Words
        <5> QED
          BY <4>2, <5>1, <5>2, Constants
      <4> QED
        BY <1>1, <2>1, <3>1, <4>1, <4>2, <4>3, Constants DEF Words
    <3>3. \A d \in Entry : named'[d] # Null <=> d \in roots'
      BY <2>1, <3>1 DEF Give, Words
    <3>4. \A o \in Obj : ptr'[o] \in Entry \cup {Null}
      BY Constants DEF Words, Freed
    <3>5. \A z \in Zval \ allocated' : ptr'[z] = Null
      BY <2>3, Constants DEF Words, Freed
    <3>6. roots' \cap unused' = {} /\ roots' \cup unused' = 1..(first_unused' - 1)
      BY <2>1 DEF Give, Words
    <3>7. gc_enabled' => last_unused' = GC_ROOT_BUFFER_MAX_ENTRIES
      BY <2>1, <2>3 DEF Words, Give
    <3> QED
      BY <3>2, <3>3, <3>4, <3>5, <3>6, <3>7 DEF Words
  <2> QED
    BY <1>2, <2>2, <2>3
<1> QED
  BY <1>3, <1>4

-----------------------------------------------------------------------------
(* Steps that leave the collections in progress as they are.                *)

KeepsFrames == Collections' = Collections /\ \A i \in Collections : stack'[i] = stack[i]

\* A list is one as long as the words of its zvals are kept.
LEMMA ChainKept ==
  ASSUME NEW c, NEW p, NEW c2, NEW p2, NEW W, NEW h, Chain(c, p, W, h),
         \A z \in W : c2[z] = c[z] /\ p2[z] = p[z]
  PROVE  Chain(c2, p2, W, h)
<1>1. PICK s \in [1..Cardinality(W) -> W] :
        /\ \A i, j \in DOMAIN s : s[i] = s[j] => i = j
        /\ \A z \in W : \E i \in DOMAIN s : s[i] = z
        /\ h = (IF s = <<>> THEN End ELSE s[1])
        /\ \A k \in DOMAIN s : c[s[k]] = "black" /\ p[s[k]] = IF k = Len(s) THEN End ELSE s[k + 1]
  BY DEF Chain
<1>2. \A k \in DOMAIN s : c2[s[k]] = "black" /\ p2[s[k]] = IF k = Len(s) THEN End ELSE s[k + 1]
  <2> SUFFICES ASSUME NEW k \in DOMAIN s
               PROVE  c2[s[k]] = "black" /\ p2[s[k]] = IF k = Len(s) THEN End ELSE s[k + 1]
    OBVIOUS
  <2>1. s[k] \in W
    BY <1>1
  <2> QED
    BY <1>1, <2>1
<1> QED
  BY <1>1, <1>2 DEF Chain

LEMMA QuietLists ==
  ASSUME Saved, Apart, Lists, KeepsLinks, KeepsFrames, UNCHANGED lists,
         \A i \in Collections : stack[i].phase = "free" => refs' = refs
  PROVE  Saved' /\ Apart' /\ Lists'
<1>1. \A z \in Zval : z \in Links' <=> z \in Links
  BY DEF KeepsLinks, Links
<1>2. Links' = Links
  BY <1>1 DEF Links
<1>3. UNCHANGED <<free_list, next_to_free>>
  BY DEF lists
<1>4. \A i \in Collections : GarbageFrom(i)' = GarbageFrom(i)
  BY DEF KeepsFrames, GarbageFrom
<1>5. Saved'
  <2>1. \A z \in Links' : color'[z] = "black"
    BY <1>2 DEF KeepsLinks, Saved, Links
  <2>2. \A i \in Collections' : stack'[i].orig_free_list = Null => Links' \subseteq GarbageFrom(i)'
    BY <1>2, <1>4 DEF KeepsFrames, Saved
  <2>3. free_list' = Null => Links' = {}
    BY <1>2, <1>3 DEF Saved
  <2>4. Collections' # {} => free_list' # Null
    BY <1>3 DEF KeepsFrames, Saved
  <2>5. \A i, j \in Collections' : i < j => stack'[j].orig_free_list # Null
    BY DEF KeepsFrames, Saved
  <2> QED
    BY <2>1, <2>2, <2>3, <2>4, <2>5 DEF Saved
<1>6. Apart'
  BY <1>2 DEF KeepsFrames, Apart
<1>7. \A i \in Collections : \A z \in stack[i].garbage : color'[z] = color[z] /\ ptr'[z] = ptr[z]
  BY DEF Apart, KeepsLinks, Links
<1>8. \A h : \A i \in Collections : IsList(stack[i].garbage, h) => Chain(color', ptr', stack[i].garbage, h)
  BY <1>7, ChainKept DEF IsList
<1>9. \A i \in Collections : Inner(i)' = Inner(i)
  BY DEF KeepsFrames, Inner
<1>10. Lists'
  <2> SUFFICES ASSUME NEW i \in Collections
               PROVE  /\ stack[i].p \in stack[i].garbage \cup {End}
                      /\ stack[i].phase = "free" =>
                           Chain(color', ptr', stack[i].garbage, stack[i].p) /\ \A z \in stack[i].garbage : refs'[z] = 0
                      /\ stack[i].phase # "free" /\ Inner(i) = {} => Chain(color', ptr', stack[i].garbage, free_list')
                      /\ stack[i].phase = "destroying" /\ Inner(i) = {} => next_to_free' \in stack[i].garbage \cup {End}
                      /\ \A j \in Collections : j \in Inner(i) /\ (\A k \in Inner(i) : j <= k) =>
                           /\ Chain(color', ptr', stack[i].garbage, stack[j].orig_free_list)
                           /\ stack[i].phase = "destroying" => stack[j].orig_next_to_free \in stack[i].garbage \cup {End}
    BY <1>9 DEF KeepsFrames, Lists, IsList, Saves
  <2> QED
    BY <1>3, <1>8 DEF Lists, Saves
<1> QED
  BY <1>5, <1>6, <1>10

-----------------------------------------------------------------------------
(* possible_root.                                                           *)

Root(n) == [kind |-> "root", node |-> n, phase |-> "full"]

LEMMA ScriptTop ==
  ASSUME StackTyped, Script, stack # <<>>
  PROVE  /\ Top = stack[Len(stack)] /\ Len(stack) \in Collections
         /\ Top.kind = "gc" /\ Top.p # End /\ Top.phase \in {"dtors", "destroying"}
BY TopFrame DEF StackTyped, Script

\* Frames under a script are not freeing.
LEMMA ScriptPhase ==
  ASSUME StackTyped, Shape, Script, NEW i \in Collections
  PROVE  stack[i].phase # "free"
<1>1. stack # <<>> /\ i \in 1..Len(stack) /\ Len(stack) \in Nat /\ stack[i].kind = "gc"
  BY Stacks DEF StackTyped, Collections
<1>2. CASE i = Len(stack)
  BY <1>1, <1>2, ScriptTop
<1>3. CASE i < Len(stack)
  BY <1>1, <1>3 DEF Shape
<1> QED
  BY <1>1, <1>2, <1>3

LEMMA SameStack ==
  ASSUME StackTyped, Shape, stack' = stack
  PROVE  StackTyped' /\ Shape' /\ KeepsFrames /\ \A m : Pinned(m)' <=> Pinned(m)
<1>1. StackTyped' /\ Shape'
  BY DEF StackTyped, Shape
<1>2. Collections' = Collections
  BY DEF Collections
<1>3. \A m : Pinned(m)' <=> Pinned(m)
  BY DEF Pinned
<1> QED
  BY <1>1, <1>2, <1>3 DEF KeepsFrames

LEMMA PushedRoot ==
  ASSUME StackTyped, Shape, Script, NEW n \in Node, Len(stack) + 2 <= MaxDepth, stack' = Push(Root(n))
  PROVE  /\ StackTyped' /\ Shape' /\ KeepsFrames
         /\ \A m : Pinned(m)' <=> Pinned(m) \/ m = n
         /\ Pushed(Root(n))
<1>1. Root(n) \in Frame /\ Root(n).kind = "root" /\ Root(n).node = n /\ Root(n).phase = "full"
  BY Frames DEF Root, RootFrame
<1>2. Pushed(Root(n)) /\ Len(stack) \in Nat
  BY <1>1, Stacks DEF StackTyped
<1> DEFINE L == Len(stack)
<1>3. /\ stack' \in Seq(Frame) /\ Len(stack') = L + 1 /\ L \in Nat /\ L + 2 <= MaxDepth
      /\ \A i \in 1..L : stack'[i] = stack[i]
      /\ stack'[L + 1] = Root(n)
  BY <1>2 DEF Pushed
<1>4. L # 0 => /\ stack[L].kind = "gc" /\ stack[L].p # End
               /\ stack[L].phase \in {"dtors", "destroying"}
  BY ScriptTop, Stacks DEF StackTyped
<1> HIDE DEF L
<1>5. StackTyped'
  BY <1>3, Constants DEF StackTyped
<1>6. Shape'
  <2> SUFFICES ASSUME NEW i \in 1..(L + 1)
               PROVE  /\ stack'[i].kind = "root" /\ i < L + 1 => stack'[i].phase # "full" /\ stack'[i + 1].kind = "gc"
                      /\ stack'[i].kind = "root" /\ stack'[i].phase = "full" => L + 1 < MaxDepth
                      /\ stack'[i].kind = "gc" /\ i < L + 1 =>
                           stack'[i].phase \in {"dtors", "destroying"} /\ stack'[i].p # End
    BY <1>3 DEF Shape
  <2>1. L + 1 < MaxDepth
    BY <1>3, Constants
  <2>2. CASE i = L + 1
    BY <1>1, <1>3, <2>1, <2>2
  <2>3. CASE i = L
    BY <1>3, <1>4, <2>1, <2>3
  <2>4. CASE i < L
    <3>1. i \in 1..L /\ i + 1 \in 1..L
      BY <1>3, <2>4
    <3> QED
      BY <1>3, <2>1, <2>4, <3>1 DEF Shape, L
  <2> QED
    BY <1>3, <2>2, <2>3, <2>4
<1>7. Collections' = Collections
  <2>1. \A i : i \in 1..(L + 1) <=> i \in 1..L \/ i = L + 1
    BY <1>3
  <2> QED
    BY <1>1, <1>3, <2>1 DEF Collections, L
<1>8. \A m : Pinned(m)' <=> Pinned(m) \/ m = n
  <2>1. \A i : i \in 1..(L + 1) <=> i \in 1..L \/ i = L + 1
    BY <1>3
  <2> QED
    BY <1>1, <1>3, <2>1 DEF Pinned, L
<1>9. KeepsFrames
  BY <1>3, <1>7 DEF KeepsFrames, Collections, L
<1> QED
  BY <1>2, <1>5, <1>6, <1>8, <1>9

LEMMA PossibleRootKeeps ==
  ASSUME TypeOK, Words, Saved, Shape, Script, NEW n \in Node, n \in allocated, PossibleRoot(n)
  PROVE  /\ WordTyped' /\ BufferTyped' /\ KeepsLinks /\ first_unused' >= first_unused
         /\ StackTyped' /\ Shape' /\ KeepsFrames
         /\ allocated \subseteq allocated' /\ gc_enabled' = gc_enabled => Words'
         /\ \A m \in Node : m # n => ptr'[m] = ptr[m]
         /\ ~Overflows(n) => stack' = stack
         /\ Overflows(n) => /\ ptr[n] = Null /\ ptr'[n] = Null
                            /\ first_unused > GC_ROOT_BUFFER_MAX_ENTRIES
                            /\ Pushed(Root(n)) /\ \A m : Pinned(m)' <=> Pinned(m) \/ m = n
<1>1. WordTyped /\ BufferTyped /\ StackTyped
  BY TypeParts
<1>2. n \in Links => n \in Zval /\ Listed(n)
  BY DEF Saved, Listed, Links
<1>3. first_unused \in Nat
  BY <1>1, Constants DEF BufferTyped
<1>4. CASE color[n] = "purple" \/ (n \in Zval /\ Listed(n))
  <2>1. UNCHANGED <<color, ptr, named, roots, unused, first_unused, last_unused, stack>>
    BY <1>4 DEF PossibleRoot, word, buffer
  <2>2. WordTyped' /\ BufferTyped' /\ KeepsLinks /\ first_unused' >= first_unused
    BY <1>1, <1>3, <2>1 DEF WordTyped, BufferTyped, KeepsLinks, Links
  <2>3. allocated \subseteq allocated' /\ gc_enabled' = gc_enabled => Words'
    BY <2>1 DEF Words
  <2>4. ~Overflows(n)
    BY <1>4 DEF Overflows
  <2> QED
    BY <1>1, <2>1, <2>2, <2>3, <2>4, SameStack
<1>5. CASE ~(color[n] = "purple" \/ (n \in Zval /\ Listed(n))) /\ ptr[n] # Null
  <2>1. color' = [color EXCEPT ![n] = "purple"] /\ UNCHANGED <<ptr, buffer, stack>>
    BY <1>5 DEF PossibleRoot
  <2>2. Colours(n) /\ n \in Node \ Links
    BY <1>1, <1>2, <1>5, <2>1 DEF Colours, WordTyped
  <2>3. ~Overflows(n) /\ first_unused' >= first_unused /\ \A m \in Node : ptr'[m] = ptr[m]
    BY <1>3, <1>5, <2>1 DEF Overflows, buffer
  <2> QED
    BY <1>1, <2>1, <2>2, <2>3, ColoursKeeps, SameStack
<1>6. CASE ~(color[n] = "purple" \/ (n \in Zval /\ Listed(n))) /\ ptr[n] = Null /\ Candidates # {}
  <2>1. PICK e \in Candidates : Take(e, n) /\ stack' = stack
    BY <1>6 DEF PossibleRoot
  <2>2. Free(e)
    BY <2>1 DEF Candidates, Free
  <2>3. ~Overflows(n)
    BY <1>6 DEF Overflows
  <2> QED
    BY <1>1, <1>6, <2>1, <2>2, <2>3, TakeKeeps, SameStack
<1>7. CASE ~(color[n] = "purple" \/ (n \in Zval /\ Listed(n))) /\ ptr[n] = Null /\ Candidates = {}
  <2>1. Overflow(n) /\ UNCHANGED buffer
    BY <1>7 DEF PossibleRoot
  <2>2. Colours(n) /\ n \in Node \ Links
    <3>1. color' \in {color, [color EXCEPT ![n] = "purple"]} /\ ptr' = ptr
      BY <2>1 DEF Overflow
    <3> QED
      BY <1>1, <1>2, <1>7, <2>1, <3>1 DEF Colours, WordTyped
  <2>3. first_unused' >= first_unused /\ \A m \in Node : ptr'[m] = ptr[m]
    BY <1>3, <2>1, <2>2 DEF Colours, buffer
  <2>4. CASE gc_enabled
    <3>1. Len(stack) + 2 <= MaxDepth /\ stack' = Push(Root(n))
      BY <2>1, <2>4 DEF Overflow, Root
    <3>2. first_unused > GC_ROOT_BUFFER_MAX_ENTRIES
      <4>1. last_unused = GC_ROOT_BUFFER_MAX_ENTRIES
        BY <2>4 DEF Words
      <4>2. ~(first_unused <= last_unused)
        BY <1>7 DEF Candidates
      <4> QED
        BY <1>3, <4>1, <4>2, Constants
    <3>3. Overflows(n)
      BY <1>7, <2>4 DEF Overflows
    <3> QED
      BY <1>1, <1>7, <2>2, <2>3, <3>1, <3>2, <3>3, ColoursKeeps, PushedRoot
  <2>5. CASE ~gc_enabled
    <3>1. stack' = stack /\ ~Overflows(n)
      BY <2>1, <2>5 DEF Overflow, Overflows
    <3> QED
      BY <1>1, <2>2, <2>3, <3>1, ColoursKeeps, SameStack
  <2> QED
    BY <2>4, <2>5
<1> QED
  BY <1>4, <1>5, <1>6, <1>7

-----------------------------------------------------------------------------
(* What scripts do.                                                         *)

LEMMA Quiet ==
  ASSUME IInv, Script, KeepsLinks, KeepsFrames, UNCHANGED lists
  PROVE  Saved' /\ Apart' /\ Lists' /\ ListsTyped'
<1>1. StackTyped /\ ListsTyped
  BY TypeParts DEF IInv
<1>2. \A i \in Collections : stack[i].phase # "free"
  BY <1>1, ScriptPhase DEF IInv
<1>3. ListsTyped'
  BY <1>1 DEF ListsTyped, lists
<1> QED
  BY <1>2, <1>3, QuietLists DEF IInv

LEMMA PinsKept ==
  ASSUME Pins, stack' = stack, first_unused \in Nat, first_unused' \in Nat, first_unused' >= first_unused,
         \A m \in Zval : Pinned(m) => m \in allocated' /\ ptr'[m] = Null
  PROVE  Pins'
BY Constants DEF Pins, Pinned

LEMMA PinFacts ==
  ASSUME IInv
  PROVE  /\ \A m : Pinned(m) => m \in Node /\ (m \in Zval => m \in allocated /\ ptr[m] = Null)
         /\ first_unused \in Nat
         /\ \A n \in Links : n \in Zval /\ n \in allocated /\ ~Pinned(n)
         /\ HeapTyped /\ WordTyped /\ BufferTyped /\ gc_enabled \in BOOLEAN /\ ListsTyped /\ StackTyped
<1>1. HeapTyped /\ WordTyped /\ BufferTyped /\ gc_enabled \in BOOLEAN /\ ListsTyped /\ StackTyped
  BY TypeParts DEF IInv
<1>2. \A m : Pinned(m) => m \in Node /\ (m \in Zval => m \in allocated /\ ptr[m] = Null)
  BY <1>1, Frames DEF IInv, Pins, Pinned, StackTyped
<1>3. first_unused \in Nat
  BY <1>1, Constants DEF BufferTyped
<1>4. \A n \in Links : n \in Zval /\ n \in allocated /\ ~Pinned(n)
  BY <1>2, Constants DEF IInv, Links, Words
<1> QED
  BY <1>1, <1>2, <1>3, <1>4

LEMMA Assembled ==
  ASSUME HeapTyped', WordTyped', BufferTyped', gc_enabled' \in BOOLEAN, ListsTyped', StackTyped',
         Words', Counts', Pins', Shape', Saved', Apart', Lists'
  PROVE  IInv'
BY DEF TypeOK, HeapTyped, WordTyped, BufferTyped, ListsTyped, StackTyped, IInv

LEMMA NewZvalKeeps ==
  ASSUME IInv, NEW z \in Zval, NewZval(z)
  PROVE  IInv'
<1>1. /\ Script /\ z \notin allocated /\ allocated' = allocated \cup {z}
      /\ refcount' = [refcount EXCEPT ![z] = 1] /\ refs' = [refs EXCEPT ![z] = 1]
      /\ color' = [color EXCEPT ![z] = "black"] /\ ptr' = [ptr EXCEPT ![z] = Null]
      /\ UNCHANGED <<buffer, gc_enabled, lists, stack>>
  BY DEF NewZval
<1>2. ptr[z] = Null /\ ~Pinned(z) /\ z \in Node \ Links
  BY <1>1, PinFacts, Constants DEF IInv, Words
<1>3. Colours(z)
  <2>1. ptr' = ptr
    BY <1>1, <1>2, PinFacts DEF WordTyped
  <2> QED
    BY <1>1, <2>1, PinFacts DEF Colours, WordTyped
<1>4. WordTyped' /\ BufferTyped' /\ KeepsLinks /\ Words'
  BY <1>1, <1>2, <1>3, ColoursKeeps, PinFacts DEF IInv
<1>5. StackTyped' /\ Shape' /\ KeepsFrames /\ \A m : Pinned(m)' <=> Pinned(m)
  BY <1>1, SameStack, PinFacts DEF IInv
<1>6. Saved' /\ Apart' /\ Lists' /\ ListsTyped'
  BY <1>1, <1>4, <1>5, Quiet
<1>7. HeapTyped'
  BY <1>1, PinFacts, Constants DEF HeapTyped, IInv
<1>8. Counts'
  BY <1>1, <1>2, <1>4, <1>5, PinFacts DEF IInv, Counts, KeepsLinks, Links, HeapTyped
<1>9. Pins'
  BY <1>1, <1>3, PinsKept, PinFacts DEF IInv, Colours, buffer
<1> QED
  BY <1>1, <1>4, <1>5, <1>6, <1>7, <1>8, <1>9, Assembled, PinFacts DEF IInv

LEMMA AddRefKeeps ==
  ASSUME IInv, NEW z \in Zval, AddRef(z)
  PROVE  IInv'
<1>1. /\ Script /\ refs[z] > 0 /\ refcount[z] < MaxRefs
      /\ refcount' = [refcount EXCEPT ![z] = @ + 1] /\ refs' = [refs EXCEPT ![z] = @ + 1]
      /\ UNCHANGED <<allocated, color, ptr, named, roots, unused, first_unused, last_unused, gc_enabled, lists, stack>>
  BY DEF AddRef, word, buffer
<1>2. WordTyped' /\ BufferTyped' /\ KeepsLinks /\ Words'
  BY <1>1, PinFacts DEF IInv, WordTyped, BufferTyped, KeepsLinks, Links, Words
<1>3. StackTyped' /\ Shape' /\ KeepsFrames /\ \A m : Pinned(m)' <=> Pinned(m)
  BY <1>1, SameStack, PinFacts DEF IInv
<1>4. Saved' /\ Apart' /\ Lists' /\ ListsTyped'
  BY <1>1, <1>2, <1>3, Quiet
<1>5. refs[z] <= refcount[z] /\ refcount[z] \in Nat /\ refs[z] \in Nat
  BY PinFacts, Constants DEF IInv, Counts, HeapTyped
<1>6. HeapTyped'
  BY <1>1, <1>5, PinFacts, Constants DEF HeapTyped
<1>7. Counts'
  <2>1. \A y \in Zval : y \in Links' <=> y \in Links
    BY <1>1 DEF Links
  <2>2. z \in allocated
    BY <1>1, <1>5 DEF IInv, Counts
  <2>3. \A y \in Zval : refcount[y] \in Nat /\ refs[y] \in Nat
    BY PinFacts, Constants DEF HeapTyped
  <2>4. \A y \in Zval : /\ refcount'[y] = IF y = z THEN refcount[y] + 1 ELSE refcount[y]
                        /\ refs'[y] = IF y = z THEN refs[y] + 1 ELSE refs[y]
    BY <1>1, PinFacts DEF HeapTyped
  <2> QED
    BY <1>1, <1>3, <2>1, <2>2, <2>3, <2>4 DEF IInv, Counts
<1>8. Pins'
  BY <1>1, PinsKept, PinFacts DEF IInv
<1> QED
  BY <1>1, <1>2, <1>3, <1>4, <1>6, <1>7, <1>8, Assembled, PinFacts DEF IInv

\* The zval whose release started a collection is pinned from then on.
LEMMA PinsPushed ==
  ASSUME Pins, NEW n \in Node, ~Pinned(n) \/ n \in Obj, n \in Zval => n \in allocated' /\ ptr'[n] = Null,
         Pushed(Root(n)), StackTyped,
         first_unused \in Nat, first_unused' \in Nat, first_unused' >= first_unused,
         first_unused > GC_ROOT_BUFFER_MAX_ENTRIES,
         \A m \in Zval : Pinned(m) => m \in allocated' /\ ptr'[m] = Null
  PROVE  Pins'
<1> DEFINE L == Len(stack)
<1>1. L \in Nat /\ Len(stack') = L + 1 /\ stack'[L + 1].node = n /\ \A i \in 1..L : stack'[i] = stack[i]
  BY Stacks DEF Pushed, StackTyped, Root
<1>2. \A i \in 1..L : stack[i].kind = "root" =>
        Pinned(stack[i].node) /\ (stack[i].node # n \/ stack[i].node \in Obj)
  BY DEF Pinned
<1>3. first_unused' > GC_ROOT_BUFFER_MAX_ENTRIES
  BY Constants
<1>4. \A i, j \in 1..L :
        stack[i].kind = "root" /\ stack[j].kind = "root" /\ stack[i].node = stack[j].node
          => i = j \/ stack[i].node \in Obj
  BY DEF Pins
<1> HIDE DEF L
<1>5. \A i : i \in 1..(L + 1) <=> i \in 1..L \/ i = L + 1
  BY <1>1
<1>6. \A i \in 1..Len(stack') : stack'[i].kind = "root" =>
        /\ stack'[i].node \in Zval => stack'[i].node \in allocated' /\ ptr'[stack'[i].node] = Null
        /\ first_unused' > GC_ROOT_BUFFER_MAX_ENTRIES
  BY <1>1, <1>2, <1>3, <1>5
<1>7. \A i, j \in 1..Len(stack') :
        stack'[i].kind = "root" /\ stack'[j].kind = "root" /\ stack'[i].node = stack'[j].node
          => i = j \/ stack'[i].node \in Obj
  BY <1>1, <1>2, <1>4, <1>5
<1> QED
  BY <1>6, <1>7 DEF Pins

LEMMA PossibleRootPins ==
  ASSUME IInv, Script, NEW n \in Node, n \in allocated, ~Pinned(n) \/ n \in Obj, PossibleRoot(n),
         allocated \subseteq allocated'
  PROVE  Pins'
<1>1. /\ WordTyped' /\ BufferTyped' /\ first_unused' >= first_unused
      /\ \A m \in Node : m # n => ptr'[m] = ptr[m]
      /\ ~Overflows(n) => stack' = stack
      /\ Overflows(n) => ptr'[n] = Null /\ first_unused > GC_ROOT_BUFFER_MAX_ENTRIES /\ Pushed(Root(n))
  BY PossibleRootKeeps DEF IInv
<1>2. \A m \in Zval : Pinned(m) => m \in allocated' /\ ptr'[m] = Null
  BY <1>1, PinFacts, Constants
<1>3. first_unused \in Nat /\ first_unused' \in Nat
  BY <1>1, PinFacts, Constants DEF BufferTyped
<1> QED
  BY <1>1, <1>2, <1>3, PinsKept, PinsPushed, PinFacts DEF IInv

LEMMA ReleaseKeeps ==
  ASSUME IInv, TouchPinned = FALSE, NEW z \in Zval, DelRef(z), refcount[z] > 1
  PROVE  IInv'
<1>1. /\ Script /\ refs[z] > 0 /\ ~Pinned(z) /\ refs' = [refs EXCEPT ![z] = @ - 1]
      /\ refcount' = [refcount EXCEPT ![z] = IF Overflows(z) THEN @ ELSE @ - 1]
      /\ PossibleRoot(z)
      /\ UNCHANGED <<allocated, next_to_free, gc_enabled, free_list>>
  BY DEF DelRef
<1>2. \A y \in Zval : /\ refcount[y] \in 0..(MaxRefs + 1) /\ refs[y] \in 0..MaxRefs
                      /\ refcount[y] \in Nat /\ refs[y] \in Nat /\ refs[y] <= refcount[y]
  BY PinFacts, Constants DEF IInv, Counts, HeapTyped
<1>3. z \in allocated /\ z \in Node
  BY <1>1, <1>2, Constants DEF IInv, Counts
<1>4. /\ WordTyped' /\ BufferTyped' /\ KeepsLinks /\ StackTyped' /\ Shape' /\ KeepsFrames /\ Words'
      /\ ~Overflows(z) => stack' = stack
      /\ Overflows(z) => ptr[z] = Null /\ \A m : Pinned(m)' <=> Pinned(m) \/ m = z
  BY <1>1, <1>3, PossibleRootKeeps DEF IInv
<1>5. Pins'
  BY <1>1, <1>3, PossibleRootPins
<1>6. Saved' /\ Apart' /\ Lists' /\ ListsTyped'
  BY <1>1, <1>4, Quiet DEF lists
<1>7. \A y \in Zval : /\ refcount'[y] = (IF y # z THEN refcount[y] ELSE IF Overflows(z) THEN refcount[z] ELSE refcount[z] - 1)
                      /\ refs'[y] = IF y = z THEN refs[y] - 1 ELSE refs[y]
  BY <1>1, PinFacts DEF HeapTyped
<1>8. HeapTyped'
  <2>1. refcount[z] - 1 \in 0..(MaxRefs + 1) /\ refs[z] - 1 \in 0..MaxRefs
    BY <1>1, <1>2, Constants
  <2> QED
    BY <1>1, <1>2, <2>1, PinFacts DEF HeapTyped
<1>9. Counts'
  <2>1. \A y \in Zval : y \in Links' <=> y \in Links
    BY <1>4 DEF KeepsLinks, Links
  <2>2. CASE Overflows(z)
    <3>1. z \notin Links
      BY <1>4, <2>2, Constants DEF Links
    <3> QED
      BY <1>1, <1>2, <1>3, <1>4, <1>7, <2>1, <2>2, <3>1 DEF IInv, Counts
  <2>3. CASE ~Overflows(z)
    <3>1. \A m : Pinned(m)' <=> Pinned(m)
      BY <1>4, <2>3 DEF Pinned
    <3> QED
      BY <1>1, <1>2, <1>3, <1>7, <2>1, <2>3, <3>1 DEF IInv, Counts
  <2> QED
    BY <2>2, <2>3
<1> QED
  BY <1>1, <1>4, <1>5, <1>6, <1>8, <1>9, Assembled, PinFacts DEF IInv

LEMMA FreeKeeps ==
  ASSUME IInv, TouchPinned = FALSE, NEW z \in Zval, DelRef(z), ~(refcount[z] > 1)
  PROVE  IInv'
<1>1. /\ Script /\ refs[z] > 0 /\ ~Pinned(z) /\ refs' = [refs EXCEPT ![z] = @ - 1]
      /\ allocated' = allocated \ {z} /\ refcount' = [refcount EXCEPT ![z] = 0]
      /\ RemoveFromBuffer(z)
      /\ color' = [color EXCEPT ![z] = "black"] /\ ptr' = [ptr EXCEPT ![z] = Null]
      /\ UNCHANGED <<stack, gc_enabled, free_list>>
  BY DEF DelRef
<1>2. \A y \in Zval : /\ refcount[y] \in 0..(MaxRefs + 1) /\ refs[y] \in 0..MaxRefs
                      /\ refcount[y] \in Nat /\ refs[y] \in Nat /\ refs[y] <= refcount[y]
  BY PinFacts, Constants DEF IInv, Counts, HeapTyped
<1>3. refs[z] = 1 /\ refcount[z] = 1 /\ z \in Node \ Links
  BY <1>1, <1>2, Constants DEF IInv, Counts
<1>4. UNCHANGED lists /\ Freed(z)
  <2>1. ~Listed(z)
    BY <1>3 DEF Listed, Links
  <2>2. UNCHANGED next_to_free /\ IF ptr[z] = Null THEN UNCHANGED buffer ELSE Give(ptr[z])
    BY <1>1, <2>1 DEF RemoveFromBuffer
  <2>3. \A m \in Node : ptr'[m] = (IF m = z THEN Null ELSE ptr[m]) /\ (m # z => color'[m] = color[m])
    BY <1>1, PinFacts DEF WordTyped
  <2>4. WordTyped'
    BY <1>1, PinFacts DEF WordTyped
  <2> QED
    BY <1>1, <2>2, <2>3, <2>4 DEF Freed, lists
<1>5. WordTyped' /\ BufferTyped' /\ KeepsLinks /\ Words' /\ first_unused' = first_unused
  BY <1>1, <1>3, <1>4, FreedKeeps, PinFacts DEF Freed, IInv
<1>6. StackTyped' /\ Shape' /\ KeepsFrames /\ \A m : Pinned(m)' <=> Pinned(m)
  BY <1>1, SameStack, PinFacts DEF IInv
<1>7. Saved' /\ Apart' /\ Lists' /\ ListsTyped'
  BY <1>1, <1>4, <1>5, <1>6, Quiet
<1>8. \A y \in Zval : /\ refcount'[y] = (IF y = z THEN 0 ELSE refcount[y])
                      /\ refs'[y] = IF y = z THEN 0 ELSE refs[y]
  BY <1>1, <1>3, PinFacts DEF HeapTyped
<1>9. HeapTyped'
  BY <1>1, <1>2, <1>3, PinFacts, Constants DEF HeapTyped
<1>10. Counts'
  <2>1. \A y \in Zval : y \in Links' <=> y \in Links
    BY <1>5 DEF KeepsLinks, Links
  <2> QED
    BY <1>1, <1>2, <1>3, <1>6, <1>8, <2>1 DEF IInv, Counts
<1>11. Pins'
  BY <1>1, <1>4, <1>5, PinsKept, PinFacts DEF IInv, Freed
<1> QED
  BY <1>1, <1>5, <1>6, <1>7, <1>9, <1>10, <1>11, Assembled, PinFacts DEF IInv

\* The counts are about zvals only.
LEMMA CountsKept ==
  ASSUME IInv, UNCHANGED <<refcount, refs>>, KeepsLinks,
         \A z \in Zval : z \in allocated => z \in allocated',
         \A z \in Zval : Pinned(z)' => Pinned(z)
  PROVE  Counts'
<1>1. \A y \in Zval : y \in Links' <=> y \in Links
  BY DEF KeepsLinks, Links
<1> QED
  BY <1>1 DEF IInv, Counts

LEMMA NewObjectKeeps ==
  ASSUME IInv, NEW o \in Obj, NewObject(o)
  PROVE  IInv'
<1>1. /\ Script /\ o \notin allocated /\ allocated' = allocated \cup {o}
      /\ color' = [color EXCEPT ![o] = "black"] /\ ptr' = [ptr EXCEPT ![o] = Null]
      /\ UNCHANGED <<refcount, refs, buffer, gc_enabled, lists, stack>>
  BY DEF NewObject
<1>2. o \in Node /\ o \notin Zval
  BY Constants
<1>3. \A m \in Node : ptr'[m] = (IF m = o THEN Null ELSE ptr[m]) /\ (m # o => color'[m] = color[m])
  BY <1>1, PinFacts DEF WordTyped
<1>4. WordTyped' /\ BufferTyped' /\ KeepsLinks /\ Words'
  <2>1. WordTyped' /\ BufferTyped'
    BY <1>1, <1>2, PinFacts DEF WordTyped, BufferTyped, buffer
  <2>2. KeepsLinks
    BY <1>2, <1>3, Constants DEF KeepsLinks, Links
  <2>3. Words'
    BY <1>1, <1>2, <1>3, Constants DEF IInv, Words, buffer
  <2> QED
    BY <2>1, <2>2, <2>3
<1>5. StackTyped' /\ Shape' /\ KeepsFrames /\ \A m : Pinned(m)' <=> Pinned(m)
  BY <1>1, SameStack, PinFacts DEF IInv
<1>6. Saved' /\ Apart' /\ Lists' /\ ListsTyped'
  BY <1>1, <1>4, <1>5, Quiet
<1>7. HeapTyped'
  BY <1>1, PinFacts, Constants DEF HeapTyped
<1>8. Counts'
  BY <1>1, <1>4, <1>5, CountsKept
<1>9. Pins'
  BY <1>1, <1>2, <1>3, PinsKept, PinFacts, Constants DEF IInv, buffer
<1> QED
  BY <1>1, <1>4, <1>5, <1>6, <1>7, <1>8, <1>9, Assembled, PinFacts DEF IInv

LEMMA DelObjectRefKeeps ==
  ASSUME IInv, NEW o \in Obj, DelObjectRef(o)
  PROVE  IInv'
<1>1. /\ Script /\ o \in allocated /\ PossibleRoot(o)
      /\ UNCHANGED <<allocated, refcount, refs, gc_enabled, lists>>
  BY DEF DelObjectRef, heap
<1>2. /\ WordTyped' /\ BufferTyped' /\ KeepsLinks /\ StackTyped' /\ Shape' /\ KeepsFrames /\ Words'
      /\ ~Overflows(o) => stack' = stack
      /\ Overflows(o) => \A m : Pinned(m)' <=> Pinned(m) \/ m = o
  BY <1>1, PossibleRootKeeps, Constants DEF IInv
<1>3. Pins'
  BY <1>1, PossibleRootPins, Constants
<1>4. Saved' /\ Apart' /\ Lists' /\ ListsTyped'
  BY <1>1, <1>2, Quiet
<1>5. HeapTyped'
  BY <1>1, PinFacts DEF HeapTyped
<1>6. \A z \in Zval : Pinned(z)' => Pinned(z)
  <2>1. CASE Overflows(o)
    BY <1>2, <2>1, Constants
  <2>2. CASE ~Overflows(o)
    BY <1>2, <2>2 DEF Pinned
  <2> QED
    BY <2>1, <2>2
<1>7. Counts'
  BY <1>1, <1>2, <1>6, CountsKept
<1> QED
  BY <1>1, <1>2, <1>3, <1>4, <1>5, <1>7, Assembled, PinFacts DEF IInv

LEMMA FreeObjectKeeps ==
  ASSUME IInv, NEW o \in Obj, FreeObject(o)
  PROVE  IInv'
<1>1. /\ Script /\ o \in allocated /\ allocated' = allocated \ {o}
      /\ IF ptr[o] = Null THEN UNCHANGED <<buffer, word>>
         ELSE Give(ptr[o]) /\ color' = [color EXCEPT ![o] = "black"] /\ ptr' = [ptr EXCEPT ![o] = Null]
      /\ UNCHANGED <<refcount, refs, gc_enabled, lists, stack>>
  BY DEF FreeObject
<1>2. o \in Node \ Links
  BY Constants DEF Links
<1>3. Freed(o)
  <2>1. CASE ptr[o] = Null
    <3>1. UNCHANGED <<color, ptr>>
      BY <1>1, <2>1 DEF word
    <3> QED
      BY <1>1, <2>1, <3>1, PinFacts DEF Freed, WordTyped
  <2>2. CASE ptr[o] # Null
    BY <1>1, <2>2, PinFacts DEF Freed, WordTyped
  <2> QED
    BY <2>1, <2>2
<1>4. WordTyped' /\ BufferTyped' /\ KeepsLinks /\ Words' /\ first_unused' = first_unused
  BY <1>1, <1>2, <1>3, FreedKeeps, PinFacts DEF Freed, IInv
<1>5. StackTyped' /\ Shape' /\ KeepsFrames /\ \A m : Pinned(m)' <=> Pinned(m)
  BY <1>1, SameStack, PinFacts DEF IInv
<1>6. Saved' /\ Apart' /\ Lists' /\ ListsTyped'
  BY <1>1, <1>4, <1>5, Quiet
<1>7. HeapTyped'
  BY <1>1, PinFacts DEF HeapTyped
<1>8. Counts'
  BY <1>1, <1>4, <1>5, CountsKept, Constants
<1>9. Pins'
  <2>1. \A m \in Zval : m # o /\ m \in Node
    BY Constants
  <2>2. \A m \in Zval : Pinned(m) => m \in allocated' /\ ptr'[m] = Null
    BY <1>1, <1>3, <2>1, PinFacts DEF Freed
  <2> QED
    BY <1>1, <1>4, <2>2, PinsKept, PinFacts DEF IInv
<1> QED
  BY <1>1, <1>4, <1>5, <1>6, <1>7, <1>8, <1>9, Assembled, PinFacts DEF IInv

LEMMA OnUpdateKeeps ==
  ASSUME IInv, OnUpdateGCEnabled
  PROVE  IInv'
<1>1. /\ Script /\ gc_enabled' = ~gc_enabled
      /\ last_unused' = (IF gc_enabled' THEN GC_ROOT_BUFFER_MAX_ENTRIES ELSE last_unused)
      /\ UNCHANGED <<allocated, refcount, refs, color, ptr, named, roots, unused, first_unused, lists, stack>>
  BY DEF OnUpdateGCEnabled, heap, word
<1>2. KeepsLinks /\ WordTyped' /\ HeapTyped'
  BY <1>1, PinFacts DEF KeepsLinks, Links, WordTyped, HeapTyped
<1>3. BufferTyped' /\ gc_enabled' \in BOOLEAN
  <2>1. last_unused' \in {0, GC_ROOT_BUFFER_MAX_ENTRIES} /\ last_unused' \in Nat /\ last_unused \in Nat
    BY <1>1, PinFacts, Constants DEF BufferTyped
  <2>2. first_unused \in Nat /\ first_unused >= 1 /\ first_unused <= last_unused + 1 /\ last_unused' >= last_unused
    BY <1>1, <2>1, PinFacts, Constants DEF BufferTyped
  <2>3. first_unused' \in 1..(last_unused' + 1)
    BY <1>1, <2>1, <2>2
  <2> QED
    BY <1>1, <2>1, <2>3, PinFacts DEF BufferTyped
<1>4. Words'
  BY <1>1 DEF IInv, Words
<1>5. StackTyped' /\ Shape' /\ KeepsFrames /\ \A m : Pinned(m)' <=> Pinned(m)
  BY <1>1, SameStack, PinFacts DEF IInv
<1>6. Saved' /\ Apart' /\ Lists' /\ ListsTyped'
  BY <1>1, <1>2, <1>5, Quiet
<1>7. Counts'
  BY <1>1, <1>2, <1>5, CountsKept
<1>8. Pins'
  BY <1>1, PinsKept, PinFacts DEF IInv
<1> QED
  BY <1>2, <1>3, <1>4, <1>5, <1>6, <1>7, <1>8, Assembled

-----------------------------------------------------------------------------
(* Destroying what is on a list.                                            *)

\* A list starts with one of its zvals and its links lead to its zvals; an empty list is none.
LEMMA ChainFacts ==
  ASSUME NEW W \in SUBSET Zval, NEW c, NEW p, NEW h, Chain(c, p, W, h)
  PROVE  /\ h \in W \cup {End} /\ (h = End => W = {})
         /\ \A z \in W : c[z] = "black" /\ p[z] \in W \cup {End}
<1>1. PICK s \in [1..Cardinality(W) -> W] :
        /\ \A i, j \in DOMAIN s : s[i] = s[j] => i = j
        /\ \A z \in W : \E i \in DOMAIN s : s[i] = z
        /\ h = (IF s = <<>> THEN End ELSE s[1])
        /\ \A k \in DOMAIN s : c[s[k]] = "black" /\ p[s[k]] = IF k = Len(s) THEN End ELSE s[k + 1]
  BY DEF Chain
<1> DEFINE n == Cardinality(W)
<1>2. n \in Nat
  BY FS_Subset, FS_CardinalityType, Constants
<1> HIDE DEF n
<1>3. DOMAIN s = 1..n /\ s \in Seq(W) /\ Len(s) = n /\ \A i \in 1..n : s[i] \in W
  BY <1>1, <1>2 DEF n
<1>4. s # <<>> => 1 \in 1..n
  BY <1>2, <1>3
<1>5. s = <<>> => W = {}
  BY <1>1, <1>3
<1>6. h \in W \cup {End} /\ (h = End => W = {})
  BY <1>1, <1>3, <1>4, <1>5, Constants
<1>7. ASSUME NEW z \in W PROVE c[z] = "black" /\ p[z] \in W \cup {End}
  <2>1. PICK k \in 1..n : s[k] = z
    BY <1>1, <1>3
  <2>2. k # n => k + 1 \in 1..n
    BY <1>2
  <2> QED
    BY <1>1, <1>3, <2>1, <2>2
<1> QED
  BY <1>6, <1>7

\* The frame of the collection that goes on.
LEMMA TopFacts ==
  ASSUME IInv, Top.kind = "gc"
  PROVE  /\ stack # <<>> /\ Len(stack) \in Collections /\ Top = stack[Len(stack)] /\ Top \in GcFrame
         /\ Inner(Len(stack)) = {} /\ Len(stack) \in Nat
         /\ Top.garbage \in SUBSET Zval /\ Top.garbage \subseteq Links /\ Top.p \in Top.garbage \cup {End}
         /\ Top.phase # "free" => IsList(Top.garbage, free_list) /\ free_list \in Top.garbage \cup {End}
         /\ Top.phase = "free" => IsList(Top.garbage, Top.p) /\ \A z \in Top.garbage : refs[z] = 0
         /\ Top.phase = "destroying" => next_to_free \in Top.garbage \cup {End}
         /\ \A z \in Top.garbage : ptr[z] \in Top.garbage \cup {End}
<1>1. /\ stack # <<>> /\ Len(stack) \in Collections /\ Top = stack[Len(stack)] /\ Top \in GcFrame
      /\ Len(stack) \in Nat
  BY NoFrame, TopFrame, PinFacts, Stacks DEF StackTyped
<1>2. Inner(Len(stack)) = {}
  BY <1>1 DEF Inner, Collections
<1>3. Top.garbage \in SUBSET Zval /\ Top.garbage \subseteq Links
  BY <1>1 DEF IInv, Apart, Links
<1>4. /\ Top.p \in Top.garbage \cup {End}
      /\ Top.phase # "free" => IsList(Top.garbage, free_list)
      /\ Top.phase = "free" => IsList(Top.garbage, Top.p) /\ \A z \in Top.garbage : refs[z] = 0
      /\ Top.phase = "destroying" => next_to_free \in Top.garbage \cup {End}
  BY <1>1, <1>2 DEF IInv, Lists
<1>5. ASSUME NEW h, IsList(Top.garbage, h)
      PROVE  h \in Top.garbage \cup {End} /\ \A z \in Top.garbage : ptr[z] \in Top.garbage \cup {End}
  <2>1. Chain(color, ptr, Top.garbage, h)
    BY <1>5 DEF IsList
  <2> QED
    BY <1>3, <2>1, ChainFacts
<1> QED
  BY <1>1, <1>2, <1>3, <1>4, <1>5

\* A collection that goes on keeps its place among the frames.
LEMMA SteppedFrame ==
  ASSUME IInv, Top.kind = "gc", NEW g \in GcFrame, stack' = SetTop(g)
  PROVE  /\ StackTyped' /\ Shape' /\ Collections' = Collections /\ \A m : Pinned(m)' <=> Pinned(m)
         /\ \A i \in 1..Len(stack) : stack'[i] = IF i = Len(stack) THEN g ELSE stack[i]
         /\ Len(stack') = Len(stack)
         /\ \A i \in 1..Len(stack) : stack'[i].kind = stack[i].kind
<1> DEFINE L == Len(stack)
<1>1. /\ stack' \in Seq(Frame) /\ Len(stack') = L /\ L \in Nat /\ L <= MaxDepth
      /\ \A i \in 1..L : stack'[i] = IF i = L THEN g ELSE stack[i]
  BY TopFacts, Stacks, PinFacts, Frames DEF Stepped, StackTyped
<1>2. stack[L].kind = "gc" /\ g.kind = "gc"
  BY TopFacts, Frames
<1>3. \A i \in 1..L : /\ stack[i].kind = "root" /\ i < L => stack[i].phase # "full" /\ stack[i + 1].kind = "gc"
                      /\ stack[i].kind = "root" /\ stack[i].phase = "full" => L < MaxDepth
                      /\ stack[i].kind = "gc" /\ i < L => stack[i].phase \in {"dtors", "destroying"} /\ stack[i].p # End
  BY DEF IInv, Shape
<1>4. Collections' = Collections
  BY <1>1, <1>2 DEF Collections
<1>5. \A m : Pinned(m)' <=> Pinned(m)
  BY <1>1, <1>2 DEF Pinned
<1> HIDE DEF L
<1>6. \A i \in 1..L : /\ stack'[i].kind = "root" /\ i < L => stack'[i].phase # "full" /\ stack'[i + 1].kind = "gc"
                      /\ stack'[i].kind = "root" /\ stack'[i].phase = "full" => L < MaxDepth
                      /\ stack'[i].kind = "gc" /\ i < L => stack'[i].phase \in {"dtors", "destroying"} /\ stack'[i].p # End
  <2> SUFFICES ASSUME NEW i \in 1..L
               PROVE  /\ stack'[i].kind = "root" /\ i < L => stack'[i].phase # "full" /\ stack'[i + 1].kind = "gc"
                      /\ stack'[i].kind = "root" /\ stack'[i].phase = "full" => L < MaxDepth
                      /\ stack'[i].kind = "gc" /\ i < L => stack'[i].phase \in {"dtors", "destroying"} /\ stack'[i].p # End
    OBVIOUS
  <2>1. CASE i = L
    BY <1>1, <1>2, <2>1
  <2>2. CASE i < L
    <3>1. i + 1 \in 1..L
      BY <1>1, <2>2
    <3> QED
      BY <1>1, <1>2, <1>3, <2>2, <3>1
  <2> QED
    BY <1>1, <2>1, <2>2
<1>7. StackTyped' /\ Shape'
  BY <1>1, <1>6 DEF StackTyped, Shape
<1>8. \A i \in 1..L : stack'[i].kind = stack[i].kind
  BY <1>1, <1>2
<1> QED
  BY <1>1, <1>4, <1>5, <1>7, <1>8 DEF L

\* And keeps the pins.
LEMMA SteppedPins ==
  ASSUME Pins, Len(stack') = Len(stack),
         \A i \in 1..Len(stack) : stack'[i].kind = stack[i].kind /\ (stack[i].kind = "root" => stack'[i].node = stack[i].node),
         first_unused' = first_unused,
         \A m \in Zval : Pinned(m) => m \in allocated' /\ ptr'[m] = Null
  PROVE  Pins'
BY DEF Pins, Pinned

LEMMA TopStep ==
  ASSUME IInv, Top.kind = "gc", NEW g \in GcFrame, stack' = SetTop(g),
         g.garbage = Top.garbage, g.orig_free_list = Top.orig_free_list,
         g.orig_next_to_free = Top.orig_next_to_free,
         UNCHANGED <<heap, word, buffer, gc_enabled, free_list>>,
         next_to_free' \in Zval \cup {Null, End},
         g.p \in Top.garbage \cup {End},
         g.phase = "free" => IsList(Top.garbage, g.p) /\ \A z \in Top.garbage : refs[z] = 0,
         g.phase = "destroying" => next_to_free' \in Top.garbage \cup {End},
         g.phase # "free" => IsList(Top.garbage, free_list)
  PROVE  IInv'
<1> DEFINE L == Len(stack)
<1>1. /\ StackTyped' /\ Shape' /\ Collections' = Collections /\ \A m : Pinned(m)' <=> Pinned(m)
      /\ \A i \in 1..L : stack'[i] = IF i = L THEN g ELSE stack[i]
      /\ \A i \in 1..L : stack'[i].kind = stack[i].kind
      /\ Len(stack') = L
  BY SteppedFrame
<1>2. /\ L \in Collections /\ Inner(L) = {} /\ L \in Nat /\ stack[L] = Top
      /\ stack[L].kind = "gc" /\ Collections \subseteq 1..L
  BY TopFacts, Frames DEF Collections
<1>3. UNCHANGED <<allocated, refcount, refs, color, ptr, named, roots, unused, first_unused, last_unused>>
  BY DEF heap, word, buffer
<1>4. HeapTyped' /\ WordTyped' /\ BufferTyped' /\ gc_enabled' \in BOOLEAN /\ Words' /\ Links' = Links
  BY <1>3, PinFacts DEF HeapTyped, WordTyped, BufferTyped, IInv, Words, Links
<1>5. ListsTyped'
  BY PinFacts DEF ListsTyped
<1>6. Counts'
  BY <1>1, <1>3, <1>4 DEF IInv, Counts
<1>7. \A i \in 1..L : stack[i].kind = "root" => stack'[i].node = stack[i].node
  BY <1>1, <1>2
<1>8. Pins'
  BY <1>1, <1>3, <1>7, SteppedPins, PinFacts DEF IInv
<1>9. \A i \in Collections : /\ stack'[i].garbage = stack[i].garbage
                             /\ stack'[i].orig_free_list = stack[i].orig_free_list
                             /\ stack'[i].orig_next_to_free = stack[i].orig_next_to_free
                             /\ i # L => stack'[i] = stack[i]
                             /\ Inner(i)' = Inner(i)
  BY <1>1, <1>2 DEF Inner
<1>10. \A i \in Collections : GarbageFrom(i)' = GarbageFrom(i)
  BY <1>1, <1>9 DEF GarbageFrom
<1>11. Saved'
  <2>1. \A i \in Collections' : stack'[i].orig_free_list = Null => Links' \subseteq GarbageFrom(i)'
    BY <1>1, <1>4, <1>9, <1>10 DEF IInv, Saved
  <2>2. \A i, j \in Collections' : i < j => stack'[j].orig_free_list # Null
    BY <1>1, <1>9 DEF IInv, Saved
  <2>3. /\ \A z \in Links' : color'[z] = "black"
        /\ free_list' = Null => Links' = {}
        /\ Collections' # {} => free_list' # Null
    BY <1>1, <1>3, <1>4 DEF IInv, Saved
  <2> QED
    BY <2>1, <2>2, <2>3 DEF Saved
<1>12. Apart'
  BY <1>1, <1>4, <1>9 DEF IInv, Apart
<1>13. Lists'
  <2> SUFFICES ASSUME NEW i \in Collections
               PROVE  /\ stack'[i].p \in stack'[i].garbage \cup {End}
                      /\ stack'[i].phase = "free" =>
                           Chain(color, ptr, stack'[i].garbage, stack'[i].p) /\ \A z \in stack'[i].garbage : refs[z] = 0
                      /\ stack'[i].phase # "free" /\ Inner(i) = {} => Chain(color, ptr, stack'[i].garbage, free_list)
                      /\ stack'[i].phase = "destroying" /\ Inner(i) = {} => next_to_free' \in stack'[i].garbage \cup {End}
                      /\ \A j \in Collections : j \in Inner(i) /\ (\A k \in Inner(i) : j <= k) =>
                           /\ Chain(color, ptr, stack'[i].garbage, stack'[j].orig_free_list)
                           /\ stack'[i].phase = "destroying" => stack'[j].orig_next_to_free \in stack'[i].garbage \cup {End}
    BY <1>1, <1>3, <1>9 DEF Lists, IsList, Saves
  <2>1. CASE i = L
    <3>1. stack'[i] = g
      BY <1>1, <1>2, <2>1
    <3>2. g.garbage = Top.garbage /\ Inner(i) = {}
      BY <1>2, <2>1
    <3> QED
      BY <3>1, <3>2 DEF IsList
  <2>2. CASE i # L
    <3>1. Inner(i) # {}
      BY <1>2, <2>2 DEF Inner
    <3> QED
      BY <1>9, <2>2, <3>1 DEF IInv, Lists, IsList, Saves
  <2> QED
    BY <2>1, <2>2
<1> QED
  BY <1>1, <1>4, <1>5, <1>6, <1>8, <1>11, <1>12, <1>13, Assembled

LEMMA DestroyingKeeps ==
  ASSUME IInv, NextDestructor \/ Destroy \/ Destroyed \/ AllDestroyed
  PROVE  IInv'
<1>1. Top.kind = "gc"
  BY DEF NextDestructor, Destroy, Destroyed, AllDestroyed, Collecting
<1>2. Top \in GcFrame /\ Top.garbage \in SUBSET Zval
  BY <1>1, TopFacts
<1>3. ASSUME NextDestructor PROVE IInv'
  <2>1. CASE Top.p = End
    <3> DEFINE g == [Top EXCEPT !.phase = "destroy", !.p = free_list]
    <3>1. stack' = SetTop(g) /\ UNCHANGED <<heap, word, buffer, gc_enabled, lists>> /\ Top.phase = "dtors"
      BY <1>3, <2>1 DEF NextDestructor, Collecting
    <3>2. free_list \in Top.garbage \cup {End}
      BY <1>1, <3>1, TopFacts
    <3>3. /\ g \in GcFrame /\ g.phase = "destroy" /\ g.p = free_list /\ g.garbage = Top.garbage
          /\ g.orig_free_list = Top.orig_free_list /\ g.orig_next_to_free = Top.orig_next_to_free
      BY <1>2, <3>2 DEF GcFrame
    <3> HIDE DEF g
    <3> QED
      BY <1>1, <3>1, <3>2, <3>3, TopFacts, TopStep, PinFacts DEF lists, ListsTyped
  <2>2. CASE Top.p # End
    <3> DEFINE g == [Top EXCEPT !.p = ptr[Top.p]]
    <3>1. stack' = SetTop(g) /\ UNCHANGED <<heap, word, buffer, gc_enabled, lists>> /\ Top.phase = "dtors"
      BY <1>3, <2>2 DEF NextDestructor, Collecting
    <3>2. ptr[Top.p] \in Top.garbage \cup {End}
      BY <1>1, <2>2, TopFacts
    <3>3. /\ g \in GcFrame /\ g.phase = "dtors" /\ g.p = ptr[Top.p] /\ g.garbage = Top.garbage
          /\ g.orig_free_list = Top.orig_free_list /\ g.orig_next_to_free = Top.orig_next_to_free
      BY <1>2, <3>1, <3>2 DEF GcFrame
    <3> HIDE DEF g
    <3> QED
      BY <1>1, <3>1, <3>2, <3>3, TopFacts, TopStep, PinFacts DEF lists, ListsTyped
  <2> QED
    BY <2>1, <2>2
<1>4. ASSUME Destroy PROVE IInv'
  <2> DEFINE g == [Top EXCEPT !.phase = "destroying"]
  <2>1. /\ stack' = SetTop(g) /\ UNCHANGED <<heap, word, buffer, gc_enabled, free_list>>
        /\ Top.phase = "destroy" /\ Top.p # End /\ next_to_free' = ptr[Top.p]
    BY <1>4 DEF Destroy, Collecting
  <2>2. ptr[Top.p] \in Top.garbage \cup {End} /\ Top.p \in Top.garbage
    BY <1>1, <2>1, TopFacts
  <2>3. /\ g \in GcFrame /\ g.phase = "destroying" /\ g.p = Top.p /\ g.garbage = Top.garbage
        /\ g.orig_free_list = Top.orig_free_list /\ g.orig_next_to_free = Top.orig_next_to_free
    BY <1>2, <2>2 DEF GcFrame
  <2> HIDE DEF g
  <2> QED
    BY <1>1, <1>2, <2>1, <2>2, <2>3, TopFacts, TopStep
<1>5. ASSUME Destroyed PROVE IInv'
  <2> DEFINE g == [Top EXCEPT !.phase = "destroy", !.p = next_to_free]
  <2>1. stack' = SetTop(g) /\ UNCHANGED <<heap, word, buffer, gc_enabled, lists>> /\ Top.phase = "destroying"
    BY <1>5 DEF Destroyed, Collecting
  <2>2. next_to_free \in Top.garbage \cup {End}
    BY <1>1, <2>1, TopFacts
  <2>3. /\ g \in GcFrame /\ g.phase = "destroy" /\ g.p = next_to_free /\ g.garbage = Top.garbage
        /\ g.orig_free_list = Top.orig_free_list /\ g.orig_next_to_free = Top.orig_next_to_free
    BY <1>2, <2>2 DEF GcFrame
  <2> HIDE DEF g
  <2> QED
    BY <1>1, <2>1, <2>2, <2>3, TopFacts, TopStep, PinFacts DEF lists, ListsTyped
<1>6. ASSUME AllDestroyed PROVE IInv'
  <2> DEFINE g == [Top EXCEPT !.phase = "free", !.p = free_list]
  <2>1. /\ stack' = SetTop(g) /\ UNCHANGED <<heap, word, buffer, gc_enabled, lists>> /\ Top.phase = "destroy"
        /\ \A z \in Top.garbage : refs[z] = 0
    BY <1>6 DEF AllDestroyed, Collecting
  <2>2. free_list \in Top.garbage \cup {End}
    BY <1>1, <2>1, TopFacts
  <2>3. /\ g \in GcFrame /\ g.phase = "free" /\ g.p = free_list /\ g.garbage = Top.garbage
        /\ g.orig_free_list = Top.orig_free_list /\ g.orig_next_to_free = Top.orig_next_to_free
    BY <1>2, <2>2 DEF GcFrame
  <2> HIDE DEF g
  <2> QED
    BY <1>1, <2>1, <2>2, <2>3, TopFacts, TopStep, PinFacts DEF lists, ListsTyped
<1> QED
  BY <1>3, <1>4, <1>5, <1>6

-----------------------------------------------------------------------------
(* Freeing what is on a list.                                               *)

\* Without its first zval a list is the list its first link leads to.
LEMMA ChainTail ==
  ASSUME NEW W \in SUBSET Zval, NEW c, NEW p, NEW h, Chain(c, p, W, h), h # End
  PROVE  h \in W /\ Chain(c, p, W \ {h}, p[h])
<1>1. PICK s \in [1..Cardinality(W) -> W] :
        /\ \A i, j \in DOMAIN s : s[i] = s[j] => i = j
        /\ \A z \in W : \E i \in DOMAIN s : s[i] = z
        /\ h = (IF s = <<>> THEN End ELSE s[1])
        /\ \A k \in DOMAIN s : c[s[k]] = "black" /\ p[s[k]] = IF k = Len(s) THEN End ELSE s[k + 1]
  BY DEF Chain
<1> DEFINE n == Cardinality(W)
<1>2. n \in Nat
  BY FS_Subset, FS_CardinalityType, Constants
<1>0. Cardinality(W \ {h}) = (IF h \in W THEN n - 1 ELSE n)
  BY FS_Subset, FS_RemoveElement, Constants
<1> HIDE DEF n
<1>3. s \in [1..n -> W] /\ DOMAIN s = 1..n /\ s \in Seq(W) /\ Len(s) = n /\ \A i \in 1..n : s[i] \in W
  BY <1>1, <1>2 DEF n
<1>inj. \A i, j \in 1..n : s[i] = s[j] => i = j
  BY <1>1, <1>3
<1>lnk. \A k \in 1..n : c[s[k]] = "black" /\ p[s[k]] = IF k = n THEN End ELSE s[k + 1]
  BY <1>1, <1>3
<1>4. s # <<>> /\ h = s[1] /\ 1 \in 1..n
  BY <1>1, <1>2, <1>3
<1>5. h \in W /\ n \in Nat /\ n - 1 \in Nat /\ Cardinality(W \ {h}) = n - 1
  BY <1>0, <1>2, <1>3, <1>4
<1> DEFINE t == [k \in 1..(n - 1) |-> s[k + 1]]
<1>6. \A k \in 1..(n - 1) : k + 1 \in 1..n /\ k + 1 # 1 /\ t[k] = s[k + 1]
  BY <1>5
<1>7. t \in [1..(n - 1) -> W \ {h}]
  <2>1. ASSUME NEW k \in 1..(n - 1) PROVE s[k + 1] \in W \ {h}
    <3>1. k + 1 \in 1..n /\ k + 1 # 1
      BY <1>6
    <3>2. s[k + 1] # s[1]
      BY <1>inj, <1>4, <3>1
    <3> QED
      BY <1>3, <1>4, <3>1, <3>2
  <2> QED
    BY <2>1
<1>8. DOMAIN t = 1..(n - 1) /\ Len(t) = n - 1
  BY <1>5, <1>7
<1>9. t = <<>> <=> n = 1
  BY <1>5, <1>7, <1>8
<1> HIDE DEF t
<1>10. ASSUME NEW i \in 1..(n - 1), NEW j \in 1..(n - 1), t[i] = t[j] PROVE i = j
  <2>1. i + 1 = j + 1
    BY <1>inj, <1>6, <1>10
  <2> QED
    BY <2>1
<1>11. ASSUME NEW z \in W \ {h} PROVE \E i \in DOMAIN t : t[i] = z
  <2>1. PICK k \in 1..n : s[k] = z
    BY <1>1, <1>3
  <2>2. k - 1 \in 1..(n - 1) /\ (k - 1) + 1 = k
    BY <1>2, <1>4, <2>1
  <2> QED
    BY <1>6, <1>8, <2>1, <2>2
<1>12. p[h] = IF t = <<>> THEN End ELSE t[1]
  <2>1. CASE n = 1
    BY <1>1, <1>3, <1>4, <1>9, <2>1
  <2>2. CASE n # 1
    <3>1. 1 \in 1..(n - 1)
      BY <1>5, <2>2
    <3> QED
      BY <1>lnk, <1>4, <1>5, <1>6, <1>9, <2>2, <3>1
  <2> QED
    BY <2>1, <2>2
<1>13. ASSUME NEW k \in DOMAIN t
       PROVE  c[t[k]] = "black" /\ p[t[k]] = IF k = Len(t) THEN End ELSE t[k + 1]
  <2>1. k \in 1..(n - 1) /\ k + 1 \in 1..n /\ t[k] = s[k + 1]
    BY <1>6, <1>8
  <2>2. c[s[k + 1]] = "black" /\ p[s[k + 1]] = IF k + 1 = n THEN End ELSE s[(k + 1) + 1]
    BY <1>lnk, <2>1
  <2>3. k + 1 = n <=> k = Len(t)
    BY <1>5, <1>8, <2>1
  <2>4. CASE k + 1 = n
    BY <2>1, <2>2, <2>3, <2>4
  <2>5. CASE k + 1 # n
    <3>1. k + 1 \in 1..(n - 1)
      BY <1>5, <2>1, <2>5
    <3> QED
      BY <1>6, <2>1, <2>2, <2>3, <2>5, <3>1
  <2> QED
    BY <2>4, <2>5
<1>14. t \in [1..Cardinality(W \ {h}) -> W \ {h}]
  BY <1>5, <1>7
<1>15. \A i, j \in DOMAIN t : t[i] = t[j] => i = j
  BY <1>8, <1>10
<1>16. \A z \in W \ {h} : \E i \in DOMAIN t : t[i] = z
  BY <1>11
<1>17. \A k \in DOMAIN t : c[t[k]] = "black" /\ p[t[k]] = IF k = Len(t) THEN End ELSE t[k + 1]
  BY <1>13
<1>18. Chain(c, p, W \ {h}, p[h])
  BY <1>12, <1>14, <1>15, <1>16, <1>17 DEF Chain
<1> QED
  BY <1>5, <1>18

LEMMA FreeZvalKeeps ==
  ASSUME IInv, FreeZval
  PROVE  IInv'
<1> DEFINE L == Len(stack)
           y == Top.p
           g == [Top EXCEPT !.p = ptr[Top.p], !.garbage = @ \ {Top.p}]
<1>1. /\ Top.kind = "gc" /\ Top.phase = "free" /\ y # End
      /\ allocated' = allocated \ {y} /\ refcount' = [refcount EXCEPT ![y] = 0]
      /\ color' = [color EXCEPT ![y] = "black"] /\ ptr' = [ptr EXCEPT ![y] = Null]
      /\ stack' = SetTop(g)
      /\ UNCHANGED <<refs, buffer, gc_enabled, lists>>
  BY DEF FreeZval, Collecting
<1>2. /\ y \in Top.garbage /\ Top.garbage \subseteq Links /\ Top.garbage \in SUBSET Zval /\ Top \in GcFrame
      /\ IsList(Top.garbage, y) /\ refs[y] = 0 /\ ptr[y] \in Top.garbage \cup {End}
      /\ L \in Collections /\ Inner(L) = {} /\ L \in Nat /\ stack[L] = Top
  BY <1>1, TopFacts
<1>3. /\ g \in GcFrame /\ g.phase = "free" /\ g.p = ptr[y] /\ g.garbage = Top.garbage \ {y}
      /\ g.orig_free_list = Top.orig_free_list /\ g.orig_next_to_free = Top.orig_next_to_free
  BY <1>1, <1>2 DEF GcFrame
<1> HIDE DEF g
<1>4. /\ StackTyped' /\ Shape' /\ Collections' = Collections /\ \A m : Pinned(m)' <=> Pinned(m)
      /\ \A i \in 1..L : stack'[i] = IF i = L THEN g ELSE stack[i]
      /\ \A i \in 1..L : stack'[i].kind = stack[i].kind
      /\ Len(stack') = L
  BY <1>1, <1>3, SteppedFrame
<1>5. /\ stack[L].kind = "gc" /\ Collections \subseteq 1..L /\ y \in Zval /\ y \in Node /\ y \in Links
  BY <1>1, <1>2, Constants DEF Collections
<1>6. /\ \A m \in Node : ptr'[m] = (IF m = y THEN Null ELSE ptr[m]) /\ (m # y => color'[m] = color[m])
      /\ \A z \in Zval : refcount'[z] = (IF z = y THEN 0 ELSE refcount[z]) /\ refs'[z] = refs[z]
  BY <1>1, PinFacts DEF WordTyped, HeapTyped
<1>7. HeapTyped' /\ WordTyped' /\ BufferTyped' /\ gc_enabled' \in BOOLEAN /\ ListsTyped'
  <2>1. HeapTyped'
    <3>1. 0 \in 0..(MaxRefs + 1)
      BY Constants
    <3> QED
      BY <1>1, <3>1, PinFacts DEF HeapTyped
  <2>2. WordTyped'
    BY <1>1, PinFacts DEF WordTyped
  <2>3. BufferTyped' /\ ListsTyped' /\ gc_enabled' \in BOOLEAN
    BY <1>1, PinFacts DEF BufferTyped, ListsTyped, buffer, lists
  <2> QED
    BY <2>1, <2>2, <2>3
<1>8. \A z \in Zval : z \in Links' <=> z \in Links /\ z # y
  BY <1>6, Constants DEF Links
<1>9. Words'
  <2>1. ptr[y] \notin Entry
    BY <1>2, Constants
  <2>2. UNCHANGED <<named, roots, unused, first_unused, last_unused, gc_enabled>>
    BY <1>1 DEF buffer
  <2>3. /\ \A n \in Node, e \in Entry : ptr'[n] = e => e \in roots' /\ named'[e] = n
        /\ \A z \in Zval, e \in roots' : named'[e] = z => ptr'[z] = e
    <3>1. roots \subseteq Entry
      BY PinFacts DEF BufferTyped
    <3> QED
      BY <1>6, <2>1, <2>2, <3>1, Constants DEF IInv, Words
  <2>4. \A o \in Obj : ptr'[o] \in Entry \cup {Null}
    BY <1>6, Constants DEF IInv, Words
  <2>5. \A z \in Zval \ allocated' : ptr'[z] = Null
    BY <1>1, <1>6, Constants DEF IInv, Words
  <2> QED
    BY <2>2, <2>3, <2>4, <2>5 DEF IInv, Words
<1>10. ~Pinned(y)
  BY <1>5, PinFacts
<1>11. Counts'
  <2> SUFFICES ASSUME NEW z \in Zval
               PROVE  /\ refcount'[z] >= refs'[z]
                      /\ z \in Links' \/ Pinned(z)' => refcount'[z] > refs'[z]
                      /\ z \notin allocated' => refcount'[z] = 0
    BY DEF Counts
  <2>1. CASE z = y
    BY <1>2, <1>4, <1>6, <1>8, <1>10, <2>1
  <2>2. CASE z # y
    BY <1>1, <1>4, <1>6, <1>8, <2>2 DEF IInv, Counts
  <2> QED
    BY <2>1, <2>2
<1>12. Pins'
  <2>1. \A i \in 1..L : stack[i].kind = "root" => stack'[i].node = stack[i].node
    BY <1>4, <1>5
  <2>2. \A m \in Zval : Pinned(m) => m \in allocated' /\ ptr'[m] = Null
    BY <1>1, <1>6, <1>10, PinFacts, Constants
  <2>3. first_unused' = first_unused
    BY <1>1 DEF buffer
  <2> QED
    BY <1>4, <2>1, <2>2, <2>3, SteppedPins DEF IInv
<1>13. \A i \in Collections : /\ stack'[i].garbage = stack[i].garbage \ {y}
                              /\ stack'[i].orig_free_list = stack[i].orig_free_list
                              /\ stack'[i].orig_next_to_free = stack[i].orig_next_to_free
                              /\ i # L => stack'[i] = stack[i] /\ y \notin stack[i].garbage
                              /\ Inner(i)' = Inner(i)
  <2>1. \A i \in Collections : i # L => y \notin stack[i].garbage
    BY <1>2 DEF IInv, Apart
  <2> QED
    BY <1>2, <1>3, <1>4, <1>5, <2>1 DEF Inner
<1>14. UNCHANGED <<free_list, next_to_free>>
  BY <1>1 DEF lists
<1>15. Saved'
  <2>1. ASSUME NEW i \in Collections, stack[i].orig_free_list = Null, NEW z \in Links'
        PROVE  z \in GarbageFrom(i)'
    <3>1. z \in Zval /\ z \in Links /\ z # y
      BY <1>8, <2>1 DEF Links
    <3>2. PICK j \in Collections : j >= i /\ z \in stack[j].garbage
      BY <2>1, <3>1 DEF IInv, Saved, GarbageFrom
    <3>3. z \in stack'[j].garbage
      BY <1>13, <3>1, <3>2
    <3> QED
      BY <1>4, <3>2, <3>3 DEF GarbageFrom
  <2>2. \A i \in Collections' : stack'[i].orig_free_list = Null => Links' \subseteq GarbageFrom(i)'
    BY <1>4, <1>13, <2>1
  <2>3. \A i, j \in Collections' : i < j => stack'[j].orig_free_list # Null
    BY <1>4, <1>13 DEF IInv, Saved
  <2>4. \A z \in Links' : color'[z] = "black"
    <3>1. \A z \in Links' : z \in Zval /\ z \in Links /\ z # y
      BY <1>8 DEF Links
    <3> QED
      BY <1>6, <3>1, Constants DEF IInv, Saved
  <2>5. free_list' = Null => Links' = {}
    <3>1. Links' \subseteq Links
      BY <1>8 DEF Links
    <3> QED
      BY <1>14, <3>1 DEF IInv, Saved
  <2>6. Collections' # {} => free_list' # Null
    BY <1>4, <1>14 DEF IInv, Saved
  <2> QED
    BY <2>2, <2>3, <2>4, <2>5, <2>6 DEF Saved
<1>16. Apart'
  <2>1. \A i \in Collections : stack[i].garbage \subseteq Zval /\ stack[i].garbage \subseteq Links
    BY DEF IInv, Apart, Links
  <2> QED
    BY <1>4, <1>8, <1>13, <2>1 DEF IInv, Apart
<1>17. Lists'
  <2> SUFFICES ASSUME NEW i \in Collections
               PROVE  /\ stack'[i].p \in stack'[i].garbage \cup {End}
                      /\ stack'[i].phase = "free" =>
                           Chain(color', ptr', stack'[i].garbage, stack'[i].p) /\ \A z \in stack'[i].garbage : refs'[z] = 0
                      /\ stack'[i].phase # "free" /\ Inner(i) = {} => Chain(color', ptr', stack'[i].garbage, free_list')
                      /\ stack'[i].phase = "destroying" /\ Inner(i) = {} => next_to_free' \in stack'[i].garbage \cup {End}
                      /\ \A j \in Collections : j \in Inner(i) /\ (\A k \in Inner(i) : j <= k) =>
                           /\ Chain(color', ptr', stack'[i].garbage, stack'[j].orig_free_list)
                           /\ stack'[i].phase = "destroying" => stack'[j].orig_next_to_free \in stack'[i].garbage \cup {End}
    BY <1>4, <1>13 DEF Lists, IsList, Saves
  <2>1. stack[i].garbage \subseteq Zval
    BY DEF IInv, Apart, Links
  <2>2. \A z \in stack[i].garbage \ {y} : color'[z] = color[z] /\ ptr'[z] = ptr[z]
    BY <1>6, <2>1, Constants
  <2>3. CASE i = L
    <3>1. stack'[i] = g /\ Inner(i) = {}
      BY <1>2, <1>4, <1>5, <2>3
    <3>2. Chain(color, ptr, Top.garbage \ {y}, ptr[y])
      BY <1>1, <1>2, ChainTail DEF IsList
    <3>3. Chain(color', ptr', Top.garbage \ {y}, ptr[y])
      BY <1>2, <2>2, <2>3, <3>2, ChainKept
    <3>4. ptr[y] \in (Top.garbage \ {y}) \cup {End}
      BY <1>2, <3>2, ChainFacts
    <3>5. \A z \in Top.garbage : refs'[z] = 0
      BY <1>1, TopFacts
    <3> QED
      BY <1>3, <3>1, <3>3, <3>4, <3>5
  <2>4. CASE i # L
    <3>1. Inner(i) # {} /\ stack'[i] = stack[i] /\ stack[i].garbage \ {y} = stack[i].garbage
      BY <1>2, <1>5, <1>13, <2>4 DEF Inner
    <3>2. stack[i].phase # "free"
      BY <1>2, <1>5, <2>4 DEF IInv, Shape, Collections
    <3>3. ASSUME NEW h, Chain(color, ptr, stack[i].garbage, h)
          PROVE  Chain(color', ptr', stack[i].garbage, h)
      BY <2>2, <3>1, <3>3, ChainKept
    <3> QED
      BY <1>13, <3>1, <3>2, <3>3 DEF IInv, Lists, IsList, Saves
  <2> QED
    BY <2>3, <2>4
<1> QED
  BY <1>4, <1>7, <1>9, <1>11, <1>12, <1>15, <1>16, <1>17, Assembled

-----------------------------------------------------------------------------
(* Returning.                                                               *)

LEMMA PoppedFrame ==
  ASSUME StackTyped, Shape, stack # <<>>, stack' = Pop
  PROVE  /\ StackTyped' /\ Shape' /\ Len(stack) \in Nat /\ Len(stack) > 0 /\ Len(stack') = Len(stack) - 1
         /\ \A i \in 1..(Len(stack) - 1) : stack'[i] = stack[i]
         /\ Collections' = Collections \ {Len(stack)}
<1> DEFINE L == Len(stack)
<1>1. /\ stack' \in Seq(Frame) /\ Len(stack') = L - 1 /\ L \in Nat /\ L > 0 /\ L <= MaxDepth
      /\ \A i \in 1..(L - 1) : stack'[i] = stack[i]
  BY Stacks DEF StackTyped, Popped
<1>2. \A i \in 1..L : /\ stack[i].kind = "root" /\ i < L => stack[i].phase # "full" /\ stack[i + 1].kind = "gc"
                      /\ stack[i].kind = "root" /\ stack[i].phase = "full" => L < MaxDepth
                      /\ stack[i].kind = "gc" /\ i < L => stack[i].phase \in {"dtors", "destroying"} /\ stack[i].p # End
  BY DEF Shape
<1>3. Collections = {i \in 1..L : stack[i].kind = "gc"}
  BY DEF Collections
<1> HIDE DEF L
<1>4. \A i : i \in 1..(L - 1) <=> i \in 1..L /\ i # L
  BY <1>1
<1>5. Collections' = Collections \ {L}
  BY <1>1, <1>3, <1>4 DEF Collections
<1>6. ASSUME NEW i \in 1..(L - 1)
      PROVE  /\ stack'[i].kind = "root" /\ i < L - 1 => stack'[i].phase # "full" /\ stack'[i + 1].kind = "gc"
             /\ stack'[i].kind = "root" /\ stack'[i].phase = "full" => L - 1 < MaxDepth
             /\ stack'[i].kind = "gc" /\ i < L - 1 => stack'[i].phase \in {"dtors", "destroying"} /\ stack'[i].p # End
  <2>1. i \in 1..L /\ i < L /\ stack'[i] = stack[i]
    BY <1>1, <1>4
  <2>2. i < L - 1 => i + 1 \in 1..(L - 1)
    BY <1>1
  <2>3. L - 1 < MaxDepth
    BY <1>1, Constants
  <2> QED
    BY <1>1, <1>2, <2>1, <2>2, <2>3
<1>7. Shape'
  BY <1>1, <1>6 DEF Shape
<1>8. StackTyped'
  BY <1>1, Constants DEF StackTyped
<1> QED
  BY <1>1, <1>5, <1>7, <1>8 DEF L

LEMMA CollectedKeeps ==
  ASSUME IInv, Collected
  PROVE  IInv'
<1> DEFINE L == Len(stack)
<1>1. /\ Top.kind = "gc" /\ Top.phase = "free" /\ Top.p = End
      /\ free_list' = Top.orig_free_list /\ next_to_free' = Top.orig_next_to_free
      /\ stack' = Pop
      /\ UNCHANGED <<allocated, refcount, refs, color, ptr, named, roots, unused, first_unused, last_unused, gc_enabled>>
  BY DEF Collected, Collecting, heap, word, buffer
<1>2. /\ stack # <<>> /\ L \in Collections /\ stack[L] = Top /\ Top \in GcFrame /\ Top.garbage \in SUBSET Zval
      /\ IsList(Top.garbage, End)
  BY <1>1, TopFacts
<1>3. Top.garbage = {}
  BY <1>2, ChainFacts DEF IsList
<1>4. /\ StackTyped' /\ Shape' /\ L \in Nat /\ L > 0 /\ Len(stack') = L - 1
      /\ \A i \in 1..(L - 1) : stack'[i] = stack[i]
      /\ Collections' = Collections \ {L} /\ stack[L].kind = "gc"
  BY <1>1, <1>2, PoppedFrame, PinFacts, Frames DEF IInv
<1>5. \A i : i \in 1..(L - 1) <=> i \in 1..L /\ i # L
  BY <1>4
<1>6. \A i \in Collections' : i \in Collections /\ i \in 1..L /\ i < L /\ stack'[i] = stack[i]
  BY <1>4, <1>5 DEF Collections
<1>7. \A m : Pinned(m)' <=> Pinned(m)
  BY <1>4, <1>5 DEF Pinned
<1>8. HeapTyped' /\ WordTyped' /\ BufferTyped' /\ gc_enabled' \in BOOLEAN /\ Words' /\ Links' = Links
  BY <1>1, PinFacts DEF HeapTyped, WordTyped, BufferTyped, IInv, Words, Links
<1>9. ListsTyped'
  BY <1>1, <1>2 DEF ListsTyped, GcFrame
<1>10. Counts'
  BY <1>1, <1>7, <1>8 DEF IInv, Counts
<1>11. Pins'
  <2>1. \A i \in 1..Len(stack') : i \in 1..L /\ stack'[i] = stack[i]
    BY <1>4, <1>5
  <2> QED
    BY <1>1, <2>1 DEF IInv, Pins
<1>12. \A i \in Collections' : Inner(i) = Inner(i)' \cup {L}
  BY <1>2, <1>4, <1>6 DEF Inner
<1>13. \A i \in Collections : GarbageFrom(i) \subseteq UNION {stack[j].garbage : j \in {k \in Collections' : k >= i}}
  BY <1>2, <1>3, <1>4 DEF GarbageFrom
<1>14. Saved'
  <2>1. free_list' = Null => Links' = {}
    <3>1. GarbageFrom(L) = {}
      <4>1. {k \in Collections : k >= L} = {L}
        BY <1>2, <1>4 DEF Collections
      <4> QED
        BY <1>2, <1>3, <4>1 DEF GarbageFrom
    <3> QED
      BY <1>1, <1>2, <1>8, <3>1 DEF IInv, Saved
  <2>2. ASSUME Collections' # {} PROVE free_list' # Null
    <3>1. PICK i \in Collections : i < L
      BY <1>6, <2>2
    <3> QED
      BY <1>1, <1>2, <3>1 DEF IInv, Saved
  <2>3. ASSUME NEW i \in Collections', stack'[i].orig_free_list = Null PROVE Links' \subseteq GarbageFrom(i)'
    <3>1. Links \subseteq GarbageFrom(i)
      BY <1>6, <2>3 DEF IInv, Saved
    <3>2. \A j \in Collections' : stack'[j].garbage = stack[j].garbage
      BY <1>6
    <3>3. GarbageFrom(i)' = UNION {stack[j].garbage : j \in {k \in Collections' : k >= i}}
      BY <3>2 DEF GarbageFrom
    <3> QED
      BY <1>6, <1>8, <1>13, <3>1, <3>3
  <2>4. \A i, j \in Collections' : i < j => stack'[j].orig_free_list # Null
    BY <1>6 DEF IInv, Saved
  <2>5. \A z \in Links' : color'[z] = "black"
    BY <1>1, <1>8 DEF IInv, Saved
  <2> QED
    BY <2>1, <2>2, <2>3, <2>4, <2>5 DEF Saved
<1>15. Apart'
  BY <1>6, <1>8 DEF IInv, Apart
<1>16. Lists'
  <2> SUFFICES ASSUME NEW i \in Collections'
               PROVE  /\ stack[i].p \in stack[i].garbage \cup {End}
                      /\ stack[i].phase = "free" =>
                           Chain(color, ptr, stack[i].garbage, stack[i].p) /\ \A z \in stack[i].garbage : refs[z] = 0
                      /\ stack[i].phase # "free" /\ Inner(i)' = {} => Chain(color, ptr, stack[i].garbage, free_list')
                      /\ stack[i].phase = "destroying" /\ Inner(i)' = {} => next_to_free' \in stack[i].garbage \cup {End}
                      /\ \A j \in Collections' : j \in Inner(i)' /\ (\A k \in Inner(i)' : j <= k) =>
                           /\ Chain(color, ptr, stack[i].garbage, stack[j].orig_free_list)
                           /\ stack[i].phase = "destroying" => stack[j].orig_next_to_free \in stack[i].garbage \cup {End}
    BY <1>1, <1>6 DEF Lists, IsList, Saves
  <2>1. i \in Collections /\ Inner(i) = Inner(i)' \cup {L}
    BY <1>6, <1>12
  <2>2. /\ stack[i].p \in stack[i].garbage \cup {End}
        /\ stack[i].phase = "free" =>
             Chain(color, ptr, stack[i].garbage, stack[i].p) /\ \A z \in stack[i].garbage : refs[z] = 0
        /\ \A j \in Collections : j \in Inner(i) /\ (\A k \in Inner(i) : j <= k) =>
             /\ Chain(color, ptr, stack[i].garbage, stack[j].orig_free_list)
             /\ stack[i].phase = "destroying" => stack[j].orig_next_to_free \in stack[i].garbage \cup {End}
    BY <2>1 DEF IInv, Lists, IsList, Saves
  <2>3. ASSUME Inner(i)' = {}
        PROVE  /\ Chain(color, ptr, stack[i].garbage, free_list')
               /\ stack[i].phase = "destroying" => next_to_free' \in stack[i].garbage \cup {End}
    <3>1. L \in Inner(i) /\ \A k \in Inner(i) : L <= k
      BY <1>4, <2>1, <2>3
    <3> QED
      BY <1>1, <1>2, <2>2, <3>1
  <2>4. ASSUME NEW j \in Collections', j \in Inner(i)', \A k \in Inner(i)' : j <= k
        PROVE  /\ Chain(color, ptr, stack[i].garbage, stack[j].orig_free_list)
               /\ stack[i].phase = "destroying" => stack[j].orig_next_to_free \in stack[i].garbage \cup {End}
    <3>1. j \in Collections /\ j \in Inner(i) /\ \A k \in Inner(i) : j <= k
      BY <1>4, <1>6, <2>1, <2>4
    <3> QED
      BY <2>2, <3>1
  <2> QED
    BY <2>2, <2>3, <2>4
<1> QED
  BY <1>4, <1>8, <1>9, <1>10, <1>11, <1>14, <1>15, <1>16, Assembled

LEMMA RetryKeeps ==
  ASSUME IInv, Retry
  PROVE  IInv'
<1> DEFINE L == Len(stack)
           n == Top.node
<1>1. /\ Top.kind = "root" /\ Top.phase = "collected" /\ stack' = Pop
      /\ refcount' = [z \in Zval |-> IF z = n THEN refcount[z] - 1 ELSE refcount[z]]
      /\ IF unused = {} THEN UNCHANGED <<word, buffer>> ELSE \E e \in unused : Take(e, n)
      /\ UNCHANGED <<refs, allocated, gc_enabled, lists>>
  BY DEF Retry
<1>2. /\ stack # <<>> /\ L \in 1..L /\ stack[L] = Top /\ n \in Node /\ stack[L].kind = "root"
  BY <1>1, NoFrame, TopFrame, PinFacts, Frames DEF StackTyped
<1>3. Pinned(n) /\ n \notin Links /\ (n \in Zval => n \in allocated /\ ptr[n] = Null)
  <2>1. Pinned(n)
    BY <1>2 DEF Pinned
  <2> QED
    BY <2>1, PinFacts
<1>4. /\ StackTyped' /\ Shape' /\ L \in Nat /\ L > 0 /\ Len(stack') = L - 1
      /\ \A i \in 1..(L - 1) : stack'[i] = stack[i]
      /\ Collections' = Collections \ {L}
  BY <1>1, <1>2, PoppedFrame, PinFacts DEF IInv
<1>5. \A i : i \in 1..(L - 1) <=> i \in 1..L /\ i # L
  BY <1>4
<1>6. KeepsFrames
  <2>1. L \notin Collections /\ \A i \in Collections : i \in 1..L
    BY <1>2 DEF Collections
  <2> QED
    BY <1>4, <1>5, <2>1 DEF KeepsFrames
<1>7. \A m : Pinned(m)' => Pinned(m) /\ (m # n \/ n \notin Zval)
  <2>1. n \in Zval => \A i \in 1..(L - 1) : stack[i].kind = "root" => stack[i].node # n
    BY <1>2, <1>5, Constants DEF IInv, Pins
  <2>2. \A m : Pinned(m)' <=> \E i \in 1..(L - 1) : stack[i].kind = "root" /\ stack[i].node = m
    BY <1>4 DEF Pinned
  <2>3. \A m : Pinned(m) <=> \E i \in 1..L : stack[i].kind = "root" /\ stack[i].node = m
    BY DEF Pinned
  <2> HIDE DEF n, L
  <2> QED
    BY <1>5, <2>1, <2>2, <2>3
<1>8. /\ WordTyped' /\ BufferTyped' /\ KeepsLinks /\ Words' /\ first_unused' >= first_unused
      /\ \A m \in Node : m # n => ptr'[m] = ptr[m]
  <2>1. CASE unused = {}
    <3>1. UNCHANGED <<color, ptr, named, roots, unused, first_unused, last_unused>>
      BY <1>1, <2>1 DEF word, buffer
    <3> QED
      BY <1>1, <3>1, PinFacts DEF WordTyped, BufferTyped, KeepsLinks, Links, IInv, Words
  <2>2. CASE unused # {}
    <3>1. PICK e \in unused : Take(e, n)
      BY <1>1, <2>2
    <3> QED
      BY <1>1, <1>2, <1>3, <3>1, TakeKeeps, PinFacts DEF Free, IInv
  <2> QED
    BY <2>1, <2>2
<1>9. Saved' /\ Apart' /\ Lists'
  BY <1>1, <1>6, <1>8, QuietLists DEF IInv
<1>10. \A z \in Zval : /\ refcount[z] \in 0..(MaxRefs + 1) /\ refs[z] \in 0..MaxRefs
                       /\ refcount[z] \in Nat /\ refs[z] \in Nat
                       /\ refcount'[z] = (IF z = n THEN refcount[z] - 1 ELSE refcount[z]) /\ refs'[z] = refs[z]
                       /\ z = n => refcount[z] > refs[z]
  BY <1>1, <1>3, PinFacts, Constants DEF HeapTyped, IInv, Counts
<1>11. HeapTyped'
  <2>1. ASSUME NEW z \in Zval
        PROVE  (IF z = n THEN refcount[z] - 1 ELSE refcount[z]) \in 0..(MaxRefs + 1)
    BY <1>10, Constants
  <2> QED
    BY <1>1, <2>1, PinFacts DEF HeapTyped
<1>12. Counts'
  <2> SUFFICES ASSUME NEW z \in Zval
               PROVE  /\ refcount'[z] >= refs'[z]
                      /\ z \in Links' \/ Pinned(z)' => refcount'[z] > refs'[z]
                      /\ z \notin allocated' => refcount'[z] = 0
    BY DEF Counts
  <2>1. z \in Links' <=> z \in Links
    BY <1>8 DEF KeepsLinks, Links
  <2>2. CASE z = n
    <3>1. z \in allocated /\ z \notin Links' /\ ~(Pinned(z)')
      BY <1>3, <1>7, <2>1, <2>2
    <3>2. refcount'[z] >= refs'[z]
      BY <1>10, <2>2
    <3> QED
      BY <1>1, <3>1, <3>2
  <2>3. CASE z # n
    BY <1>1, <1>7, <1>10, <2>1, <2>3 DEF IInv, Counts
  <2> QED
    BY <2>2, <2>3
<1>13. Pins'
  <2>1. \A i \in 1..Len(stack') : i \in 1..L /\ i # L /\ stack'[i] = stack[i]
    BY <1>4, <1>5
  <2>2. \A i \in 1..Len(stack') : stack'[i].kind = "root" =>
          /\ stack'[i].node \in Zval => stack'[i].node \in allocated' /\ ptr'[stack'[i].node] = Null
          /\ first_unused > GC_ROOT_BUFFER_MAX_ENTRIES
    <3> SUFFICES ASSUME NEW i \in 1..Len(stack'), stack'[i].kind = "root"
                 PROVE  /\ stack'[i].node \in Zval => stack'[i].node \in allocated' /\ ptr'[stack'[i].node] = Null
                        /\ first_unused > GC_ROOT_BUFFER_MAX_ENTRIES
      OBVIOUS
    <3>1. /\ stack[i].node \in Zval => stack[i].node \in allocated /\ ptr[stack[i].node] = Null
          /\ first_unused > GC_ROOT_BUFFER_MAX_ENTRIES /\ stack'[i] = stack[i]
      BY <2>1 DEF IInv, Pins
    <3>2. stack[i].node \in Zval => stack[i].node # n
      BY <1>2, <2>1, Constants DEF IInv, Pins
    <3> QED
      BY <1>1, <1>8, <3>1, <3>2, Constants
  <2>3. \A i, j \in 1..Len(stack') :
          stack'[i].kind = "root" /\ stack'[j].kind = "root" /\ stack'[i].node = stack'[j].node
            => i = j \/ stack'[i].node \in Obj
    BY <2>1 DEF IInv, Pins
  <2>4. first_unused > GC_ROOT_BUFFER_MAX_ENTRIES => first_unused' > GC_ROOT_BUFFER_MAX_ENTRIES
    BY <1>8, PinFacts, Constants DEF BufferTyped
  <2> QED
    BY <2>2, <2>3, <2>4 DEF Pins
<1>14. ListsTyped' /\ gc_enabled' \in BOOLEAN
  BY <1>1, PinFacts DEF ListsTyped, lists
<1> QED
  BY <1>4, <1>8, <1>9, <1>11, <1>12, <1>13, <1>14, Assembled

LEMMA EndsKeep ==
  ASSUME IInv, Bailout \/ gc_reset
  PROVE  IInv'
<1>1. stack' = <<>> /\ UNCHANGED <<last_unused, gc_enabled, lists>>
  BY DEF Bailout, gc_reset, buffer
<1>2. StackTyped' /\ Shape' /\ Pins' /\ Apart' /\ Lists' /\ Collections' = {} /\ \A m : ~Pinned(m)'
  <2>1. Len(stack') = 0 /\ stack' \in Seq(Frame) /\ 1..Len(stack') = {} /\ \A i : i \notin 1..Len(stack')
    BY <1>1
  <2>2. Collections' = {}
    BY <2>1 DEF Collections
  <2> QED
    BY <2>1, <2>2, Constants DEF StackTyped, Shape, Pins, Apart, Lists, Pinned
<1>3. ListsTyped' /\ gc_enabled' \in BOOLEAN
  BY <1>1, PinFacts DEF ListsTyped, lists
<1>4. CASE Bailout
  <2>1. /\ UNCHANGED <<allocated, refcount, refs, color, ptr, named, roots, unused, first_unused, last_unused, free_list>>
        /\ Script /\ stack # <<>>
    BY <1>4 DEF Bailout, heap, word, buffer, lists
  <2>2. HeapTyped' /\ WordTyped' /\ BufferTyped' /\ Words' /\ Links' = Links
    BY <1>1, <2>1, PinFacts DEF HeapTyped, WordTyped, BufferTyped, IInv, Words, Links
  <2>3. Counts'
    BY <1>2, <2>1, <2>2 DEF IInv, Counts
  <2>4. Saved'
    BY <1>2, <2>1, <2>2 DEF IInv, Saved
  <2> QED
    BY <1>2, <1>3, <2>2, <2>3, <2>4, Assembled
<1>5. CASE gc_reset
  <2>1. /\ allocated' = {} /\ refcount' = [z \in Zval |-> 0] /\ refs' = [z \in Zval |-> 0]
        /\ color' = [n \in Node |-> "black"] /\ ptr' = [n \in Node |-> Null]
        /\ named' = [e \in Entry |-> Null] /\ roots' = {} /\ unused' = {} /\ first_unused' = 1
        /\ UNCHANGED <<last_unused, gc_enabled, lists, stack>>
    BY <1>5 DEF gc_reset
  <2>2. Links' = {}
    BY <2>1, Constants DEF Links
  <2>3. HeapTyped' /\ WordTyped'
    BY <2>1, Constants DEF HeapTyped, WordTyped
  <2>4. BufferTyped'
    <3>1. last_unused \in Nat
      BY PinFacts, Constants DEF BufferTyped
    <3> QED
      BY <2>1, <3>1, PinFacts DEF BufferTyped
  <2>5. Words'
    BY <2>1, Constants DEF IInv, Words
  <2>6. Counts' /\ Saved'
    BY <1>2, <2>1, <2>2 DEF Counts, Saved
  <2> QED
    BY <1>2, <1>3, <2>3, <2>4, <2>5, <2>6, Assembled
<1> QED
  BY <1>4, <1>5

-----------------------------------------------------------------------------
(* The three passes.                                                        *)

\* The order in which some zvals are listed is an order of those zvals.
LEMMA Listing ==
  ASSUME NEW V \in SUBSET Zval, NEW s \in Orders(V), NEW W, \A z : z \in W <=> \E i \in DOMAIN s : s[i] = z
  PROVE  /\ W \subseteq V /\ s \in [1..Cardinality(W) -> W] /\ Cardinality(W) \in Nat
         /\ \A i, j \in DOMAIN s : s[i] = s[j] => i = j
         /\ DOMAIN s = 1..Cardinality(W) /\ Len(s) = Cardinality(W)
<1> DEFINE n == Cardinality(V)
<1>1. n \in Nat
  BY FS_Subset, FS_CardinalityType, Constants
<1>2. s \in [1..n -> V] /\ \A i, j \in DOMAIN s : s[i] = s[j] => i = j
  BY DEF Orders
<1> HIDE DEF n
<1>3. DOMAIN s = 1..n /\ W \subseteq V /\ s \in [1..n -> W] /\ \A z \in W : \E i \in 1..n : s[i] = z
  BY <1>2
<1>4. s \in Surjection(1..n, W) /\ s \in Injection(1..n, W)
  <2>1. s \in Surjection(1..n, W)
    BY <1>3 DEF Surjection
  <2>2. s \in Injection(1..n, W)
    BY <1>2, <1>3 DEF Injection, IsInjective
  <2> QED
    BY <2>1, <2>2
<1>5. IsFiniteSet(1..n) /\ Cardinality(1..n) = n
  <2>1. IsFiniteSet(1..n) /\ Cardinality(1..n) = IF 1 > n THEN 0 ELSE n - 1 + 1
    BY <1>1, FS_Interval
  <2> QED
    BY <1>1, <2>1
<1>6. Cardinality(W) = n
  BY <1>4, <1>5, FS_Surjection
<1>7. Len(s) = n
  BY <1>1, <1>3
<1> QED
  BY <1>1, <1>2, <1>3, <1>6, <1>7

\* What the passes may leave white has no link and waits for no collection.
LEMMA White ==
  ASSUME IInv, NEW z \in Zval, CanBeWhite(z)
  PROVE  z \notin Links /\ ~Pinned(z) /\ refcount[z] = refs[z]
<1>1. refcount[z] \in Nat /\ refs[z] \in Nat
  BY PinFacts, Constants DEF HeapTyped
<1> QED
  BY <1>1 DEF IInv, Counts, CanBeWhite

\* What the buffer names.
LEMMA NamedRoots ==
  ASSUME IInv
  PROVE  /\ \A n \in Node : ptr[n] \in Entry => n \in {named[e] : e \in roots}
         /\ \A z \in Zval : z \in {named[e] : e \in roots} => ptr[z] \in Entry
         /\ Purple \cap Zval \subseteq allocated
<1>1. ASSUME NEW e \in roots
      PROVE  e \in Entry /\ named[e] \in Node /\ (named[e] \in Zval => ptr[named[e]] = e)
  <2>1. e \in Entry
    BY PinFacts DEF BufferTyped
  <2>2. named[e] \in Node
    BY <2>1, PinFacts DEF BufferTyped, IInv, Words
  <2> QED
    BY <2>1, <2>2 DEF IInv, Words
<1>2. /\ \A n \in Node : ptr[n] \in Entry => n \in {named[e] : e \in roots}
      /\ \A z \in Zval : z \in {named[e] : e \in roots} => ptr[z] \in Entry
  BY <1>1 DEF IInv, Words
<1>3. ASSUME NEW m \in Purple, m \in Zval PROVE m \in allocated
  <2>1. PICK e \in roots : m = named[e]
    BY DEF Purple
  <2>2. m \in Node /\ ptr[m] \in Entry
    BY <1>1, <1>3, <2>1
  <2> QED
    BY <1>3, <2>2, Constants DEF IInv, Words
<1> QED
  BY <1>2, <1>3

\* The passes, which leave W white in the order of s, seen from each node.
LEMMA PassesFacts ==
  ASSUME IInv, NEW X \in SUBSET allocated, NEW V \in SUBSET {z \in (X \cup Purple) \cap Zval : CanBeWhite(z)},
         NEW s \in Orders(V), NEW W, W = {s[i] : i \in DOMAIN s}, NEW M, M = X \cup Purple, Passes(M, s)
  PROVE  LET head == IF s = <<>> THEN End ELSE s[1] IN
         /\ W \in SUBSET Zval /\ W \subseteq allocated /\ W \subseteq M
         /\ \A z \in W : z \notin Links /\ ~Pinned(z) /\ refcount[z] = refs[z]
         /\ \A n \in Node : color'[n] = IF n \in M THEN "black" ELSE color[n]
         /\ \A n \in Node : n \notin W => ptr'[n] = IF ptr[n] \in Entry THEN Null ELSE ptr[n]
         /\ Chain(color', ptr', W, head) /\ head \in W \cup {End}
         /\ \A z \in W : ptr'[z] \in W \cup {End}
         /\ WordTyped'
         /\ \A z \in Zval : refcount'[z] = IF z \in W THEN refcount[z] + 1 ELSE refcount[z]
         /\ DOMAIN refcount' = Zval
<1> DEFINE n == Cardinality(W)
           N == {named[e] : e \in roots}
           head == IF s = <<>> THEN End ELSE s[1]
           next(z) == LET i == CHOOSE j \in DOMAIN s : s[j] = z
                      IN IF i = Len(s) THEN End ELSE s[i + 1]
<1>1. /\ color' = [m \in Node |-> IF m \in M THEN "black" ELSE color[m]]
      /\ ptr' = [m \in Node |-> IF m \in W THEN next(m) ELSE IF m \in N THEN Null ELSE ptr[m]]
      /\ refcount' = [z \in Zval |-> IF z \in W THEN refcount[z] + 1 ELSE refcount[z]]
  BY DEF Passes
<1>2. V \in SUBSET Zval
  OBVIOUS
<1>3. /\ W \subseteq V /\ s \in [1..n -> W] /\ n \in Nat
      /\ \A i, j \in DOMAIN s : s[i] = s[j] => i = j
      /\ DOMAIN s = 1..n /\ Len(s) = n
  <2>1. s \in Orders(V) /\ \A z : z \in W <=> \E i \in DOMAIN s : s[i] = z
    OBVIOUS
  <2> HIDE DEF n, next
  <2>2. /\ W \subseteq V /\ s \in [1..Cardinality(W) -> W] /\ Cardinality(W) \in Nat
        /\ \A i, j \in DOMAIN s : s[i] = s[j] => i = j
        /\ DOMAIN s = 1..Cardinality(W) /\ Len(s) = Cardinality(W)
    BY ONLY <1>2, <2>1, Listing
  <2> QED
    BY <2>2 DEF n
<1>4. /\ W \in SUBSET Zval /\ W \subseteq allocated /\ W \subseteq M
      /\ \A z \in W : z \notin Links /\ ~Pinned(z) /\ refcount[z] = refs[z]
  BY <1>3, White, NamedRoots
<1> HIDE DEF n, next
<1>5. \A k \in 1..n : next(s[k]) = IF k = n THEN End ELSE s[k + 1]
  <2> SUFFICES ASSUME NEW k \in 1..n PROVE next(s[k]) = IF k = n THEN End ELSE s[k + 1]
    OBVIOUS
  <2>1. (CHOOSE j \in DOMAIN s : s[j] = s[k]) = k
    BY <1>3
  <2> QED
    BY <1>3, <2>1 DEF next
<1>6. \A k \in 1..n : /\ s[k] \in W
                      /\ (IF k = n THEN End ELSE s[k + 1]) \in W \cup {End}
  <2> SUFFICES ASSUME NEW k \in 1..n
               PROVE  s[k] \in W /\ (IF k = n THEN End ELSE s[k + 1]) \in W \cup {End}
    OBVIOUS
  <2>1. k # n => k + 1 \in 1..n
    BY <1>3
  <2> QED
    BY <1>3, <2>1
<1>7. \A z \in W : \E k \in 1..n : s[k] = z
  BY <1>3
<1>8. \A z \in W : z \in Node /\ ptr'[z] = next(z) /\ next(z) \in W \cup {End} /\ color'[z] = "black"
  BY <1>1, <1>4, <1>5, <1>6, <1>7, Constants
<1>9. \A m \in Node : m \notin W => ptr'[m] = IF ptr[m] \in Entry THEN Null ELSE ptr[m]
  <2>1. ASSUME NEW m \in Node, ptr[m] \in Entry PROVE m \in N
    BY <2>1, NamedRoots
  <2>2. ASSUME NEW m \in Node, m \in N, ptr[m] \notin Entry PROVE ptr[m] = Null
    <3>1. m \in Obj
      BY <2>2, NamedRoots, Constants
    <3> QED
      BY <2>2, <3>1 DEF IInv, Words
  <2>3. \A m \in Node : m \notin W => ptr'[m] = IF m \in N THEN Null ELSE ptr[m]
    BY <1>1
  <2> HIDE DEF N
  <2> QED
    BY <2>1, <2>2, <2>3
<1>10. head \in W \cup {End}
  <2>1. s # <<>> => 1 \in 1..n
    BY <1>3
  <2> QED
    BY <1>6, <2>1
<1>11. Chain(color', ptr', W, head)
  <2>1. \A k \in DOMAIN s : color'[s[k]] = "black" /\ ptr'[s[k]] = IF k = Len(s) THEN End ELSE s[k + 1]
    BY <1>3, <1>5, <1>6, <1>8
  <2>2. s \in [1..Cardinality(W) -> W] /\ \A z \in W : \E i \in DOMAIN s : s[i] = z
    BY <1>3, <1>7 DEF n
  <2> QED
    BY <1>3, <2>1, <2>2 DEF Chain
<1>12. WordTyped'
  <2>1. color' \in [Node -> {"black", "purple"}]
    BY <1>1, PinFacts DEF WordTyped
  <2>2. \A m \in Node : (IF m \in W THEN next(m) ELSE IF m \in N THEN Null ELSE ptr[m]) \in Entry \cup Zval \cup {Null, End}
    BY <1>4, <1>8, PinFacts DEF WordTyped
  <2>3. ptr' \in [Node -> Entry \cup Zval \cup {Null, End}]
    BY <1>1, <2>2
  <2> QED
    BY <2>1, <2>3 DEF WordTyped
<1>13. \A m \in Node : color'[m] = IF m \in M THEN "black" ELSE color[m]
  BY <1>1
<1>14. /\ \A z \in Zval : refcount'[z] = IF z \in W THEN refcount[z] + 1 ELSE refcount[z]
       /\ DOMAIN refcount' = Zval
  BY <1>1
<1> QED
  BY <1>4, <1>8, <1>9, <1>10, <1>11, <1>12, <1>13, <1>14

\* Who collects: a script, or the frame of possible_root that waits for it.
LEMMA PassesFrames ==
  ASSUME IInv, NEW s, NEW W \in SUBSET Zval, W = {s[i] : i \in DOMAIN s}, NEW M, Passes(M, s),
         (Script /\ Len(stack) < MaxDepth) \/ (Top.kind = "root" /\ Top.phase = "full"),
         (IF s = <<>> THEN End ELSE s[1]) \in W \cup {End}
  PROVE  LET L == Len(stack) IN
         /\ StackTyped' /\ Shape' /\ L \in Nat /\ Len(stack') = L + 1
         /\ \A i \in 1..L : /\ stack'[i].kind = stack[i].kind
                            /\ stack[i].kind = "gc" => stack'[i] = stack[i] /\ stack[i].phase # "free"
                            /\ stack[i].kind = "root" => stack'[i].node = stack[i].node
         /\ stack'[L + 1].kind = "gc" /\ stack'[L + 1].phase = "dtors"
         /\ stack'[L + 1].p = (IF s = <<>> THEN End ELSE s[1]) /\ stack'[L + 1].garbage = W
         /\ stack'[L + 1].orig_free_list = free_list /\ stack'[L + 1].orig_next_to_free = next_to_free
         /\ Collections' = Collections \cup {L + 1} /\ L + 1 \notin Collections
<1> DEFINE L == Len(stack)
           head == IF s = <<>> THEN End ELSE s[1]
           f == [kind |-> "gc", phase |-> "dtors", p |-> head, garbage |-> W,
                 orig_free_list |-> free_list, orig_next_to_free |-> next_to_free]
           caller == IF Script THEN stack ELSE SetTop([Top EXCEPT !.phase = "collected"])
<1>1. stack' = Append(caller, f)
  BY DEF Passes
<1>2. f \in Frame /\ f \in GcFrame
  <2>1. f \in GcFrame
    BY PinFacts DEF ListsTyped, GcFrame
  <2> QED
    BY <2>1, Frames
<1>3. /\ f.kind = "gc" /\ f.phase = "dtors" /\ f.p = head /\ f.garbage = W
      /\ f.orig_free_list = free_list /\ f.orig_next_to_free = next_to_free
  OBVIOUS
<1> HIDE DEF f, head
<1>4. stack \in Seq(Frame) /\ L \in Nat /\ L <= MaxDepth /\ \A i \in 1..L : stack[i] \in Frame
  BY PinFacts, Stacks DEF StackTyped
<1>5. /\ caller \in Seq(Frame) /\ Len(caller) = L /\ L < MaxDepth
      /\ \A i \in 1..L : \/ caller[i] = stack[i] /\ (i = L => stack[i].kind = "gc" /\ stack[i].phase # "free"
                                                              /\ stack[i].phase \in {"dtors", "destroying"} /\ stack[i].p # End)
                         \/ /\ i = L /\ caller[i].kind = "root" /\ stack[i].kind = "root"
                            /\ caller[i].phase = "collected" /\ caller[i].node = stack[i].node
  <2>1. CASE Script
    <3>1. L < MaxDepth
      BY <2>1, NoFrame DEF Script
    <3>2. L > 0 => /\ stack[L].kind = "gc" /\ stack[L].phase # "free"
                   /\ stack[L].phase \in {"dtors", "destroying"} /\ stack[L].p # End
      BY <1>4, <2>1, ScriptTop, Stacks, PinFacts
    <3> QED
      BY <1>4, <2>1, <3>1, <3>2
  <2>2. CASE ~Script
    <3>1. Top.kind = "root" /\ Top.phase = "full"
      BY <2>2
    <3> DEFINE r == [Top EXCEPT !.phase = "collected"]
    <3>2. stack # <<>> /\ L \in 1..L /\ Top = stack[L] /\ Top \in RootFrame
      BY <1>4, <3>1, NoFrame, TopFrame
    <3>3. r \in RootFrame /\ r.kind = "root" /\ r.phase = "collected" /\ r.node = Top.node
      BY <3>2 DEF RootFrame
    <3>4. L < MaxDepth
      BY <3>1, <3>2 DEF IInv, Shape
    <3>5. caller = SetTop(r) /\ r \in Frame
      BY <2>2, <3>3, Frames
    <3> HIDE DEF r, caller
    <3>6. caller \in Seq(Frame) /\ Len(caller) = L /\ \A i \in 1..L : caller[i] = IF i = L THEN r ELSE stack[i]
      BY <1>4, <3>2, <3>5 DEF SetTop
    <3> QED
      BY <3>1, <3>2, <3>3, <3>4, <3>6
  <2> QED
    BY <2>1, <2>2
<1> HIDE DEF caller
<1>6. /\ stack' \in Seq(Frame) /\ Len(stack') = L + 1 /\ stack'[L + 1] = f
      /\ \A i \in 1..L : stack'[i] = caller[i]
  BY <1>1, <1>2, <1>5
<1>7. \A i \in 1..L : /\ stack[i].kind = "root" /\ i < L => stack[i].phase # "full" /\ stack[i + 1].kind = "gc"
                      /\ stack[i].kind = "root" /\ stack[i].phase = "full" => L < MaxDepth
                      /\ stack[i].kind = "gc" /\ i < L => stack[i].phase \in {"dtors", "destroying"} /\ stack[i].p # End
  BY DEF IInv, Shape
<1>8. Collections = {i \in 1..L : stack[i].kind = "gc"}
  BY DEF Collections
<1> HIDE DEF L
<1>9. \A i \in 1..L : /\ stack'[i].kind = stack[i].kind
                      /\ stack[i].kind = "gc" => stack'[i] = stack[i] /\ stack[i].phase # "free"
                      /\ stack[i].kind = "root" => stack'[i].node = stack[i].node
                      /\ stack[i].kind = "root" /\ i < L => stack'[i] = stack[i]
                      /\ i = L /\ stack'[i].kind = "root" => stack'[i].phase = "collected"
                      /\ i = L /\ stack'[i].kind = "gc" => stack'[i].phase \in {"dtors", "destroying"} /\ stack'[i].p # End
  <2> SUFFICES ASSUME NEW i \in 1..L
               PROVE  /\ stack'[i].kind = stack[i].kind
                      /\ stack[i].kind = "gc" => stack'[i] = stack[i] /\ stack[i].phase # "free"
                      /\ stack[i].kind = "root" => stack'[i].node = stack[i].node
                      /\ stack[i].kind = "root" /\ i < L => stack'[i] = stack[i]
                      /\ i = L /\ stack'[i].kind = "root" => stack'[i].phase = "collected"
                      /\ i = L /\ stack'[i].kind = "gc" => stack'[i].phase \in {"dtors", "destroying"} /\ stack'[i].p # End
    OBVIOUS
  <2>1. CASE i = L
    BY <1>5, <1>6, <2>1
  <2>2. CASE i # L
    <3>1. i < L
      BY <1>4, <2>2
    <3> QED
      BY <1>5, <1>6, <1>7, <2>2, <3>1
  <2> QED
    BY <2>1, <2>2
<1>10. \A i : i \in 1..(L + 1) <=> i \in 1..L \/ i = L + 1
  BY <1>4
<1>11. Collections' = Collections \cup {L + 1} /\ L + 1 \notin Collections
  BY <1>3, <1>4, <1>6, <1>8, <1>9, <1>10 DEF Collections
<1>12. ASSUME NEW i \in 1..(L + 1)
       PROVE  /\ stack'[i].kind = "root" /\ i < L + 1 => stack'[i].phase # "full" /\ stack'[i + 1].kind = "gc"
              /\ stack'[i].kind = "root" /\ stack'[i].phase = "full" => L + 1 < MaxDepth
              /\ stack'[i].kind = "gc" /\ i < L + 1 => stack'[i].phase \in {"dtors", "destroying"} /\ stack'[i].p # End
  <2>1. CASE i = L + 1
    BY <1>3, <1>4, <1>6, <2>1
  <2>2. CASE i = L
    BY <1>3, <1>6, <1>9, <1>10, <2>2
  <2>3. CASE i < L
    <3>1. i \in 1..L /\ i + 1 \in 1..L
      BY <1>4, <2>3
    <3> QED
      BY <1>7, <1>9, <2>3, <3>1
  <2> QED
    BY <1>4, <2>1, <2>2, <2>3
<1>13. Shape' /\ StackTyped'
  <2>1. L + 1 <= MaxDepth
    BY <1>4, <1>5, Constants
  <2> QED
    BY <1>6, <1>12, <2>1 DEF Shape, StackTyped
<1> QED
  BY <1>3, <1>4, <1>6, <1>9, <1>11, <1>13 DEF L, head

LEMMA CollectKeeps ==
  ASSUME IInv, gc_collect_cycles
  PROVE  IInv'
<1> DEFINE L == Len(stack)
<1>1. PICK X \in SUBSET allocated :
        \E V \in SUBSET {z \in (X \cup Purple) \cap Zval : CanBeWhite(z)} : \E s \in Orders(V) : Passes(X \cup Purple, s)
  BY DEF gc_collect_cycles
<1>2. PICK V \in SUBSET {z \in (X \cup Purple) \cap Zval : CanBeWhite(z)} :
        \E s \in Orders(V) : Passes(X \cup Purple, s)
  BY <1>1
<1>3. PICK s \in Orders(V) : Passes(X \cup Purple, s)
  BY <1>2
<1> DEFINE M == X \cup Purple
           W == {s[i] : i \in DOMAIN s}
           head == IF s = <<>> THEN End ELSE s[1]
<1>4. /\ W \in SUBSET Zval /\ W \subseteq allocated /\ W \subseteq M
      /\ \A z \in W : z \notin Links /\ ~Pinned(z) /\ refcount[z] = refs[z]
      /\ \A n \in Node : color'[n] = IF n \in M THEN "black" ELSE color[n]
      /\ \A n \in Node : n \notin W => ptr'[n] = IF ptr[n] \in Entry THEN Null ELSE ptr[n]
      /\ Chain(color', ptr', W, head) /\ head \in W \cup {End}
      /\ \A z \in W : ptr'[z] \in W \cup {End}
      /\ WordTyped'
      /\ \A z \in Zval : refcount'[z] = IF z \in W THEN refcount[z] + 1 ELSE refcount[z]
      /\ DOMAIN refcount' = Zval
  BY <1>3, PassesFacts
<1>5. /\ (Script /\ L < MaxDepth) \/ (Top.kind = "root" /\ Top.phase = "full")
      /\ UNCHANGED <<refs, allocated, first_unused, last_unused, gc_enabled, next_to_free>>
      /\ named' = [e \in Entry |-> Null] /\ unused' = unused \cup roots /\ roots' = {} /\ free_list' = head
  BY <1>3 DEF gc_collect_cycles, Passes
<1>6. /\ StackTyped' /\ Shape' /\ L \in Nat /\ Len(stack') = L + 1
      /\ \A i \in 1..L : /\ stack'[i].kind = stack[i].kind
                         /\ stack[i].kind = "gc" => stack'[i] = stack[i] /\ stack[i].phase # "free"
                         /\ stack[i].kind = "root" => stack'[i].node = stack[i].node
      /\ stack'[L + 1].kind = "gc" /\ stack'[L + 1].phase = "dtors"
      /\ stack'[L + 1].p = head /\ stack'[L + 1].garbage = W
      /\ stack'[L + 1].orig_free_list = free_list /\ stack'[L + 1].orig_next_to_free = next_to_free
      /\ Collections' = Collections \cup {L + 1} /\ L + 1 \notin Collections
  BY <1>3, <1>4, <1>5, PassesFrames
<1> HIDE DEF M, W, head, L
<1>7. \A z \in Zval : z \in Links' <=> z \in Links \/ z \in W
  BY <1>4, Constants DEF Links
<1>8. \A z \in Links : z \in Zval /\ z \notin W /\ ptr'[z] = ptr[z] /\ color'[z] = "black" /\ color[z] = "black"
  <2> SUFFICES ASSUME NEW z \in Links
               PROVE  z \in Zval /\ z \notin W /\ ptr'[z] = ptr[z] /\ color'[z] = "black" /\ color[z] = "black"
    OBVIOUS
  <2>1. z \in Zval /\ z \in Node /\ ptr[z] \notin Entry /\ z \notin W /\ color[z] = "black"
    BY <1>4, Constants DEF Links, IInv, Saved
  <2> QED
    BY <1>4, <2>1
<1>9. \A i : i \in 1..(L + 1) <=> i \in 1..L \/ i = L + 1
  BY <1>6
<1>10. \A i \in Collections : i \in 1..L /\ i < L + 1 /\ stack'[i] = stack[i] /\ stack[i].phase # "free" /\ i # L + 1
  BY <1>6 DEF Collections, L
<1>11. \A m : Pinned(m)' <=> Pinned(m)
  BY <1>6, <1>9 DEF Pinned, L
<1>12. HeapTyped'
  <2>1. ASSUME NEW z \in Zval PROVE refcount'[z] \in 0..(MaxRefs + 1)
    <3>1. refcount[z] \in 0..(MaxRefs + 1) /\ refs[z] \in 0..MaxRefs
      BY PinFacts DEF HeapTyped
    <3> QED
      BY <1>4, <3>1, Constants
  <2>2. refcount' \in [Zval -> 0..(MaxRefs + 1)]
    <3>1. refcount' = [z \in Zval |-> IF z \in W THEN refcount[z] + 1 ELSE refcount[z]]
      BY <1>3 DEF Passes, W
    <3> QED
      BY <2>1, <3>1
  <2> QED
    BY <1>5, <2>2, PinFacts DEF HeapTyped
<1>13. BufferTyped' /\ gc_enabled' \in BOOLEAN
  BY <1>5, PinFacts DEF BufferTyped
<1>14. ListsTyped'
  BY <1>4, <1>5, PinFacts DEF ListsTyped
<1>15. Words'
  <2>1. ASSUME NEW n \in Node PROVE ptr'[n] \notin Entry
    BY <1>4, Constants
  <2>2. /\ \A n \in Node, e \in Entry : ptr'[n] = e => e \in roots' /\ named'[e] = n
        /\ \A z \in Zval, e \in roots' : named'[e] = z => ptr'[z] = e
    BY <1>5, <2>1
  <2>3. \A e \in Entry : named'[e] # Null <=> e \in roots'
    BY <1>5
  <2>4. \A o \in Obj : ptr'[o] \in Entry \cup {Null}
    BY <1>4, Constants DEF IInv, Words
  <2>5. \A z \in Zval \ allocated' : ptr'[z] = Null
    BY <1>4, <1>5, Constants DEF IInv, Words
  <2>6. roots' \cap unused' = {} /\ roots' \cup unused' = 1..(first_unused' - 1)
    BY <1>5 DEF IInv, Words
  <2>7. gc_enabled' => last_unused' = GC_ROOT_BUFFER_MAX_ENTRIES
    BY <1>5 DEF IInv, Words
  <2> QED
    BY <2>2, <2>3, <2>4, <2>5, <2>6, <2>7 DEF Words
<1>16. Counts'
  <2> SUFFICES ASSUME NEW z \in Zval
               PROVE  /\ refcount'[z] >= refs'[z]
                      /\ z \in Links' \/ Pinned(z)' => refcount'[z] > refs'[z]
                      /\ z \notin allocated' => refcount'[z] = 0
    BY DEF Counts
  <2>1. refcount[z] \in Nat /\ refs[z] \in Nat /\ refs'[z] = refs[z]
    BY <1>5, PinFacts, Constants DEF HeapTyped
  <2>2. CASE z \in W
    BY <1>4, <1>5, <2>1, <2>2
  <2>3. CASE z \notin W
    BY <1>4, <1>5, <1>7, <1>11, <2>1, <2>3 DEF IInv, Counts
  <2> QED
    BY <2>2, <2>3
<1>17. Pins'
  <2>1. ASSUME NEW m \in Zval, Pinned(m) PROVE m \in allocated' /\ ptr'[m] = Null
    <3>1. m \in Node /\ m \in allocated /\ ptr[m] = Null /\ m \notin W
      BY <1>4, <2>1, PinFacts
    <3> QED
      BY <1>4, <1>5, <3>1
  <2>2. ASSUME NEW i \in 1..Len(stack'), stack'[i].kind = "root"
        PROVE  i \in 1..L /\ stack[i].kind = "root" /\ stack'[i].node = stack[i].node /\ Pinned(stack[i].node)
    BY <1>6, <1>9, <2>2 DEF Pinned, L
  <2>3. first_unused' = first_unused
    BY <1>5
  <2> QED
    BY <2>1, <2>2, <2>3 DEF IInv, Pins, L
<1>18. Saved'
  <2>1. \A z \in Links' : color'[z] = "black"
    <3> SUFFICES ASSUME NEW z \in Links' PROVE color'[z] = "black"
      OBVIOUS
    <3>1. z \in Zval /\ z \in Node /\ (z \in Links \/ z \in W)
      BY <1>7, Constants DEF Links
    <3> QED
      BY <1>4, <1>8, <3>1
  <2>2. free_list' # Null
    BY <1>4, <1>5, Constants
  <2>3. ASSUME NEW i \in Collections', stack'[i].orig_free_list = Null, NEW z \in Links'
        PROVE  \E j \in Collections' : j >= i /\ z \in stack'[j].garbage
    <3>1. z \in Zval /\ (z \in Links \/ z \in W)
      BY <1>7 DEF Links
    <3>2. i \in 1..(L + 1)
      BY <1>6, <1>9, <1>10
    <3>3. CASE z \in W
      BY <1>6, <3>2, <3>3
    <3>4. CASE z \in Links
      <4>1. i # L + 1
        BY <1>6, <2>3, <3>4 DEF IInv, Saved
      <4>2. i \in Collections /\ stack[i].orig_free_list = Null
        BY <1>6, <1>10, <2>3, <4>1
      <4>3. PICK j \in Collections : j >= i /\ z \in stack[j].garbage
        BY <3>4, <4>2 DEF IInv, Saved, GarbageFrom
      <4> QED
        BY <1>6, <1>10, <4>3
    <3> QED
      BY <3>1, <3>3, <3>4
  <2>4. \A i \in Collections' : stack'[i].orig_free_list = Null => Links' \subseteq GarbageFrom(i)'
    BY <2>3 DEF GarbageFrom
  <2>5. ASSUME NEW i \in Collections', NEW j \in Collections', i < j PROVE stack'[j].orig_free_list # Null
    <3>1. i \in Collections
      <4>1. j \in 1..(L + 1) /\ i \in 1..(L + 1)
        BY <1>6, <1>9, <1>10
      <4> QED
        BY <1>6, <2>5, <4>1
    <3>2. CASE j = L + 1
      BY <1>6, <3>1, <3>2 DEF IInv, Saved
    <3>3. CASE j # L + 1
      BY <1>6, <1>10, <2>5, <3>1, <3>3 DEF IInv, Saved
    <3> QED
      BY <3>2, <3>3
  <2> QED
    BY <2>1, <2>2, <2>4, <2>5 DEF Saved
<1>19. \A i \in Collections : stack[i].garbage \subseteq Links /\ stack[i].garbage \subseteq Zval
  BY DEF IInv, Apart, Links
<1>20. Apart'
  <2>1. \A i \in Collections' : stack'[i].garbage \subseteq Links'
    <3> SUFFICES ASSUME NEW i \in Collections' PROVE stack'[i].garbage \subseteq Links'
      OBVIOUS
    <3>1. CASE i = L + 1
      BY <1>4, <1>6, <1>7, <3>1
    <3>2. CASE i # L + 1
      BY <1>6, <1>7, <1>10, <1>19, <3>2
    <3> QED
      BY <3>1, <3>2
  <2>2. \A i \in Collections : stack[i].garbage \cap W = {}
    BY <1>4, <1>19
  <2>3. \A i, j \in Collections' : i # j => stack'[i].garbage \cap stack'[j].garbage = {}
    <3> SUFFICES ASSUME NEW i \in Collections', NEW j \in Collections', i # j
                 PROVE  stack'[i].garbage \cap stack'[j].garbage = {}
      OBVIOUS
    <3>1. CASE i \in Collections /\ j \in Collections
      BY <1>10, <3>1 DEF IInv, Apart
    <3>2. CASE i = L + 1 /\ j \in Collections
      BY <1>6, <1>10, <2>2, <3>2
    <3>3. CASE i \in Collections /\ j = L + 1
      BY <1>6, <1>10, <2>2, <3>3
    <3> QED
      BY <1>6, <3>1, <3>2, <3>3
  <2> QED
    BY <2>1, <2>3 DEF Apart
<1>21. \A i \in Collections' : Inner(i)' = IF i = L + 1 THEN {} ELSE Inner(i) \cup {L + 1}
  <2> SUFFICES ASSUME NEW i \in Collections' PROVE Inner(i)' = IF i = L + 1 THEN {} ELSE Inner(i) \cup {L + 1}
    OBVIOUS
  <2>1. CASE i = L + 1
    <3>1. \A j \in Collections' : ~(j > L + 1)
      BY <1>6, <1>9, <1>10
    <3> QED
      BY <2>1, <3>1 DEF Inner
  <2>2. CASE i # L + 1
    BY <1>6, <1>10, <2>2 DEF Inner
  <2> QED
    BY <2>1, <2>2
<1>22. Lists'
  <2> SUFFICES ASSUME NEW i \in Collections'
               PROVE  /\ stack'[i].p \in stack'[i].garbage \cup {End}
                      /\ stack'[i].phase = "free" =>
                           Chain(color', ptr', stack'[i].garbage, stack'[i].p) /\ \A z \in stack'[i].garbage : refs'[z] = 0
                      /\ stack'[i].phase # "free" /\ Inner(i)' = {} => Chain(color', ptr', stack'[i].garbage, free_list')
                      /\ stack'[i].phase = "destroying" /\ Inner(i)' = {} => next_to_free' \in stack'[i].garbage \cup {End}
                      /\ \A j \in Collections' : j \in Inner(i)' /\ (\A k \in Inner(i)' : j <= k) =>
                           /\ Chain(color', ptr', stack'[i].garbage, stack'[j].orig_free_list)
                           /\ stack'[i].phase = "destroying" => stack'[j].orig_next_to_free \in stack'[i].garbage \cup {End}
    BY DEF Lists, IsList, Saves
  <2>1. CASE i = L + 1
    BY <1>4, <1>5, <1>6, <1>21, <2>1
  <2>2. CASE i # L + 1
    <3>1. i \in Collections /\ stack'[i] = stack[i] /\ stack[i].phase # "free" /\ Inner(i)' = Inner(i) \cup {L + 1}
      BY <1>6, <1>10, <1>21, <2>2
    <3>2. ASSUME NEW h, Chain(color, ptr, stack[i].garbage, h)
          PROVE  Chain(color', ptr', stack[i].garbage, h)
      BY <1>8, <1>19, <3>1, <3>2, ChainKept
    <3>3. ASSUME NEW j \in Collections', j \in Inner(i)', \A k \in Inner(i)' : j <= k
          PROVE  /\ Chain(color', ptr', stack[i].garbage, stack'[j].orig_free_list)
                 /\ stack[i].phase = "destroying" => stack'[j].orig_next_to_free \in stack[i].garbage \cup {End}
      <4>1. CASE j = L + 1
        <5>1. Inner(i) = {}
          <6>1. \A k \in Inner(i) : k < L + 1 /\ k \in Int
            BY <1>10 DEF Inner
          <6> QED
            BY <1>6, <3>1, <3>3, <4>1, <6>1
        <5> QED
          BY <1>6, <3>1, <3>2, <4>1, <5>1 DEF IInv, Lists, IsList
      <4>2. CASE j # L + 1
        <5>1. j \in Collections /\ j \in Inner(i) /\ \A k \in Inner(i) : j <= k
          BY <1>6, <3>1, <3>3, <4>2
        <5> QED
          BY <1>10, <3>1, <3>2, <5>1 DEF IInv, Lists, IsList, Saves
      <4> QED
        BY <4>1, <4>2
    <3> QED
      BY <3>1, <3>3 DEF IInv, Lists
  <2> QED
    BY <2>1, <2>2
<1> QED
  BY <1>4, <1>6, <1>12, <1>13, <1>14, <1>15, <1>16, <1>17, <1>18, <1>20, <1>22, Assembled

-----------------------------------------------------------------------------
(* The theorems.                                                            *)

LEMMA InvariantInit == Init => IInv
<1> SUFFICES ASSUME Init PROVE IInv
  OBVIOUS
<1>1. /\ allocated = {} /\ refcount = [z \in Zval |-> 0] /\ refs = [z \in Zval |-> 0]
      /\ color = [n \in Node |-> "black"] /\ ptr = [n \in Node |-> Null]
      /\ named = [e \in Entry |-> Null]
      /\ roots = {} /\ unused = {} /\ first_unused = 1 /\ gc_enabled \in BOOLEAN
      /\ last_unused = (IF gc_enabled THEN GC_ROOT_BUFFER_MAX_ENTRIES ELSE 0)
      /\ free_list = Null /\ next_to_free = Null /\ stack = <<>>
  BY DEF Init
<1>2. Len(stack) = 0 /\ stack \in Seq(Frame) /\ 1..Len(stack) = {} /\ Collections = {} /\ \A m : ~Pinned(m)
  <2>1. Len(stack) = 0 /\ stack \in Seq(Frame) /\ 1..Len(stack) = {} /\ \A i : i \notin 1..Len(stack)
    BY <1>1
  <2> QED
    BY <2>1 DEF Collections, Pinned
<1>3. Links = {}
  BY <1>1, Constants DEF Links
<1>4. TypeOK
  <2>1. HeapTyped /\ WordTyped /\ ListsTyped
    BY <1>1, Constants DEF HeapTyped, WordTyped, ListsTyped
  <2>2. BufferTyped
    <3>1. last_unused \in Nat
      BY <1>1, Constants
    <3> QED
      BY <1>1, <3>1 DEF BufferTyped
  <2>3. StackTyped
    BY <1>2, Constants DEF StackTyped
  <2> QED
    BY <1>1, <2>1, <2>2, <2>3, TypeParts
<1>5. Words
  BY <1>1, Constants DEF Words
<1>6. Counts
  BY <1>1, <1>2, <1>3 DEF Counts
<1>7. Pins /\ Shape /\ Apart /\ Lists
  BY <1>2, Constants DEF Pins, Shape, Apart, Lists
<1>8. Saved
  BY <1>2, <1>3 DEF Saved
<1> QED
  BY <1>4, <1>5, <1>6, <1>7, <1>8 DEF IInv

LEMMA InvariantStep == TouchPinned = FALSE /\ IInv /\ [Next]_vars => IInv'
<1> SUFFICES ASSUME TouchPinned = FALSE, IInv, [Next]_vars PROVE IInv'
  OBVIOUS
<1>1. ASSUME NEW z \in Zval, NewZval(z) \/ AddRef(z) \/ DelRef(z) PROVE IInv'
  BY <1>1, NewZvalKeeps, AddRefKeeps, ReleaseKeeps, FreeKeeps
<1>2. ASSUME NEW o \in Obj, NewObject(o) \/ DelObjectRef(o) \/ FreeObject(o) PROVE IInv'
  BY <1>2, NewObjectKeeps, DelObjectRefKeeps, FreeObjectKeeps
<1>3. CASE OnUpdateGCEnabled
  BY <1>3, OnUpdateKeeps
<1>4. CASE gc_collect_cycles
  BY <1>4, CollectKeeps
<1>5. CASE NextDestructor \/ Destroy \/ Destroyed \/ AllDestroyed
  BY <1>5, DestroyingKeeps
<1>6. CASE FreeZval
  BY <1>6, FreeZvalKeeps
<1>7. CASE Collected
  BY <1>7, CollectedKeeps
<1>8. CASE Retry
  BY <1>8, RetryKeeps
<1>9. CASE Bailout \/ gc_reset
  BY <1>9, EndsKeep
<1>10. CASE UNCHANGED vars
  <2>1. UNCHANGED <<allocated, refcount, refs, color, ptr, named, roots, unused, first_unused, last_unused,
                    gc_enabled, free_list, next_to_free, stack>>
    BY <1>10 DEF vars, heap, word, buffer, lists
  <2>2. HeapTyped' /\ WordTyped' /\ BufferTyped' /\ ListsTyped' /\ gc_enabled' \in BOOLEAN
    BY <2>1, PinFacts DEF HeapTyped, WordTyped, BufferTyped, ListsTyped
  <2>3. StackTyped' /\ Shape' /\ KeepsFrames /\ \A m : Pinned(m)' <=> Pinned(m)
    BY <2>1, SameStack, PinFacts DEF IInv
  <2>4. KeepsLinks /\ UNCHANGED lists
    BY <2>1 DEF KeepsLinks, Links, lists
  <2>5. Saved' /\ Apart' /\ Lists'
    BY <2>1, <2>3, <2>4, QuietLists DEF IInv
  <2>6. Words' /\ Counts'
    BY <2>1, <2>3, <2>4, CountsKept DEF IInv, Words
  <2>7. Pins'
    BY <2>1, PinsKept, PinFacts DEF IInv
  <2> QED
    BY <2>2, <2>3, <2>5, <2>6, <2>7, Assembled
<1> QED
  BY <1>1, <1>2, <1>3, <1>4, <1>5, <1>6, <1>7, <1>8, <1>9, <1>10 DEF Next

LEMMA Invariant == TouchPinned = FALSE => (Spec => []IInv)
<1> SUFFICES ASSUME TouchPinned = FALSE PROVE Spec => []IInv
  OBVIOUS
<1>1. IInv /\ [Next]_vars => IInv'
  BY InvariantStep
<1> QED
  BY <1>1, InvariantInit, PTL DEF Spec

\* A collection inside another follows it at once, or after the possible_root that started it.
LEMMA SomeoneSaves ==
  ASSUME IInv, NEW i \in Collections, Inner(i) # {}
  PROVE  \E j \in Collections : Saves(j, i)
<1> DEFINE L == Len(stack)
<1>1. L \in Nat /\ i \in 1..L /\ stack[i].kind = "gc" /\ \A k \in 1..L : stack[k].kind \in {"gc", "root"}
  <2>1. stack \in Seq(Frame) /\ L \in Nat /\ \A k \in 1..L : stack[k] \in Frame
    BY Stacks, PinFacts DEF StackTyped
  <2> QED
    BY <2>1, Frames DEF Collections
<1>2. \A k \in 1..L : stack[k].kind = "gc" <=> k \in Collections
  BY DEF Collections
<1>3. \A k \in 1..L : stack[k].kind = "root" /\ k < L => stack[k + 1].kind = "gc"
  BY DEF IInv, Shape
<1>4. PICK m \in Collections : m > i
  BY DEF Inner
<1>5. m \in 1..L /\ \A k \in Collections : k \in 1..L
  BY DEF Collections
<1> HIDE DEF L
<1>6. i + 1 \in 1..L
  BY <1>1, <1>4, <1>5
<1>7. CASE i + 1 \in Collections
  <2>1. \A k \in Inner(i) : i + 1 <= k
    BY <1>1, <1>5 DEF Inner
  <2> QED
    BY <1>1, <1>7, <2>1 DEF Saves, Inner
<1>8. CASE i + 1 \notin Collections
  <2>1. stack[i + 1].kind = "root" /\ m # i + 1
    BY <1>1, <1>2, <1>6, <1>8
  <2>2. i + 2 \in 1..L /\ i + 1 < L /\ (i + 1) + 1 = i + 2
    BY <1>1, <1>4, <1>5, <2>1
  <2>3. i + 2 \in Collections
    BY <1>2, <1>3, <1>6, <2>1, <2>2
  <2>4. \A k \in Inner(i) : i + 2 <= k
    BY <1>1, <1>5, <1>8 DEF Inner
  <2> QED
    BY <1>1, <2>3, <2>4 DEF Saves, Inner
<1> QED
  BY <1>7, <1>8

LEMMA InvariantLists == IInv => ListsIntact
<1> SUFFICES ASSUME IInv, NEW i \in Collections
             PROVE  /\ stack[i].garbage \subseteq allocated
                    /\ \E s \in Orders(stack[i].garbage) : Linked(s, HeadOf(i))
                    /\ stack[i].p \in stack[i].garbage \cup {End}
                    /\ \A j \in Inner(i) : stack[i].garbage \cap stack[j].garbage = {}
  BY DEF ListsIntact
<1>1. stack[i].garbage \subseteq allocated
  BY PinFacts DEF IInv, Apart
<1>2. stack[i].p \in stack[i].garbage \cup {End}
  BY DEF IInv, Lists
<1>3. \A j \in Inner(i) : stack[i].garbage \cap stack[j].garbage = {}
  <2>1. i \in Nat
    BY DEF Collections
  <2> QED
    BY <2>1 DEF IInv, Apart, Inner
<1>4. IsList(stack[i].garbage, HeadOf(i))
  <2>1. CASE stack[i].phase = "free"
    BY <2>1 DEF IInv, Lists, HeadOf
  <2>2. CASE stack[i].phase # "free" /\ Inner(i) = {}
    BY <2>2 DEF IInv, Lists, HeadOf
  <2>3. CASE stack[i].phase # "free" /\ Inner(i) # {}
    <3>1. PICK j \in Collections : Saves(j, i)
      BY <2>3, SomeoneSaves
    <3>2. j \in Inner(i) /\ \A k \in Inner(i) : k \in Nat /\ j <= k
      BY <3>1 DEF Saves, Inner, Collections
    <3>3. (CHOOSE l \in Inner(i) : \A k \in Inner(i) : l <= k) = j
      BY <3>2
    <3>4. HeadOf(i) = stack[j].orig_free_list
      BY <2>3, <3>3 DEF HeadOf
    <3> QED
      BY <3>1, <3>4 DEF IInv, Lists
  <2> QED
    BY <2>1, <2>2, <2>3
<1>5. \E s \in Orders(stack[i].garbage) : Linked(s, HeadOf(i))
  BY <1>4 DEF IsList, Chain, Orders, Linked
<1> QED
  BY <1>1, <1>2, <1>3, <1>5

LEMMA InvariantBuffer == IInv => BufferAgrees
BY Constants DEF IInv, Words, BufferAgrees, TypeOK

\* Whatever scripts release between and inside collections, the entry in the word of a zval
\* names it and no other entry does, an object's entry names it, and an entry is a root or
\* free, once (gc_zval_possible_root, GC_REMOVE_FROM_BUFFER, the passes).
THEOREM BufferAndWordsAgree == TouchPinned = FALSE => (Spec => []BufferAgrees)
<1> SUFFICES ASSUME TouchPinned = FALSE PROVE Spec => []BufferAgrees
  OBVIOUS
<1> QED
  BY Invariant, InvariantBuffer, PTL

\* However collections nest, and whatever destructors release, u.next leads from where a
\* collection holds its list through exactly the zvals it still has to free, and no zval is on
\* two lists (FREE_LIST_END, gc_collect_cycles).
THEOREM ListsStayWhole == TouchPinned = FALSE => (Spec => []ListsIntact)
<1> SUFFICES ASSUME TouchPinned = FALSE PROVE Spec => []ListsIntact
  OBVIOUS
<1> QED
  BY Invariant, InvariantLists, PTL

-----------------------------------------------------------------------------
(* No possible root is forgotten.                                           *)

\* A step that makes only n purple, or gives it an entry, is no reason to forget another node.
LEMMA PossibleRootForgets ==
  ASSUME IInv, Script, NEW n \in Node, n \in allocated, PossibleRoot(n), allocated' = allocated
  PROVE  Forgotten' \subseteq Forgotten \/ FreeEntries' = {}
<1>1. /\ \A m \in Node : m # n => ptr'[m] = ptr[m]
      /\ ~Overflows(n) => stack' = stack
      /\ Overflows(n) => \A m : Pinned(m)' <=> Pinned(m) \/ m = n
  BY PossibleRootKeeps DEF IInv
<1>2. \A m : Pinned(m) => Pinned(m)'
  BY <1>1 DEF Pinned
<1>3. \A m \in Node : m # n => color'[m] = color[m]
  BY PinFacts DEF PossibleRoot, Overflow, Take, word, WordTyped
<1>4. allocated \subseteq Node
  BY PinFacts DEF HeapTyped
<1>5. ASSUME n \in Forgotten' => n \in Forgotten PROVE Forgotten' \subseteq Forgotten
  <2> SUFFICES ASSUME NEW m \in Forgotten', m # n PROVE m \in Forgotten
    BY <1>5
  <2>1. m \in allocated /\ m \in Node /\ color'[m] = "purple" /\ ptr'[m] = Null /\ ~Pinned(m)'
    BY <1>4 DEF Forgotten
  <2> QED
    BY <1>1, <1>2, <1>3, <2>1 DEF Forgotten
<1>6. CASE color[n] = "purple" \/ (n \in Zval /\ Listed(n))
  <2>1. UNCHANGED <<color, ptr, stack>>
    BY <1>6 DEF PossibleRoot, word
  <2> QED
    BY <1>5, <2>1 DEF Forgotten, Pinned
<1>7. CASE ~(color[n] = "purple" \/ (n \in Zval /\ Listed(n))) /\ ptr[n] # Null
  <2>1. ptr'[n] # Null
    BY <1>7 DEF PossibleRoot
  <2> QED
    BY <1>5, <2>1 DEF Forgotten
<1>8. CASE ~(color[n] = "purple" \/ (n \in Zval /\ Listed(n))) /\ ptr[n] = Null /\ Candidates # {}
  <2>1. PICK e \in Candidates : Take(e, n)
    BY <1>8 DEF PossibleRoot
  <2>2. e \in Entry
    BY <2>1, FreeEntry, PinFacts DEF Candidates, Free, IInv
  <2>3. ptr'[n] # Null
    BY <2>1, <2>2, PinFacts, Constants DEF Take, WordTyped
  <2> QED
    BY <1>5, <2>3 DEF Forgotten
<1>9. CASE ~(color[n] = "purple" \/ (n \in Zval /\ Listed(n))) /\ ptr[n] = Null /\ Candidates = {}
  <2>1. Overflow(n) /\ UNCHANGED buffer
    BY <1>9 DEF PossibleRoot
  <2>2. CASE gc_enabled
    <3>1. Overflows(n)
      BY <1>9, <2>2 DEF Overflows
    <3>2. Pinned(n)'
      BY <1>1, <3>1
    <3> QED
      BY <1>5, <3>2 DEF Forgotten
  <2>3. CASE ~gc_enabled
    <3>1. unused = {} /\ ~(first_unused <= last_unused) /\ first_unused \in Nat /\ last_unused \in Nat
      BY <1>9, PinFacts, Constants DEF Candidates, BufferTyped
    <3>2. UNCHANGED <<unused, first_unused, last_unused>>
      BY <2>1 DEF buffer
    <3> QED
      BY <3>1, <3>2 DEF FreeEntries
  <2> QED
    BY <2>2, <2>3
<1> QED
  BY <1>6, <1>7, <1>8, <1>9

\* Nothing is forgotten where no node turns purple, loses its entry or its pin.
LEMMA Remembered ==
  ASSUME \A m \in allocated' : m \in allocated \/ color'[m] # "purple",
         \A m \in allocated' : color'[m] = "purple" =>
           color[m] = "purple" /\ (ptr'[m] = Null => ptr[m] = Null),
         \A m : Pinned(m) => Pinned(m)'
  PROVE  Forgotten' \subseteq Forgotten
BY DEF Forgotten

\* The passes take the entries of what they turn black.
LEMMA CollectForgets ==
  ASSUME IInv, gc_collect_cycles
  PROVE  Forgotten' \subseteq Forgotten
<1>1. PICK X \in SUBSET allocated :
        \E V \in SUBSET {z \in (X \cup Purple) \cap Zval : CanBeWhite(z)} : \E s \in Orders(V) : Passes(X \cup Purple, s)
  BY DEF gc_collect_cycles
<1>2. PICK V \in SUBSET {z \in (X \cup Purple) \cap Zval : CanBeWhite(z)} :
        \E s \in Orders(V) : Passes(X \cup Purple, s)
  BY <1>1
<1>3. PICK s \in Orders(V) : Passes(X \cup Purple, s)
  BY <1>2
<1> DEFINE M == X \cup Purple
           W == {s[i] : i \in DOMAIN s}
           head == IF s = <<>> THEN End ELSE s[1]
<1>4. /\ W \in SUBSET Zval /\ W \subseteq allocated /\ W \subseteq M
      /\ \A z \in W : z \notin Links /\ ~Pinned(z) /\ refcount[z] = refs[z]
      /\ \A n \in Node : color'[n] = IF n \in M THEN "black" ELSE color[n]
      /\ \A n \in Node : n \notin W => ptr'[n] = IF ptr[n] \in Entry THEN Null ELSE ptr[n]
      /\ Chain(color', ptr', W, head) /\ head \in W \cup {End}
      /\ \A z \in W : ptr'[z] \in W \cup {End}
      /\ WordTyped'
      /\ \A z \in Zval : refcount'[z] = IF z \in W THEN refcount[z] + 1 ELSE refcount[z]
      /\ DOMAIN refcount' = Zval
  BY <1>3, PassesFacts
<1>5. (Script /\ Len(stack) < MaxDepth) \/ (Top.kind = "root" /\ Top.phase = "full")
  BY DEF gc_collect_cycles
<1>6. /\ Len(stack) \in Nat /\ Len(stack') = Len(stack) + 1
      /\ \A i \in 1..Len(stack) : /\ stack'[i].kind = stack[i].kind
                                  /\ stack[i].kind = "root" => stack'[i].node = stack[i].node
  BY <1>3, <1>4, <1>5, PassesFrames
<1> HIDE DEF W, head
<1>7. \A m : Pinned(m) => Pinned(m)'
  <2>1. \A i \in 1..Len(stack) : i \in 1..Len(stack')
    BY <1>6
  <2> QED
    BY <1>6, <2>1 DEF Pinned
<1>8. \A e \in roots : color[named[e]] = "purple" => named[e] \in M
  BY DEF Purple
<1> HIDE DEF M
<1>9. \A m \in Node : color'[m] = "purple" => color[m] = "purple" /\ (ptr'[m] = Null => ptr[m] = Null)
  <2> SUFFICES ASSUME NEW m \in Node, color'[m] = "purple", ptr'[m] = Null
               PROVE  color[m] = "purple" /\ ptr[m] = Null
    BY <1>4
  <2>1. m \notin M /\ color[m] = "purple" /\ m \notin W
    BY <1>4
  <2>2. ptr[m] \notin Entry
    <3>1. ptr[m] \in Entry => \E e \in roots : named[e] = m
      BY DEF IInv, Words
    <3> QED
      BY <1>8, <2>1, <3>1
  <2> QED
    BY <1>4, <2>1, <2>2
<1>10. allocated' = allocated /\ allocated \subseteq Node
  BY PinFacts DEF gc_collect_cycles, HeapTyped
<1> QED
  BY <1>7, <1>9, <1>10, Remembered

LEMMA StepForgets ==
  ASSUME TouchPinned = FALSE, IInv, [Next]_vars
  PROVE  Forgotten' \subseteq Forgotten \/ FreeEntries' = {} \/ Len(stack') < Len(stack) - 1
<1>0. allocated \subseteq Node /\ WordTyped /\ BufferTyped /\ StackTyped
  BY PinFacts DEF HeapTyped
<1>1. ASSUME NEW z \in Zval, NewZval(z)
      PROVE  Forgotten' \subseteq Forgotten
  <2>1. color' = [color EXCEPT ![z] = "black"] /\ ptr' = [ptr EXCEPT ![z] = Null] /\ stack' = stack
        /\ allocated' = allocated \cup {z}
    BY <1>1 DEF NewZval
  <2>2. \A m \in Node : color'[m] = (IF m = z THEN "black" ELSE color[m]) /\ (m # z => ptr'[m] = ptr[m])
    BY <1>0, <2>1 DEF WordTyped
  <2> QED
    BY <1>0, <2>1, <2>2, Remembered, Constants DEF Pinned
<1>2. ASSUME NEW z \in Zval, AddRef(z)
      PROVE  Forgotten' \subseteq Forgotten
  BY <1>2, Remembered DEF AddRef, word, Pinned
<1>3. ASSUME NEW z \in Zval, DelRef(z)
      PROVE  Forgotten' \subseteq Forgotten \/ FreeEntries' = {}
  <2>1. CASE refcount[z] > 1
    <3>1. z \in allocated
      <4>1. refs[z] > 0 /\ refcount[z] \in Nat /\ refs[z] \in Nat
        BY <1>3, PinFacts, Constants DEF DelRef, HeapTyped
      <4> QED
        BY <2>1, <4>1 DEF IInv, Counts
    <3> QED
      BY <1>3, <2>1, <3>1, PossibleRootForgets, Constants DEF DelRef
  <2>2. CASE ~(refcount[z] > 1)
    <3>1. color' = [color EXCEPT ![z] = "black"] /\ ptr' = [ptr EXCEPT ![z] = Null] /\ stack' = stack
          /\ allocated' = allocated \ {z}
      BY <1>3, <2>2 DEF DelRef
    <3>2. \A m \in Node : m # z => color'[m] = color[m] /\ ptr'[m] = ptr[m]
      BY <1>0, <3>1 DEF WordTyped
    <3> QED
      BY <1>0, <3>1, <3>2, Remembered DEF Pinned
  <2> QED
    BY <2>1, <2>2
<1>4. ASSUME NEW o \in Obj, NewObject(o)
      PROVE  Forgotten' \subseteq Forgotten
  <2>1. color' = [color EXCEPT ![o] = "black"] /\ ptr' = [ptr EXCEPT ![o] = Null] /\ stack' = stack
        /\ allocated' = allocated \cup {o}
    BY <1>4 DEF NewObject
  <2>2. \A m \in Node : color'[m] = (IF m = o THEN "black" ELSE color[m]) /\ (m # o => ptr'[m] = ptr[m])
    BY <1>0, <2>1 DEF WordTyped
  <2> QED
    BY <1>0, <2>1, <2>2, Remembered, Constants DEF Pinned
<1>5. ASSUME NEW o \in Obj, DelObjectRef(o)
      PROVE  Forgotten' \subseteq Forgotten \/ FreeEntries' = {}
  BY <1>5, PossibleRootForgets, Constants DEF DelObjectRef, heap
<1>6. ASSUME NEW o \in Obj, FreeObject(o)
      PROVE  Forgotten' \subseteq Forgotten
  <2>1. /\ allocated' = allocated \ {o} /\ stack' = stack
        /\ UNCHANGED word \/ (color' = [color EXCEPT ![o] = "black"] /\ ptr' = [ptr EXCEPT ![o] = Null])
    BY <1>6 DEF FreeObject
  <2>2. \A m \in Node : m # o => color'[m] = color[m] /\ ptr'[m] = ptr[m]
    BY <1>0, <2>1 DEF WordTyped, word
  <2> QED
    BY <1>0, <2>1, <2>2, Remembered DEF Pinned
<1>7. ASSUME OnUpdateGCEnabled \/ UNCHANGED vars
      PROVE  Forgotten' \subseteq Forgotten
  BY <1>7, Remembered DEF OnUpdateGCEnabled, vars, heap, word, Pinned
<1>8. ASSUME NextDestructor \/ Destroy \/ Destroyed \/ AllDestroyed
      PROVE  Forgotten' \subseteq Forgotten
  <2>1. UNCHANGED <<allocated, color, ptr>>
    BY <1>8 DEF NextDestructor, Destroy, Destroyed, AllDestroyed, heap, word
  <2>2. \A m : Pinned(m) => Pinned(m)'
    <3>1. Top.kind = "gc" /\ \E g : stack' = SetTop(g)
      BY <1>8 DEF NextDestructor, Destroy, Destroyed, AllDestroyed, Collecting
    <3>2. stack[Len(stack)].kind = "gc"
      BY <3>1 DEF Top
    <3> QED
      BY <1>0, <3>1, <3>2 DEF Pinned, SetTop, StackTyped
  <2> QED
    BY <2>1, <2>2, Remembered
<1>9. ASSUME FreeZval
      PROVE  Forgotten' \subseteq Forgotten
  <2>1. /\ Top.kind = "gc" /\ \E g : stack' = SetTop(g)
        /\ allocated' = allocated \ {Top.p}
        /\ color' = [color EXCEPT ![Top.p] = "black"] /\ ptr' = [ptr EXCEPT ![Top.p] = Null]
    BY <1>9 DEF FreeZval, Collecting
  <2>2. \A m : Pinned(m) => Pinned(m)'
    <3>1. stack[Len(stack)].kind = "gc"
      BY <2>1 DEF Top
    <3> QED
      BY <1>0, <2>1, <3>1 DEF Pinned, SetTop, StackTyped
  <2>3. \A m \in Node : m # Top.p => color'[m] = color[m] /\ ptr'[m] = ptr[m]
    BY <1>0, <2>1 DEF WordTyped
  <2> QED
    BY <1>0, <2>1, <2>2, <2>3, Remembered
<1>10. ASSUME gc_reset
       PROVE  Forgotten' \subseteq Forgotten
  BY <1>10 DEF gc_reset, Forgotten
<1> QED
  <2>1. CASE Collected
    <3>1. /\ stack # <<>> /\ Top = stack[Len(stack)] /\ Top.kind = "gc" /\ stack' = Pop
          /\ UNCHANGED <<allocated, color, ptr>>
      BY <2>1, TopFacts DEF Collected, Collecting, heap, word
    <3>2. Len(stack) \in Nat /\ Len(stack') = Len(stack) - 1 /\ \A i \in 1..(Len(stack) - 1) : stack'[i] = stack[i]
      BY <1>0, <3>1, PoppedFrame DEF IInv
    <3>3. \A m : Pinned(m) => Pinned(m)'
      BY <3>1, <3>2 DEF Pinned
    <3> QED
      BY <3>1, <3>3, Remembered
  <2>2. CASE Retry
    <3> DEFINE n == Top.node
    <3>1. /\ stack # <<>> /\ Top = stack[Len(stack)] /\ n \in Node
          /\ stack' = Pop /\ allocated' = allocated /\ UNCHANGED gc_enabled
          /\ Pinned(n)
      <4>1. stack # <<>> /\ Top.kind = "root"
        BY <2>2, NoFrame DEF Retry
      <4>2. Top = stack[Len(stack)] /\ n \in Node /\ Len(stack) \in 1..Len(stack)
        BY <1>0, <4>1, TopFrame, Frames DEF StackTyped
      <4>3. Pinned(n)
        BY <4>1, <4>2 DEF Pinned
      <4> QED
        BY <2>2, <4>1, <4>2, <4>3, PinFacts DEF Retry
    <3>2. Len(stack) \in Nat /\ Len(stack') = Len(stack) - 1 /\ \A i \in 1..(Len(stack) - 1) : stack'[i] = stack[i]
      BY <1>0, <3>1, PoppedFrame DEF IInv
    <3>3. \A m : Pinned(m) /\ m # n => Pinned(m)'
      BY <3>1, <3>2 DEF Pinned
    <3>4. CASE unused = {}
      <4>1. first_unused > GC_ROOT_BUFFER_MAX_ENTRIES
        BY <3>1 DEF IInv, Pins, Pinned
      <4>2. UNCHANGED <<unused, first_unused, last_unused>>
        BY <2>2, <3>4 DEF Retry, buffer
      <4>3. first_unused \in Nat /\ last_unused \in Nat /\ last_unused <= GC_ROOT_BUFFER_MAX_ENTRIES
        BY <1>0, Constants DEF BufferTyped
      <4> QED
        BY <3>4, <4>1, <4>2, <4>3, Constants DEF FreeEntries
    <3>5. CASE unused # {}
      <4>1. PICK e \in unused : Take(e, n)
        BY <2>2, <3>5 DEF Retry
      <4>2. e \in Entry
        BY <1>0, <4>1 DEF BufferTyped
      <4>3. ptr'[n] # Null /\ \A m \in Node : m # n => ptr'[m] = ptr[m] /\ color'[m] = color[m]
        BY <1>0, <3>1, <4>1, <4>2, Constants DEF Take, WordTyped
      <4> HIDE DEF n
      <4>4. \A m \in Forgotten' : m \in Forgotten
        BY <1>0, <3>1, <3>3, <4>3 DEF Forgotten
      <4> QED
        BY <4>4
    <3> QED
      BY <3>4, <3>5
  <2>3. CASE Bailout
    <3>1. /\ stack # <<>> /\ Script /\ stack' = <<>> /\ UNCHANGED <<allocated, color, ptr>>
      BY <2>3 DEF Bailout, heap, word
    <3>2. Len(stack) \in Nat /\ Len(stack) > 0 /\ Len(stack') = 0
      BY <1>0, <3>1, Stacks DEF StackTyped
    <3>3. CASE Len(stack) = 1
      <4>1. stack[1].kind = "gc"
        BY <1>0, <3>1, <3>3, ScriptTop
      <4>2. \A m : ~Pinned(m)
        BY <3>3, <4>1 DEF Pinned
      <4> QED
        BY <3>1, <4>2, Remembered
    <3>4. CASE Len(stack) # 1
      <4> DEFINE L == Len(stack)
      <4>1. L \in Nat /\ L > 0 /\ L # 1
        BY <3>2, <3>4
      <4> HIDE DEF L
      <4>2. 0 < L - 1
        BY <4>1
      <4> QED
        BY <3>2, <4>2 DEF L
    <3> QED
      BY <3>3, <3>4
  <2> QED
    BY <1>1, <1>2, <1>3, <1>4, <1>5, <1>6, <1>7, <1>8, <1>9, <1>10, <2>1, <2>2, <2>3, CollectForgets DEF Next

\* A zval or object is purple without an entry, and no collection is on the way to make room
\* for it, only when the buffer is full or an exit has cut that collection short
\* (gc_zval_possible_root, gc_zobj_possible_root).
THEOREM NoRootIsForgotten == TouchPinned = FALSE => (Spec => NeverForgets)
<1> SUFFICES ASSUME TouchPinned = FALSE PROVE Spec => NeverForgets
  OBVIOUS
<1>1. IInv /\ [Next]_vars => [Forgotten' \subseteq Forgotten \/ FreeEntries' = {} \/ Len(stack') < Len(stack) - 1]_vars
  BY StepForgets
<1> QED
  BY <1>1, Invariant, PTL DEF Spec, NeverForgets
=============================================================================
