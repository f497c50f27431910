---------------------------- MODULE GcCycleProof ----------------------------
(***************************************************************************)
(* Safety of one collection, proved for every finite heap: the counts that  *)
(* the passes leave are exact and nothing that survives refers to what will *)
(* be freed.                                                                *)
(***************************************************************************)
EXTENDS GcCycle, FiniteSetTheorems, TLAPS

USE DEF ToMark, ToScan, HasCount, ToBlacken, ToCollect, Restorable

\* Nodes by colour.
Grey  == {n \in Node : color[n] = "grey"}
White == {n \in Node : color[n] = "white"}

\* What is still to be visited, whatever the pass.
Pending == work \cup blackWork

\* Roots the marking pass has walked from.
Walked == roots \ current

\* Something other than S itself answers for S: one of its members is in R, or
\* a node of P outside S refers into it.
Supported(S, P, R) == S \cap R # {} \/ \E m \in P \ S : Kids(m) \cap S # {}

\* The colors of each pass. Nothing is purple once every root was walked from,
\* nothing is grey once every grey node was scanned.
Colors ==
  /\ color[Globals] \in {"black", "purple"}
  /\ phase = "mark"  => /\ White = {}
                        /\ \A n \in Node : color[n] = "purple" => n \in current \cup work
  /\ phase # "mark"  => \A n \in Node : color[n] # "purple"
  /\ phase \in {"collect", "done"} => Grey = {}
  /\ phase = "done" => White = {}

\* The work sets are used by the pass they belong to.
Lists ==
  /\ buffered = roots
  /\ phase \in {"collect", "done"} => current = roots
  /\ phase \in {"mark", "scan"} => zval_to_free = {}
  /\ phase # "scan" => blackWork = {}
  /\ phase = "done" => work = {} /\ current = {}
  /\ phase = "mark" => \A n \in work : n \in Walked \/ \E m \in Grey : n \in Kids(m)
  /\ blackWork \subseteq Subtracted
  /\ zval_to_free \cap White = {} /\ Globals \notin zval_to_free

\* The subtracted nodes hang on the roots: a set of them that no root is in and
\* no other subtracted node refers to would never be visited again.
Reached ==
  /\ phase = "mark" =>
       \A S \in SUBSET Grey : S # {} => Supported(S, Grey, Walked)
  /\ phase = "scan" =>
       \A S \in SUBSET Subtracted : S # {} => Supported(S, Subtracted, roots \cup blackWork)
  /\ phase = "scan" =>
       \A S \in SUBSET Grey : S # {} => Supported(S, Grey, current \cup Pending)
  /\ phase = "collect" =>
       \A S \in SUBSET White : S # {} => Supported(S, White, current \cup work)

\* A white node has no counted reference left, unless it is about to turn black.
WhiteIsUnreferenced ==
  phase = "scan" => \A n \in White : refcount[n] <= 0 \/ n \in blackWork

\* While collecting, a zval's count lacks the white nodes' references, and an
\* object's count those of the listed zvals too.
Collecting ==
  phase \in {"collect", "done"} =>
    /\ \A z \in Zval \ {Globals} :
          refcount[z] = ext[z] + Outside(z, White) + (IF z \in zval_to_free THEN 1 ELSE 0)
    /\ \A h \in Obj : refcount[h] = ext[h] + Outside(h, White \cup zval_to_free)
    /\ \A h \in Obj : color[h] = "white" => refcount[h] = 0

\* The collector leaves the count of the symbol table's zval alone.
SymbolTable == refcount[Globals] = TrueCount(Globals)

\* The inductive invariant.
IInv == /\ TypeOK /\ WellFormed /\ Colors /\ Lists /\ Accounting /\ SymbolTable
        /\ Reached /\ WhiteIsUnreferenced /\ Collecting /\ DoomedIsClosed

-----------------------------------------------------------------------------
(* Facts about the heap.                                                    *)

\* The heap is finite.
LEMMA FiniteHeap == IsFiniteSet(Node) /\ IsFiniteSet(Cell)
<1>1. IsFiniteSet({Handle})
  BY FS_Singleton
<1>2. IsFiniteSet(ObjRef \X {Handle})
  BY <1>1, FS_Product, HeapAssumption
<1>3. IsFiniteSet(Array \cup ObjRef)
  BY FS_Union, HeapAssumption
<1> QED
  BY <1>2, <1>3, FS_Union, HeapAssumption DEF Node, Zval, Cell

\* Any selection of cells can be counted.
LEMMA CellsCount ==
  ASSUME NEW D \in SUBSET Cell
  PROVE  IsFiniteSet(D) /\ Cardinality(D) \in Nat
BY FiniteHeap, FS_Subset, FS_CardinalityType

\* Taking one node out of those whose references count takes its own
\* references out of a count.
LEMMA SplitCount ==
  ASSUME NEW n \in Node, NEW m \in Node, NEW X, n \notin X
  PROVE  Outside(m, X) = Outside(m, X \cup {n})
                           + Cardinality({c \in Cell : c[1] = n /\ target[c] = m})
<1> DEFINE A == {c \in RefsTo(m) : c[1] \notin X \cup {n}}
           B == {c \in Cell : c[1] = n /\ target[c] = m}
<1>1. {c \in RefsTo(m) : c[1] \notin X} = A \cup B
  BY DEF RefsTo
<1>2. A \cap B = {}
  OBVIOUS
<1>3. IsFiniteSet(A) /\ IsFiniteSet(B)
  BY CellsCount DEF RefsTo
<1>4. Cardinality(A \cup B) = Cardinality(A) + Cardinality(B)
  <2> HIDE DEF A, B
  <2>1. Cardinality(A \cup B) = Cardinality(A) + Cardinality(B) - Cardinality(A \cap B)
    BY <1>3, FS_Union
  <2>2. Cardinality(A \cap B) = 0
    BY <1>2, FS_EmptySet
  <2>3. Cardinality(A) \in Nat /\ Cardinality(B) \in Nat
    BY <1>3, FS_CardinalityType
  <2> QED
    BY <2>1, <2>2, <2>3
<1> QED
  BY <1>1, <1>4 DEF Outside

\* A count of references is a number.
LEMMA OutsideType ==
  ASSUME NEW m \in Node, NEW X
  PROVE  Outside(m, X) \in Nat
<1>1. {c \in RefsTo(m) : c[1] \notin X} \in SUBSET Cell
  BY DEF RefsTo
<1> QED
  BY <1>1, CellsCount DEF Outside

\* A walk over a node other than the symbol table counts the node's references.
LEMMA MultCount ==
  ASSUME NEW n \in Node, NEW m \in Node, n # Globals, m # Globals
  PROVE  Mult(n, m) = Cardinality({c \in Cell : c[1] = n /\ target[c] = m})
<1>1. {c \in CellsOf(n) : target[c] = m} = {c \in Cell : c[1] = n /\ target[c] = m}
  BY DEF CellsOf
<1> QED
  BY <1>1 DEF Mult

\* The symbol table counts nothing.
LEMMA MultGlobals ==
  ASSUME NEW n \in Node
  PROVE  Mult(Globals, n) = 0 /\ Mult(n, Globals) = 0
<1>1. {c \in CellsOf(Globals) : target[c] = n} = {}
  BY DEF CellsOf
<1> QED
  BY <1>1, FS_EmptySet DEF Mult

\* A count of references is a number.
LEMMA MultType ==
  ASSUME NEW n \in Node, NEW m \in Node
  PROVE  Mult(n, m) \in Nat
<1>1. {c \in CellsOf(n) : target[c] = m} \in SUBSET Cell
  BY DEF CellsOf
<1> QED
  BY <1>1, CellsCount DEF Mult

\* Children are nodes.
LEMMA KidsType ==
  ASSUME TypeOK, NEW n \in Node
  PROVE  Kids(n) \subseteq Node
<1>1. CellsOf(n) \subseteq Cell
  BY DEF CellsOf
<1> QED
  BY <1>1 DEF Kids, TypeOK

\* A cell outside the symbol table makes its target a child.
LEMMA CellKid ==
  ASSUME NEW c \in Cell, c[1] # Globals, target[c] # Nil
  PROVE  target[c] \in Kids(c[1])
BY DEF Kids, CellsOf

-----------------------------------------------------------------------------
(* Types.                                                                   *)

\* Every step keeps the types and leaves the heap as it is.
LEMMA TypeStep ==
  ASSUME TypeOK, WellFormed, [Next]_vars
  PROVE  TypeOK' /\ WellFormed' /\ target' = target /\ ext' = ext
<1>0. UNCHANGED heap
  BY DEF Next, Passes, Finished, MarkRoot, MarkGrey, MarkDone, ScanRoot, Scan, ScanBlack,
         ScanDone, CollectRoot, CollectWhite, CollectDone, vars
<1>1. WellFormed' /\ target' = target /\ ext' = ext
  BY <1>0 DEF WellFormed, heap
<1> USE DEF TypeOK, Color, Phase, heap
<1>2. ASSUME NEW n \in Node, MarkRoot(n)
      PROVE  TypeOK'
  BY <1>2 DEF MarkRoot
<1>3. ASSUME NEW n \in Node, MarkGrey(n)
      PROVE  TypeOK'
  BY <1>3, KidsType, MultType DEF MarkGrey
<1>4. CASE MarkDone
  BY <1>0, <1>1, <1>4 DEF MarkDone
<1>5. ASSUME NEW n \in Node, ScanRoot(n)
      PROVE  TypeOK'
  BY <1>5 DEF ScanRoot
<1>6. ASSUME NEW n \in Node, Scan(n)
      PROVE  TypeOK'
  BY <1>6, KidsType DEF Scan
<1>7. ASSUME NEW n \in Node, ScanBlack(n)
      PROVE  TypeOK'
  BY <1>7, KidsType, MultType DEF ScanBlack
<1>8. CASE ScanDone
  BY <1>0, <1>1, <1>8 DEF ScanDone
<1>9. ASSUME NEW n \in Node, CollectRoot(n)
      PROVE  TypeOK'
  BY <1>9 DEF CollectRoot
<1>10. ASSUME NEW n \in Node, CollectWhite(n)
       PROVE  TypeOK'
  <2>1. refcount' \in [Node -> Int]
    BY <1>10, MultType DEF CollectWhite
  <2>2. color' \in [Node -> Color] /\ work' \subseteq Node /\ zval_to_free' \subseteq Zval
    BY <1>10, KidsType DEF CollectWhite, Node
  <2> QED
    BY <1>10, <2>1, <2>2 DEF CollectWhite
<1>11. CASE CollectDone
  BY <1>0, <1>1, <1>11 DEF CollectDone
<1>12. CASE UNCHANGED vars
  BY <1>0, <1>1, <1>12 DEF vars, gcVars
<1> QED
  BY <1>1, <1>2, <1>3, <1>4, <1>5, <1>6, <1>7, <1>8, <1>9, <1>10, <1>11, <1>12
  DEF Next, Passes, Finished

\* The initial heap is well typed.
LEMMA TypeInit == Init => TypeOK /\ WellFormed
<1> SUFFICES ASSUME Init PROVE TypeOK /\ WellFormed
  OBVIOUS
<1>1. target \in [Cell -> Node \cup {Nil}] /\ WellFormed
  <2>1. PICK e \in [Slot -> Zval \cup {Nil}], h \in [ObjRef \X {Handle} -> Obj \cup {Nil}] :
          target = [c \in Cell |-> IF c[1] \in ObjRef THEN h[c] ELSE e[c]]
    BY DEF Init
  <2>2. ASSUME NEW c \in Cell
        PROVE  target[c] \in (IF c[1] \in ObjRef THEN Obj ELSE Zval) \cup {Nil}
    <3>1. CASE c \in Slot
      <4>1. c[1] \in Array \cup Obj
        BY <3>1, HeapAssumption DEF Container
      <4>2. c[1] \notin ObjRef
        BY <4>1, HeapAssumption DEF Zval
      <4> QED
        BY <2>1, <3>1, <4>2
    <3>2. CASE c \in ObjRef \X {Handle}
      BY <2>1, <3>2
    <3> QED
      BY <3>1, <3>2 DEF Cell
  <2>3. target = [c \in Cell |-> target[c]]
    BY <2>1
  <2> QED
    BY <2>2, <2>3 DEF WellFormed, Node
<1>2. ext \in [Node -> Nat]
  BY DEF Init
<1>3. \A n \in Node : TrueCount(n) \in Nat
  <2> SUFFICES ASSUME NEW n \in Node PROVE TrueCount(n) \in Nat
    OBVIOUS
  <2>1. Cardinality(RefsTo(n)) \in Nat
    BY CellsCount DEF RefsTo
  <2> QED
    BY <1>2, <2>1 DEF TrueCount
<1>4. refcount \in [Node -> Int]
  BY <1>3 DEF Init
<1> QED
  BY <1>1, <1>2, <1>4 DEF Init, TypeOK, Color, Phase

\* Type correctness: every variable of the collector keeps its type, in every
\* heap and from every root buffer gc_collect_cycles may start with.
THEOREM TypeCorrect == Spec => []TypeOK
<1>1. Init => TypeOK /\ WellFormed
  BY TypeInit
<1>2. TypeOK /\ WellFormed /\ [Next]_vars => (TypeOK /\ WellFormed)'
  BY TypeStep
<1> QED
  BY <1>1, <1>2, PTL DEF Spec

-----------------------------------------------------------------------------
(* Colors and work lists.                                                   *)

\* The passes do not change what a node holds or what refers to it.
LEMMA SameHeap ==
  ASSUME target' = target
  PROVE  /\ \A n \in Node : Kids(n)' = Kids(n)
         /\ \A n \in Node : RefsTo(n)' = RefsTo(n)
BY DEF Kids, CellsOf, RefsTo

\* A scan that has nothing pending leaves no grey node, a collection that has
\* nothing pending no white one.
LEMMA NothingLeft ==
  ASSUME IInv
  PROVE  /\ ScanDone => Grey = {}
         /\ CollectDone => White = {}
<1>1. ASSUME ScanDone PROVE Grey = {}
  <2>1. current \cup Pending = {} /\ phase = "scan"
    BY <1>1 DEF ScanDone, Pending
  <2>2. ~ Supported(Grey, Grey, current \cup Pending)
    BY <2>1 DEF Supported
  <2> QED
    BY <2>1, <2>2 DEF IInv, Reached
<1>2. ASSUME CollectDone PROVE White = {}
  <2>1. current \cup work = {} /\ phase = "collect"
    BY <1>2 DEF CollectDone
  <2>2. ~ Supported(White, White, current \cup work)
    BY <2>1 DEF Supported
  <2> QED
    BY <2>1, <2>2 DEF IInv, Reached
<1> QED
  BY <1>1, <1>2

\* Every step keeps the colors of its pass.
LEMMA ColorsStep ==
  ASSUME IInv, [Next]_vars
  PROVE  Colors'
<1>0. TypeOK /\ Colors /\ Lists
  BY DEF IInv
<1>G. Globals \in Node
  BY HeapAssumption DEF Node, Zval
<1> USE DEF Colors, White, Grey
<1>1. ASSUME NEW n \in Node, MarkRoot(n)
      PROVE  Colors'
  BY <1>0, <1>1 DEF MarkRoot
<1>2. ASSUME NEW n \in Node, MarkGrey(n)
      PROVE  Colors'
  BY <1>0, <1>2, <1>G DEF MarkGrey, TypeOK
<1>3. CASE MarkDone
  BY <1>0, <1>3 DEF MarkDone
<1>4. ASSUME NEW n \in Node, ScanRoot(n)
      PROVE  Colors'
  BY <1>0, <1>4 DEF ScanRoot
<1>5. ASSUME NEW n \in Node, Scan(n)
      PROVE  Colors'
  BY <1>0, <1>5, <1>G DEF Scan, TypeOK
<1>6. ASSUME NEW n \in Node, ScanBlack(n)
      PROVE  Colors'
  BY <1>0, <1>6, <1>G DEF ScanBlack, TypeOK
<1>7. CASE ScanDone
  BY <1>0, <1>7, NothingLeft DEF ScanDone
<1>8. ASSUME NEW n \in Node, CollectRoot(n)
      PROVE  Colors'
  BY <1>0, <1>8 DEF CollectRoot
<1>9. ASSUME NEW n \in Node, CollectWhite(n)
      PROVE  Colors'
  BY <1>0, <1>9, <1>G DEF CollectWhite, TypeOK
<1>10. CASE CollectDone
  BY <1>0, <1>10, NothingLeft DEF CollectDone
<1>11. CASE UNCHANGED vars
  BY <1>0, <1>11 DEF vars, gcVars
<1> QED
  BY <1>0, <1>1, <1>2, <1>3, <1>4, <1>5, <1>6, <1>7, <1>8, <1>9, <1>10, <1>11
  DEF Next, Passes, Finished, vars, gcVars

\* Every step keeps the work lists of its pass.
LEMMA ListsStep ==
  ASSUME IInv, [Next]_vars
  PROVE  Lists'
<1>0. TypeOK /\ Colors /\ Lists /\ TypeOK'
  BY TypeStep DEF IInv
<1>H. \A n \in Node : Kids(n)' = Kids(n) /\ Kids(n) \subseteq Node
  BY TypeStep, SameHeap, KidsType DEF IInv
<1>G. Kids(Globals) = {} /\ Globals \in Node
  BY HeapAssumption DEF Kids, CellsOf, Node, Zval
<1> USE DEF Lists, White, Grey, Subtracted, Walked
<1>1. ASSUME NEW n \in Node, MarkRoot(n)
      PROVE  Lists'
  <2>1. phase = "mark" /\ phase' = "mark" /\ work = {} /\ n \in roots /\ color' = color
    BY <1>0, <1>1 DEF MarkRoot, TypeOK
  <2>2. \A m \in work' : m \in Walked'
    BY <1>0, <1>1, <2>1 DEF MarkRoot
  <2> QED
    BY <1>0, <1>1, <2>1, <2>2 DEF MarkRoot
<1>2. ASSUME NEW n \in Node, MarkGrey(n)
      PROVE  Lists'
  <2>1. Grey \subseteq Grey' /\ Subtracted \subseteq Subtracted'
    BY <1>0, <1>2, <1>G DEF MarkGrey, Colors, TypeOK
  <2>2. \A m \in work' : m \in Walked' \/ \E k \in Grey' : m \in Kids(k)'
    <3>1. Walked' = Walked
      BY <1>2 DEF MarkGrey
    <3>2. \A m \in work : m \in Walked \/ \E k \in Grey' : m \in Kids(k)'
      BY <1>0, <1>2, <1>H, <2>1 DEF MarkGrey
    <3>3. CASE color[n] = "grey"
      BY <1>2, <3>1, <3>2, <3>3 DEF MarkGrey
    <3>4. CASE color[n] # "grey"
      <4>1. work' \subseteq work \cup Kids(n)
        BY <1>2, <3>4 DEF MarkGrey
      <4>2. n = Globals \/ n \in Grey'
        BY <1>0, <1>2, <3>4 DEF MarkGrey, TypeOK
      <4> QED
        BY <1>G, <1>H, <3>1, <3>2, <4>1, <4>2
    <3> QED
      BY <3>3, <3>4
  <2>3. White' = {}
    BY <1>0, <1>2 DEF MarkGrey, Colors, TypeOK
  <2> QED
    BY <1>0, <1>2, <2>1, <2>2, <2>3 DEF MarkGrey
<1>3. CASE MarkDone
  BY <1>0, <1>3 DEF MarkDone, Colors
<1>4. ASSUME NEW n \in Node, ScanRoot(n)
      PROVE  Lists'
  BY <1>0, <1>4 DEF ScanRoot
<1>5. ASSUME NEW n \in Node, Scan(n)
      PROVE  Lists'
  BY <1>0, <1>5 DEF Scan, TypeOK
<1>6. ASSUME NEW n \in Node, ScanBlack(n)
      PROVE  Lists'
  <2>1. \A m \in Node : m # n => color'[m] = color[m]
    BY <1>0, <1>6 DEF ScanBlack, TypeOK
  <2>2. color'[n] = "black"
    BY <1>0, <1>6 DEF ScanBlack, TypeOK
  <2>3. blackWork' \subseteq Subtracted'
    <3>1. \A m \in Node : color'[m] # "black" => m \in Subtracted'
      BY <1>0, <1>6, <2>1, <2>2 DEF Colors, TypeOK, Color, ScanBlack
    <3>2. \A m \in blackWork' : m \in Node /\ color'[m] # "black"
      BY <1>0, <1>6, <1>H, <2>1, <2>2 DEF ScanBlack
    <3> QED
      BY <3>1, <3>2
  <2> QED
    BY <1>0, <1>6, <2>1, <2>2, <2>3 DEF ScanBlack
<1>7. CASE ScanDone
  BY <1>0, <1>7 DEF ScanDone
<1>8. ASSUME NEW n \in Node, CollectRoot(n)
      PROVE  Lists'
  BY <1>0, <1>8 DEF CollectRoot
<1>9. ASSUME NEW n \in Node, CollectWhite(n)
      PROVE  Lists'
  BY <1>0, <1>9 DEF CollectWhite, TypeOK, Colors
<1>10. CASE CollectDone
  BY <1>0, <1>10 DEF CollectDone
<1>11. CASE UNCHANGED vars
  BY <1>0, <1>H, <1>11 DEF vars, gcVars
<1> QED
  BY <1>0, <1>1, <1>2, <1>3, <1>4, <1>5, <1>6, <1>7, <1>8, <1>9, <1>10, <1>11
  DEF Next, Passes, Finished, vars, gcVars

-----------------------------------------------------------------------------
(* Counts.                                                                  *)

\* A node that is no child receives no reference.
LEMMA MultNotKid ==
  ASSUME NEW n \in Node, NEW m \in Node, m \notin Kids(n)
  PROVE  Mult(n, m) = 0
<1>1. m # Nil
  BY HeapAssumption
<1>2. {c \in CellsOf(n) : target[c] = m} = {}
  BY <1>1 DEF Kids
<1> QED
  BY <1>2, FS_EmptySet DEF Mult

\* Marking and unmarking a node moves exactly its own references.
LEMMA AccountingStep ==
  ASSUME IInv, [Next]_vars
  PROVE  Accounting'
<1>0. TypeOK /\ Colors /\ Lists /\ Accounting /\ ext' = ext
  BY TypeStep DEF IInv
<1>H. \A m \in Node : RefsTo(m)' = RefsTo(m)
  BY TypeStep, SameHeap DEF IInv
<1>K. \A m \in Node : Outside(m, Subtracted)' = Outside(m, Subtracted')
  BY <1>H DEF Outside
<1>1. CASE /\ phase \in {"mark", "scan"} /\ refcount' = refcount /\ Subtracted' = Subtracted
  BY <1>0, <1>K, <1>1 DEF Accounting
<1>2. CASE phase' \notin {"mark", "scan"}
  BY <1>2 DEF Accounting
<1>3. ASSUME NEW n \in Node, MarkRoot(n)
      PROVE  Accounting'
  BY <1>1, <1>3 DEF MarkRoot, Subtracted
<1>4. ASSUME NEW n \in Node, MarkGrey(n)
      PROVE  Accounting'
  <2>1. CASE color[n] = "grey"
    BY <1>1, <1>4, <2>1 DEF MarkGrey, Subtracted
  <2>2. CASE color[n] # "grey" /\ n = Globals
    <3>1. refcount' = refcount
      BY <1>0, <1>4, <2>2, MultGlobals DEF MarkGrey, TypeOK
    <3>2. Subtracted' = Subtracted
      BY <1>0, <1>4, <2>2 DEF MarkGrey, Subtracted, TypeOK, Colors
    <3> QED
      BY <1>1, <1>4, <3>1, <3>2 DEF MarkGrey
  <2>3. CASE color[n] # "grey" /\ n # Globals
    <3>1. Subtracted' = Subtracted \cup {n}
      BY <1>0, <1>4, <2>3 DEF MarkGrey, Subtracted, TypeOK
    <3>2. n \notin Subtracted
      BY <1>0, <1>4, <2>3 DEF MarkGrey, Subtracted, Colors, White
    <3>3. ASSUME NEW m \in Node \ {Globals}
          PROVE  refcount'[m] = ext'[m] + Outside(m, Subtracted)'
      <4> DEFINE Old == Outside(m, Subtracted)
                 New == Outside(m, Subtracted \cup {n})
      <4>1. Old = New + Mult(n, m)
        <5>1. Mult(n, m) = Cardinality({c \in Cell : c[1] = n /\ target[c] = m})
          BY <2>3, MultCount
        <5>2. Old = New + Cardinality({c \in Cell : c[1] = n /\ target[c] = m})
          BY <3>2, SplitCount
        <5> QED
          BY <5>1, <5>2
      <4>2. refcount'[m] = refcount[m] - Mult(n, m)
        BY <1>4, <2>3 DEF MarkGrey
      <4>3. refcount[m] = ext[m] + Old
        BY <1>0, <1>4 DEF Accounting, MarkGrey
      <4>4. Old \in Nat /\ New \in Nat /\ Mult(n, m) \in Nat /\ ext[m] \in Nat
        BY <1>0, OutsideType, MultType DEF TypeOK
      <4>5. New = Outside(m, Subtracted)'
        BY <1>K, <3>1
      <4> HIDE DEF Old, New
      <4> QED
        BY <1>0, <4>1, <4>2, <4>3, <4>4, <4>5
    <3> QED
      BY <3>3 DEF Accounting
  <2> QED
    BY <2>1, <2>2, <2>3
<1>5. CASE MarkDone
  BY <1>1, <1>5 DEF MarkDone, Subtracted
<1>6. ASSUME NEW n \in Node, ScanRoot(n)
      PROVE  Accounting'
  BY <1>1, <1>6 DEF ScanRoot, Subtracted
<1>7. ASSUME NEW n \in Node, Scan(n)
      PROVE  Accounting'
  <2>1. Subtracted' = Subtracted
    BY <1>0, <1>7 DEF Scan, Subtracted, TypeOK
  <2> QED
    BY <1>1, <1>7, <2>1 DEF Scan
<1>8. ASSUME NEW n \in Node, ScanBlack(n)
      PROVE  Accounting'
  <2>1. n \in Subtracted /\ n # Globals
    BY <1>0, <1>8 DEF ScanBlack, Lists, Colors, Subtracted
  <2>2. Subtracted = Subtracted' \cup {n} /\ n \notin Subtracted'
    BY <1>0, <1>8, <2>1 DEF ScanBlack, Subtracted, TypeOK
  <2>3. ASSUME NEW m \in Node \ {Globals}
        PROVE  refcount'[m] = ext'[m] + Outside(m, Subtracted)'
    <3> DEFINE Old == Outside(m, Subtracted)
               New == Outside(m, Subtracted')
    <3>1. New = Old + Mult(n, m)
      BY <2>1, <2>2, SplitCount, MultCount
    <3>2. refcount'[m] = refcount[m] + Mult(n, m)
      BY <1>8 DEF ScanBlack
    <3>3. refcount[m] = ext[m] + Old
      BY <1>0, <1>8 DEF Accounting, ScanBlack
    <3>4. Old \in Nat /\ New \in Nat /\ Mult(n, m) \in Nat /\ ext[m] \in Nat
      BY <1>0, OutsideType, MultType DEF TypeOK
    <3>5. New = Outside(m, Subtracted)'
      BY <1>K
    <3> HIDE DEF Old, New
    <3> QED
      BY <1>0, <3>1, <3>2, <3>3, <3>4, <3>5
  <2> QED
    BY <2>3 DEF Accounting
<1>9. CASE ScanDone
  BY <1>2, <1>9 DEF ScanDone
<1>10. ASSUME NEW n \in Node, CollectRoot(n)
       PROVE  Accounting'
  BY <1>2, <1>10 DEF CollectRoot
<1>11. ASSUME NEW n \in Node, CollectWhite(n)
       PROVE  Accounting'
  BY <1>2, <1>11 DEF CollectWhite
<1>12. CASE CollectDone
  BY <1>2, <1>12 DEF CollectDone
<1>13. CASE UNCHANGED vars
  BY <1>1, <1>2, <1>13 DEF vars, gcVars, Subtracted
<1> QED
  BY <1>3, <1>4, <1>5, <1>6, <1>7, <1>8, <1>9, <1>10, <1>11, <1>12, <1>13
  DEF Next, Passes, Finished

\* No step touches the count of the symbol table's zval.
LEMMA SymbolTableStep ==
  ASSUME IInv, [Next]_vars
  PROVE  SymbolTable'
<1>0. TypeOK /\ Colors /\ SymbolTable /\ ext' = ext
  BY TypeStep DEF IInv
<1>G. Globals \in Node
  BY HeapAssumption DEF Node, Zval
<1>H. TrueCount(Globals)' = TrueCount(Globals)
  BY <1>0, <1>G, TypeStep, SameHeap DEF IInv, TrueCount
<1>1. refcount'[Globals] = refcount[Globals]
  <2>1. ASSUME NEW n \in Node, MarkGrey(n) PROVE refcount'[Globals] = refcount[Globals]
    BY <1>0, <1>G, <2>1, MultGlobals DEF MarkGrey, TypeOK
  <2>2. ASSUME NEW n \in Node, ScanBlack(n) PROVE refcount'[Globals] = refcount[Globals]
    BY <1>0, <1>G, <2>2, MultGlobals DEF ScanBlack, TypeOK
  <2>3. ASSUME NEW n \in Node, CollectWhite(n) PROVE refcount'[Globals] = refcount[Globals]
    <3>1. Globals \notin Obj
      BY HeapAssumption DEF Zval
    <3> QED
      BY <1>0, <1>G, <2>3, <3>1, MultGlobals DEF CollectWhite, TypeOK, Colors
  <2> QED
    BY <2>1, <2>2, <2>3
    DEF Next, Passes, Finished, MarkRoot, MarkDone, ScanRoot, Scan, ScanDone,
        CollectRoot, CollectDone, vars, gcVars
<1> QED
  BY <1>0, <1>1, <1>H DEF SymbolTable

\* zval_scan_black reaches every white node whose count it raises.
LEMMA WhiteStep ==
  ASSUME IInv, [Next]_vars
  PROVE  WhiteIsUnreferenced'
<1>0. TypeOK /\ Colors /\ Lists /\ WhiteIsUnreferenced
  BY DEF IInv
<1> USE DEF WhiteIsUnreferenced, White
<1>1. ASSUME NEW n \in Node, Scan(n)
      PROVE  WhiteIsUnreferenced'
  BY <1>0, <1>1 DEF Scan, TypeOK
<1>2. ASSUME NEW n \in Node, ScanBlack(n)
      PROVE  WhiteIsUnreferenced'
  <2> SUFFICES ASSUME NEW m \in Node, color'[m] = "white"
               PROVE  refcount'[m] <= 0 \/ m \in blackWork'
    OBVIOUS
  <2>1. m # n /\ color[m] = "white"
    BY <1>0, <1>2 DEF ScanBlack, TypeOK
  <2>2. refcount'[m] = refcount[m] + Mult(n, m)
    BY <1>2 DEF ScanBlack
  <2>3. CASE m \in Kids(n) \/ m \in blackWork
    BY <1>2, <2>1, <2>3 DEF ScanBlack
  <2>4. CASE m \notin Kids(n) /\ m \notin blackWork
    <3>1. Mult(n, m) = 0
      BY <2>4, MultNotKid
    <3>2. refcount[m] <= 0 /\ refcount[m] \in Int
      BY <1>0, <1>2, <2>1, <2>4 DEF ScanBlack, TypeOK
    <3> QED
      BY <2>2, <3>1, <3>2
  <2> QED
    BY <2>3, <2>4
<1> QED
  BY <1>0, <1>1, <1>2
  DEF Next, Passes, Finished, MarkRoot, MarkGrey, MarkDone, ScanRoot, ScanDone,
      CollectRoot, CollectWhite, CollectDone, Colors, vars, gcVars

\* When the scan ends, a white node has a count of zero and an object's count
\* is what the surviving nodes hold.
LEMMA ScanEnd ==
  ASSUME IInv, ScanDone
  PROVE  /\ Subtracted = White /\ zval_to_free = {}
         /\ \A n \in Node \ {Globals} : refcount[n] = ext[n] + Outside(n, White)
         /\ \A n \in White : refcount[n] = 0
<1>0. TypeOK /\ Colors /\ Lists /\ Accounting /\ WhiteIsUnreferenced
  BY DEF IInv
<1>1. Subtracted = White
  BY NothingLeft DEF Subtracted, White, Grey
<1>2. \A n \in Node \ {Globals} : refcount[n] = ext[n] + Outside(n, White)
  BY <1>0, <1>1 DEF Accounting, ScanDone
<1>3. ASSUME NEW n \in White PROVE refcount[n] = 0
  <2>1. refcount[n] <= 0 /\ n \in Node \ {Globals}
    BY <1>0 DEF ScanDone, WhiteIsUnreferenced, White, Colors
  <2>2. ext[n] \in Nat /\ Outside(n, White) \in Nat
    BY <1>0, <2>1, OutsideType DEF TypeOK
  <2> QED
    BY <1>2, <2>1, <2>2
<1> QED
  BY <1>0, <1>1, <1>2, <1>3 DEF Lists, ScanDone

\* Listing a node for freeing restores exactly the counts of what it holds.
LEMMA CollectingStep ==
  ASSUME IInv, [Next]_vars
  PROVE  Collecting'
<1>0. TypeOK /\ WellFormed /\ Colors /\ Lists /\ Collecting /\ ext' = ext
  BY TypeStep DEF IInv
<1>H. \A m \in Node : RefsTo(m)' = RefsTo(m)
  BY TypeStep, SameHeap DEF IInv
<1>K. \A m \in Node : /\ Outside(m, White)' = Outside(m, White')
                      /\ Outside(m, White \cup zval_to_free)' = Outside(m, White' \cup zval_to_free')
  BY <1>H DEF Outside
<1>Z. Zval \subseteq Node /\ Obj \subseteq Node /\ Globals \notin Obj /\ Zval \cap Obj = {}
  BY HeapAssumption DEF Node, Zval
<1>1. CASE phase' \notin {"collect", "done"}
  BY <1>1 DEF Collecting
<1>2. CASE /\ phase \in {"collect", "done"} /\ refcount' = refcount /\ color' = color
           /\ zval_to_free' = zval_to_free
  <2>1. White' = White
    BY <1>2 DEF White
  <2> QED
    BY <1>0, <1>K, <1>Z, <1>2, <2>1 DEF Collecting
<1>3. CASE ScanDone
  <2>1. White' = White /\ zval_to_free' = {} /\ refcount' = refcount /\ color' = color
    BY <1>3, ScanEnd DEF White, ScanDone
  <2>2. \A n \in Node \ {Globals} : refcount[n] = ext[n] + Outside(n, White)
    BY <1>3, ScanEnd
  <2>3. \A h \in Obj : color[h] = "white" => refcount[h] = 0
    BY <1>3, <1>Z, ScanEnd DEF White
  <2>4. \A n \in Node : Outside(n, White) \in Nat /\ ext[n] \in Nat
    BY <1>0, OutsideType DEF TypeOK
  <2>5. White' \cup zval_to_free' = White
    BY <2>1
  <2> QED
    BY <1>0, <1>K, <1>Z, <2>1, <2>2, <2>3, <2>4, <2>5 DEF Collecting
<1>4. ASSUME NEW n \in Node, CollectWhite(n), color[n] = "white", n \notin buffered
      PROVE  Collecting'
  <2>1. n # Globals /\ n \in White /\ n \notin zval_to_free /\ phase = "collect" /\ phase' = "collect"
    BY <1>0, <1>4 DEF Colors, White, Lists, CollectWhite
  <2>2. White = White' \cup {n} /\ n \notin White' /\ zval_to_free' = zval_to_free \cup ({n} \cap Zval)
    BY <1>0, <1>4 DEF White, CollectWhite, TypeOK
  <2>3. ASSUME NEW z \in Zval \ {Globals}
        PROVE  refcount'[z] = ext'[z] + Outside(z, White)' + (IF z \in zval_to_free' THEN 1 ELSE 0)
    <3>1. Outside(z, White') = Outside(z, White) + Mult(n, z)
      <4>1. z \in Node /\ z # Globals
        BY <1>Z
      <4>2. Outside(z, White') = Outside(z, White' \cup {n})
                                  + Cardinality({c \in Cell : c[1] = n /\ target[c] = z})
        BY <2>2, <4>1, SplitCount
      <4> QED
        BY <2>1, <2>2, <4>1, <4>2, MultCount
    <3>2. refcount'[z] = refcount[z] + Mult(n, z) + (IF z = n THEN 1 ELSE 0)
      BY <1>4, <1>Z DEF CollectWhite
    <3>3. refcount[z] = ext[z] + Outside(z, White) + (IF z \in zval_to_free THEN 1 ELSE 0)
      BY <1>0, <2>1 DEF Collecting
    <3>4. (IF z \in zval_to_free' THEN 1 ELSE 0)
            = (IF z \in zval_to_free THEN 1 ELSE 0) + (IF z = n THEN 1 ELSE 0)
      BY <2>1, <2>2
    <3>5. /\ ext[z] \in Nat /\ Outside(z, White) \in Nat /\ Outside(z, White') \in Nat
          /\ Mult(n, z) \in Nat /\ refcount[z] \in Int
      BY <1>0, <1>Z, OutsideType, MultType DEF TypeOK
    <3>6. ext'[z] = ext[z] /\ Outside(z, White)' = Outside(z, White')
      BY <1>0, <1>K, <1>Z
    <3> QED
      BY <3>1, <3>2, <3>3, <3>4, <3>5, <3>6
  <2>4. ASSUME NEW h \in Obj
        PROVE  /\ refcount'[h] = ext'[h] + Outside(h, White \cup zval_to_free)'
               /\ color'[h] = "white" => refcount'[h] = 0
    <3>1. refcount'[h] = refcount[h]
      BY <1>4, <1>Z DEF CollectWhite
    <3>2. \A c \in RefsTo(h) : c[1] \in ObjRef
      <4>1. h \notin Zval /\ h # Nil
        BY <1>Z, HeapAssumption
      <4> QED
        BY <1>0, <4>1 DEF RefsTo, WellFormed
    <3>3. \A c \in RefsTo(h) : (c[1] \notin White' \cup zval_to_free')
                                  <=> (c[1] \notin White \cup zval_to_free)
      BY <2>2, <3>2 DEF Zval
    <3>4. Outside(h, White \cup zval_to_free)' = Outside(h, White \cup zval_to_free)
      <4>1. {c \in RefsTo(h) : c[1] \notin White' \cup zval_to_free'}
              = {c \in RefsTo(h) : c[1] \notin White \cup zval_to_free}
        BY <3>3
      <4>2. h \in Node
        BY <1>Z
      <4> QED
        BY <1>K, <4>1, <4>2 DEF Outside
    <3>5. color'[h] = "white" => color[h] = "white"
      BY <1>0, <1>4, <1>Z DEF CollectWhite, TypeOK
    <3> QED
      BY <1>0, <2>1, <3>1, <3>4, <3>5 DEF Collecting
  <2> QED
    BY <2>3, <2>4 DEF Collecting
<1>5. ASSUME NEW n \in Node, CollectWhite(n), ~ (color[n] = "white" /\ n \notin buffered)
      PROVE  Collecting'
  BY <1>2, <1>5 DEF CollectWhite
<1>6. ASSUME NEW n \in Node, CollectRoot(n)
      PROVE  Collecting'
  BY <1>2, <1>6 DEF CollectRoot
<1>7. CASE CollectDone
  BY <1>2, <1>7 DEF CollectDone
<1>8. CASE UNCHANGED vars
  BY <1>0, <1>1, <1>2, <1>8 DEF vars, gcVars, TypeOK, Phase
<1>9. ASSUME NEW n \in Node, MarkRoot(n) \/ MarkGrey(n) \/ ScanRoot(n) \/ Scan(n) \/ ScanBlack(n)
      PROVE  Collecting'
  BY <1>1, <1>9 DEF MarkRoot, MarkGrey, ScanRoot, Scan, ScanBlack
<1>10. CASE MarkDone
  BY <1>1, <1>10 DEF MarkDone
<1> QED
  BY <1>3, <1>4, <1>5, <1>6, <1>7, <1>8, <1>9, <1>10 DEF Next, Passes, Finished

-----------------------------------------------------------------------------
(* What is doomed.                                                          *)

\* The collection dooms what the scan left white, no more and no less: from
\* then on the doomed set does not change.
LEMMA DoomedStep ==
  ASSUME IInv, [Next]_vars
  PROVE  DoomedIsClosed'
<1>0. TypeOK /\ Colors /\ Lists /\ Collecting /\ DoomedIsClosed /\ ext' = ext
  BY TypeStep DEF IInv
<1>H. \A m \in Node : RefsTo(m)' = RefsTo(m)
  BY TypeStep, SameHeap DEF IInv
<1>Z. Zval \subseteq Node /\ Obj \subseteq Node /\ Globals \notin Obj /\ Zval \cap Obj = {}
  BY HeapAssumption DEF Node, Zval
<1>1. CASE phase' \notin {"collect", "done"}
  BY <1>1 DEF DoomedIsClosed
<1>2. CASE phase \in {"collect", "done"} /\ Doomed' = Doomed
  <2>1. Doomed \subseteq Node
    BY <1>0, <1>Z DEF Doomed, TypeOK
  <2> QED
    BY <1>0, <1>H, <1>2, <2>1 DEF DoomedIsClosed
<1>3. CASE ScanDone
  <2>1. Doomed' = White \cup {h \in Obj : refcount[h] = 0}
    BY <1>3, ScanEnd DEF ScanDone, Doomed, White
  <2>2. ASSUME NEW n \in Doomed' \ {Globals}
        PROVE  ext'[n] = 0 /\ \A c \in RefsTo(n)' : c[1] \in Doomed'
    <3>1. n \in Node /\ refcount[n] = 0
      BY <1>3, <1>Z, <2>1, ScanEnd DEF White
    <3>2. refcount[n] = ext[n] + Outside(n, White)
      BY <1>3, <3>1, ScanEnd
    <3>3. ext[n] \in Nat /\ Outside(n, White) \in Nat
      BY <1>0, <3>1, OutsideType DEF TypeOK
    <3>4. ext[n] = 0 /\ Outside(n, White) = 0
      BY <3>1, <3>2, <3>3
    <3>5. {c \in RefsTo(n) : c[1] \notin White} = {}
      <4>1. IsFiniteSet({c \in RefsTo(n) : c[1] \notin White})
        BY CellsCount DEF RefsTo
      <4> QED
        BY <3>4, <4>1, FS_EmptySet DEF Outside
    <3> QED
      BY <1>0, <1>H, <2>1, <3>1, <3>4, <3>5
  <2> QED
    BY <2>2 DEF DoomedIsClosed
<1>4. ASSUME NEW n \in Node, CollectWhite(n)
      PROVE  DoomedIsClosed'
  <2>1. Doomed' = Doomed
    <3>1. CASE ~ (color[n] = "white" /\ n \notin buffered)
      BY <1>4, <3>1 DEF CollectWhite, Doomed
    <3>2. CASE color[n] = "white" /\ n \notin buffered
      <4>1. \A h \in Obj : refcount'[h] = refcount[h]
        BY <1>4, <1>Z, <3>2 DEF CollectWhite
      <4>2. n \in Zval \/ (n \in Obj /\ refcount[n] = 0)
        BY <1>0, <1>4, <3>2 DEF CollectWhite, Collecting, Node
      <4>3. White = White' \cup {n}
        BY <1>0, <1>4, <3>2 DEF CollectWhite, White, TypeOK
      <4>4. zval_to_free' = zval_to_free \cup ({n} \cap Zval)
        BY <1>4, <3>2 DEF CollectWhite
      <4> QED
        BY <4>1, <4>2, <4>3, <4>4 DEF Doomed, White
    <3> QED
      BY <3>1, <3>2
  <2> QED
    BY <1>2, <1>4, <2>1 DEF CollectWhite
<1>5. ASSUME NEW n \in Node, CollectRoot(n)
      PROVE  DoomedIsClosed'
  BY <1>2, <1>5 DEF CollectRoot, Doomed
<1>6. CASE CollectDone
  BY <1>2, <1>6 DEF CollectDone, Doomed
<1>7. CASE UNCHANGED vars
  BY <1>0, <1>1, <1>2, <1>7 DEF vars, gcVars, TypeOK, Phase, Doomed
<1>8. ASSUME NEW n \in Node, MarkRoot(n) \/ MarkGrey(n) \/ ScanRoot(n) \/ Scan(n) \/ ScanBlack(n)
      PROVE  DoomedIsClosed'
  BY <1>1, <1>8 DEF MarkRoot, MarkGrey, ScanRoot, Scan, ScanBlack
<1>9. CASE MarkDone
  BY <1>1, <1>9 DEF MarkDone
<1> QED
  BY <1>3, <1>4, <1>5, <1>6, <1>7, <1>8, <1>9 DEF Next, Passes, Finished

-----------------------------------------------------------------------------
(* Every subtracted node is still to be reached.                            *)

\* What a marked node hangs on: zval_mark_grey comes to a node from a root or
\* from a node it has marked, which answers for every set the node is in.
LEMMA MarkReached ==
  ASSUME IInv, NEW n \in Node, MarkGrey(n)
  PROVE  Reached'
<1>0. TypeOK /\ Colors /\ Lists /\ Reached
  BY DEF IInv
<1>H. \A m \in Node : Kids(m)' = Kids(m)
  BY SameHeap DEF MarkGrey, heap
<1>1. Walked' = Walked /\ phase = "mark" /\ phase' = "mark"
  BY DEF MarkGrey, Walked
<1>2. Grey' \subseteq Grey \cup {n} /\ Grey \subseteq Grey'
  BY <1>0 DEF MarkGrey, Grey, TypeOK, Colors
<1>3. n \in Walked \/ \E m \in Grey : n \in Kids(m)
  BY <1>0 DEF MarkGrey, Lists
<1>4. ASSUME NEW S \in SUBSET Grey', S # {}
      PROVE  Supported(S, Grey, Walked)'
  <2> SUFFICES S \cap Walked # {} \/ \E m \in Grey' \ S : Kids(m) \cap S # {}
    BY <1>1, <1>H DEF Supported, Grey
  <2>1. CASE n \notin S \/ n \in Grey
    <3>1. S \in SUBSET Grey
      BY <1>2, <2>1
    <3> QED
      BY <1>0, <1>1, <1>2, <1>4, <3>1 DEF Reached, Supported
  <2>2. CASE n \in S /\ n \notin Grey /\ n \notin Walked
    <3>1. PICK m \in Grey : n \in Kids(m)
      BY <1>3, <2>2
    <3>2. CASE m \notin S
      BY <1>2, <2>2, <3>1, <3>2
    <3>3. CASE m \in S
      <4>1. S \ {n} \in SUBSET Grey /\ S \ {n} # {}
        BY <1>2, <2>2, <3>1, <3>3
      <4>2. Supported(S \ {n}, Grey, Walked)
        BY <1>0, <1>1, <4>1 DEF Reached
      <4> QED
        BY <1>2, <2>2, <4>2 DEF Supported
    <3> QED
      BY <3>2, <3>3
  <2> QED
    BY <2>1, <2>2
<1> QED
  BY <1>1, <1>4 DEF Reached

\* A scanned node hands its children over before it leaves the grey set, and
\* one that zval_scan_black takes leaves the subtracted set with them.
LEMMA ScanReached ==
  ASSUME IInv, NEW n \in Node, ScanRoot(n) \/ Scan(n) \/ ScanBlack(n)
  PROVE  Reached'
<1>0. TypeOK /\ Colors /\ Lists /\ Reached
  BY DEF IInv
<1>H. \A m \in Node : Kids(m)' = Kids(m)
  BY SameHeap DEF ScanRoot, Scan, ScanBlack, heap
<1>1. phase = "scan" /\ phase' = "scan" /\ roots' = roots
  BY DEF ScanRoot, Scan, ScanBlack
<1>2. Grey' \subseteq Grey /\ Subtracted' \subseteq Subtracted
  BY <1>0 DEF ScanRoot, Scan, ScanBlack, Grey, Subtracted, TypeOK
<1>3. Grey \subseteq Grey' \cup {n} /\ Subtracted \subseteq Subtracted' \cup {n}
  BY <1>0 DEF ScanRoot, Scan, ScanBlack, Grey, Subtracted, TypeOK
<1>4. ASSUME NEW S \in SUBSET Grey', S # {}
      PROVE  Supported(S, Grey, current \cup Pending)'
  <2> SUFFICES S \cap (current' \cup Pending') # {} \/ \E m \in Grey' \ S : Kids(m) \cap S # {}
    BY <1>H DEF Supported, Grey
  <2>1. S \cap (current \cup Pending) # {} \/ \E m \in Grey \ S : Kids(m) \cap S # {}
    BY <1>0, <1>1, <1>2, <1>4 DEF Reached, Supported
  <2>2. CASE ScanRoot(n)
    BY <2>1, <2>2 DEF ScanRoot, Pending, Grey
  <2>3. CASE Scan(n)
    BY <1>0, <2>1, <2>3 DEF Scan, Pending, Grey, TypeOK
  <2>4. CASE ScanBlack(n)
    <3>1. n \notin S /\ \A m \in S : m \in Node /\ color'[m] # "black"
      BY <1>0, <2>4 DEF ScanBlack, Grey, TypeOK
    <3>2. CASE Kids(n) \cap S # {}
      BY <2>4, <3>1, <3>2 DEF ScanBlack, Pending
    <3>3. CASE Kids(n) \cap S = {}
      BY <1>3, <2>1, <2>4, <3>1, <3>3 DEF ScanBlack, Pending
    <3> QED
      BY <3>2, <3>3
  <2> QED
    BY <2>2, <2>3, <2>4
<1>5. ASSUME NEW S \in SUBSET Subtracted', S # {}
      PROVE  Supported(S, Subtracted, roots \cup blackWork)'
  <2> SUFFICES S \cap (roots \cup blackWork') # {} \/ \E m \in Subtracted' \ S : Kids(m) \cap S # {}
    BY <1>H, <1>1 DEF Supported, Subtracted
  <2>1. S \cap (roots \cup blackWork) # {} \/ \E m \in Subtracted \ S : Kids(m) \cap S # {}
    BY <1>0, <1>1, <1>2, <1>5 DEF Reached, Supported
  <2>2. CASE ScanRoot(n)
    BY <2>1, <2>2 DEF ScanRoot, Subtracted
  <2>3. CASE Scan(n)
    <3>1. Subtracted' = Subtracted /\ blackWork \subseteq blackWork'
      BY <1>0, <2>3 DEF Scan, Subtracted, TypeOK
    <3> QED
      BY <2>1, <3>1
  <2>4. CASE ScanBlack(n)
    <3>1. n \notin S /\ \A m \in S : m \in Node /\ color'[m] # "black"
      BY <1>0, <2>4 DEF ScanBlack, Subtracted, TypeOK
    <3>2. CASE Kids(n) \cap S # {}
      BY <2>4, <3>1, <3>2 DEF ScanBlack
    <3>3. CASE Kids(n) \cap S = {}
      BY <1>3, <2>1, <2>4, <3>1, <3>3 DEF ScanBlack
    <3> QED
      BY <3>2, <3>3
  <2> QED
    BY <2>2, <2>3, <2>4
<1> QED
  BY <1>1, <1>4, <1>5 DEF Reached

\* A white node is skipped only while it is a root that has still to come.
LEMMA CollectReached ==
  ASSUME IInv, NEW n \in Node, CollectRoot(n) \/ CollectWhite(n)
  PROVE  Reached'
<1>0. TypeOK /\ Colors /\ Lists /\ Reached
  BY DEF IInv
<1>H. \A m \in Node : Kids(m)' = Kids(m)
  BY SameHeap DEF CollectRoot, CollectWhite, heap
<1>1. phase = "collect" /\ phase' = "collect" /\ buffered = current
  BY <1>0 DEF CollectRoot, CollectWhite, Lists
<1>2. ASSUME NEW S \in SUBSET White', S # {}
      PROVE  Supported(S, White, current \cup work)'
  <2> SUFFICES S \cap (current' \cup work') # {} \/ \E m \in White' \ S : Kids(m) \cap S # {}
    BY <1>H DEF Supported, White
  <2>1. White' \subseteq White
    BY <1>0 DEF CollectRoot, CollectWhite, White, TypeOK
  <2>2. S \cap (current \cup work) # {} \/ \E m \in White \ S : Kids(m) \cap S # {}
    BY <1>0, <1>1, <1>2, <2>1 DEF Reached, Supported
  <2>3. CASE CollectRoot(n)
    BY <2>2, <2>3 DEF CollectRoot, White
  <2>4. CASE CollectWhite(n) /\ color[n] = "white" /\ n \notin buffered
    BY <1>0, <2>2, <2>4 DEF CollectWhite, White, TypeOK
  <2>5. CASE CollectWhite(n) /\ ~ (color[n] = "white" /\ n \notin buffered)
    <3>1. White' = White /\ work' = work \ {n} /\ current' = current
      BY <2>5 DEF CollectWhite, White
    <3>2. n \in S => n \in current
      BY <1>1, <2>1, <2>5 DEF White
    <3> QED
      BY <2>2, <3>1, <3>2
  <2> QED
    BY <2>3, <2>4, <2>5
<1> QED
  BY <1>1, <1>2 DEF Reached

\* Every step keeps the subtracted nodes within reach of the walks.
LEMMA ReachedStep ==
  ASSUME IInv, [Next]_vars
  PROVE  Reached'
<1>0. TypeOK /\ Colors /\ Lists /\ Reached
  BY DEF IInv
<1>H. \A m \in Node : Kids(m)' = Kids(m)
  BY TypeStep, SameHeap DEF IInv
<1>1. ASSUME NEW n \in Node, MarkRoot(n)
      PROVE  Reached'
  <2>1. phase = "mark" /\ phase' = "mark" /\ Grey' = Grey
    BY <1>1 DEF MarkRoot, Grey
  <2>2. Walked \subseteq Walked'
    BY <1>0, <1>1 DEF MarkRoot, Walked
  <2>3. ASSUME NEW S \in SUBSET Grey', S # {}
        PROVE  Supported(S, Grey, Walked)'
    <3>1. Supported(S, Grey, Walked)
      BY <1>0, <2>1, <2>3 DEF Reached
    <3> QED
      BY <1>H, <2>1, <2>2, <3>1 DEF Supported, Grey
  <2> QED
    BY <2>1, <2>3 DEF Reached
<1>2. CASE MarkDone
  <2>1. phase = "mark" /\ phase' = "scan" /\ Grey' = Grey /\ Subtracted' = Grey
    BY <1>0, <1>2 DEF MarkDone, Grey, Subtracted, Colors, White
  <2>2. Walked = roots /\ current' = roots /\ roots' = roots
    BY <1>2 DEF MarkDone, Walked
  <2>3. ASSUME NEW S \in SUBSET Grey, S # {}
        PROVE  Supported(S, Grey, current \cup Pending)' /\ Supported(S, Subtracted, roots \cup blackWork)'
    <3>1. S \cap roots # {} \/ \E m \in Grey \ S : Kids(m) \cap S # {}
      BY <1>0, <2>1, <2>2, <2>3 DEF Reached, Supported
    <3> QED
      BY <1>H, <2>1, <2>2, <3>1 DEF Supported, Grey
  <2> QED
    BY <2>1, <2>3 DEF Reached
<1>3. CASE ScanDone
  <2>1. phase = "scan" /\ phase' = "collect" /\ White' = White /\ Subtracted = White
    BY <1>3, ScanEnd DEF ScanDone, White
  <2>2. current' = roots /\ blackWork = {}
    BY <1>3 DEF ScanDone
  <2>3. ASSUME NEW S \in SUBSET White, S # {}
        PROVE  Supported(S, White, current \cup work)'
    <3>1. S \cap roots # {} \/ \E m \in White \ S : Kids(m) \cap S # {}
      BY <1>0, <2>1, <2>2, <2>3 DEF Reached, Supported
    <3> QED
      BY <1>H, <2>1, <2>2, <3>1 DEF Supported, White
  <2> QED
    BY <2>1, <2>3 DEF Reached
<1>4. CASE CollectDone
  BY <1>4 DEF CollectDone, Reached
<1>5. CASE UNCHANGED vars
  <2>1. Grey' = Grey /\ White' = White /\ Subtracted' = Subtracted /\ Walked' = Walked
        /\ Pending' = Pending
    BY <1>5 DEF vars, gcVars, Grey, White, Subtracted, Walked, Pending
  <2>2. \A S : /\ Supported(S, Grey, Walked)' <=> Supported(S, Grey, Walked)
               /\ Supported(S, Subtracted, roots \cup blackWork)'
                    <=> Supported(S, Subtracted, roots \cup blackWork)
               /\ Supported(S, Grey, current \cup Pending)'
                    <=> Supported(S, Grey, current \cup Pending)
               /\ Supported(S, White, current \cup work)'
                    <=> Supported(S, White, current \cup work)
    BY <1>5, <1>H, <2>1 DEF Supported, vars, gcVars, Grey, White, Subtracted
  <2> QED
    BY <1>0, <1>5, <2>1, <2>2 DEF Reached, vars, gcVars
<1> QED
  BY <1>1, <1>2, <1>3, <1>4, <1>5, MarkReached, ScanReached, CollectReached
  DEF Next, Passes, Finished

-----------------------------------------------------------------------------
(* The theorems.                                                            *)

\* The inductive invariant holds when a collection starts.
LEMMA IInit == Init => IInv
<1> SUFFICES ASSUME Init PROVE IInv
  OBVIOUS
<1>0. TypeOK /\ WellFormed
  BY TypeInit
<1>1. Grey = {} /\ White = {} /\ Subtracted = {} /\ phase = "mark"
  BY DEF Init, Grey, White, Subtracted
<1>2. Globals \in Node
  BY HeapAssumption DEF Node, Zval
<1>3. \A n \in Node : Outside(n, Subtracted) = Cardinality(RefsTo(n))
  BY <1>1 DEF Outside
<1>4. Accounting /\ SymbolTable
  BY <1>2, <1>3 DEF Accounting, SymbolTable, Init, TrueCount
<1>5. Colors
  BY <1>1, <1>2 DEF Colors, Init
<1>6. Lists
  BY <1>1 DEF Lists, Init
<1>7. Reached /\ WhiteIsUnreferenced /\ Collecting /\ DoomedIsClosed
  BY <1>1 DEF Reached, WhiteIsUnreferenced, Collecting, DoomedIsClosed
<1> QED
  BY <1>0, <1>4, <1>5, <1>6, <1>7 DEF IInv

\* Every reachable state of a collection satisfies the inductive invariant.
LEMMA Invariant == Spec => []IInv
<1>1. IInv /\ [Next]_vars => IInv'
  <2> SUFFICES ASSUME IInv, [Next]_vars PROVE IInv'
    OBVIOUS
  <2>1. TypeOK' /\ WellFormed'
    BY TypeStep DEF IInv
  <2> QED
    BY <2>1, ColorsStep, ListsStep, AccountingStep, SymbolTableStep, ReachedStep, WhiteStep,
       CollectingStep, DoomedStep DEF IInv
<1> QED
  BY IInit, <1>1, PTL DEF Spec

\* In every heap a count is, during marking and scanning, what the references
\* of the nodes that are not subtracted add up to: zval_mark_grey takes each
\* reference away once and zval_scan_black gives each back once.
THEOREM CountsAreExact == Spec => []Accounting
<1>1. IInv => Accounting
  BY DEF IInv
<1> QED
  BY <1>1, Invariant, PTL

\* In every heap nothing that survives a collection refers to anything that
\* gc_collect_cycles is going to free.
THEOREM NothingLiveIsFreed == Spec => []DoomedIsClosed
<1>1. IInv => DoomedIsClosed
  BY DEF IInv
<1> QED
  BY <1>1, Invariant, PTL

\* A collection leaves the counts of zvals exact and takes from the counts of
\* objects exactly the zvals it will free, in every heap.
THEOREM CountsAreRestored == Spec => []CountsRestored
<1>1. IInv => CountsRestored
  <2> SUFFICES ASSUME IInv, phase = "done" PROVE CountsRestored
    BY DEF CountsRestored
  <2>0. TypeOK /\ White = {} /\ Collecting /\ SymbolTable /\ Globals \notin zval_to_free
    BY DEF IInv, Colors, Lists
  <2>1. \A n \in Node : Outside(n, {}) = Cardinality(RefsTo(n))
    BY DEF Outside
  <2>2. White \cup zval_to_free = zval_to_free
    BY <2>0
  <2>3. ASSUME NEW z \in Zval
        PROVE  refcount[z] = TrueCount(z) + (IF z \in zval_to_free THEN 1 ELSE 0)
    <3>1. z \in Node
      BY DEF Node
    <3>2. TrueCount(z) \in Nat
      <4>1. ext[z] \in Nat /\ Outside(z, {}) \in Nat
        BY <2>0, <3>1, OutsideType DEF TypeOK
      <4> QED
        BY <2>1, <3>1, <4>1 DEF TrueCount
    <3>3. CASE z = Globals
      BY <2>0, <3>2, <3>3 DEF SymbolTable
    <3>4. CASE z # Globals
      BY <2>0, <2>1, <3>1, <3>4 DEF Collecting, TrueCount
    <3> QED
      BY <3>3, <3>4
  <2> QED
    BY <2>0, <2>2, <2>3 DEF CountsRestored, Collecting
<1> QED
  BY <1>1, Invariant, PTL

\* A collection leaves no node white or grey and the root buffer empty,
\* whatever the order of the roots: a white root that zval_collect_white skips
\* because it is still buffered is collected in its own turn.
THEOREM EveryWhiteIsCollected == Spec => []NoWhiteLeft
<1>1. IInv => NoWhiteLeft
  BY DEF IInv, NoWhiteLeft, Colors, Lists, White, Grey, TypeOK, Color
<1> QED
  BY <1>1, Invariant, PTL

-----------------------------------------------------------------------------
(* The scan finds all the garbage that the possible roots reach.            *)

\* What only the roots reach.
Dead == ReachableFrom(roots) \ Live

\* While marking, a root walked from and a child of a marked node is marked or is to be
\* visited. While scanning, what is dead stays subtracted and is not about to turn black.
Handed ==
  phase = "mark" =>
    /\ Walked \subseteq Grey \cup work \cup {Globals}
    /\ \A m \in Grey : Kids(m) \subseteq Grey \cup work \cup {Globals}
DeadStays == phase = "scan" => \A n \in Dead : n \in Subtracted /\ n \notin blackWork

\* A cell is a part of a node.
LEMMA CellOfNode == ASSUME NEW c \in Cell PROVE c[1] \in Node
BY HeapAssumption DEF Cell, Container, Node, Zval

\* Reachability is the least closed set.
LEMMA ReachIsClosed ==
  ASSUME TypeOK, NEW R \in SUBSET Node
  PROVE  /\ R \subseteq ReachableFrom(R) /\ ReachableFrom(R) \subseteq Node
         /\ ClosedUnderCells(ReachableFrom(R))
<1>1. ASSUME NEW c \in Cell, c[1] \in ReachableFrom(R), target[c] # Nil
      PROVE  target[c] \in ReachableFrom(R)
  <2>1. target[c] \in Node
    BY <1>1 DEF TypeOK
  <2>2. ASSUME NEW S \in SUBSET Node, R \subseteq S, ClosedUnderCells(S)
        PROVE  target[c] \in S
    <3>1. c[1] \in S
      BY <1>1, <2>2 DEF ReachableFrom
    <3> QED
      BY <1>1, <2>2, <3>1 DEF ClosedUnderCells
  <2> QED
    BY <2>1, <2>2 DEF ReachableFrom
<1>2. ClosedUnderCells(ReachableFrom(R))
  BY <1>1 DEF ClosedUnderCells
<1>3. R \subseteq ReachableFrom(R) /\ ReachableFrom(R) \subseteq Node
  BY DEF ReachableFrom
<1> QED
  BY <1>2, <1>3

LEMMA ReachWithin ==
  ASSUME NEW R, NEW S \in SUBSET Node, R \subseteq S, ClosedUnderCells(S)
  PROVE  ReachableFrom(R) \subseteq S
BY DEF ReachableFrom

\* What lives keeps what it reaches alive; the symbol table and what the roots do not
\* reach live.
LEMMA LiveFacts ==
  ASSUME TypeOK
  PROVE  /\ Live \subseteq Node /\ Globals \in Live /\ ClosedUnderCells(Live)
         /\ \A n \in Node : ext[n] > 0 \/ n \notin ReachableFrom(roots) => n \in Live
<1> DEFINE R == {Globals} \cup {n \in Node : ext[n] > 0} \cup (Node \ ReachableFrom(roots))
<1>1. R \in SUBSET Node /\ Live = ReachableFrom(R)
  BY HeapAssumption DEF Node, Zval, Live
<1> HIDE DEF R
<1>2. R \subseteq Live /\ Live \subseteq Node /\ ClosedUnderCells(Live)
  BY <1>1, ReachIsClosed
<1> QED
  BY <1>2 DEF R

\* Only what is dead refers to what is dead.
LEMMA DeadFacts ==
  ASSUME TypeOK, NEW n \in Dead
  PROVE  /\ n \in Node /\ n # Globals /\ ext[n] = 0
         /\ \A c \in RefsTo(n) : c[1] \in Dead
<1>1. n \in Node /\ n \in ReachableFrom(roots) /\ n \notin Live
  BY DEF Dead, ReachableFrom
<1>2. n # Globals /\ ext[n] = 0
  BY <1>1, LiveFacts DEF TypeOK
<1>3. ASSUME NEW c \in RefsTo(n) PROVE c[1] \in Dead
  <2>1. c \in Cell /\ target[c] = n /\ c[1] \in Node /\ n # Nil
    BY <1>1, CellOfNode, HeapAssumption DEF RefsTo
  <2>2. c[1] \notin Live
    BY <1>1, <2>1, LiveFacts DEF ClosedUnderCells
  <2> QED
    BY <2>1, <2>2, LiveFacts DEF Dead
<1> QED
  BY <1>1, <1>2, <1>3

\* A dead node that is subtracted has no count: all its references are subtracted.
LEMMA DeadHasNoCount ==
  ASSUME TypeOK, Accounting, phase = "scan", Dead \subseteq Subtracted, NEW n \in Dead
  PROVE  refcount[n] = 0
<1>1. n \in Node \ {Globals} /\ ext[n] = 0 /\ \A c \in RefsTo(n) : c[1] \in Subtracted
  BY DeadFacts
<1>2. {c \in RefsTo(n) : c[1] \notin Subtracted} = {}
  BY <1>1
<1>3. Outside(n, Subtracted) = 0
  BY <1>2, FS_EmptySet DEF Outside
<1> QED
  BY <1>1, <1>3 DEF Accounting

\* The marking pass hands on every node that a marked one refers to.
LEMMA HandedStep ==
  ASSUME IInv, Handed, [Next]_vars
  PROVE  Handed'
<1>0. TypeOK /\ Colors /\ Lists
  BY DEF IInv
<1>H. \A m \in Node : Kids(m)' = Kids(m)
  BY TypeStep, SameHeap DEF IInv
<1>1. ASSUME NEW n \in Node, MarkRoot(n)
      PROVE  Handed'
  <2>1. phase = "mark" /\ work = {} /\ Grey' = Grey
    BY <1>1 DEF MarkRoot, Grey
  <2>2. Walked' \subseteq Walked \cup work'
    BY <1>0, <1>1 DEF MarkRoot, Walked
  <2> QED
    BY <1>H, <2>1, <2>2 DEF Handed, Grey
<1>2. ASSUME NEW n \in Node, MarkGrey(n)
      PROVE  Handed'
  <2>1. phase = "mark" /\ Walked' = Walked
    BY <1>2 DEF MarkGrey, Walked
  <2>2. CASE color[n] = "grey"
    <3>1. Grey' = Grey /\ work' = work \ {n} /\ n \in Grey
      BY <1>2, <2>2 DEF MarkGrey, Grey
    <3> QED
      BY <1>H, <2>1, <3>1 DEF Handed, Grey
  <2>3. CASE color[n] # "grey"
    <3>1. work' = (work \ {n}) \cup Kids(n) /\ Grey' = Grey \cup ({n} \ {Globals})
      BY <1>0, <1>2, <2>3 DEF MarkGrey, Grey, TypeOK
    <3> QED
      BY <1>H, <2>1, <3>1 DEF Handed, Grey
  <2> QED
    BY <2>2, <2>3
<1>3. CASE UNCHANGED vars
  <2>1. Grey' = Grey /\ Walked' = Walked /\ work' = work /\ phase' = phase
    BY <1>3 DEF vars, gcVars, Grey, Walked
  <2> QED
    BY <1>H, <2>1 DEF Handed, Grey
<1>4. ASSUME NEW n \in Node, ScanRoot(n) \/ Scan(n) \/ ScanBlack(n) \/ CollectRoot(n) \/ CollectWhite(n)
      PROVE  phase' # "mark"
  BY <1>4 DEF ScanRoot, Scan, ScanBlack, CollectRoot, CollectWhite
<1>5. CASE MarkDone \/ ScanDone \/ CollectDone
  BY <1>5 DEF MarkDone, ScanDone, CollectDone, Handed
<1> QED
  BY <1>1, <1>2, <1>3, <1>4, <1>5 DEF Next, Passes, Finished, Handed

\* Marked is, at the end of the marking pass, all that the roots reach and does not live.
LEMMA MarkedAll ==
  ASSUME IInv, Handed, MarkDone
  PROVE  Dead \subseteq Grey
<1>0. TypeOK /\ roots \subseteq Node /\ Grey \subseteq Node
  BY DEF IInv, TypeOK, Grey
<1>1. roots \subseteq Grey \cup {Globals} /\ \A m \in Grey : Kids(m) \subseteq Grey \cup {Globals}
  BY DEF MarkDone, Handed, Walked
<1>2. Globals \notin Grey
  BY DEF IInv, Colors, Grey
<1>3. Grey \cup Live \in SUBSET Node /\ roots \subseteq Grey \cup Live
  BY <1>0, <1>1, LiveFacts
<1>4. ASSUME NEW c \in Cell, c[1] \in Grey \cup Live
      PROVE  target[c] \in Grey \cup Live \cup {Nil}
  <2>1. CASE c[1] \in Live
    BY <1>0, <2>1, LiveFacts DEF ClosedUnderCells
  <2>2. CASE c[1] \in Grey /\ target[c] # Nil
    <3>1. target[c] \in Kids(c[1])
      BY <1>2, <2>2, CellKid
    <3> QED
      BY <1>0, <1>1, <2>2, <3>1, LiveFacts
  <2> QED
    BY <1>4, <2>1, <2>2
<1>5. ClosedUnderCells(Grey \cup Live)
  BY <1>4 DEF ClosedUnderCells
<1> QED
  BY <1>3, <1>5, ReachWithin DEF Dead

\* What is dead stays so and is never turned black.
LEMMA DeadStep ==
  ASSUME IInv, Handed, DeadStays, [Next]_vars
  PROVE  DeadStays'
<1>0. TypeOK /\ Colors /\ Lists /\ Accounting
  BY DEF IInv
<1>1. target' = target /\ ext' = ext
  BY TypeStep DEF IInv
<1>2. roots' = roots => Dead' = Dead
  BY <1>1 DEF Dead, Live, ReachableFrom, ClosedUnderCells
<1>3. CASE MarkDone
  <2>1. roots' = roots /\ Subtracted' = Subtracted /\ blackWork' = {} /\ Grey \subseteq Subtracted
    BY <1>0, <1>3 DEF MarkDone, Subtracted, Grey, Lists
  <2> QED
    BY <1>2, <1>3, <2>1, MarkedAll DEF DeadStays
<1>4. ASSUME NEW n \in Node, ScanRoot(n)
      PROVE  DeadStays'
  BY <1>2, <1>4 DEF ScanRoot, DeadStays, Subtracted
<1>5. ASSUME NEW n \in Node, Scan(n)
      PROVE  DeadStays'
  <2>1. phase = "scan" /\ roots' = roots /\ Subtracted' = Subtracted
    BY <1>0, <1>5 DEF Scan, Subtracted, TypeOK
  <2>2. blackWork' \subseteq blackWork \cup {n} /\ (n \in blackWork' => n \in blackWork \/ refcount[n] > 0)
    BY <1>5 DEF Scan
  <2>3. n \in Dead => refcount[n] = 0
    BY <1>0, <2>1, DeadHasNoCount DEF DeadStays
  <2> QED
    BY <1>2, <2>1, <2>2, <2>3 DEF DeadStays
<1>6. ASSUME NEW n \in Node, ScanBlack(n)
      PROVE  DeadStays'
  <2>1. phase = "scan" /\ roots' = roots /\ n \in blackWork /\ blackWork' \subseteq blackWork \cup Kids(n)
    BY <1>6 DEF ScanBlack
  <2>2. n \notin Dead
    BY <2>1 DEF DeadStays
  <2>3. \A m \in Subtracted : m # n => m \in Subtracted'
    BY <1>0, <1>6 DEF ScanBlack, Subtracted, TypeOK
  <2>4. ASSUME NEW m \in Kids(n) PROVE m \notin Dead
    <3>1. PICK c \in Cell : c[1] = n /\ target[c] = m
      BY DEF Kids, CellsOf
    <3> QED
      BY <1>0, <2>2, <3>1, DeadFacts DEF RefsTo
  <2> QED
    BY <1>2, <2>1, <2>2, <2>3, <2>4 DEF DeadStays
<1>7. ASSUME NEW n \in Node, MarkRoot(n) \/ MarkGrey(n) \/ CollectRoot(n) \/ CollectWhite(n)
      PROVE  phase' # "scan"
  BY <1>7 DEF MarkRoot, MarkGrey, CollectRoot, CollectWhite
<1>8. CASE ScanDone \/ CollectDone
  BY <1>8 DEF ScanDone, CollectDone, DeadStays
<1>9. CASE UNCHANGED vars
  BY <1>2, <1>9 DEF vars, gcVars, DeadStays, Subtracted
<1> QED
  BY <1>3, <1>4, <1>5, <1>6, <1>7, <1>8, <1>9 DEF Next, Passes, Finished, DeadStays

\* When the scan ends everything that only the possible roots reach is white, in every
\* heap: gc_mark_roots comes to all of it, and zval_scan and zval_scan_black, which may
\* meet it from several roots, blacken none of it.
THEOREM GarbageIsFound == Spec => []ScanIsComplete
<1>1. Init => Handed /\ DeadStays
  <2> SUFFICES ASSUME Init PROVE Handed /\ DeadStays
    OBVIOUS
  <2>1. Walked = {} /\ Grey = {} /\ phase = "mark"
    BY DEF Init, Walked, Grey
  <2> QED
    BY <2>1 DEF Handed, DeadStays
<1>2. IInv /\ Handed /\ DeadStays /\ [Next]_vars => (Handed /\ DeadStays)'
  BY HandedStep, DeadStep
<1>3. IInv /\ DeadStays => ScanIsComplete
  <2> SUFFICES ASSUME IInv, DeadStays, phase = "scan", work = {}, blackWork = {}, current = {},
                      NEW n \in Dead
               PROVE  color[n] = "white"
    BY DEF ScanIsComplete, Dead
  <2>1. ~ Supported(Grey, Grey, current \cup Pending)
    BY DEF Supported, Pending
  <2>2. Grey = {}
    BY <2>1 DEF IInv, Reached
  <2> QED
    BY <2>2 DEF DeadStays, Subtracted, Grey
<1> QED
  BY <1>1, <1>2, <1>3, Invariant, PTL DEF Spec
=============================================================================
