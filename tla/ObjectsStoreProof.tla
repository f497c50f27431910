-------------------------- MODULE ObjectsStoreProof --------------------------
(***************************************************************************)
(* Counts, destructors and storages of the objects of a request, for any    *)
(* number of objects and variables: what is referred to is there, counted   *)
(* exactly, destructed once and freed once, through nested destructors,     *)
(* resurrections and bailouts.                                              *)
(***************************************************************************)
EXTENDS ObjectsStore, FiniteSetTheorems, TLAPS

\* How many calls of a stack are about an object, and whether one is at a given place.
Count(s, o) == Cardinality({i \in 1..Len(s) : s[i].id = o})
Has(s, o, w) == \E i \in 1..Len(s) : s[i].id = o /\ s[i].in = w

LEMMA CountType ==
  ASSUME NEW s \in Seq(Call), NEW o \in Id
  PROVE  IsFiniteSet({i \in 1..Len(s) : s[i].id = o}) /\ Count(s, o) \in Nat
<1>1. 1 \in Int /\ Len(s) \in Int
  OBVIOUS
<1>2. IsFiniteSet(1..Len(s))
  BY <1>1, FS_Interval
<1>3. IsFiniteSet({i \in 1..Len(s) : s[i].id = o})
  BY <1>2, FS_Subset
<1>. QED  BY <1>3, FS_CardinalityType DEF Count

LEMMA CountZero ==
  ASSUME NEW s \in Seq(Call), NEW o \in Id, NEW w, Has(s, o, w)
  PROVE  Count(s, o) >= 1
<1>1. {i \in 1..Len(s) : s[i].id = o} # {}
  BY DEF Has
<1>2. IsFiniteSet({i \in 1..Len(s) : s[i].id = o}) /\ Count(s, o) \in Nat
  BY CountType
<1>3. Cardinality({i \in 1..Len(s) : s[i].id = o}) # 0
  BY <1>1, <1>2, FS_EmptySet
<1>. QED  BY <1>2, <1>3 DEF Count

\* A call is added at the end.
LEMMA CountAppend ==
  ASSUME NEW s \in Seq(Call), NEW e \in Call, NEW o \in Id
  PROVE  Count(Append(s, e), o) = IF e.id = o THEN Count(s, o) + 1 ELSE Count(s, o)
<1> DEFINE old == {i \in 1..Len(s) : s[i].id = o}
           new == {i \in 1..Len(Append(s, e)) : Append(s, e)[i].id = o}
<1>1. /\ Len(Append(s, e)) = Len(s) + 1 /\ Append(s, e)[Len(s) + 1] = e
      /\ \A i \in 1..Len(s) : Append(s, e)[i] = s[i]
  OBVIOUS
<1>2. new = IF e.id = o THEN old \cup {Len(s) + 1} ELSE old
  BY <1>1
<1>3. IsFiniteSet(old) /\ Len(s) + 1 \notin old
  BY CountType
<1>4. Cardinality(old \cup {Len(s) + 1}) = Cardinality(old) + 1
  BY <1>3, FS_AddElement
<1>. QED  BY <1>2, <1>4 DEF Count

LEMMA HasAppend ==
  ASSUME NEW s \in Seq(Call), NEW e \in Call, NEW o, NEW w
  PROVE  Has(Append(s, e), o, w) <=> Has(s, o, w) \/ (e.id = o /\ e.in = w)
<1>1. /\ Len(Append(s, e)) = Len(s) + 1 /\ Append(s, e)[Len(s) + 1] = e
      /\ \A i \in 1..Len(s) : Append(s, e)[i] = s[i]
  OBVIOUS
<1>. QED  BY <1>1 DEF Has

\* The innermost call and those around it.
LEMMA Split ==
  ASSUME stack \in Seq(Call), stack # <<>>
  PROVE  Below \in Seq(Call) /\ Top \in Call /\ stack = Append(Below, Top)
  BY DEF Below, Top

LEMMA CountBelow ==
  ASSUME stack \in Seq(Call), stack # <<>>, NEW o \in Id
  PROVE  /\ Count(stack, o) = IF Top.id = o THEN Count(Below, o) + 1 ELSE Count(Below, o)
         /\ \A w : Has(stack, o, w) <=> Has(Below, o, w) \/ (Top.id = o /\ Top.in = w)
         /\ Count(Below, o) \in Nat
<1>1. Below \in Seq(Call) /\ Top \in Call /\ stack = Append(Below, Top)
  BY Split
<1> HIDE DEF Below, Top
<1>2. Count(Append(Below, Top), o) = IF Top.id = o THEN Count(Below, o) + 1 ELSE Count(Below, o)
  BY <1>1, CountAppend
<1>3. \A w : Has(Append(Below, Top), o, w) <=> Has(Below, o, w) \/ (Top.id = o /\ Top.in = w)
  BY <1>1, HasAppend
<1>. QED  BY <1>1, <1>2, <1>3, CountType

LEMMA CountNone ==
  ASSUME NEW o
  PROVE  Count(<<>>, o) = 0 /\ \A w : ~ Has(<<>>, o, w)
<1>1. 1..Len(<<>>) = {}
  OBVIOUS
<1>. QED  BY <1>1, FS_EmptySet DEF Count, Has

\* How often a value occurs in a function of which one value is changed.
Occurrences(f, S, o) == Cardinality({u \in S : f[u] = o})

LEMMA CountExcept ==
  ASSUME NEW S, IsFiniteSet(S), NEW f, NEW g, NEW o, NEW v \in S,
         \A u \in S : u # v => g[u] = f[u]
  PROVE  /\ Occurrences(g, S, o) =
               Occurrences(f, S, o) + (IF g[v] = o THEN 1 ELSE 0) - (IF f[v] = o THEN 1 ELSE 0)
         /\ Occurrences(f, S, o) \in Nat
         /\ Occurrences(g, S, o) \in Nat
<1> DEFINE F == {u \in S : f[u] = o}
           G == {u \in S : g[u] = o}
           R == F \ {v}
<1>1. IsFiniteSet(F) /\ IsFiniteSet(G)
  BY FS_Subset
<1>2. G = IF g[v] = o THEN R \cup {v} ELSE R
  OBVIOUS
<1>3. v \in F <=> f[v] = o
  OBVIOUS
<1> HIDE DEF F, G
<1>4. IsFiniteSet(R) /\ Cardinality(R) = IF v \in F THEN Cardinality(F) - 1 ELSE Cardinality(F)
  BY <1>1, FS_RemoveElement
<1>5. Cardinality(R \cup {v}) = Cardinality(R) + 1
  <2>1. v \notin R
    OBVIOUS
  <2>. QED  BY <1>4, <2>1, FS_AddElement
<1>6. Cardinality(F) \in Nat /\ Cardinality(G) \in Nat
  BY <1>1, FS_CardinalityType
<1>7. Cardinality(G) = Cardinality(F) + (IF g[v] = o THEN 1 ELSE 0) - (IF f[v] = o THEN 1 ELSE 0)
  BY <1>2, <1>3, <1>4, <1>5, <1>6
<1>. QED  BY <1>6, <1>7 DEF F, G, Occurrences

-----------------------------------------------------------------------------
(* The invariant.                                                           *)

Bucket == [valid : BOOLEAN, destructor_called : BOOLEAN, refcount : Int,
           obj : Id \cup {None}, next : Handle \cup {-1}]

StoreTyped ==
  /\ bucket \in [Handle -> Bucket]
  /\ top \in 1..(Cardinality(Id) + 1) /\ size \in Nat /\ top <= size
  /\ free_list_head \in Handle \cup {-1} /\ moves \in Nat
  /\ handle \in [Id -> Handle \cup {0}] /\ destructor \in [Id -> BOOLEAN]
HeapTyped ==
  /\ prop \in [Id -> Id \cup {None}] /\ var \in [Var -> Id \cup {None}]
  /\ stack \in Seq(Call) /\ bailing \in BOOLEAN
EndTyped ==
  /\ phase \in Phase /\ todo \subseteq Var /\ cursor \in Nat /\ hold \in BOOLEAN
  /\ leaks \in [Id -> Nat] /\ destructed \in [Id -> Nat] /\ freed \in [Id -> Nat]
Typed == StoreTyped /\ HeapTyped /\ EndTyped

\* The bucket at the object's handle is the object's.
Owner(o) == handle[o] # 0 /\ bucket[handle[o]].obj = o

\* Objects are made in their order, and no more handles were used than objects made.
Numbered == \E n \in 0..Cardinality(Id) :
  /\ \A o \in Id : handle[o] # 0 <=> o <= n
  /\ top <= n + 1

Placed ==
  /\ \A o \in Id : handle[o] < top
  /\ \A h \in Handle :
       /\ bucket[h].obj # None => handle[bucket[h].obj] = h
       /\ bucket[h].valid => bucket[h].obj # None
       /\ h >= top => bucket[h].obj = None

\* The free list never leads to a bucket in use, nor by two ways to one bucket.
Free == {h \in Handle : h < top /\ bucket[h].obj = None}
Listed ==
  /\ free_list_head \in Free \cup {-1}
  /\ \A h \in Free : bucket[h].next = -1
                     \/ (bucket[h].next \in Free /\ bucket[h].next # free_list_head)
  /\ \A h, k \in Free : bucket[h].next = bucket[k].next => h = k \/ bucket[h].next = -1

Owned == \A o \in Id : References(o) > 0 => Owner(o)

\* CountsReferences, by object.
Counted == \A o \in Id :
  Owner(o) /\ bucket[handle[o]].valid => bucket[handle[o]].refcount = References(o)

\* What a release works on is there, and nothing refers to what is being freed.
Calls == \A o \in Id :
  /\ Has(stack, o, "dtor") => bucket[handle[o]].valid
  /\ Has(stack, o, "free") => bucket[handle[o]].valid /\ References(o) = 1 /\ freed[o] = 1

FreedOnce == \A o \in Id :
  /\ freed[o] <= 1
  /\ freed[o] = 1 => handle[o] # 0
                     /\ (Owner(o) /\ bucket[handle[o]].valid => Has(stack, o, "free"))

DestructedOnce == \A o \in Id :
  /\ destructed[o] <= 1
  /\ destructed[o] = 1 => handle[o] # 0 /\ (Owner(o) => bucket[handle[o]].destructor_called)

\* Only zend_objects_store_free_object_storage leaves an object without a valid bucket.
Phases ==
  /\ phase \notin {"free", "done"} => \A h \in Handle : bucket[h].obj # None => bucket[h].valid
  /\ hold => phase = "destruct" /\ cursor < top /\ bucket[cursor].valid
  /\ phase \in {"destruct", "free"} => cursor >= 1

\* What a sweep has still to visit refers to something.
Todo == \A v \in todo : var[v] # None

Core == Placed /\ Listed /\ Owned /\ Counted /\ Calls /\ FreedOnce /\ DestructedOnce
IInv == Typed /\ Numbered /\ Core /\ Phases /\ Todo

LEMMA TypedIsTypeOK == Typed <=> TypeOK
  BY DEF Typed, StoreTyped, HeapTyped, EndTyped, TypeOK, Bucket

-----------------------------------------------------------------------------
(* The parts of a count.                                                    *)

Vars(o) == Cardinality({v \in Var : var[v] = o})
Props(o) == Cardinality({p \in Id : prop[p] = o})
Raised(o) == IF hold /\ bucket[cursor].obj = o THEN 1 ELSE 0

LEMMA Finite == IsFiniteSet(Var) /\ IsFiniteSet(Id) /\ Cardinality(Id) \in Nat
                /\ Id = 1..Cardinality(Id) /\ Handle = Id /\ None \notin Id
<1>1. IsFiniteSet(Global) /\ IsFiniteSet(Static) /\ IsFiniteSet(Id)
  BY ObjectsStoreAssumption DEF ObjectsStoreAssumption
<1>2. IsFiniteSet(Global \cup Static) /\ Cardinality(Id) \in Nat
  BY <1>1, FS_Union, FS_CardinalityType
<1>. QED  BY <1>1, <1>2, ObjectsStoreAssumption DEF ObjectsStoreAssumption, Var, Handle

LEMMA Sum ==
  ASSUME HeapTyped, EndTyped, NEW o \in Id
  PROVE  /\ References(o) = Vars(o) + Props(o) + Count(stack, o) + Raised(o) + leaks[o]
         /\ Vars(o) \in Nat /\ Props(o) \in Nat /\ Count(stack, o) \in Nat /\ Raised(o) \in {0, 1}
         /\ leaks[o] \in Nat /\ References(o) \in Nat
<1>1. Vars(o) \in Nat /\ Props(o) \in Nat
  <2>1. IsFiniteSet({v \in Var : var[v] = o}) /\ IsFiniteSet({p \in Id : prop[p] = o})
    BY Finite, FS_Subset
  <2>. QED  BY <2>1, FS_CardinalityType DEF Vars, Props
<1>2. Count(stack, o) \in Nat
  BY CountType DEF HeapTyped
<1>3. Raised(o) \in {0, 1} /\ leaks[o] \in Nat
  BY DEF Raised, EndTyped
<1>4. References(o) = Vars(o) + Props(o) + Count(stack, o) + Raised(o) + leaks[o]
  BY DEF References, Vars, Props, Count, Raised
<1>. QED  BY <1>1, <1>2, <1>3, <1>4

LEMMA SumNext ==
  ASSUME HeapTyped', EndTyped', NEW o \in Id
  PROVE  /\ References(o)' = Vars(o)' + Props(o)' + Count(stack, o)' + Raised(o)' + leaks'[o]
         /\ Vars(o)' \in Nat /\ Props(o)' \in Nat /\ Count(stack, o)' \in Nat
         /\ Raised(o)' \in {0, 1} /\ leaks'[o] \in Nat /\ References(o)' \in Nat
<1>1. Vars(o)' \in Nat /\ Props(o)' \in Nat
  <2>1. IsFiniteSet({v \in Var : var'[v] = o}) /\ IsFiniteSet({p \in Id : prop'[p] = o})
    BY Finite, FS_Subset
  <2>2. Cardinality({v \in Var : var'[v] = o}) \in Nat /\ Cardinality({p \in Id : prop'[p] = o}) \in Nat
    BY <2>1, FS_CardinalityType
  <2>. QED  BY <2>2 DEF Vars, Props
<1>2. Count(stack, o)' \in Nat
  <2>1. Count(stack', o) \in Nat
    BY CountType DEF HeapTyped
  <2>. QED  BY <2>1 DEF Count
<1>3. Raised(o)' \in {0, 1} /\ leaks'[o] \in Nat
  BY DEF Raised, EndTyped
<1>4. References(o)' = Vars(o)' + Props(o)' + Count(stack, o)' + Raised(o)' + leaks'[o]
  BY DEF References, Vars, Props, Count, Raised
<1>. QED  BY <1>1, <1>2, <1>3, <1>4

\* Whatever refers to an object is counted.
LEMMA Referred ==
  ASSUME HeapTyped, EndTyped, NEW o \in Id,
         \/ \E v \in Var : var[v] = o
         \/ \E p \in Id : prop[p] = o
  PROVE  Vars(o) + Props(o) >= 1
<1>1. IsFiniteSet({v \in Var : var[v] = o}) /\ IsFiniteSet({p \in Id : prop[p] = o})
  BY Finite, FS_Subset
<1>2. Vars(o) \in Nat /\ Props(o) \in Nat
  BY Sum
<1>3. {v \in Var : var[v] = o} # {} \/ {p \in Id : prop[p] = o} # {}
  OBVIOUS
<1>4. Vars(o) # 0 \/ Props(o) # 0
  BY <1>1, <1>3, FS_EmptySet DEF Vars, Props
<1>. QED  BY <1>2, <1>4

\* What a call in progress is about has its bucket.
LEMMA TopOwned ==
  ASSUME Typed, Owned, stack # <<>>
  PROVE  /\ Top.id \in Id /\ Owner(Top.id) /\ References(Top.id) >= 1
         /\ handle[Top.id] \in Handle /\ bucket[handle[Top.id]] \in Bucket
<1>1. Top.id \in Id
  BY Split DEF Typed, HeapTyped, Call
<1>2. Count(stack, Top.id) >= 1
  BY <1>1, CountBelow DEF Typed, HeapTyped
<1>3. References(Top.id) >= 1
  BY <1>1, <1>2, Sum DEF Typed
<1>4. Owner(Top.id)
  BY <1>1, <1>3, Sum DEF Owned, Typed
<1>. QED  BY <1>1, <1>3, <1>4 DEF Owner, Typed, StoreTyped

\* What is being freed is referred to by the release that frees it, alone.
LEMMA FreeIsAlone ==
  ASSUME Typed, Calls, NEW o \in Id, Has(stack, o, "free")
  PROVE  /\ References(o) = 1 /\ Vars(o) = 0 /\ Props(o) = 0 /\ Raised(o) = 0 /\ leaks[o] = 0
         /\ \A v \in Var : var[v] # o
         /\ \A p \in Id : prop[p] # o
         /\ stack # <<>> /\ (Top.id = o => Top.in = "free")
<1>1. References(o) = 1
  BY DEF Calls
<1>2. Count(stack, o) >= 1
  BY CountZero DEF Typed, HeapTyped
<1>3. Vars(o) = 0 /\ Props(o) = 0 /\ Raised(o) = 0 /\ leaks[o] = 0 /\ Count(stack, o) = 1
  BY <1>1, <1>2, Sum DEF Typed
<1>4. (\A v \in Var : var[v] # o) /\ (\A p \in Id : prop[p] # o)
  BY <1>3, Referred DEF Typed
<1>5. stack # <<>>
  BY CountNone
<1>6. ASSUME Top.id = o, Top.in # "free" PROVE FALSE
  <2>1. Has(Below, o, "free") /\ Below \in Seq(Call)
    BY <1>5, <1>6, CountBelow, Split DEF Typed, HeapTyped
  <2>2. Count(Below, o) >= 1
    BY <2>1, CountZero
  <2>3. Count(stack, o) = Count(Below, o) + 1 /\ Count(Below, o) \in Nat
    BY <1>5, <1>6, CountBelow DEF Typed, HeapTyped
  <2>. QED  BY <1>3, <2>2, <2>3
<1>. QED  BY <1>1, <1>3, <1>4, <1>5, <1>6

-----------------------------------------------------------------------------
(* How a step changes the parts.                                            *)

LEMMA VarsDiffer ==
  ASSUME NEW v \in Var, \A u \in Var : u # v => var'[u] = var[u], NEW o
  PROVE  Vars(o)' = Vars(o) + (IF var'[v] = o THEN 1 ELSE 0) - (IF var[v] = o THEN 1 ELSE 0)
<1>1. IsFiniteSet(Var)
  BY Finite
<1>2. Occurrences(var', Var, o) =
        Occurrences(var, Var, o) + (IF var'[v] = o THEN 1 ELSE 0) - (IF var[v] = o THEN 1 ELSE 0)
  BY <1>1, CountExcept
<1>3. Vars(o) = Occurrences(var, Var, o) /\ Vars(o)' = Occurrences(var', Var, o)
  BY DEF Vars, Occurrences
<1>. QED  BY <1>2, <1>3

LEMMA VarsChange ==
  ASSUME HeapTyped, NEW v \in Var, NEW x, var' = [var EXCEPT ![v] = x], NEW o \in Id
  PROVE  Vars(o)' = Vars(o) + (IF x = o THEN 1 ELSE 0) - (IF var[v] = o THEN 1 ELSE 0)
<1>1. (\A u \in Var : u # v => var'[u] = var[u]) /\ var'[v] = x
  BY DEF HeapTyped
<1>. QED  BY <1>1, VarsDiffer

LEMMA PropsDiffer ==
  ASSUME NEW p \in Id, \A u \in Id : u # p => prop'[u] = prop[u], NEW o
  PROVE  Props(o)' = Props(o) + (IF prop'[p] = o THEN 1 ELSE 0) - (IF prop[p] = o THEN 1 ELSE 0)
<1>1. IsFiniteSet(Id)
  BY Finite
<1>2. Occurrences(prop', Id, o) =
        Occurrences(prop, Id, o) + (IF prop'[p] = o THEN 1 ELSE 0) - (IF prop[p] = o THEN 1 ELSE 0)
  BY <1>1, CountExcept
<1>3. Props(o) = Occurrences(prop, Id, o) /\ Props(o)' = Occurrences(prop', Id, o)
  BY DEF Props, Occurrences
<1>. QED  BY <1>2, <1>3

LEMMA PropsChange ==
  ASSUME HeapTyped, NEW p \in Id, NEW x, prop' = [prop EXCEPT ![p] = x], NEW o \in Id
  PROVE  Props(o)' = Props(o) + (IF x = o THEN 1 ELSE 0) - (IF prop[p] = o THEN 1 ELSE 0)
<1>1. (\A u \in Id : u # p => prop'[u] = prop[u]) /\ prop'[p] = x
  BY DEF HeapTyped
<1>. QED  BY <1>1, PropsDiffer

\* A call returns, begins, goes on, or goes on and calls.
LEMMA Pop ==
  ASSUME HeapTyped, stack # <<>>, stack' = Below, NEW o \in Id
  PROVE  /\ Count(stack, o)' = Count(stack, o) - (IF Top.id = o THEN 1 ELSE 0)
         /\ \A w : Has(stack, o, w)' <=> Has(Below, o, w)
         /\ stack' \in Seq(Call)
<1>1. Below \in Seq(Call)
  BY Split DEF HeapTyped
<1>2. Count(stack, o) = IF Top.id = o THEN Count(Below, o) + 1 ELSE Count(Below, o)
  BY CountBelow DEF HeapTyped
<1>3. Count(stack, o)' = Count(Below, o) /\ Count(Below, o) \in Nat
  BY CountBelow DEF Count, HeapTyped
<1>4. \A w : Has(stack, o, w)' <=> Has(Below, o, w)
  BY DEF Has
<1>. QED  BY <1>1, <1>2, <1>3, <1>4

LEMMA Push ==
  ASSUME HeapTyped, NEW e \in Call, stack' = Append(stack, e), NEW o \in Id
  PROVE  /\ Count(stack, o)' = Count(stack, o) + (IF e.id = o THEN 1 ELSE 0)
         /\ \A w : Has(stack, o, w)' <=> Has(stack, o, w) \/ (e.id = o /\ e.in = w)
         /\ stack' \in Seq(Call)
<1>1. stack \in Seq(Call) /\ Count(stack, o) \in Nat
  BY CountType DEF HeapTyped
<1>2. Count(stack, o)' = Count(Append(stack, e), o)
  BY DEF Count
<1>3. \A w : Has(stack, o, w)' <=> Has(Append(stack, e), o, w)
  BY DEF Has
<1>. QED  BY <1>1, <1>2, <1>3, CountAppend, HasAppend

LEMMA Swap ==
  ASSUME HeapTyped, stack # <<>>, NEW e \in Call, e.id = Top.id, stack' = Below \o <<e>>, NEW o \in Id
  PROVE  /\ Count(stack, o)' = Count(stack, o)
         /\ \A w : Has(stack, o, w)' <=> Has(Below, o, w) \/ (e.id = o /\ e.in = w)
         /\ stack' \in Seq(Call)
<1>1. Below \in Seq(Call)
  BY Split DEF HeapTyped
<1> DEFINE s == Append(Below, e)
<1>2. stack' = s /\ s \in Seq(Call)
  BY <1>1
<1>3. Count(s, o) = IF e.id = o THEN Count(Below, o) + 1 ELSE Count(Below, o)
  BY <1>1, CountAppend
<1>4. Count(stack, o) = IF Top.id = o THEN Count(Below, o) + 1 ELSE Count(Below, o)
  BY CountBelow DEF HeapTyped
<1>5. \A w : Has(s, o, w) <=> Has(Below, o, w) \/ (e.id = o /\ e.in = w)
  BY <1>1, HasAppend
<1> HIDE DEF s
<1>6. Count(stack, o)' = Count(s, o) /\ \A w : Has(stack, o, w)' <=> Has(s, o, w)
  BY <1>2 DEF Count, Has
<1>. QED  BY <1>2, <1>3, <1>4, <1>5, <1>6

LEMMA SwapPush ==
  ASSUME HeapTyped, stack # <<>>, NEW e \in Call, NEW f \in Call, e.id = Top.id,
         stack' = Below \o <<e, f>>, NEW o \in Id
  PROVE  /\ Count(stack, o)' = Count(stack, o) + (IF f.id = o THEN 1 ELSE 0)
         /\ \A w : Has(stack, o, w)' <=>
              Has(Below, o, w) \/ (e.id = o /\ e.in = w) \/ (f.id = o /\ f.in = w)
         /\ stack' \in Seq(Call)
<1>1. Below \in Seq(Call) /\ Count(stack, o) \in Nat
  BY Split, CountType DEF HeapTyped
<1> DEFINE s == Append(Below, e)
           t == Append(s, f)
<1>2. stack' = t /\ s \in Seq(Call) /\ t \in Seq(Call)
  BY <1>1
<1>3. Count(s, o) = IF e.id = o THEN Count(Below, o) + 1 ELSE Count(Below, o)
  BY <1>1, CountAppend
<1>4. Count(stack, o) = IF Top.id = o THEN Count(Below, o) + 1 ELSE Count(Below, o)
  BY CountBelow DEF HeapTyped
<1>5. \A w : Has(s, o, w) <=> Has(Below, o, w) \/ (e.id = o /\ e.in = w)
  BY <1>1, HasAppend
<1> HIDE DEF s
<1>6. Count(t, o) = IF f.id = o THEN Count(s, o) + 1 ELSE Count(s, o)
  BY <1>2, CountAppend
<1>7. \A w : Has(t, o, w) <=> Has(s, o, w) \/ (f.id = o /\ f.in = w)
  BY <1>2, HasAppend
<1> HIDE DEF t
<1>8. Count(stack, o)' = Count(t, o) /\ \A w : Has(stack, o, w)' <=> Has(t, o, w)
  BY <1>2 DEF Count, Has
<1>9. Count(stack, o)' = Count(stack, o) + (IF f.id = o THEN 1 ELSE 0)
  BY <1>1, <1>3, <1>4, <1>6, <1>8
<1>. QED  BY <1>2, <1>5, <1>7, <1>8, <1>9

\* The bucket whose count the loop over the destructors has raised is still the same.
LEMMA RaisedSame ==
  ASSUME Typed, Phases, UNCHANGED <<hold, cursor>>,
         \A h \in Handle : hold => bucket'[h].obj = bucket[h].obj, NEW o \in Id
  PROVE  Raised(o)' = Raised(o)
<1>1. hold => cursor \in Handle
  BY Finite DEF Phases, Typed, StoreTyped, EndTyped, Handle
<1>. QED  BY <1>1 DEF Raised

\* A step that leaves the buckets with their objects keeps what the store promises, if it
\* counts right.
LEMMA Kept ==
  ASSUME Typed, Core, Typed',
         UNCHANGED <<top, free_list_head, handle, freed>>,
         \A h \in Handle : /\ bucket'[h].obj = bucket[h].obj
                           /\ bucket'[h].valid = bucket[h].valid
                           /\ bucket'[h].next = bucket[h].next
                           /\ bucket[h].destructor_called => bucket'[h].destructor_called,
         \A o \in Id : bucket[handle[o]].valid /\ Owner(o) =>
                         bucket'[handle[o]].refcount = References(o)',
         \A o \in Id : References(o)' > 0 => References(o) > 0 \/ Owner(o),
         \A o \in Id : Has(stack, o, "free")' <=> Has(stack, o, "free"),
         \A o \in Id : Has(stack, o, "free") => References(o)' = 1,
         \A o \in Id : Has(stack, o, "dtor")' => Has(stack, o, "dtor") \/ bucket[handle[o]].valid,
         \A o \in Id : destructed'[o] = destructed[o]
                       \/ /\ Owner(o) /\ ~ bucket[handle[o]].destructor_called
                          /\ bucket'[handle[o]].destructor_called
                          /\ destructed'[o] = destructed[o] + 1
  PROVE  Core'
<1> USE DEF Core, Typed, StoreTyped, EndTyped
<1>0. \A o \in Id : handle[o] # 0 => handle[o] \in Handle
  OBVIOUS
<1>1. Placed'
  BY DEF Placed
<1>2. Listed'
  <2>1. Free' = Free
    BY DEF Free
  <2>2. \A h \in Free : h \in Handle
    BY DEF Free
  <2>. QED  BY <2>1, <2>2 DEF Listed
<1>3. \A o \in Id : Owner(o)' <=> Owner(o)
  BY <1>0 DEF Owner
<1>4. Owned'
  BY <1>3 DEF Owned
<1>5. Counted'
  <2> SUFFICES ASSUME NEW o \in Id, Owner(o), bucket'[handle[o]].valid
               PROVE  bucket'[handle[o]].refcount = References(o)'
    BY <1>3 DEF Counted
  <2>1. bucket[handle[o]].valid
    BY <1>0 DEF Owner
  <2>. QED  BY <2>1
<1>6. Calls'
  <2> SUFFICES ASSUME NEW o \in Id
               PROVE  /\ Has(stack, o, "dtor")' => bucket'[handle[o]].valid
                      /\ Has(stack, o, "free")' => bucket'[handle[o]].valid /\ References(o)' = 1 /\ freed[o] = 1
    BY DEF Calls
  <2>1. Has(stack, o, "dtor")' \/ Has(stack, o, "free")' => References(o)' >= 1
    <3>1. ASSUME NEW w, Has(stack, o, w)' PROVE Count(stack, o)' >= 1
      <4>1. stack' \in Seq(Call) /\ Has(stack', o, w)
        BY <3>1 DEF HeapTyped, Has
      <4>2. Count(stack', o) >= 1
        BY <4>1, CountZero
      <4>. QED  BY <4>2 DEF Count
    <3>. QED  BY <3>1, SumNext
  <2>2. Has(stack, o, "dtor")' \/ Has(stack, o, "free")' => handle[o] \in Handle
    <3>1. Has(stack, o, "dtor")' \/ Has(stack, o, "free")' => References(o)' > 0
      BY <2>1, SumNext
    <3>. QED  BY <1>0, <1>3, <1>4, <3>1 DEF Owned, Owner
  <2>. QED  BY <2>2 DEF Calls
<1>7. FreedOnce'
  <2> SUFFICES ASSUME NEW o \in Id
               PROVE  /\ freed[o] <= 1
                      /\ freed[o] = 1 => handle[o] # 0
                           /\ (Owner(o) /\ bucket'[handle[o]].valid => Has(stack, o, "free")')
    BY <1>3 DEF FreedOnce
  <2>. QED  BY <1>0 DEF FreedOnce, Owner
<1>8. DestructedOnce'
  <2> SUFFICES ASSUME NEW o \in Id
               PROVE  /\ destructed'[o] <= 1
                      /\ destructed'[o] = 1 => handle[o] # 0
                           /\ (Owner(o) => bucket'[handle[o]].destructor_called)
    BY <1>3 DEF DestructedOnce
  <2>. QED  BY <1>0 DEF DestructedOnce, Owner
<1>. QED  BY <1>1, <1>2, <1>4, <1>5, <1>6, <1>7, <1>8

-----------------------------------------------------------------------------
(* Types.                                                                   *)

LEMMA Calls3 ==
  ASSUME Typed
  PROVE  /\ \A o \in Id : Release(o) \in Call /\ Release(o).id = o /\ Release(o).in = "enter"
                          /\ User(o) \in Call /\ User(o).id = o /\ User(o).in = "user"
         /\ stack # <<>> =>
              /\ Top \in Call /\ Below \in Seq(Call)
              /\ \A w \in {"user", "enter", "dtor", "free"} : \A m \in Nat :
                   /\ [Top EXCEPT !.in = w] \in Call /\ [Top EXCEPT !.in = w, !.at = m] \in Call
                   /\ [Top EXCEPT !.in = w].id = Top.id /\ [Top EXCEPT !.in = w].in = w
                   /\ [Top EXCEPT !.in = w, !.at = m].id = Top.id
                   /\ [Top EXCEPT !.in = w, !.at = m].in = w
              /\ [Top EXCEPT !.failure = TRUE] \in Call
              /\ [Top EXCEPT !.failure = TRUE].id = Top.id /\ [Top EXCEPT !.failure = TRUE].in = Top.in
<1>1. \A o \in Id : Release(o) \in Call /\ Release(o).id = o /\ Release(o).in = "enter"
                    /\ User(o) \in Call /\ User(o).id = o /\ User(o).in = "user"
  BY DEF Release, User, Call, Typed, StoreTyped
<1>2. stack # <<>> => Top \in Call /\ Below \in Seq(Call)
  BY Split DEF Typed, HeapTyped
<1>3. \A t \in Call : \A w \in {"user", "enter", "dtor", "free"} : \A m \in Nat :
        /\ [t EXCEPT !.in = w] \in Call /\ [t EXCEPT !.in = w, !.at = m] \in Call
        /\ [t EXCEPT !.in = w].id = t.id /\ [t EXCEPT !.in = w].in = w
        /\ [t EXCEPT !.in = w, !.at = m].id = t.id
        /\ [t EXCEPT !.in = w, !.at = m].in = w
  BY DEF Call
<1>4. \A t \in Call : /\ [t EXCEPT !.failure = TRUE] \in Call
                      /\ [t EXCEPT !.failure = TRUE].id = t.id /\ [t EXCEPT !.failure = TRUE].in = t.in
  BY DEF Call
<1> HIDE DEF Top, Below
<1>. QED  BY <1>1, <1>2, <1>3, <1>4

\* What user code has in hand is there and is not being freed.
LEMMA InHand ==
  ASSUME Typed, Calls, UserCode, NEW o \in Reach
  PROVE  o \in Id /\ References(o) > 0 /\ ~ Has(stack, o, "free")
<1>0. stack # <<>> => Top.id \in Id /\ Top.in = "user"
  BY Split DEF UserCode, Typed, HeapTyped, Call
<1>1. CASE stack # <<>> /\ o = Top.id
  <2>1. o \in Id /\ Top.in # "free"
    BY <1>0, <1>1
  <2>2. Count(stack, o) >= 1
    BY <1>1, <2>1, CountBelow DEF Typed, HeapTyped
  <2>. QED  BY <1>1, <2>1, <2>2, Sum, FreeIsAlone DEF Typed
<1>2. CASE ~ (stack # <<>> /\ o = Top.id)
  <2>1. o \in Id /\ ((\E v \in Var : var[v] = o) \/ (\E p \in Id : prop[p] = o))
    BY <1>0, <1>2, Finite DEF Reach, Held, Typed, HeapTyped
  <2>2. Vars(o) + Props(o) >= 1
    BY <2>1, Referred DEF Typed
  <2>3. References(o) > 0
    BY <2>1, <2>2, Sum DEF Typed
  <2>. QED  BY <2>1, <2>3, FreeIsAlone
<1>. QED  BY <1>1, <1>2

\* A count that is changed keeps the bucket as it is otherwise.
LEMMA AddTyped ==
  ASSUME Typed, NEW o \in Id, handle[o] # 0, NEW n \in Int, Add(o, n)
  PROVE  /\ bucket' \in [Handle -> Bucket]
         /\ \A h \in Handle : /\ bucket'[h].obj = bucket[h].obj /\ bucket'[h].valid = bucket[h].valid
                              /\ bucket'[h].next = bucket[h].next
                              /\ bucket'[h].destructor_called = bucket[h].destructor_called
                              /\ bucket'[h].refcount =
                                   bucket[h].refcount + IF h = handle[o] THEN n ELSE 0
<1>1. handle[o] \in Handle /\ bucket \in [Handle -> Bucket]
  BY DEF Typed, StoreTyped
<1>2. bucket' = [bucket EXCEPT ![handle[o]] = [bucket[handle[o]] EXCEPT !.refcount = @ + n]]
  BY DEF Add
<1>3. \A b \in Bucket : [b EXCEPT !.refcount = @ + n] \in Bucket
  BY DEF Bucket
<1>. QED  BY <1>1, <1>2, <1>3 DEF Bucket

-----------------------------------------------------------------------------
(* The steps.                                                               *)

LEMMA VarsSame == ASSUME UNCHANGED var, NEW o PROVE Vars(o)' = Vars(o)
  BY DEF Vars

LEMMA PropsSame == ASSUME UNCHANGED prop, NEW o PROVE Props(o)' = Props(o)
  BY DEF Props

LEMMA StackSame ==
  ASSUME UNCHANGED stack, NEW o
  PROVE  Count(stack, o)' = Count(stack, o) /\ \A w : Has(stack, o, w)' <=> Has(stack, o, w)
  BY DEF Count, Has

\* The sum, after a step.
LEMMA Delta ==
  ASSUME Typed, Typed', NEW o \in Id, NEW n \in Int,
         Vars(o)' + Props(o)' + Count(stack, o)' + Raised(o)' + leaks'[o] =
           Vars(o) + Props(o) + Count(stack, o) + Raised(o) + leaks[o] + n
  PROVE  References(o)' = References(o) + n /\ References(o) \in Nat /\ References(o)' \in Nat
<1>1. References(o) = Vars(o) + Props(o) + Count(stack, o) + Raised(o) + leaks[o] /\ References(o) \in Nat
  BY Sum DEF Typed
<1>2. References(o)' = Vars(o)' + Props(o)' + Count(stack, o)' + Raised(o)' + leaks'[o]
      /\ References(o)' \in Nat
  BY SumNext DEF Typed
<1>. QED  BY <1>1, <1>2

\* A step that changes one count and the references to that object alike.
LEMMA AddKeeps ==
  ASSUME Typed, Core, Typed', NEW x \in Id, NEW n \in Int, References(x) > 0, Add(x, n),
         UNCHANGED <<top, free_list_head, handle, freed, destructed>>,
         ~ Has(stack, x, "free"),
         \A o \in Id : References(o)' = References(o) + IF o = x THEN n ELSE 0,
         \A o \in Id : Has(stack, o, "free")' <=> Has(stack, o, "free"),
         \A o \in Id : Has(stack, o, "dtor")' => Has(stack, o, "dtor")
  PROVE  Core'
<1>0. Owner(x) /\ handle[x] # 0
  BY DEF Core, Owned, Owner
<1>1. \A o \in Id : References(o) \in Nat
  BY Sum DEF Typed
<1>2. \A h \in Handle : /\ bucket'[h].obj = bucket[h].obj /\ bucket'[h].valid = bucket[h].valid
                        /\ bucket'[h].next = bucket[h].next
                        /\ bucket'[h].destructor_called = bucket[h].destructor_called
                        /\ bucket'[h].refcount = bucket[h].refcount + IF h = handle[x] THEN n ELSE 0
  BY <1>0, AddTyped
<1>3. \A o \in Id : bucket[handle[o]].valid /\ Owner(o) => bucket'[handle[o]].refcount = References(o)'
  <2> SUFFICES ASSUME NEW o \in Id, bucket[handle[o]].valid, Owner(o)
               PROVE  bucket'[handle[o]].refcount = References(o)'
    OBVIOUS
  <2>1. handle[o] \in Handle /\ (handle[o] = handle[x] <=> o = x)
    BY <1>0 DEF Owner, Typed, StoreTyped
  <2>2. bucket[handle[o]].refcount = References(o)
    BY DEF Core, Counted
  <2>. QED  BY <1>2, <2>1, <2>2
<1>4. \A o \in Id : Has(stack, o, "free") => References(o) = 1 /\ o # x
  BY FreeIsAlone DEF Core
<1>5. \A o \in Id : References(o)' > 0 => References(o) > 0
  BY <1>1
<1>6. \A o \in Id : Has(stack, o, "free") => References(o)' = 1
  BY <1>4
<1>. QED  BY <1>2, <1>3, <1>5, <1>6, Kept

\* A step that changes at most which reference it is.
LEMMA SameCounts ==
  ASSUME Typed, Core, Typed',
         UNCHANGED <<bucket, top, free_list_head, handle, freed, destructed>>,
         \A o \in Id : References(o)' = References(o),
         \A o \in Id : Has(stack, o, "free")' <=> Has(stack, o, "free"),
         \A o \in Id : Has(stack, o, "dtor")' => Has(stack, o, "dtor")
  PROVE  Core'
<1>1. \A o \in Id : bucket[handle[o]].valid /\ Owner(o) => bucket'[handle[o]].refcount = References(o)'
  BY DEF Core, Counted
<1>2. \A o \in Id : Has(stack, o, "free") => References(o)' = 1
  BY FreeIsAlone DEF Core
<1>. QED  BY <1>1, <1>2, Kept

LEMMA DropReferenceKeeps ==
  ASSUME Typed, Core, Phases, DropReference
  PROVE  Typed' /\ Core'
<1>1. stack # <<>> /\ Top.in # "free" /\ Add(Top.id, -1) /\ stack' = Below /\ bailing' = Top.failure
      /\ UNCHANGED <<top, size, free_list_head, moves, handle, destructor, heapVars, endVars, leaks,
                     destructed, freed>>
  BY DEF DropReference, In, Return
<1>2. Top.id \in Id /\ References(Top.id) > 0 /\ handle[Top.id] # 0 /\ -1 \in Int
  BY <1>1, TopOwned, Sum DEF Core, Owner, Typed
<1>3. bucket' \in [Handle -> Bucket] /\ \A h \in Handle : bucket'[h].obj = bucket[h].obj
  BY <1>1, <1>2, AddTyped
<1>4. Typed'
  <2>1. Below \in Seq(Call) /\ Top.failure \in BOOLEAN
    BY <1>1, Split DEF Typed, HeapTyped, Call
  <2>. QED  BY <1>1, <1>3, <2>1 DEF Typed, StoreTyped, HeapTyped, EndTyped, heapVars, endVars
<1>5. \A o \in Id :
        /\ References(o)' = References(o) + IF o = Top.id THEN -1 ELSE 0
        /\ \A w : Has(stack, o, w)' <=> Has(Below, o, w)
        /\ \A w : Has(stack, o, w) <=> Has(Below, o, w) \/ (Top.id = o /\ Top.in = w)
  <2> SUFFICES ASSUME NEW o \in Id
               PROVE  /\ References(o)' = References(o) + IF o = Top.id THEN -1 ELSE 0
                      /\ \A w : Has(stack, o, w)' <=> Has(Below, o, w)
                      /\ \A w : Has(stack, o, w) <=> Has(Below, o, w) \/ (Top.id = o /\ Top.in = w)
    OBVIOUS
  <2>1. /\ Count(stack, o)' = Count(stack, o) - (IF Top.id = o THEN 1 ELSE 0)
        /\ \A w : Has(stack, o, w)' <=> Has(Below, o, w)
        /\ \A w : Has(stack, o, w) <=> Has(Below, o, w) \/ (Top.id = o /\ Top.in = w)
    BY <1>1, Pop, CountBelow DEF Typed, HeapTyped
  <2>2. Vars(o)' = Vars(o) /\ Props(o)' = Props(o) /\ Raised(o)' = Raised(o) /\ leaks'[o] = leaks[o]
    BY <1>1, <1>3, VarsSame, PropsSame, RaisedSame DEF heapVars, endVars
  <2>3. Vars(o) \in Nat /\ Props(o) \in Nat /\ Count(stack, o) \in Nat /\ Raised(o) \in {0, 1}
        /\ leaks[o] \in Nat
    BY Sum DEF Typed
  <2> DEFINE n == IF o = Top.id THEN -1 ELSE 0
  <2>4. n \in Int
    OBVIOUS
  <2>5. Vars(o)' + Props(o)' + Count(stack, o)' + Raised(o)' + leaks'[o] =
          Vars(o) + Props(o) + Count(stack, o) + Raised(o) + leaks[o] + n
    BY <2>1, <2>2, <2>3
  <2> HIDE DEF n
  <2>6. References(o)' = References(o) + n
    BY <1>4, <2>4, <2>5, Delta
  <2>. QED  BY <2>1, <2>6 DEF n
<1>6. ~ Has(stack, Top.id, "free")
  BY <1>1, <1>2, FreeIsAlone DEF Core
<1>. QED  BY <1>1, <1>2, <1>4, <1>5, <1>6, AddKeeps

\* $this of a destructor that returns is released next.
LEMMA EndDestructorKeeps ==
  ASSUME Typed, Core, Phases, EndDestructor
  PROVE  Typed' /\ Core'
<1> DEFINE e == Release(Top.id)
<1>1. stack # <<>> /\ Top.in = "user" /\ stack' = Below \o <<e>>
      /\ UNCHANGED <<storeVars, heapVars, bailing, endVars, leaks, destructed, freed>>
  BY DEF EndDestructor, In
<1>2. Top.id \in Id
  BY <1>1, Split DEF Typed, HeapTyped, Call
<1>3. e \in Call /\ e.id = Top.id /\ e.in = "enter"
  BY <1>2, Calls3
<1> HIDE DEF e
<1>4. \A o \in Id :
        /\ Count(stack, o)' = Count(stack, o)
        /\ \A w : Has(stack, o, w)' <=> Has(Below, o, w) \/ (e.id = o /\ e.in = w)
        /\ \A w : Has(stack, o, w) <=> Has(Below, o, w) \/ (Top.id = o /\ Top.in = w)
  BY <1>1, <1>3, Swap, CountBelow DEF Typed, HeapTyped
<1>5. Typed'
  BY <1>1, <1>2, <1>3, Swap DEF Typed, StoreTyped, HeapTyped, EndTyped, storeVars, heapVars, endVars
<1>6. \A o \in Id : References(o)' = References(o)
  <2> SUFFICES ASSUME NEW o \in Id PROVE References(o)' = References(o)
    OBVIOUS
  <2>1. Vars(o)' = Vars(o) /\ Props(o)' = Props(o) /\ Raised(o)' = Raised(o) /\ leaks'[o] = leaks[o]
    BY <1>1, VarsSame, PropsSame, RaisedSame DEF heapVars, endVars, storeVars
  <2>. QED  BY <1>4, <1>5, <2>1, Sum, SumNext DEF Typed
<1>. QED  BY <1>1, <1>3, <1>4, <1>5, <1>6, SameCounts DEF storeVars

\* A bailout: $this is never released, a release goes on.
LEMMA UnwindKeeps ==
  ASSUME Typed, Core, Phases, Unwind
  PROVE  Typed' /\ Core'
<1>1. stack # <<>> /\ UNCHANGED <<storeVars, heapVars, endVars, destructed, freed>>
      /\ Top.id \in Id /\ Top \in Call
  BY Split DEF Unwind, Typed, HeapTyped, Call
<1>2. \A o \in Id : Vars(o)' = Vars(o) /\ Props(o)' = Props(o) /\ Raised(o)' = Raised(o)
  BY <1>1, VarsSame, PropsSame, RaisedSame DEF heapVars, endVars, storeVars
<1>3. CASE Top.in = "user"
  <2>1. stack' = Below /\ leaks' = [leaks EXCEPT ![Top.id] = @ + 1] /\ bailing' = bailing
    BY <1>3 DEF Unwind
  <2>2. Typed'
    BY <1>1, <2>1, Pop DEF Typed, StoreTyped, HeapTyped, EndTyped, storeVars, heapVars, endVars
  <2>3. \A o \in Id :
          /\ Count(stack, o)' = Count(stack, o) - (IF Top.id = o THEN 1 ELSE 0)
          /\ \A w : Has(stack, o, w)' <=> Has(Below, o, w)
          /\ \A w : Has(stack, o, w) <=> Has(Below, o, w) \/ (Top.id = o /\ Top.in = w)
    BY <1>1, <2>1, Pop, CountBelow DEF Typed, HeapTyped
  <2>4. \A o \in Id : leaks'[o] = leaks[o] + (IF Top.id = o THEN 1 ELSE 0)
    BY <1>1, <2>1 DEF Typed, EndTyped
  <2>5. \A o \in Id : References(o)' = References(o)
    BY <1>2, <2>2, <2>3, <2>4, Sum, SumNext DEF Typed
  <2>. QED  BY <1>1, <1>3, <2>2, <2>3, <2>5, SameCounts DEF storeVars
<1>4. CASE Top.in # "user"
  <2> DEFINE e == [Top EXCEPT !.failure = TRUE]
  <2>1. stack' = Below \o <<e>> /\ leaks' = leaks /\ bailing' = FALSE
    BY <1>4 DEF Unwind
  <2>2. e \in Call /\ e.id = Top.id /\ e.in = Top.in
    BY <1>1 DEF Call
  <2> HIDE DEF e
  <2>3. Typed'
    BY <1>1, <2>1, <2>2, Swap DEF Typed, StoreTyped, HeapTyped, EndTyped, storeVars, heapVars, endVars
  <2>4. \A o \in Id :
          /\ Count(stack, o)' = Count(stack, o)
          /\ \A w : Has(stack, o, w)' <=> Has(Below, o, w) \/ (e.id = o /\ e.in = w)
          /\ \A w : Has(stack, o, w) <=> Has(Below, o, w) \/ (Top.id = o /\ Top.in = w)
    BY <1>1, <2>1, <2>2, Swap, CountBelow DEF Typed, HeapTyped
  <2>5. \A o \in Id : References(o)' = References(o)
    BY <1>2, <2>1, <2>3, <2>4, Sum, SumNext DEF Typed
  <2>. QED  BY <1>1, <2>2, <2>3, <2>4, <2>5, SameCounts DEF storeVars
<1>. QED  BY <1>3, <1>4

\* No destructor to call: the object counts as destructed.
LEMMA SkipDestructorKeeps ==
  ASSUME Typed, Core, Phases, SkipDestructor
  PROVE  Typed' /\ Core'
<1> DEFINE e == [Top EXCEPT !.in = "dtor"]
<1>1. /\ stack # <<>> /\ Top.in = "enter" /\ bucket[handle[Top.id]].valid
      /\ bucket' = [bucket EXCEPT ![handle[Top.id]].destructor_called = TRUE]
      /\ stack' = Below \o <<e>>
      /\ UNCHANGED <<top, size, free_list_head, moves, handle, destructor, heapVars, bailing,
                     endVars, leaks, destructed, freed>>
  BY DEF SkipDestructor, In
<1>2. Top.id \in Id /\ handle[Top.id] \in Handle
  BY <1>1, TopOwned DEF Core
<1>3. e \in Call /\ e.id = Top.id /\ e.in = "dtor"
  <2>1. "dtor" \in {"user", "enter", "dtor", "free"} /\ 0 \in Nat
    OBVIOUS
  <2>. QED  BY <1>1, <2>1, Calls3
<1> HIDE DEF e
<1>4. /\ bucket' \in [Handle -> Bucket]
      /\ \A h \in Handle : /\ bucket'[h].obj = bucket[h].obj /\ bucket'[h].valid = bucket[h].valid
                           /\ bucket'[h].next = bucket[h].next
                           /\ bucket[h].destructor_called => bucket'[h].destructor_called
                           /\ bucket'[h].refcount = bucket[h].refcount
  <2>1. bucket' = [bucket EXCEPT ![handle[Top.id]] = [bucket[handle[Top.id]] EXCEPT !.destructor_called = TRUE]]
    BY <1>1
  <2>2. \A b \in Bucket : [b EXCEPT !.destructor_called = TRUE] \in Bucket
    BY DEF Bucket
  <2>. QED  BY <1>2, <2>1, <2>2 DEF Typed, StoreTyped, Bucket
<1>5. Typed'
  BY <1>1, <1>2, <1>3, <1>4, Swap DEF Typed, StoreTyped, HeapTyped, EndTyped, heapVars, endVars
<1>6. \A o \in Id :
        /\ Count(stack, o)' = Count(stack, o)
        /\ \A w : Has(stack, o, w)' <=> Has(Below, o, w) \/ (e.id = o /\ e.in = w)
        /\ \A w : Has(stack, o, w) <=> Has(Below, o, w) \/ (Top.id = o /\ Top.in = w)
  BY <1>1, <1>3, Swap, CountBelow DEF Typed, HeapTyped
<1>7. \A o \in Id : References(o)' = References(o)
  <2> SUFFICES ASSUME NEW o \in Id PROVE References(o)' = References(o)
    OBVIOUS
  <2>1. Vars(o)' = Vars(o) /\ Props(o)' = Props(o) /\ Raised(o)' = Raised(o) /\ leaks'[o] = leaks[o]
    BY <1>1, <1>4, VarsSame, PropsSame, RaisedSame DEF heapVars, endVars
  <2>. QED  BY <1>5, <1>6, <2>1, Sum, SumNext DEF Typed
<1>8. \A o \in Id : bucket[handle[o]].valid /\ Owner(o) => bucket'[handle[o]].refcount = References(o)'
  <2>1. \A o \in Id : Owner(o) => handle[o] \in Handle
    BY DEF Owner, Typed, StoreTyped
  <2>. QED  BY <1>4, <1>7, <2>1 DEF Core, Counted
<1>9. \A o \in Id : Has(stack, o, "free") => References(o)' = 1
  BY <1>7, FreeIsAlone DEF Core
<1>10. /\ \A o \in Id : Has(stack, o, "free")' <=> Has(stack, o, "free")
       /\ \A o \in Id : Has(stack, o, "dtor")' => Has(stack, o, "dtor") \/ bucket[handle[o]].valid
  BY <1>1, <1>3, <1>6
<1>. QED  BY <1>1, <1>4, <1>5, <1>7, <1>8, <1>9, <1>10, Kept

\* A bucket is marked and its count changed.
LEMMA Marked ==
  ASSUME NEW b \in Bucket, NEW n \in Int
  PROVE  LET c == [b EXCEPT !.destructor_called = TRUE, !.refcount = @ + n]
         IN  /\ c \in Bucket /\ c.obj = b.obj /\ c.valid = b.valid /\ c.next = b.next
             /\ c.destructor_called /\ c.refcount = b.refcount + n
<1> DEFINE d == [b EXCEPT !.destructor_called = TRUE]
           c == [d EXCEPT !.refcount = b.refcount + n]
<1>1. d \in Bucket /\ d.obj = b.obj /\ d.valid = b.valid /\ d.next = b.next /\ d.destructor_called
      /\ d.refcount = b.refcount
  BY DEF Bucket
<1>2. b.refcount + n \in Int
  BY DEF Bucket
<1>3. c = [b EXCEPT !.destructor_called = TRUE, !.refcount = @ + n]
  BY <1>1 DEF Bucket
<1> HIDE DEF d
<1>4. /\ c \in Bucket /\ c.obj = d.obj /\ c.valid = d.valid /\ c.next = d.next
      /\ c.destructor_called = d.destructor_called /\ c.refcount = b.refcount + n
  BY <1>1, <1>2 DEF Bucket
<1> HIDE DEF c
<1>. QED  BY <1>1, <1>3, <1>4

\* The destructor is called, for the first time, with a reference of its own.
LEMMA CallDestructorKeeps ==
  ASSUME Typed, Core, Phases, CallDestructor
  PROVE  Typed' /\ Core'
<1> DEFINE e == [Top EXCEPT !.in = "dtor"]
           f == User(Top.id)
<1>0. Top.id \in Id /\ handle[Top.id] \in Handle /\ Owner(Top.id) /\ bucket[handle[Top.id]].obj = Top.id
      /\ References(Top.id) > 0
  <2>1. stack # <<>>
    BY DEF CallDestructor, In
  <2>. QED  BY <2>1, TopOwned, Sum DEF Core, Owner, Typed
<1>1. /\ stack # <<>> /\ Top.in = "enter" /\ bucket[handle[Top.id]].valid
      /\ ~ bucket[handle[Top.id]].destructor_called
      /\ bucket' = [bucket EXCEPT ![handle[Top.id]].destructor_called = TRUE,
                                  ![handle[Top.id]].refcount = @ + 1]
      /\ destructed' = [destructed EXCEPT ![Top.id] = @ + 1]
      /\ stack' = Below \o <<e, f>>
      /\ UNCHANGED <<top, size, free_list_head, moves, handle, destructor, heapVars, bailing,
                     endVars, leaks, freed>>
  BY <1>0 DEF CallDestructor, In
<1>3. e \in Call /\ e.id = Top.id /\ e.in = "dtor" /\ f \in Call /\ f.id = Top.id /\ f.in = "user"
  <2>1. "dtor" \in {"user", "enter", "dtor", "free"} /\ 0 \in Nat
    OBVIOUS
  <2>. QED  BY <1>0, <1>1, <2>1, Calls3
<1> HIDE DEF e, f
<1>4. /\ bucket' \in [Handle -> Bucket]
      /\ \A h \in Handle : /\ bucket'[h].obj = bucket[h].obj /\ bucket'[h].valid = bucket[h].valid
                           /\ bucket'[h].next = bucket[h].next
                           /\ bucket[h].destructor_called => bucket'[h].destructor_called
                           /\ bucket'[h].refcount =
                                bucket[h].refcount + IF h = handle[Top.id] THEN 1 ELSE 0
      /\ bucket'[handle[Top.id]].destructor_called
  <2>1. bucket' = [bucket EXCEPT ![handle[Top.id]] =
          [bucket[handle[Top.id]] EXCEPT !.destructor_called = TRUE, !.refcount = @ + 1]]
    BY <1>0, <1>1 DEF Typed, StoreTyped
  <2> DEFINE b == bucket[handle[Top.id]]
             c == [b EXCEPT !.destructor_called = TRUE, !.refcount = @ + 1]
  <2>2. b \in Bucket /\ 1 \in Int
    BY <1>0 DEF Typed, StoreTyped
  <2>3. /\ c \in Bucket /\ c.obj = b.obj /\ c.valid = b.valid /\ c.next = b.next
        /\ c.destructor_called /\ c.refcount = b.refcount + 1
    BY <2>2, Marked
  <2> HIDE DEF c
  <2>4. bucket'[handle[Top.id]] = c /\ \A h \in Handle : h # handle[Top.id] => bucket'[h] = bucket[h]
    BY <1>0, <2>1 DEF Typed, StoreTyped, c
  <2>5. bucket' \in [Handle -> Bucket]
    BY <1>0, <2>1, <2>3 DEF Typed, StoreTyped, c
  <2>6. \A h \in Handle : bucket[h].refcount \in Int
    BY DEF Typed, StoreTyped, Bucket
  <2>. QED  BY <1>0, <2>3, <2>4, <2>5, <2>6
<1>5. Typed'
  <2>1. stack' \in Seq(Call)
    BY <1>0, <1>1, <1>3, SwapPush DEF Typed
  <2>2. destructed' \in [Id -> Nat]
    BY <1>0, <1>1 DEF Typed, EndTyped
  <2>. QED  BY <1>1, <1>4, <2>1, <2>2 DEF Typed, StoreTyped, HeapTyped, EndTyped, heapVars, endVars
<1>6. \A o \in Id :
        /\ Count(stack, o)' = Count(stack, o) + (IF f.id = o THEN 1 ELSE 0)
        /\ \A w : Has(stack, o, w)' <=>
             Has(Below, o, w) \/ (e.id = o /\ e.in = w) \/ (f.id = o /\ f.in = w)
        /\ \A w : Has(stack, o, w) <=> Has(Below, o, w) \/ (Top.id = o /\ Top.in = w)
  <2> SUFFICES ASSUME NEW o \in Id
               PROVE  /\ Count(stack, o)' = Count(stack, o) + (IF f.id = o THEN 1 ELSE 0)
                      /\ \A w : Has(stack, o, w)' <=>
                           Has(Below, o, w) \/ (e.id = o /\ e.in = w) \/ (f.id = o /\ f.in = w)
                      /\ \A w : Has(stack, o, w) <=> Has(Below, o, w) \/ (Top.id = o /\ Top.in = w)
    OBVIOUS
  <2>1. \A w : Has(stack, o, w) <=> Has(Below, o, w) \/ (Top.id = o /\ Top.in = w)
    BY <1>1, CountBelow DEF Typed, HeapTyped
  <2>2. HeapTyped
    BY DEF Typed
  <2>3. /\ Count(stack, o)' = Count(stack, o) + (IF f.id = o THEN 1 ELSE 0)
        /\ \A w : Has(stack, o, w)' <=>
             Has(Below, o, w) \/ (e.id = o /\ e.in = w) \/ (f.id = o /\ f.in = w)
    BY <1>1, <1>3, <2>2, SwapPush
  <2>. QED  BY <2>1, <2>3
<1>7. \A o \in Id : References(o)' = References(o) + (IF o = Top.id THEN 1 ELSE 0) /\ References(o) \in Nat
  <2> SUFFICES ASSUME NEW o \in Id
               PROVE  References(o)' = References(o) + (IF o = Top.id THEN 1 ELSE 0) /\ References(o) \in Nat
    OBVIOUS
  <2>1. Vars(o)' = Vars(o) /\ Props(o)' = Props(o) /\ Raised(o)' = Raised(o) /\ leaks'[o] = leaks[o]
    BY <1>1, <1>4, VarsSame, PropsSame, RaisedSame DEF heapVars, endVars
  <2>. QED  BY <1>3, <1>5, <1>6, <2>1, Sum, SumNext DEF Typed
<1>8. \A o \in Id : bucket[handle[o]].valid /\ Owner(o) => bucket'[handle[o]].refcount = References(o)'
  <2> SUFFICES ASSUME NEW o \in Id, bucket[handle[o]].valid, Owner(o)
               PROVE  bucket'[handle[o]].refcount = References(o)'
    OBVIOUS
  <2>1. handle[o] \in Handle /\ (handle[o] = handle[Top.id] <=> o = Top.id)
    BY <1>0 DEF Owner, Typed, StoreTyped
  <2>. QED  BY <1>4, <1>7, <2>1 DEF Core, Counted
<1>9. \A o \in Id : Has(stack, o, "free") => References(o)' = 1
  BY <1>1, <1>7, FreeIsAlone DEF Core
<1>10. /\ \A o \in Id : Has(stack, o, "free")' <=> Has(stack, o, "free")
       /\ \A o \in Id : Has(stack, o, "dtor")' => Has(stack, o, "dtor") \/ bucket[handle[o]].valid
  BY <1>1, <1>3, <1>6
<1>11. \A o \in Id : destructed'[o] = destructed[o]
                     \/ /\ Owner(o) /\ ~ bucket[handle[o]].destructor_called
                        /\ bucket'[handle[o]].destructor_called
                        /\ destructed'[o] = destructed[o] + 1
  BY <1>0, <1>1, <1>4 DEF Typed, EndTyped
<1>12. \A o \in Id : References(o)' > 0 => References(o) > 0
  BY <1>0, <1>7
<1>. QED  BY <1>1, <1>4, <1>5, <1>8, <1>9, <1>10, <1>11, <1>12, Kept

\* free_storage of an object to which only this release refers.
LEMMA FreeStorageKeeps ==
  ASSUME Typed, Core, Phases, FreeStorage
  PROVE  Typed' /\ Core'
<1> DEFINE e == [Top EXCEPT !.in = "free", !.at = moves]
<1>0. stack # <<>> /\ Top.in = "dtor" /\ bucket[handle[Top.id]].refcount = 1
  BY DEF FreeStorage, In
<1>1. PICK o \in Id : o = Top.id /\ Owner(o) /\ handle[o] \in Handle /\ bucket[handle[o]].obj = o
  BY <1>0, TopOwned DEF Core, Owner
<1>2. Has(stack, o, "dtor") /\ bucket[handle[o]].valid
  BY <1>0, <1>1, CountBelow DEF Core, Calls, Typed, HeapTyped
<1>3. References(o) = 1
  BY <1>0, <1>1, <1>2 DEF Core, Counted
<1>4. ~ Has(stack, o, "free") /\ freed[o] = 0
  <2>1. ~ Has(stack, o, "free")
    BY <1>0, <1>1, FreeIsAlone DEF Core
  <2>. QED  BY <1>1, <1>2, <2>1 DEF Core, FreedOnce, Typed, EndTyped
<1>5. prop[o] # o
  <2>1. Count(stack, o) >= 1
    BY <1>0, <1>1, CountBelow DEF Typed, HeapTyped
  <2>2. Vars(o) + Props(o) = 0
    BY <1>3, <2>1, Sum DEF Typed
  <2>. QED  BY <2>2, Referred DEF Typed
<1>6. /\ e \in Call /\ e.id = o /\ e.in = "free"
  <2>1. "free" \in {"user", "enter", "dtor", "free"} /\ moves \in Nat
    BY DEF Typed, StoreTyped
  <2>. QED  BY <1>0, <1>1, <2>1, Calls3
<1>7. /\ freed' = [freed EXCEPT ![o] = @ + 1]
      /\ prop' = [prop EXCEPT ![o] = None]
      /\ stack' = Below \o <<e>> \o IF prop[o] = None THEN <<>> ELSE <<Release(prop[o])>>
      /\ UNCHANGED <<storeVars, var, bailing, endVars, leaks, destructed>>
  BY <1>1 DEF FreeStorage
<1> HIDE DEF e
<1>8. /\ stack' \in Seq(Call)
      /\ \A x \in Id :
           /\ Count(stack, x)' = Count(stack, x) + (IF prop[o] = x THEN 1 ELSE 0)
           /\ Has(stack, x, "free")' <=> Has(stack, x, "free") \/ x = o
           /\ Has(stack, x, "dtor")' => Has(stack, x, "dtor")
  <2>0. \A x \in Id : \A w : Has(stack, x, w) <=> Has(Below, x, w) \/ (Top.id = x /\ Top.in = w)
    BY <1>0, CountBelow DEF Typed, HeapTyped
  <2>1. CASE prop[o] = None
    <3>1. stack' = Below \o <<e>>
      <4>1. Below \o <<e>> \in Seq(Call)
        BY <1>0, <1>6, Split DEF Typed, HeapTyped
      <4>2. stack' = (Below \o <<e>>) \o <<>>
        BY <1>7, <2>1
      <4>. QED  BY <4>1, <4>2
    <3>2. \A x \in Id : Count(stack, x) \in Nat /\ prop[o] # x
      BY <2>1, Finite, CountType DEF Typed, HeapTyped
    <3>3. \A x \in Id :
            /\ Count(stack, x)' = Count(stack, x)
            /\ \A w : Has(stack, x, w)' <=> Has(Below, x, w) \/ (e.id = x /\ e.in = w)
            /\ stack' \in Seq(Call)
      BY <1>0, <1>1, <1>6, <3>1, Swap DEF Typed
    <3>. QED  BY <1>0, <1>1, <1>6, <2>0, <3>2, <3>3
  <2>2. CASE prop[o] # None
    <3> DEFINE f == Release(prop[o])
    <3>0. prop[o] \in Id
      BY <1>1, <2>2 DEF Typed, HeapTyped
    <3>1. f \in Call /\ f.id = prop[o] /\ f.in = "enter"
      BY <3>0, Calls3
    <3>2. stack' = Below \o <<e, f>>
      <4>1. stack' = (Below \o <<e>>) \o <<f>>
        BY <1>7, <2>2
      <4>2. Below \in Seq(Call)
        BY <1>0, Split DEF Typed, HeapTyped
      <4> HIDE DEF f, Below
      <4>. QED  BY <1>6, <3>1, <4>1, <4>2
    <3> HIDE DEF f
    <3>3. \A x \in Id :
            /\ Count(stack, x)' = Count(stack, x) + (IF f.id = x THEN 1 ELSE 0)
            /\ \A w : Has(stack, x, w)' <=>
                 Has(Below, x, w) \/ (e.id = x /\ e.in = w) \/ (f.id = x /\ f.in = w)
            /\ stack' \in Seq(Call)
      BY <1>0, <1>1, <1>6, <3>1, <3>2, SwapPush DEF Typed
    <3>. QED  BY <1>0, <1>1, <1>6, <2>0, <3>1, <3>3
  <2>. QED  BY <2>1, <2>2
<1>9. Typed'
  <2>1. freed' \in [Id -> Nat] /\ prop' \in [Id -> Id \cup {None}]
    BY <1>1, <1>7 DEF Typed, EndTyped, HeapTyped
  <2>. QED  BY <1>7, <1>8, <2>1 DEF Typed, StoreTyped, HeapTyped, EndTyped, storeVars, endVars
<1>10. \A x \in Id : References(x)' = References(x)
  <2> SUFFICES ASSUME NEW x \in Id PROVE References(x)' = References(x)
    OBVIOUS
  <2>1. Vars(x)' = Vars(x) /\ Raised(x)' = Raised(x) /\ leaks'[x] = leaks[x]
    BY <1>7, VarsSame, RaisedSame DEF storeVars, endVars
  <2>2. Props(x)' = Props(x) - (IF prop[o] = x THEN 1 ELSE 0)
    <3>1. Props(x)' = Props(x) + (IF None = x THEN 1 ELSE 0) - (IF prop[o] = x THEN 1 ELSE 0)
      <4>1. HeapTyped /\ prop' = [prop EXCEPT ![o] = None]
        BY <1>7 DEF Typed
      <4>. QED  BY <4>1, PropsChange
    <3>2. None # x /\ Props(x) \in Nat
      BY Finite, Sum DEF Typed
    <3>. QED  BY <3>1, <3>2
  <2>3. Count(stack, x)' = Count(stack, x) + (IF prop[o] = x THEN 1 ELSE 0)
    BY <1>8
  <2>. QED  BY <1>9, <2>1, <2>2, <2>3, Sum, SumNext DEF Typed
<1>11. UNCHANGED <<bucket, top, free_list_head, handle, destructed>>
  BY <1>7 DEF storeVars
<1>12. Placed' /\ Listed' /\ DestructedOnce'
  BY <1>11 DEF Core, Placed, Listed, Free, DestructedOnce, Owner
<1>13. Owned' /\ Counted'
  BY <1>10, <1>11 DEF Core, Owned, Counted, Owner
<1>14. Calls'
  <2>1. freed'[o] = 1 /\ \A x \in Id : x # o => freed'[x] = freed[x]
    BY <1>1, <1>4, <1>7 DEF Typed, EndTyped
  <2>. QED  BY <1>2, <1>3, <1>8, <1>10, <1>11, <2>1 DEF Core, Calls
<1>15. FreedOnce'
  <2>1. freed'[o] = 1 /\ \A x \in Id : x # o => freed'[x] = freed[x]
    BY <1>1, <1>4, <1>7 DEF Typed, EndTyped
  <2>. QED  BY <1>1, <1>8, <1>11, <2>1 DEF Core, FreedOnce, Owner
<1>. QED  BY <1>9, <1>12, <1>13, <1>14, <1>15 DEF Core

\* The bucket goes to the free list.
LEMMA AddToFreeListKeeps ==
  ASSUME Typed, Core, Phases, AddToFreeList
  PROVE  Typed' /\ Core'
<1>0. stack # <<>> /\ Top.in = "free"
  BY DEF AddToFreeList, In
<1>1. PICK o \in Id : o = Top.id /\ Owner(o) /\ handle[o] \in Handle /\ bucket[handle[o]].obj = o
  BY <1>0, TopOwned DEF Core, Owner
<1> DEFINE h == handle[o]
<1>2. Has(stack, o, "free") /\ bucket[h].valid
  BY <1>0, <1>1, CountBelow DEF Core, Calls, Typed, HeapTyped
<1>3. References(o) = 1 /\ Raised(o) = 0
  BY <1>1, <1>2, FreeIsAlone DEF Core
<1>a. bucket' = [bucket EXCEPT
        ![h].valid = FALSE, ![h].next = free_list_head, ![h].obj = None,
        ![h].refcount = IF Top.at = moves THEN @ - 1 ELSE @]
  BY <1>1 DEF AddToFreeList
<1>4. /\ free_list_head' = h /\ stack' = Below /\ bailing' = Top.failure
      /\ UNCHANGED <<top, size, moves, handle, destructor, heapVars, endVars, leaks,
                     destructed, freed>>
  BY <1>1 DEF AddToFreeList, Return
<1>5. /\ bucket' \in [Handle -> Bucket]
      /\ \A k \in Handle \ {h} : bucket'[k] = bucket[k]
      /\ bucket'[h].obj = None /\ bucket'[h].next = free_list_head /\ ~ bucket'[h].valid
  <2> DEFINE b == bucket[h]
             d == [b EXCEPT !.valid = FALSE, !.next = free_list_head, !.obj = None]
             n == IF Top.at = moves THEN b.refcount - 1 ELSE b.refcount
             c == [d EXCEPT !.refcount = n]
  <2>1. b \in Bucket /\ free_list_head \in Handle \cup {-1}
    BY <1>1 DEF Typed, StoreTyped
  <2>2. n \in Int
    BY <2>1 DEF Bucket
  <2>3. d \in Bucket /\ ~ d.valid /\ d.next = free_list_head /\ d.obj = None /\ d.refcount = b.refcount
    BY <2>1 DEF Bucket
  <2>4. bucket' = [bucket EXCEPT ![h] = c]
    BY <1>1, <1>a, <2>1 DEF Typed, StoreTyped, Bucket
  <2> HIDE DEF d, n
  <2>5. c \in Bucket /\ ~ c.valid /\ c.next = free_list_head /\ c.obj = None
    BY <2>2, <2>3 DEF Bucket
  <2> HIDE DEF c
  <2>. QED  BY <1>1, <2>4, <2>5 DEF Typed, StoreTyped
<1>6. Typed'
  <2>1. Below \in Seq(Call) /\ Top.failure \in BOOLEAN
    BY <1>0, Split DEF Typed, HeapTyped, Call
  <2>. QED  BY <1>1, <1>4, <1>5, <2>1 DEF Typed, StoreTyped, HeapTyped, EndTyped, heapVars, endVars
<1>7. \A x \in Id :
        /\ Count(stack, x)' = Count(stack, x) - (IF o = x THEN 1 ELSE 0)
        /\ \A w : Has(stack, x, w)' <=> Has(Below, x, w)
        /\ \A w : Has(stack, x, w) <=> Has(Below, x, w) \/ (o = x /\ Top.in = w)
  BY <1>0, <1>1, <1>4, Pop, CountBelow DEF Typed, HeapTyped
<1>8. \A x \in Id : References(x)' = References(x) - (IF o = x THEN 1 ELSE 0)
  <2> SUFFICES ASSUME NEW x \in Id PROVE References(x)' = References(x) - (IF o = x THEN 1 ELSE 0)
    OBVIOUS
  <2>1. \A k \in Handle : hold /\ k = cursor => bucket'[k].obj = bucket[k].obj
    BY <1>1, <1>3, <1>5 DEF Raised
  <2>2. hold => cursor \in Handle
    BY Finite DEF Phases, Typed, StoreTyped, EndTyped, Handle
  <2>3. Raised(x)' = Raised(x)
    BY <1>4, <2>1, <2>2 DEF Raised, endVars
  <2>4. Vars(x)' = Vars(x) /\ Props(x)' = Props(x) /\ leaks'[x] = leaks[x]
    BY <1>4, VarsSame, PropsSame DEF heapVars
  <2>. QED  BY <1>6, <1>7, <2>3, <2>4, Sum, SumNext DEF Typed
<1>9. \A x \in Id : x # o => (Owner(x)' <=> Owner(x)) /\ (Owner(x) => handle[x] \in Handle \ {h})
  BY <1>1, <1>4, <1>5, Finite DEF Owner, Typed, StoreTyped
<1>10. References(o)' = 0
  BY <1>3, <1>8
<1>11. Placed'
  BY <1>1, <1>4, <1>5 DEF Core, Placed, Typed, StoreTyped
<1>12. Listed'
  <2>1. h < top /\ h \notin Free /\ h # -1
    BY <1>1, Finite DEF Core, Placed, Free, Typed, StoreTyped
  <2>2. Free' = Free \cup {h}
    BY <1>1, <1>4, <1>5, <2>1 DEF Free
  <2>3. \A k \in Free : bucket'[k].next = bucket[k].next
    BY <1>5, <2>1 DEF Free
  <2>. QED  BY <1>4, <1>5, <2>1, <2>2, <2>3 DEF Core, Listed
<1>13. Owned'
  BY <1>8, <1>9, <1>10, Sum DEF Core, Owned, Typed
<1>14. Counted'
  <2> SUFFICES ASSUME NEW x \in Id, Owner(x)', bucket'[handle[x]].valid
               PROVE  bucket'[handle[x]].refcount = References(x)'
    BY <1>4 DEF Counted
  <2>1. x # o
    BY <1>1, <1>5
  <2>2. References(x)' = References(x)
    BY <1>8, <2>1, Sum DEF Typed
  <2>. QED  BY <1>5, <1>9, <2>1, <2>2 DEF Core, Counted
<1>15. Calls'
  <2> SUFFICES ASSUME NEW x \in Id, NEW w, Has(stack, x, w)', w = "dtor" \/ w = "free"
               PROVE  bucket'[handle[x]].valid /\ (w = "free" => References(x)' = 1 /\ freed[x] = 1)
    BY <1>4 DEF Calls
  <2>1. Count(stack, x)' >= 1
    <3>1. stack' \in Seq(Call) /\ Has(stack', x, w)
      BY <1>6 DEF Typed, HeapTyped, Has
    <3>2. Count(stack', x) >= 1
      BY <3>1, CountZero
    <3>. QED  BY <3>2 DEF Count
  <2>2. References(x)' > 0
    BY <1>6, <2>1, SumNext DEF Typed
  <2>3. x # o
    BY <1>10, <2>2
  <2>4. Owner(x) /\ References(x)' = References(x) /\ handle[x] \in Handle \ {h}
    BY <1>8, <1>9, <1>13, <2>2, <2>3, Sum DEF Owned, Typed
  <2>5. Has(stack, x, w)
    BY <1>7, <2>3
  <2>. QED  BY <1>5, <2>4, <2>5 DEF Core, Calls
<1>16. FreedOnce'
  <2> SUFFICES ASSUME NEW x \in Id
               PROVE  /\ freed[x] <= 1
                      /\ freed[x] = 1 => handle[x] # 0
                         /\ (Owner(x)' /\ bucket'[handle[x]].valid => Has(stack, x, "free")')
    BY <1>4 DEF FreedOnce
  <2>1. CASE x = o
    BY <1>5, <2>1 DEF Core, FreedOnce
  <2>2. CASE x # o
    BY <1>5, <1>7, <1>9, <2>2 DEF Core, FreedOnce
  <2>. QED  BY <2>1, <2>2
<1>17. DestructedOnce'
  <2> SUFFICES ASSUME NEW x \in Id
               PROVE  /\ destructed[x] <= 1
                      /\ destructed[x] = 1 => handle[x] # 0
                         /\ (Owner(x)' => bucket'[handle[x]].destructor_called)
    BY <1>4 DEF DestructedOnce
  <2>1. CASE x = o
    BY <1>1, <1>4, <1>5, <2>1, Finite DEF Core, DestructedOnce, Owner
  <2>2. CASE x # o
    BY <1>5, <1>9, <2>2 DEF Core, DestructedOnce
  <2>. QED  BY <2>1, <2>2
<1>. QED  BY <1>6, <1>11, <1>12, <1>13, <1>14, <1>15, <1>16, <1>17 DEF Core

\* The variable is gone and the release begins (unset, and each sweep at the end).
LEMMA ReleaseVarKeeps ==
  ASSUME Typed, Core, Phases, NEW v \in Var, var[v] # None,
         var' = [var EXCEPT ![v] = None], todo' \subseteq Var,
         stack' = Append(stack, Release(var[v])),
         UNCHANGED <<storeVars, prop, bailing, phase, cursor, hold, leaks, destructed, freed>>
  PROVE  Typed' /\ Core'
<1> DEFINE e == Release(var[v])
<1>1. PICK x \in Id : x = var[v]
  BY DEF Typed, HeapTyped
<1>2. e \in Call /\ e.id = x /\ e.in = "enter"
  BY <1>1, Calls3
<1>3. stack' = Append(stack, e) /\ HeapTyped
  BY DEF Typed
<1> HIDE DEF e
<1>4. \A o \in Id :
        /\ Count(stack, o)' = Count(stack, o) + (IF x = o THEN 1 ELSE 0)
        /\ Has(stack, o, "free")' <=> Has(stack, o, "free")
        /\ Has(stack, o, "dtor")' => Has(stack, o, "dtor")
        /\ stack' \in Seq(Call)
  BY <1>2, <1>3, Push
<1>5. Typed'
  <2>1. stack' \in Seq(Call)
    BY <1>1, <1>4
  <2>2. var' \in [Var -> Id \cup {None}]
    BY DEF Typed, HeapTyped
  <2>. QED  BY <2>1, <2>2 DEF Typed, StoreTyped, HeapTyped, EndTyped, storeVars
<1>6. \A o \in Id : References(o)' = References(o)
  <2> SUFFICES ASSUME NEW o \in Id PROVE References(o)' = References(o)
    OBVIOUS
  <2>1. Props(o)' = Props(o) /\ Raised(o)' = Raised(o) /\ leaks'[o] = leaks[o]
    BY PropsSame, RaisedSame DEF storeVars
  <2>2. Vars(o)' = Vars(o) - (IF x = o THEN 1 ELSE 0)
    <3>1. Vars(o)' = Vars(o) + (IF None = o THEN 1 ELSE 0) - (IF var[v] = o THEN 1 ELSE 0)
      BY VarsChange DEF Typed
    <3>2. None # o /\ Vars(o) \in Nat
      BY Finite, Sum DEF Typed
    <3>. QED  BY <1>1, <3>1, <3>2
  <2>3. Count(stack, o)' = Count(stack, o) + (IF x = o THEN 1 ELSE 0)
    BY <1>4
  <2>4. /\ Vars(o) \in Nat /\ Props(o) \in Nat /\ Count(stack, o) \in Nat /\ Raised(o) \in {0, 1}
        /\ leaks[o] \in Nat /\ 0 \in Int
    BY Sum DEF Typed
  <2>5. Vars(o)' + Props(o)' + Count(stack, o)' + Raised(o)' + leaks'[o] =
          Vars(o) + Props(o) + Count(stack, o) + Raised(o) + leaks[o] + 0
    BY <2>1, <2>2, <2>3, <2>4
  <2>6. References(o)' = References(o) + 0 /\ References(o) \in Nat
    BY <1>5, <2>4, <2>5, Delta
  <2>. QED  BY <2>6
<1>. QED  BY <1>4, <1>5, <1>6, SameCounts DEF storeVars

\* unset of a property.
LEMMA UnsetPropertyKeeps ==
  ASSUME Typed, Core, Phases, NEW p \in Id, UnsetProperty(p)
  PROVE  Typed' /\ Core'
<1> DEFINE e == Release(prop[p])
<1>1. PICK x \in Id : x = prop[p]
  BY DEF UnsetProperty, Typed, HeapTyped
<1>2. e \in Call /\ e.id = x /\ e.in = "enter"
  BY <1>1, Calls3
<1>3. stack' = Append(stack, e) /\ HeapTyped /\ prop' = [prop EXCEPT ![p] = None]
      /\ UNCHANGED <<storeVars, var, bailing, endVars, leaks, destructed, freed>>
  BY DEF Typed, UnsetProperty
<1> HIDE DEF e
<1>4. \A o \in Id :
        /\ Count(stack, o)' = Count(stack, o) + (IF x = o THEN 1 ELSE 0)
        /\ Has(stack, o, "free")' <=> Has(stack, o, "free")
        /\ Has(stack, o, "dtor")' => Has(stack, o, "dtor")
        /\ stack' \in Seq(Call)
  BY <1>2, <1>3, Push
<1>5. Typed'
  <2>1. stack' \in Seq(Call)
    BY <1>1, <1>4
  <2>2. prop' \in [Id -> Id \cup {None}]
    BY <1>3 DEF Typed, HeapTyped
  <2>. QED  BY <1>3, <2>1, <2>2 DEF Typed, StoreTyped, HeapTyped, EndTyped, storeVars, endVars
<1>6. \A o \in Id : References(o)' = References(o)
  <2> SUFFICES ASSUME NEW o \in Id PROVE References(o)' = References(o)
    OBVIOUS
  <2>1. Vars(o)' = Vars(o) /\ Raised(o)' = Raised(o) /\ leaks'[o] = leaks[o]
    BY <1>3, VarsSame, RaisedSame DEF storeVars, endVars
  <2>2. Props(o)' = Props(o) - (IF x = o THEN 1 ELSE 0)
    <3>1. Props(o)' = Props(o) + (IF None = o THEN 1 ELSE 0) - (IF prop[p] = o THEN 1 ELSE 0)
      BY <1>3, PropsChange
    <3>2. None # o /\ Props(o) \in Nat
      BY Finite, Sum DEF Typed
    <3>. QED  BY <1>1, <3>1, <3>2
  <2>3. Count(stack, o)' = Count(stack, o) + (IF x = o THEN 1 ELSE 0)
    BY <1>4
  <2>4. /\ Vars(o) \in Nat /\ Props(o) \in Nat /\ Count(stack, o) \in Nat /\ Raised(o) \in {0, 1}
        /\ leaks[o] \in Nat /\ 0 \in Int
    BY Sum DEF Typed
  <2>5. Vars(o)' + Props(o)' + Count(stack, o)' + Raised(o)' + leaks'[o] =
          Vars(o) + Props(o) + Count(stack, o) + Raised(o) + leaks[o] + 0
    BY <2>1, <2>2, <2>3, <2>4
  <2>6. References(o)' = References(o) + 0 /\ References(o) \in Nat
    BY <1>5, <2>4, <2>5, Delta
  <2>. QED  BY <2>6
<1>. QED  BY <1>3, <1>4, <1>5, <1>6, SameCounts DEF storeVars

\* A reference more, to what the code has in hand.
LEMMA AssignKeeps ==
  ASSUME Typed, Core, Phases, NEW v \in Var, NEW x \in Id, Assign(v, x)
  PROVE  Typed' /\ Core'
<1>1. /\ var[v] = None /\ var' = [var EXCEPT ![v] = x] /\ Add(x, 1) /\ HeapTyped
      /\ UNCHANGED <<top, size, free_list_head, moves, handle, destructor, prop, stack, bailing,
                     endVars, leaks, destructed, freed>>
  BY DEF Assign, Typed
<1>2. References(x) > 0 /\ ~ Has(stack, x, "free") /\ 1 \in Int
  BY InHand DEF Assign, Core
<1>3. handle[x] # 0
  BY <1>2 DEF Core, Owned, Owner
<1>4. bucket' \in [Handle -> Bucket] /\ \A h \in Handle : bucket'[h].obj = bucket[h].obj
  BY <1>1, <1>2, <1>3, AddTyped
<1>5. Typed'
  <2>1. var' \in [Var -> Id \cup {None}]
    BY <1>1 DEF HeapTyped
  <2>. QED  BY <1>1, <1>4, <2>1 DEF Typed, StoreTyped, HeapTyped, EndTyped, endVars
<1>6. \A o \in Id : References(o)' = References(o) + IF o = x THEN 1 ELSE 0
  <2> SUFFICES ASSUME NEW o \in Id PROVE References(o)' = References(o) + IF o = x THEN 1 ELSE 0
    OBVIOUS
  <2>1. Props(o)' = Props(o) /\ Raised(o)' = Raised(o) /\ leaks'[o] = leaks[o]
        /\ Count(stack, o)' = Count(stack, o)
    BY <1>1, <1>4, PropsSame, RaisedSame, StackSame DEF endVars
  <2>2. Vars(o)' = Vars(o) + (IF o = x THEN 1 ELSE 0)
    <3>1. Vars(o)' = Vars(o) + (IF x = o THEN 1 ELSE 0) - (IF var[v] = o THEN 1 ELSE 0)
      BY <1>1, VarsChange
    <3>2. var[v] # o /\ Vars(o) \in Nat
      BY <1>1, Finite, Sum DEF Typed
    <3>. QED  BY <3>1, <3>2
  <2>. QED  BY <1>5, <2>1, <2>2, Sum, SumNext DEF Typed
<1>7. \A o \in Id : \A w : Has(stack, o, w)' <=> Has(stack, o, w)
  BY <1>1, StackSame
<1>. QED  BY <1>1, <1>2, <1>5, <1>6, <1>7, AddKeeps

LEMMA SetPropertyKeeps ==
  ASSUME Typed, Core, Phases, NEW p \in Id, NEW x \in Id, SetProperty(p, x)
  PROVE  Typed' /\ Core'
<1>1. /\ prop[p] = None /\ prop' = [prop EXCEPT ![p] = x] /\ Add(x, 1) /\ HeapTyped
      /\ UNCHANGED <<top, size, free_list_head, moves, handle, destructor, var, stack, bailing,
                     endVars, leaks, destructed, freed>>
  BY DEF SetProperty, Typed
<1>2. References(x) > 0 /\ ~ Has(stack, x, "free") /\ 1 \in Int
  BY InHand DEF SetProperty, Core, Reach
<1>3. handle[x] # 0
  BY <1>2 DEF Core, Owned, Owner
<1>4. bucket' \in [Handle -> Bucket] /\ \A h \in Handle : bucket'[h].obj = bucket[h].obj
  BY <1>1, <1>2, <1>3, AddTyped
<1>5. Typed'
  <2>1. prop' \in [Id -> Id \cup {None}]
    BY <1>1 DEF HeapTyped
  <2>. QED  BY <1>1, <1>4, <2>1 DEF Typed, StoreTyped, HeapTyped, EndTyped, endVars
<1>6. \A o \in Id : References(o)' = References(o) + IF o = x THEN 1 ELSE 0
  <2> SUFFICES ASSUME NEW o \in Id PROVE References(o)' = References(o) + IF o = x THEN 1 ELSE 0
    OBVIOUS
  <2>1. Vars(o)' = Vars(o) /\ Raised(o)' = Raised(o) /\ leaks'[o] = leaks[o]
        /\ Count(stack, o)' = Count(stack, o)
    BY <1>1, <1>4, VarsSame, RaisedSame, StackSame DEF endVars
  <2>2. Props(o)' = Props(o) + (IF o = x THEN 1 ELSE 0)
    <3>1. Props(o)' = Props(o) + (IF x = o THEN 1 ELSE 0) - (IF prop[p] = o THEN 1 ELSE 0)
      BY <1>1, PropsChange
    <3>2. prop[p] # o /\ Props(o) \in Nat
      BY <1>1, Finite, Sum DEF Typed
    <3>. QED  BY <3>1, <3>2
  <2>. QED  BY <1>5, <2>1, <2>2, Sum, SumNext DEF Typed
<1>7. \A o \in Id : \A w : Has(stack, o, w)' <=> Has(stack, o, w)
  BY <1>1, StackSame
<1>. QED  BY <1>1, <1>2, <1>5, <1>6, <1>7, AddKeeps

\* zend_objects_store_mark_destructed, and what goes with it leaves the references.
LEMMA MarkKeeps ==
  ASSUME Typed, Core, MarkDestructed, HeapTyped', EndTyped',
         UNCHANGED <<top, size, free_list_head, moves, handle, destructor, heapVars, stack,
                     destructed, freed>>,
         \A o \in Id : Raised(o)' + leaks'[o] = Raised(o) + leaks[o]
  PROVE  Typed' /\ Core'
<1>1. /\ bucket' \in [Handle -> Bucket]
      /\ \A h \in Handle : /\ bucket'[h].obj = bucket[h].obj /\ bucket'[h].valid = bucket[h].valid
                           /\ bucket'[h].next = bucket[h].next
                           /\ bucket[h].destructor_called => bucket'[h].destructor_called
                           /\ bucket'[h].refcount = bucket[h].refcount
  <2>1. \A h \in Handle : bucket'[h] = bucket[h]
                          \/ bucket'[h] = [bucket[h] EXCEPT !.destructor_called = TRUE]
    BY DEF MarkDestructed
  <2>2. \A b \in Bucket : LET c == [b EXCEPT !.destructor_called = TRUE]
                          IN  /\ c \in Bucket /\ c.obj = b.obj /\ c.valid = b.valid /\ c.next = b.next
                              /\ c.destructor_called /\ c.refcount = b.refcount
    BY DEF Bucket
  <2>3. \A h \in Handle : bucket[h] \in Bucket
    BY DEF Typed, StoreTyped
  <2>4. \A h \in Handle : bucket'[h] \in Bucket
    BY <2>1, <2>2, <2>3
  <2>5. bucket' \in [Handle -> Bucket]
    BY <2>4 DEF MarkDestructed
  <2> HIDE DEF MarkDestructed
  <2>. QED  BY <2>1, <2>2, <2>3, <2>5
<1>2. Typed'
  BY <1>1 DEF Typed, StoreTyped
<1>3. \A o \in Id : References(o)' = References(o)
  <2> SUFFICES ASSUME NEW o \in Id PROVE References(o)' = References(o)
    OBVIOUS
  <2>1. Vars(o)' = Vars(o) /\ Props(o)' = Props(o) /\ Count(stack, o)' = Count(stack, o)
    BY VarsSame, PropsSame, StackSame DEF heapVars
  <2>. QED  BY <1>2, <2>1, Sum, SumNext DEF Typed
<1>4. \A o \in Id : bucket[handle[o]].valid /\ Owner(o) => bucket'[handle[o]].refcount = References(o)'
  <2>1. \A o \in Id : Owner(o) => handle[o] \in Handle
    BY DEF Owner, Typed, StoreTyped
  <2>. QED  BY <1>1, <1>3, <2>1 DEF Core, Counted
<1>5. \A o \in Id : Has(stack, o, "free") => References(o)' = 1
  BY <1>3, FreeIsAlone DEF Core
<1>6. \A o \in Id : \A w : Has(stack, o, w)' <=> Has(stack, o, w)
  BY StackSame
<1>. QED  BY <1>1, <1>2, <1>3, <1>4, <1>5, <1>6, Kept

LEMMA UnsetKeeps ==
  ASSUME Typed, Core, Phases, NEW v \in Var, Unset(v)
  PROVE  Typed' /\ Core'
<1>1. /\ var[v] # None /\ var' = [var EXCEPT ![v] = None] /\ todo' \subseteq Var
      /\ stack' = Append(stack, Release(var[v]))
      /\ UNCHANGED <<storeVars, prop, bailing, phase, cursor, hold, leaks, destructed, freed>>
  BY DEF Unset, Typed, EndTyped
<1>. QED  BY <1>1, ReleaseVarKeeps

LEMMA SweepKeeps ==
  ASSUME Typed, Core, Phases, NEW v \in Var, var[v] # None, stack = <<>>, Sweep(v)
  PROVE  Typed' /\ Core'
<1>1. /\ var' = [var EXCEPT ![v] = None] /\ todo' \subseteq Var
      /\ stack' = Append(stack, Release(var[v]))
      /\ UNCHANGED <<storeVars, prop, bailing, phase, cursor, hold, leaks, destructed, freed>>
  BY DEF Sweep, Typed, EndTyped
<1>. QED  BY <1>1, ReleaseVarKeeps

\* Where the request is does not matter to the store.
LEMMA StillKeeps ==
  ASSUME Typed, Core, UNCHANGED <<storeVars, heapVars, stack, leaks, destructed, freed>>,
         bailing' \in BOOLEAN, phase' \in Phase, todo' \subseteq Var, cursor' \in Nat, hold' \in BOOLEAN,
         \A o \in Id : Raised(o)' = Raised(o)
  PROVE  Typed' /\ Core'
<1>1. Typed'
  BY DEF Typed, StoreTyped, HeapTyped, EndTyped, storeVars, heapVars
<1>2. \A o \in Id : /\ Count(stack, o)' = Count(stack, o)
                    /\ \A w : Has(stack, o, w)' <=> Has(stack, o, w)
  BY StackSame
<1>3. \A o \in Id : References(o)' = References(o)
  <2> SUFFICES ASSUME NEW o \in Id PROVE References(o)' = References(o)
    OBVIOUS
  <2>1. Vars(o)' = Vars(o) /\ Props(o)' = Props(o) /\ leaks'[o] = leaks[o]
    BY VarsSame, PropsSame DEF heapVars
  <2>. QED  BY <1>1, <1>2, <2>1, Sum, SumNext DEF Typed
<1>. QED  BY <1>1, <1>2, <1>3, SameCounts DEF storeVars

LEMMA ExitKeeps ==
  ASSUME Typed, Core, Exit
  PROVE  Typed' /\ Core'
<1>1. \A o \in Id : Raised(o)' = Raised(o)
  BY DEF Exit, Raised, storeVars, endVars
<1>2. /\ bailing' \in BOOLEAN /\ phase' \in Phase /\ todo' \subseteq Var /\ cursor' \in Nat
      /\ hold' \in BOOLEAN
  BY DEF Exit, Typed, EndTyped, endVars
<1>. QED  BY <1>1, <1>2, StillKeeps DEF Exit

LEMMA KeepSymbolKeeps ==
  ASSUME Typed, Core, NEW v \in Var, KeepSymbol(v)
  PROVE  Typed' /\ Core'
<1>1. \A o \in Id : Raised(o)' = Raised(o)
  BY DEF KeepSymbol, Raised, storeVars
<1>2. /\ bailing' \in BOOLEAN /\ phase' \in Phase /\ todo' \subseteq Var /\ cursor' \in Nat
      /\ hold' \in BOOLEAN
  BY DEF KeepSymbol, Typed, HeapTyped, EndTyped
<1>. QED  BY <1>1, <1>2, StillKeeps DEF KeepSymbol

\* The next part of the end of the request, with no count raised.
LEMMA GotoKeeps ==
  ASSUME Typed, Core, ~ hold, NEW p \in Phase, NEW W \in SUBSET Var, NEW i \in Nat, Goto(p, W, i),
         UNCHANGED <<storeVars, leaks, destructed>>, bailing' \in BOOLEAN
  PROVE  Typed' /\ Core'
<1>1. \A o \in Id : Raised(o)' = Raised(o)
  BY DEF Goto, Raised
<1>2. phase' \in Phase /\ todo' \subseteq Var /\ cursor' \in Nat /\ hold' \in BOOLEAN
  BY DEF Goto
<1>. QED  BY <1>1, <1>2, StillKeeps DEF Goto

LEMMA Sets ==
  /\ Set(Global) \in SUBSET Var /\ Set(Static) \in SUBSET Var /\ {} \in SUBSET Var
  /\ Cardinality(Set(Global)) \in Nat /\ 0 \in Nat /\ 1 \in Nat
  /\ {"run", "symbols", "destruct", "globals", "statics", "free", "done"} = Phase
<1>1. Set(Global) \in SUBSET Var /\ Set(Static) \in SUBSET Var
  BY DEF Set, Var
<1>2. IsFiniteSet(Set(Global))
  BY <1>1, Finite, FS_Subset
<1>. QED  BY <1>1, <1>2, FS_CardinalityType DEF Phase

LEMMA PhaseStepsKeep ==
  ASSUME Typed, Core, Phases,
         EndScript \/ EndSweep \/ EndDestruct \/ EndGlobals \/ EndStatics \/ EndFree
  PROVE  Typed' /\ Core'
<1>1. ~ hold /\ UNCHANGED <<storeVars, leaks, destructed>> /\ bailing' \in BOOLEAN
  BY DEF EndScript, EndSweep, EndDestruct, EndGlobals, EndStatics, EndFree, InPhase, Phases, Typed,
         HeapTyped
<1>2. \E p \in Phase, W \in SUBSET Var, i \in Nat : Goto(p, W, i)
  <2> DEFINE Step == \E p \in Phase, W \in SUBSET Var, i \in Nat : Goto(p, W, i)
  <2>1. ASSUME EndScript \/ EndSweep PROVE Step
    BY <2>1, Sets DEF EndScript, EndSweep
  <2>2. ASSUME EndDestruct \/ EndGlobals PROVE Step
    BY <2>2, Sets DEF EndDestruct, EndGlobals
  <2>3. ASSUME EndStatics \/ EndFree PROVE Step
    BY <2>3, Sets DEF EndStatics, EndFree
  <2>. QED  BY <2>1, <2>2, <2>3
<1>. QED  BY <1>1, <1>2, GotoKeeps

LEMMA FatalErrorKeeps ==
  ASSUME Typed, Core, Phases, FatalError
  PROVE  Typed' /\ Core'
<1>1. /\ MarkDestructed /\ bailing' = TRUE
      /\ UNCHANGED <<top, size, free_list_head, moves, handle, destructor, heapVars, stack, endVars,
                     leaks, destructed, freed>>
  BY DEF FatalError
<1>2. HeapTyped' /\ EndTyped'
  BY <1>1 DEF Typed, HeapTyped, EndTyped, heapVars, endVars
<1>3. \A h \in Handle : bucket'[h].obj = bucket[h].obj
  <2>1. \A b \in Bucket : [b EXCEPT !.destructor_called = TRUE].obj = b.obj
    BY DEF Bucket
  <2>. QED  BY <1>1, <2>1 DEF MarkDestructed, Typed, StoreTyped
<1>4. \A o \in Id : Raised(o)' + leaks'[o] = Raised(o) + leaks[o]
  BY <1>1, <1>3, RaisedSame DEF endVars
<1>. QED  BY <1>1, <1>2, <1>4, MarkKeeps

\* The bucket of the loop over the destructors, while its count is raised.
LEMMA RaisedThere ==
  ASSUME Typed, Core, Phases, hold
  PROVE  /\ cursor \in Handle /\ bucket[cursor] \in Bucket /\ bucket[cursor].valid
         /\ bucket[cursor].obj \in Id /\ handle[bucket[cursor].obj] = cursor
<1>1. cursor \in Handle /\ bucket[cursor].valid
  BY Finite DEF Phases, Typed, StoreTyped, EndTyped, Handle
<1>2. bucket[cursor] \in Bucket /\ bucket[cursor].obj # None /\ handle[bucket[cursor].obj] = cursor
  BY <1>1 DEF Core, Placed, Typed, StoreTyped
<1>. QED  BY <1>1, <1>2 DEF Bucket

\* A bailout at the end of the request: a count that was raised stays so.
LEMMA CatchBailoutKeeps ==
  ASSUME Typed, Core, Phases, CatchBailout
  PROVE  Typed' /\ Core'
<1>1. /\ bailing' = FALSE
      /\ UNCHANGED <<top, size, free_list_head, moves, handle, destructor, destructed>>
  BY DEF CatchBailout
<1>2. CASE phase \in {"symbols", "destruct"}
  <2>1. /\ phase' = "globals" /\ todo' = {} /\ cursor' = 0 /\ hold' = FALSE
        /\ UNCHANGED <<heapVars, stack, freed>> /\ MarkDestructed
        /\ leaks' = IF hold THEN [leaks EXCEPT ![bucket[cursor].obj] = @ + 1] ELSE leaks
    BY <1>2 DEF CatchBailout, Goto
  <2>2. leaks' \in [Id -> Nat]
          /\ \A o \in Id : leaks'[o] = leaks[o] + (IF hold /\ bucket[cursor].obj = o THEN 1 ELSE 0)
    BY <2>1, RaisedThere DEF Typed, EndTyped
  <2>3. HeapTyped' /\ EndTyped'
    BY <1>1, <2>1, <2>2, Sets DEF Typed, HeapTyped, EndTyped, heapVars, Phase
  <2>4. \A o \in Id : Raised(o)' + leaks'[o] = Raised(o) + leaks[o]
    <3>1. \A o \in Id : Raised(o)' = 0 /\ Raised(o) = (IF hold /\ bucket[cursor].obj = o THEN 1 ELSE 0)
      BY <2>1 DEF Raised
    <3>2. \A o \in Id : leaks[o] \in Nat
      BY DEF Typed, EndTyped
    <3>. QED  BY <2>2, <3>1, <3>2
  <2>. QED  BY <1>1, <2>1, <2>3, <2>4, MarkKeeps
<1>3. CASE phase \notin {"symbols", "destruct"}
  <2>1. ~ hold /\ UNCHANGED <<storeVars, leaks, destructed>>
        /\ \/ Goto("symbols", Set(Global), Cardinality(Set(Global)))
           \/ Goto("statics", Set(Static), 0)
           \/ Goto("done", {}, 0)
    BY <1>1, <1>3 DEF CatchBailout, Phases, storeVars
  <2>2. \E p \in Phase, W \in SUBSET Var, i \in Nat : Goto(p, W, i)
    BY <2>1, Sets
  <2>. QED  BY <1>1, <2>1, <2>2, GotoKeeps
<1>. QED  BY <1>2, <1>3

\* After the destructor the loop takes its count down.
LEMMA DestructDoneKeeps ==
  ASSUME Typed, Core, Phases, DestructDone
  PROVE  Typed' /\ Core'
<1>0. /\ hold /\ stack = <<>> /\ bucket' = [bucket EXCEPT ![cursor].refcount = @ - 1]
      /\ hold' = FALSE /\ cursor' = cursor + 1
      /\ UNCHANGED <<top, size, free_list_head, moves, handle, destructor, heapVars, stack, bailing, phase,
                     todo, leaks, destructed, freed>>
  BY DEF DestructDone, InPhase
<1>1. PICK x \in Id : x = bucket[cursor].obj /\ handle[x] = cursor /\ cursor \in Handle
  BY <1>0, RaisedThere
<1>2. Add(x, -1) /\ -1 \in Int /\ handle[x] # 0
  <2>1. bucket' = [bucket EXCEPT ![handle[x]].refcount = @ - 1]
    BY <1>0, <1>1
  <2>2. bucket[handle[x]].refcount - 1 = bucket[handle[x]].refcount + (-1)
    BY <1>1 DEF Typed, StoreTyped, Bucket
  <2>3. bucket' = [bucket EXCEPT ![handle[x]].refcount = @ + (-1)]
    BY <2>1, <2>2
  <2>. QED  BY <1>1, <2>3, Finite DEF Add
<1>3. bucket' \in [Handle -> Bucket] /\ \A h \in Handle : bucket'[h].obj = bucket[h].obj
  BY <1>2, AddTyped
<1>4. Typed'
  <2>1. StoreTyped'
    BY <1>0, <1>3 DEF Typed, StoreTyped
  <2>2. HeapTyped'
    BY <1>0 DEF Typed, HeapTyped, heapVars
  <2>3. hold' = FALSE /\ cursor' = cursor + 1
        /\ UNCHANGED <<phase, todo, leaks, destructed, freed>>
    BY <1>0
  <2>4. EndTyped'
    <3>1. cursor \in Nat /\ cursor' = cursor + 1
      BY <2>3 DEF Typed, EndTyped
    <3>2. cursor' \in Nat
      BY <3>1
    <3>3. hold' \in BOOLEAN
      BY <2>3
    <3>. QED  BY <2>3, <3>2, <3>3 DEF Typed, EndTyped
  <2>. QED  BY <2>1, <2>2, <2>4 DEF Typed
<1>5. \A o \in Id : \A w : ~ Has(stack, o, w) /\ (Has(stack, o, w)' <=> Has(stack, o, w))
  BY <1>0, CountNone, StackSame
<1>6. \A o \in Id : References(o)' = References(o) + (IF o = x THEN -1 ELSE 0)
  <2> SUFFICES ASSUME NEW o \in Id PROVE References(o)' = References(o) + (IF o = x THEN -1 ELSE 0)
    OBVIOUS
  <2>1. Vars(o)' = Vars(o) /\ Props(o)' = Props(o) /\ leaks'[o] = leaks[o]
        /\ Count(stack, o)' = Count(stack, o)
    BY <1>0, VarsSame, PropsSame, StackSame DEF heapVars
  <2>2. Raised(o)' = 0 /\ Raised(o) = IF o = x THEN 1 ELSE 0
    BY <1>0, <1>1 DEF Raised
  <2>. QED  BY <1>4, <2>1, <2>2, Sum, SumNext DEF Typed
<1>7. References(x) > 0
  <2>1. Raised(x) = 1
    BY <1>0, <1>1 DEF Raised
  <2>. QED  BY <2>1, Sum DEF Typed
<1>. QED  BY <1>0, <1>2, <1>4, <1>5, <1>6, <1>7, AddKeeps

\* One step of the loop over the destructors.
LEMMA DestructNextKeeps ==
  ASSUME Typed, Core, Phases, DestructNext
  PROVE  Typed' /\ Core'
<1> DEFINE b == bucket[cursor]
<1>0. /\ phase = "destruct" /\ stack = <<>> /\ ~ hold /\ cursor < top /\ cursor \in Handle
      /\ UNCHANGED <<top, size, free_list_head, moves, handle, destructor, heapVars, bailing, phase, todo,
                     leaks, freed>>
  <2>1. phase = "destruct" /\ stack = <<>> /\ ~ hold /\ cursor < top
    BY DEF DestructNext, InPhase
  <2>2. cursor \in Handle
    BY <2>1, Finite DEF Phases, Typed, StoreTyped, EndTyped, Handle
  <2>. QED  BY <2>1, <2>2 DEF DestructNext
<1>1. \A o \in Id : Raised(o) = 0 /\ \A w : ~ Has(stack, o, w)
  BY <1>0, CountNone DEF Raised
<1>2. CASE b.valid /\ ~ b.destructor_called /\ destructor[b.obj]
  <2>1. PICK x \in Id : x = b.obj /\ handle[x] = cursor
    BY <1>0, <1>2 DEF Core, Placed, Typed, StoreTyped, Bucket
  <2> DEFINE f == User(x)
  <2>2. /\ bucket' = [bucket EXCEPT ![cursor].destructor_called = TRUE, ![cursor].refcount = @ + 2]
        /\ destructed' = [destructed EXCEPT ![x] = @ + 1]
        /\ stack' = <<f>> /\ hold' = TRUE /\ cursor' = cursor
    BY <1>2, <2>1 DEF DestructNext
  <2>3. f \in Call /\ f.id = x /\ f.in = "user"
    BY Calls3
  <2>4. stack' = Append(stack, f)
    BY <1>0, <2>2
  <2> HIDE DEF f
  <2>5. /\ bucket' \in [Handle -> Bucket]
        /\ \A h \in Handle : /\ bucket'[h].obj = bucket[h].obj /\ bucket'[h].valid = bucket[h].valid
                             /\ bucket'[h].next = bucket[h].next
                             /\ bucket[h].destructor_called => bucket'[h].destructor_called
                             /\ bucket'[h].refcount = bucket[h].refcount + IF h = cursor THEN 2 ELSE 0
        /\ bucket'[cursor].destructor_called
    <3> DEFINE c == [b EXCEPT !.destructor_called = TRUE, !.refcount = @ + 2]
    <3>1. bucket' = [bucket EXCEPT ![cursor] = c]
      BY <1>0, <2>2 DEF Typed, StoreTyped
    <3>2. b \in Bucket /\ 2 \in Int
      BY <1>0 DEF Typed, StoreTyped
    <3>3. /\ c \in Bucket /\ c.obj = b.obj /\ c.valid = b.valid /\ c.next = b.next
          /\ c.destructor_called /\ c.refcount = b.refcount + 2
      BY <3>2, Marked
    <3> HIDE DEF c
    <3>4. bucket'[cursor] = c /\ \A h \in Handle : h # cursor => bucket'[h] = bucket[h]
      BY <1>0, <3>1 DEF Typed, StoreTyped
    <3>5. bucket' \in [Handle -> Bucket]
      BY <1>0, <3>1, <3>3 DEF Typed, StoreTyped
    <3>6. \A h \in Handle : bucket[h].refcount \in Int
      BY DEF Typed, StoreTyped, Bucket
    <3>. QED  BY <1>0, <3>3, <3>4, <3>5, <3>6
  <2>6. Typed'
    <3>1. stack' \in Seq(Call)
      BY <2>3, <2>4, Push DEF Typed
    <3>2. destructed' \in [Id -> Nat]
      BY <2>2 DEF Typed, EndTyped
    <3>. QED  BY <1>0, <2>2, <2>5, <3>1, <3>2 DEF Typed, StoreTyped, HeapTyped, EndTyped, heapVars
  <2>7. \A o \in Id : /\ Count(stack, o)' = Count(stack, o) + (IF x = o THEN 1 ELSE 0)
                      /\ ~ Has(stack, o, "free")' /\ ~ Has(stack, o, "dtor")'
    <3>1. HeapTyped
      BY DEF Typed
    <3>. QED  BY <1>1, <2>3, <2>4, <3>1, Push
  <2>8. \A o \in Id : References(o)' = References(o) + (IF x = o THEN 2 ELSE 0)
    <3> SUFFICES ASSUME NEW o \in Id PROVE References(o)' = References(o) + (IF x = o THEN 2 ELSE 0)
      OBVIOUS
    <3>1. Vars(o)' = Vars(o) /\ Props(o)' = Props(o) /\ leaks'[o] = leaks[o]
      BY <1>0, VarsSame, PropsSame DEF heapVars
    <3>2. Raised(o)' = (IF x = o THEN 1 ELSE 0) /\ Raised(o) = 0
      BY <1>0, <1>1, <2>1, <2>2, <2>5 DEF Raised
    <3>3. Count(stack, o)' = Count(stack, o) + (IF x = o THEN 1 ELSE 0)
      BY <2>7
    <3>. QED  BY <2>6, <3>1, <3>2, <3>3, Sum, SumNext DEF Typed
  <2>9. Owner(x) /\ bucket[handle[x]].obj = x
    BY <1>0, <2>1, Finite DEF Owner, Handle
  <2>10. \A o \in Id : bucket[handle[o]].valid /\ Owner(o) => bucket'[handle[o]].refcount = References(o)'
    <3> SUFFICES ASSUME NEW o \in Id, bucket[handle[o]].valid, Owner(o)
                 PROVE  bucket'[handle[o]].refcount = References(o)'
      OBVIOUS
    <3>1. handle[o] \in Handle /\ (handle[o] = cursor <=> o = x)
      BY <2>1, <2>9 DEF Owner, Typed, StoreTyped
    <3>2. bucket[handle[o]].refcount = References(o)
      BY DEF Core, Counted
    <3>. QED  BY <2>5, <2>8, <3>1, <3>2
  <2>11. \A o \in Id : destructed'[o] = destructed[o]
                       \/ /\ Owner(o) /\ ~ bucket[handle[o]].destructor_called
                          /\ bucket'[handle[o]].destructor_called
                          /\ destructed'[o] = destructed[o] + 1
    BY <1>2, <2>1, <2>2, <2>5, <2>9 DEF Typed, EndTyped
  <2>12. \A o \in Id : References(o)' > 0 => References(o) > 0 \/ Owner(o)
    BY <2>8, <2>9, Sum DEF Typed
  <2>. QED  BY <1>0, <1>1, <2>5, <2>6, <2>7, <2>10, <2>11, <2>12, Kept
<1>3. CASE ~ (b.valid /\ ~ b.destructor_called /\ destructor[b.obj])
  <2>1. /\ bucket' = [bucket EXCEPT ![cursor].destructor_called = @ \/ b.valid]
        /\ cursor' = cursor + 1 /\ UNCHANGED <<destructed, stack, hold>>
    BY <1>3 DEF DestructNext
  <2>2. /\ bucket' \in [Handle -> Bucket]
        /\ \A h \in Handle : /\ bucket'[h].obj = bucket[h].obj /\ bucket'[h].valid = bucket[h].valid
                             /\ bucket'[h].next = bucket[h].next
                             /\ bucket[h].destructor_called => bucket'[h].destructor_called
                             /\ bucket'[h].refcount = bucket[h].refcount
    <3> DEFINE t == b.destructor_called \/ b.valid
               c == [b EXCEPT !.destructor_called = t]
    <3>1. b \in Bucket /\ bucket' = [bucket EXCEPT ![cursor] = c]
      BY <1>0, <2>1 DEF Typed, StoreTyped
    <3>2. t \in BOOLEAN /\ (b.destructor_called => t)
      OBVIOUS
    <3> HIDE DEF t
    <3>3. /\ c \in Bucket /\ c.obj = b.obj /\ c.valid = b.valid /\ c.next = b.next
          /\ c.destructor_called = t /\ c.refcount = b.refcount
      BY <3>1, <3>2 DEF Bucket
    <3> HIDE DEF c
    <3>. QED  BY <1>0, <3>1, <3>2, <3>3 DEF Typed, StoreTyped
  <2>3. Typed'
    BY <1>0, <2>1, <2>2 DEF Typed, StoreTyped, HeapTyped, EndTyped, heapVars
  <2>4. \A o \in Id : References(o)' = References(o)
    <3> SUFFICES ASSUME NEW o \in Id PROVE References(o)' = References(o)
      OBVIOUS
    <3>1. Vars(o)' = Vars(o) /\ Props(o)' = Props(o) /\ leaks'[o] = leaks[o]
          /\ Count(stack, o)' = Count(stack, o)
      BY <1>0, <2>1, VarsSame, PropsSame, StackSame DEF heapVars
    <3>2. Raised(o)' = 0 /\ Raised(o) = 0
      BY <1>0, <2>1 DEF Raised
    <3>. QED  BY <2>3, <3>1, <3>2, Sum, SumNext DEF Typed
  <2>5. \A o \in Id : bucket[handle[o]].valid /\ Owner(o) => bucket'[handle[o]].refcount = References(o)'
    <3>1. \A o \in Id : Owner(o) => handle[o] \in Handle
      BY DEF Owner, Typed, StoreTyped
    <3>. QED  BY <2>2, <2>4, <3>1 DEF Core, Counted
  <2>6. \A o \in Id : \A w : Has(stack, o, w)' <=> Has(stack, o, w)
    BY <2>1, StackSame
  <2>. QED  BY <1>0, <1>1, <2>1, <2>2, <2>3, <2>4, <2>5, <2>6, Kept
<1>. QED  BY <1>2, <1>3

\* zend_objects_store_free_object_storage frees an object whoever refers to it.
LEMMA FreeNextKeeps ==
  ASSUME Typed, Core, Phases, FreeNext
  PROVE  Typed' /\ Core'
<1>0. /\ phase = "free" /\ stack = <<>> /\ ~ hold /\ cursor < top /\ cursor \in Handle
      /\ cursor' = cursor + 1
      /\ UNCHANGED <<top, size, free_list_head, moves, handle, destructor, var, bailing, phase, todo, hold,
                     leaks, destructed>>
  <2>1. phase = "free" /\ stack = <<>> /\ ~ hold /\ cursor < top
    BY DEF FreeNext, InPhase, Phases
  <2>2. cursor \in Handle
    BY <2>1, Finite DEF Phases, Typed, StoreTyped, EndTyped, Handle
  <2>. QED  BY <2>1, <2>2 DEF FreeNext
<1>1. \A o \in Id : Raised(o) = 0 /\ Raised(o)' = 0 /\ \A w : ~ Has(stack, o, w)
  BY <1>0, CountNone DEF Raised
<1>2. CASE ~ bucket[cursor].valid
  <2>1. UNCHANGED <<bucket, freed, prop, stack>>
    BY <1>2 DEF FreeNext
  <2>. QED  BY <1>0, <1>1, <2>1, StillKeeps DEF Typed, HeapTyped, EndTyped, storeVars, heapVars
<1>3. CASE bucket[cursor].valid
  <2>1. PICK x \in Id : x = bucket[cursor].obj /\ handle[x] = cursor
    BY <1>0, <1>3 DEF Core, Placed, Typed, StoreTyped, Bucket
  <2>2. /\ bucket' = [bucket EXCEPT ![cursor].valid = FALSE]
        /\ freed' = [freed EXCEPT ![x] = @ + 1]
        /\ prop' = [prop EXCEPT ![x] = None]
        /\ stack' = IF prop[x] = None THEN <<>> ELSE <<Release(prop[x])>>
    BY <1>3, <2>1 DEF FreeNext
  <2>3. /\ bucket' \in [Handle -> Bucket]
        /\ \A h \in Handle : /\ bucket'[h].obj = bucket[h].obj /\ bucket'[h].next = bucket[h].next
                             /\ bucket'[h].destructor_called = bucket[h].destructor_called
                             /\ bucket'[h].refcount = bucket[h].refcount
                             /\ bucket'[h].valid <=> bucket[h].valid /\ h # cursor
    <3> DEFINE c == [bucket[cursor] EXCEPT !.valid = FALSE]
    <3>1. bucket[cursor] \in Bucket /\ bucket' = [bucket EXCEPT ![cursor] = c]
      BY <1>0, <2>2 DEF Typed, StoreTyped
    <3>2. /\ c \in Bucket /\ c.obj = bucket[cursor].obj /\ ~ c.valid /\ c.next = bucket[cursor].next
          /\ c.destructor_called = bucket[cursor].destructor_called /\ c.refcount = bucket[cursor].refcount
      BY <3>1 DEF Bucket
    <3> HIDE DEF c
    <3>3. bucket'[cursor] = c /\ \A h \in Handle : h # cursor => bucket'[h] = bucket[h]
      BY <1>0, <3>1 DEF Typed, StoreTyped
    <3>4. bucket' \in [Handle -> Bucket]
      BY <1>0, <3>1, <3>2 DEF Typed, StoreTyped
    <3>. QED  BY <1>0, <3>2, <3>3, <3>4
  <2>4. Owner(x) /\ handle[x] \in Handle /\ freed[x] = 0
    <3>1. Owner(x) /\ handle[x] \in Handle
      BY <1>0, <2>1, Finite DEF Owner, Handle
    <3>. QED  BY <1>1, <1>3, <2>1, <3>1 DEF Core, FreedOnce, Typed, EndTyped
  <2>5. /\ stack' \in Seq(Call)
        /\ \A o \in Id : /\ Count(stack, o)' = Count(stack, o) + (IF prop[x] = o THEN 1 ELSE 0)
                         /\ ~ Has(stack, o, "free")' /\ ~ Has(stack, o, "dtor")'
    <3>1. CASE prop[x] = None
      <4>1. stack' = stack /\ \A o \in Id : prop[x] # o /\ Count(stack, o) \in Nat
        BY <1>0, <2>2, <3>1, Finite, CountType DEF Typed, HeapTyped
      <4>. QED  BY <1>1, <4>1, StackSame DEF Typed, HeapTyped
    <3>2. CASE prop[x] # None
      <4> DEFINE f == Release(prop[x])
      <4>1. prop[x] \in Id
        BY <3>2 DEF Typed, HeapTyped
      <4>2. f \in Call /\ f.id = prop[x] /\ f.in = "enter"
        BY <4>1, Calls3
      <4>3. stack' = Append(stack, f) /\ HeapTyped
        BY <1>0, <2>2, <3>2 DEF Typed
      <4> HIDE DEF f
      <4>4. \A o \in Id :
              /\ Count(stack, o)' = Count(stack, o) + (IF f.id = o THEN 1 ELSE 0)
              /\ \A w : Has(stack, o, w)' <=> Has(stack, o, w) \/ (f.id = o /\ f.in = w)
              /\ stack' \in Seq(Call)
        BY <4>2, <4>3, Push
      <4>. QED  BY <1>1, <2>1, <4>2, <4>4
    <3>. QED  BY <3>1, <3>2
  <2>6. Typed'
    <3>1. StoreTyped'
      BY <1>0, <2>3 DEF Typed, StoreTyped
    <3>2. prop' \in [Id -> Id \cup {None}]
      BY <2>2 DEF Typed, HeapTyped
    <3>3. HeapTyped'
      BY <1>0, <2>5, <3>2 DEF Typed, HeapTyped
    <3>4. EndTyped'
      BY <1>0, <2>2 DEF Typed, EndTyped
    <3>. QED  BY <3>1, <3>3, <3>4 DEF Typed
  <2>7. \A o \in Id : References(o)' = References(o)
    <3> SUFFICES ASSUME NEW o \in Id PROVE References(o)' = References(o)
      OBVIOUS
    <3>1. Vars(o)' = Vars(o) /\ leaks'[o] = leaks[o] /\ Raised(o)' = Raised(o)
      BY <1>0, <1>1, VarsSame
    <3>2. Props(o)' = Props(o) - (IF prop[x] = o THEN 1 ELSE 0)
      <4>1. HeapTyped /\ prop' = [prop EXCEPT ![x] = None]
        BY <2>2 DEF Typed
      <4>2. Props(o)' = Props(o) + (IF None = o THEN 1 ELSE 0) - (IF prop[x] = o THEN 1 ELSE 0)
        BY <4>1, PropsChange
      <4>3. None # o /\ Props(o) \in Nat
        BY Finite, Sum DEF Typed
      <4>. QED  BY <4>2, <4>3
    <3>3. Count(stack, o)' = Count(stack, o) + (IF prop[x] = o THEN 1 ELSE 0)
      BY <2>5
    <3>. QED  BY <2>6, <3>1, <3>2, <3>3, Sum, SumNext DEF Typed
  <2>8. \A o \in Id : (Owner(o)' <=> Owner(o)) /\ (Owner(o) => handle[o] \in Handle)
                      /\ (Owner(o) /\ bucket'[handle[o]].valid => bucket[handle[o]].valid /\ o # x)
    BY <1>0, <2>1, <2>3 DEF Owner, Typed, StoreTyped
  <2>9. Placed'
    BY <1>0, <2>3 DEF Core, Placed
  <2>10. Listed'
    <3>1. Free' = Free
      BY <1>0, <2>3 DEF Free
    <3>2. \A h \in Free : h \in Handle
      BY DEF Free
    <3>. QED  BY <1>0, <2>3, <3>1, <3>2 DEF Core, Listed
  <2>11. Owned'
    BY <2>7, <2>8 DEF Core, Owned
  <2>12. Counted'
    <3> SUFFICES ASSUME NEW o \in Id, Owner(o)', bucket'[handle[o]].valid
                 PROVE  bucket'[handle[o]].refcount = References(o)'
      BY <1>0 DEF Counted
    <3>. QED  BY <2>3, <2>7, <2>8 DEF Core, Counted
  <2>13. Calls'
    BY <2>5 DEF Calls
  <2>14. FreedOnce'
    <3> SUFFICES ASSUME NEW o \in Id
                 PROVE  /\ freed'[o] <= 1
                        /\ freed'[o] = 1 => handle[o] # 0 /\ ~ (Owner(o)' /\ bucket'[handle[o]].valid)
      BY <1>0 DEF FreedOnce
    <3>1. CASE o = x
      BY <2>2, <2>4, <2>8, <3>1 DEF Owner, Typed, EndTyped
    <3>2. CASE o # x
      BY <1>1, <2>2, <2>8, <3>2 DEF Core, FreedOnce, Typed, EndTyped
    <3>. QED  BY <3>1, <3>2
  <2>15. DestructedOnce'
    <3> SUFFICES ASSUME NEW o \in Id
                 PROVE  /\ destructed[o] <= 1
                        /\ destructed[o] = 1 => handle[o] # 0
                             /\ (Owner(o)' => bucket'[handle[o]].destructor_called)
      BY <1>0 DEF DestructedOnce
    <3>. QED  BY <2>3, <2>8 DEF Core, DestructedOnce
  <2>. QED  BY <2>6, <2>9, <2>10, <2>11, <2>12, <2>13, <2>14, <2>15 DEF Core
<1>. QED  BY <1>2, <1>3

\* The next object is not in the store, and there is a bucket for it.
LEMMA NextObject ==
  ASSUME Typed, Core, Numbered, Made # Id
  PROVE  LET o == Cardinality(Made) + 1
             h == IF free_list_head # -1 THEN free_list_head ELSE top
         IN  /\ o \in Id /\ handle[o] = 0 /\ References(o) = 0
             /\ h \in Handle /\ bucket[h].obj = None /\ h # 0
             /\ \E n \in 0..Cardinality(Id) :
                  o = n + 1 /\ top <= n + 1 /\ \A x \in Id : handle[x] # 0 <=> x <= n
<1>1. PICK n \in 0..Cardinality(Id) : top <= n + 1 /\ \A x \in Id : handle[x] # 0 <=> x <= n
  BY DEF Numbered
<1>2. n \in Nat /\ Made = 1..n
  BY <1>1, Finite DEF Made
<1>3. Cardinality(1..n) = n
  <2>1. 1 \in Int /\ n \in Int
    BY <1>2
  <2>2. Cardinality(1..n) = IF 1 > n THEN 0 ELSE n - 1 + 1
    BY <2>1, FS_Interval
  <2>. QED  BY <1>2, <2>2
<1>4. n # Cardinality(Id)
  BY <1>2, Finite
<1> DEFINE o == Cardinality(Made) + 1
<1>5. o = n + 1 /\ o \in Id
  BY <1>1, <1>2, <1>3, <1>4, Finite
<1> HIDE DEF o
<1>6. handle[o] = 0
  BY <1>1, <1>2, <1>5
<1>7. References(o) = 0
  <2>1. ~ Owner(o)
    BY <1>6 DEF Owner
  <2>. QED  BY <1>5, <2>1, Sum DEF Core, Owned, Typed
<1> DEFINE h == IF free_list_head # -1 THEN free_list_head ELSE top
<1>8. h \in Handle /\ bucket[h].obj = None
  <2>1. CASE free_list_head # -1
    BY <2>1 DEF Core, Listed, Free
  <2>2. CASE free_list_head = -1
    <3>1. top \in Nat /\ top >= 1 /\ top <= Cardinality(Id) /\ Cardinality(Id) \in Nat
      BY <1>1, <1>2, <1>4, Finite DEF Typed, StoreTyped
    <3>2. top \in Handle
      BY <3>1 DEF Handle
    <3>3. bucket[top].obj = None
      BY <3>1, <3>2 DEF Core, Placed
    <3>. QED  BY <2>2, <3>2, <3>3
  <2>. QED  BY <2>1, <2>2
<1>9. \A k \in Handle : k # 0
  BY DEF Handle
<1> HIDE DEF h
<1>. QED  BY <1>1, <1>5, <1>6, <1>7, <1>8, <1>9 DEF o, h

\* An object with one reference is put into the store.
LEMMA PutKeeps ==
  ASSUME Typed, Core, Numbered, Made # Id, NEW d \in BOOLEAN, NEW called \in BOOLEAN,
         Put(Cardinality(Made) + 1, d, called), Typed', UNCHANGED <<freed, destructed>>,
         \A x \in Id : References(x)' = References(x) + IF x = Cardinality(Made) + 1 THEN 1 ELSE 0,
         \A x \in Id : Has(stack, x, "free")' <=> Has(stack, x, "free"),
         \A x \in Id : Has(stack, x, "dtor")' => Has(stack, x, "dtor")
  PROVE  Core' /\ Numbered'
<1> DEFINE h == IF free_list_head # -1 THEN free_list_head ELSE top
<1>1. PICK o \in Id, n \in 0..Cardinality(Id) :
        /\ o = Cardinality(Made) + 1 /\ handle[o] = 0 /\ References(o) = 0
        /\ h \in Handle /\ bucket[h].obj = None /\ h # 0
        /\ o = n + 1 /\ top <= n + 1 /\ \A x \in Id : handle[x] # 0 <=> x <= n
  BY NextObject
<1>2. /\ bucket' = [bucket EXCEPT ![h] = [valid |-> TRUE, destructor_called |-> called,
                                          refcount |-> 1, obj |-> o, next |-> -1]]
      /\ free_list_head' = IF free_list_head # -1 THEN bucket[h].next ELSE -1
      /\ top' = IF free_list_head # -1 THEN top ELSE top + 1
      /\ handle' = [handle EXCEPT ![o] = h]
  BY <1>1 DEF Put
<1>3. /\ \A k \in Handle : k # h => bucket'[k] = bucket[k]
      /\ bucket'[h].valid /\ bucket'[h].refcount = 1 /\ bucket'[h].obj = o /\ bucket'[h].next = -1
  BY <1>1, <1>2 DEF Typed, StoreTyped
<1>4. handle'[o] = h /\ \A x \in Id : x # o => handle'[x] = handle[x]
  BY <1>1, <1>2 DEF Typed, StoreTyped
<1>5. \A x \in Id : handle[x] = 0 \/ handle[x] \in Handle
  BY DEF Typed, StoreTyped
<1>6. h < top' /\ top <= top' /\ top \in Nat /\ top' \in Nat
  <2>1. top \in Nat /\ Handle \subseteq Nat
    BY DEF Typed, StoreTyped, Handle
  <2>2. free_list_head # -1 => h < top
    BY DEF Core, Listed, Free
  <2>. QED  BY <1>2, <2>1, <2>2
<1>7. Handle \subseteq Nat /\ -1 \notin Handle
  BY DEF Handle
<1>8. None # o /\ None \notin Id
  BY Finite
<1>t. top' = IF free_list_head # -1 THEN top ELSE top + 1
  BY <1>2
<1>f. free_list_head' = IF free_list_head # -1 THEN bucket[h].next ELSE -1
  BY <1>2
<1>h. h = IF free_list_head # -1 THEN free_list_head ELSE top
  OBVIOUS
<1>r. \A x \in Id : References(x)' = References(x) + IF x = o THEN 1 ELSE 0
  BY <1>1
<1> HIDE DEF h
<1>9. \A x \in Id : x # o => (Owner(x)' <=> Owner(x)) /\ (Owner(x) => handle[x] \in Handle \ {h})
  BY <1>1, <1>3, <1>4, <1>5, <1>8 DEF Owner
<1>10. Owner(o)' /\ ~ Owner(o)
  BY <1>1, <1>3, <1>4 DEF Owner
<1>11. Numbered'
  <2>1. \A x \in Id : handle'[x] # 0 <=> x <= o
    <3>1. \A x \in Id : x <= o <=> x = o \/ x <= n
      BY <1>1, Finite
    <3>. QED  BY <1>1, <1>4, <3>1
  <2>2. top' <= o + 1 /\ o \in 0..Cardinality(Id)
    BY <1>1, <1>6, <1>t, Finite
  <2>. QED  BY <2>1, <2>2 DEF Numbered
<1>12. Placed'
  <2>1. \A x \in Id : handle'[x] < top'
    <3> SUFFICES ASSUME NEW x \in Id PROVE handle'[x] < top'
      OBVIOUS
    <3>1. CASE x = o
      BY <1>4, <1>6, <3>1
    <3>2. CASE x # o
      <4>1. handle'[x] = handle[x]
        BY <1>4, <3>2
      <4>2. handle[x] < top
        BY DEF Core, Placed
      <4>3. handle[x] \in Nat
        <5>1. handle[x] \in Handle \cup {0}
          BY DEF Typed, StoreTyped
        <5>. QED  BY <5>1 DEF Handle
      <4>. QED  BY <1>6, <4>1, <4>2, <4>3
    <3>. QED  BY <3>1, <3>2
  <2>2. \A k \in Handle : k # h =>
          /\ bucket'[k].obj # None => handle'[bucket'[k].obj] = k
          /\ bucket'[k].valid => bucket'[k].obj # None
          /\ k >= top' => bucket'[k].obj = None
    <3> SUFFICES ASSUME NEW k \in Handle, k # h
                 PROVE  /\ bucket[k].obj # None => handle'[bucket[k].obj] = k
                        /\ bucket[k].valid => bucket[k].obj # None
                        /\ k >= top' => bucket[k].obj = None
      BY <1>3
    <3>1. bucket[k].obj \in Id \cup {None} /\ k # 0
      BY <1>7 DEF Typed, StoreTyped, Bucket, Handle
    <3>2. bucket[k].obj # None => handle[bucket[k].obj] = k /\ bucket[k].obj # o
      BY <1>1, <3>1 DEF Core, Placed
    <3>3. k >= top' => k >= top
      BY <1>6, <1>7
    <3>. QED  BY <1>4, <3>1, <3>2, <3>3 DEF Core, Placed
  <2>3. ~ (h >= top')
    <3>1. h \in Nat
      BY <1>1, <1>7
    <3>. QED  BY <1>6, <3>1
  <2>4. \A k \in Handle :
          /\ bucket'[k].obj # None => handle'[bucket'[k].obj] = k
          /\ bucket'[k].valid => bucket'[k].obj # None
          /\ k >= top' => bucket'[k].obj = None
    <3> SUFFICES ASSUME NEW k \in Handle
                 PROVE  /\ bucket'[k].obj # None => handle'[bucket'[k].obj] = k
                        /\ bucket'[k].valid => bucket'[k].obj # None
                        /\ k >= top' => bucket'[k].obj = None
      OBVIOUS
    <3>1. CASE k = h
      BY <1>3, <1>4, <1>8, <2>3, <3>1
    <3>2. CASE k # h
      BY <2>2, <3>2
    <3>. QED  BY <3>1, <3>2
  <2>. QED  BY <2>1, <2>4 DEF Placed
<1>13. Listed'
  <2>0. \A k \in Handle : bucket[k].next \in Handle \cup {-1}
    BY DEF Typed, StoreTyped, Bucket
  <2>1. CASE free_list_head # -1
    <3>1. h = free_list_head /\ h \in Free /\ top' = top /\ free_list_head' = bucket[h].next
      BY <1>h, <1>t, <1>f, <2>1 DEF Core, Listed
    <3>2. Free' = Free \ {h}
      BY <1>3, <1>8, <3>1 DEF Free
    <3>3. \A k \in Free \ {h} : bucket'[k].next = bucket[k].next /\ k \in Handle
      BY <1>3 DEF Free
    <3>. QED  BY <3>1, <3>2, <3>3 DEF Core, Listed
  <2>2. CASE free_list_head = -1
    <3>1. h = top /\ top' = top + 1 /\ free_list_head' = -1
      BY <1>h, <1>t, <1>f, <2>2
    <3>2. \A k \in Handle : k < top + 1 <=> k < top \/ k = h
      BY <1>6, <1>7, <3>1
    <3>3. Free' = Free /\ h \notin Free
      <4>1. ~ (h < top)
        BY <1>6, <3>1
      <4>. QED  BY <1>1, <1>3, <1>8, <3>1, <3>2, <4>1 DEF Free
    <3>4. \A k \in Free : bucket'[k].next = bucket[k].next /\ k \in Handle
      BY <1>3, <3>3 DEF Free
    <3>. QED  BY <1>7, <3>1, <3>3, <3>4 DEF Core, Listed, Free
  <2>. QED  BY <2>1, <2>2
<1>14. Owned'
  <2>1. \A x \in Id : x # o => (References(x)' > 0 => References(x) > 0)
    BY <1>r, Sum DEF Typed
  <2>. QED  BY <1>9, <1>10, <2>1 DEF Core, Owned
<1>15. Counted'
  <2> SUFFICES ASSUME NEW x \in Id, Owner(x)', bucket'[handle'[x]].valid
               PROVE  bucket'[handle'[x]].refcount = References(x)'
    BY DEF Counted
  <2>1. CASE x = o
    BY <1>1, <1>3, <1>4, <1>r, <2>1
  <2>2. CASE x # o
    <3>1. References(x)' = References(x)
      BY <1>r, <2>2, Sum DEF Typed
    <3>. QED  BY <1>3, <1>4, <1>9, <2>2, <3>1 DEF Core, Counted
  <2>. QED  BY <2>1, <2>2
<1>16. Calls'
  <2> SUFFICES ASSUME NEW x \in Id, NEW w, w = "dtor" \/ w = "free", Has(stack, x, w)'
               PROVE  /\ bucket'[handle'[x]].valid
                      /\ w = "free" => References(x)' = 1 /\ freed'[x] = 1
    BY DEF Calls
  <2>1. Has(stack, x, w)
    OBVIOUS
  <2>2. References(x) > 0
    <3>1. Count(stack, x) >= 1
      BY <2>1, CountZero DEF Typed, HeapTyped
    <3>. QED  BY <3>1, Sum DEF Typed
  <2>3. x # o /\ References(x)' = References(x)
    BY <1>1, <1>r, <2>2, Sum DEF Typed
  <2>4. handle'[x] = handle[x] /\ bucket'[handle[x]] = bucket[handle[x]]
    BY <1>3, <1>4, <1>9, <2>2, <2>3 DEF Core, Owned
  <2>. QED  BY <2>1, <2>3, <2>4 DEF Core, Calls
<1>17. FreedOnce'
  <2> SUFFICES ASSUME NEW x \in Id
               PROVE  /\ freed[x] <= 1
                      /\ freed[x] = 1 => handle'[x] # 0
                           /\ (Owner(x)' /\ bucket'[handle'[x]].valid => Has(stack, x, "free")')
    BY DEF FreedOnce
  <2>1. CASE x = o
    BY <1>1, <2>1 DEF Core, FreedOnce
  <2>2. CASE x # o
    BY <1>3, <1>4, <1>9, <2>2 DEF Core, FreedOnce
  <2>. QED  BY <2>1, <2>2
<1>18. DestructedOnce'
  <2> SUFFICES ASSUME NEW x \in Id
               PROVE  /\ destructed[x] <= 1
                      /\ destructed[x] = 1 => handle'[x] # 0
                           /\ (Owner(x)' => bucket'[handle'[x]].destructor_called)
    BY DEF DestructedOnce
  <2>1. CASE x = o
    BY <1>1, <2>1 DEF Core, DestructedOnce
  <2>2. CASE x # o
    BY <1>3, <1>4, <1>9, <2>2 DEF Core, DestructedOnce
  <2>. QED  BY <2>1, <2>2
<1>. QED  BY <1>11, <1>12, <1>13, <1>14, <1>15, <1>16, <1>17, <1>18 DEF Core

\* What the store is like after an object is put into it.
LEMMA PutTyped ==
  ASSUME Typed, Core, Numbered, Phases, Made # Id, NEW d \in BOOLEAN, NEW called \in BOOLEAN,
         Put(Cardinality(Made) + 1, d, called)
  PROVE  /\ StoreTyped'
         /\ \A k \in Handle : bucket'[k].valid \/ bucket'[k] = bucket[k]
         /\ top <= top'
         /\ \A k \in Handle : bucket[k].obj # None => bucket'[k] = bucket[k]
<1> DEFINE h == IF free_list_head # -1 THEN free_list_head ELSE top
           new(o) == [valid |-> TRUE, destructor_called |-> called, refcount |-> 1, obj |-> o, next |-> -1]
<1>1. PICK o \in Id, n \in 0..Cardinality(Id) :
        /\ o = Cardinality(Made) + 1 /\ h \in Handle /\ bucket[h].obj = None
        /\ o = n + 1 /\ top <= n + 1
  BY NextObject
<1>2. new(o) \in Bucket /\ new(o).valid
  <2>1. 1 \in Int /\ -1 \in Handle \cup {-1} /\ TRUE \in BOOLEAN
    OBVIOUS
  <2>. QED  BY <2>1 DEF Bucket
<1>3. /\ bucket' = [bucket EXCEPT ![h] = new(o)]
      /\ handle' = [handle EXCEPT ![o] = h] /\ destructor' = [destructor EXCEPT ![o] = d]
      /\ free_list_head' = IF free_list_head # -1 THEN bucket[h].next ELSE -1
  BY <1>1 DEF Put
<1>4. \/ free_list_head # -1 /\ UNCHANGED <<top, size, moves>>
      \/ /\ free_list_head = -1 /\ top' = top + 1
         /\ \/ top = size /\ size' = 2 * size /\ moves' = moves + 1
            \/ top # size /\ UNCHANGED <<size, moves>>
  BY DEF Put
<1> HIDE DEF new
<1>5. /\ bucket' \in [Handle -> Bucket] /\ bucket'[h] = new(o)
      /\ \A k \in Handle : k # h => bucket'[k] = bucket[k]
  BY <1>1, <1>2, <1>3 DEF Typed, StoreTyped
<1>6. handle' \in [Id -> Handle \cup {0}] /\ destructor' \in [Id -> BOOLEAN]
  BY <1>1, <1>3 DEF Typed, StoreTyped
<1>7. free_list_head' \in Handle \cup {-1}
  BY <1>1, <1>3 DEF Typed, StoreTyped, Bucket
<1> HIDE DEF h
<1>8. /\ top' \in 1..(Cardinality(Id) + 1) /\ size' \in Nat /\ top' <= size' /\ moves' \in Nat
      /\ top <= top'
  <2>1. /\ top \in 1..(Cardinality(Id) + 1) /\ size \in Nat /\ top <= size /\ moves \in Nat
        /\ Cardinality(Id) \in Nat
    BY Finite DEF Typed, StoreTyped
  <2>2. free_list_head = -1 => top + 1 <= Cardinality(Id) + 1
    <3>1. free_list_head = -1 => top \in Handle
      BY <1>1 DEF h
    <3>. QED  BY <2>1, <3>1 DEF Handle
  <2>. QED  BY <1>4, <2>1, <2>2
<1>. QED  BY <1>1, <1>2, <1>5, <1>6, <1>7, <1>8 DEF StoreTyped

LEMMA PutRaised ==
  ASSUME Typed, Core, Phases, UNCHANGED <<hold, cursor>>,
         \A k \in Handle : bucket[k].obj # None => bucket'[k] = bucket[k], NEW x \in Id
  PROVE  Raised(x)' = Raised(x)
<1>1. hold => cursor \in Handle /\ bucket[cursor].obj # None
  BY RaisedThere, Finite
<1>. QED  BY <1>1 DEF Raised

LEMMA NewKeeps ==
  ASSUME Typed, Core, Numbered, Phases, NEW v \in Var, NEW d \in BOOLEAN, New(v, d)
  PROVE  Typed' /\ Core' /\ Numbered'
<1> DEFINE o == Cardinality(Made) + 1
<1>1. /\ var[v] = None /\ Made # Id /\ Put(o, d, FALSE) /\ var' = [var EXCEPT ![v] = o] /\ FALSE \in BOOLEAN
      /\ UNCHANGED <<prop, stack, bailing, endVars, leaks, destructed, freed>>
  BY DEF New
<1>2. o \in Id
  BY <1>1, NextObject
<1>3. StoreTyped' /\ \A k \in Handle : bucket[k].obj # None => bucket'[k] = bucket[k]
  BY <1>1, PutTyped
<1>4. Typed'
  <2>1. var' \in [Var -> Id \cup {None}]
    BY <1>1, <1>2 DEF Typed, HeapTyped
  <2>. QED  BY <1>1, <1>3, <2>1 DEF Typed, HeapTyped, EndTyped, endVars
<1>5. \A x \in Id : References(x)' = References(x) + IF x = o THEN 1 ELSE 0
  <2> SUFFICES ASSUME NEW x \in Id PROVE References(x)' = References(x) + IF x = o THEN 1 ELSE 0
    OBVIOUS
  <2>1. Props(x)' = Props(x) /\ leaks'[x] = leaks[x] /\ Count(stack, x)' = Count(stack, x)
        /\ Raised(x)' = Raised(x)
    BY <1>1, <1>3, PropsSame, StackSame, PutRaised DEF endVars
  <2>2. Vars(x)' = Vars(x) + (IF x = o THEN 1 ELSE 0)
    <3>0. HeapTyped /\ var' = [var EXCEPT ![v] = o]
      BY <1>1 DEF Typed
    <3>1. Vars(x)' = Vars(x) + (IF o = x THEN 1 ELSE 0) - (IF var[v] = x THEN 1 ELSE 0)
      BY <3>0, VarsChange
    <3>2. var[v] # x /\ Vars(x) \in Nat
      BY <1>1, Finite, Sum DEF Typed
    <3> HIDE DEF o
    <3>. QED  BY <3>1, <3>2
  <2> HIDE DEF o
  <2>. QED  BY <1>4, <2>1, <2>2, Sum, SumNext DEF Typed
<1>6. \A x \in Id : \A w : Has(stack, x, w)' <=> Has(stack, x, w)
  BY <1>1, StackSame
<1>. QED  BY <1>1, <1>4, <1>5, <1>6, PutKeeps

LEMMA NewFailsKeeps ==
  ASSUME Typed, Core, Numbered, Phases, NewFails
  PROVE  Typed' /\ Core' /\ Numbered'
<1> DEFINE o == Cardinality(Made) + 1
           e == Release(o)
<1>1. /\ Made # Id /\ Put(o, TRUE, TRUE) /\ stack' = Append(stack, e) /\ TRUE \in BOOLEAN
      /\ UNCHANGED <<heapVars, bailing, endVars, leaks, destructed, freed>>
  BY DEF NewFails
<1>2. o \in Id
  BY <1>1, NextObject
<1>3. StoreTyped' /\ \A k \in Handle : bucket[k].obj # None => bucket'[k] = bucket[k]
  BY <1>1, PutTyped
<1>4. e \in Call /\ e.id = o /\ e.in = "enter"
  BY <1>2, Calls3
<1> HIDE DEF e
<1>5. /\ stack' \in Seq(Call)
      /\ \A x \in Id : /\ Count(stack, x)' = Count(stack, x) + (IF x = o THEN 1 ELSE 0)
                       /\ Has(stack, x, "free")' <=> Has(stack, x, "free")
                       /\ Has(stack, x, "dtor")' => Has(stack, x, "dtor")
  <2>1. HeapTyped /\ stack' = Append(stack, e)
    BY <1>1 DEF Typed
  <2>2. \A x \in Id : /\ Count(stack, x)' = Count(stack, x) + (IF e.id = x THEN 1 ELSE 0)
                      /\ \A w : Has(stack, x, w)' <=> Has(stack, x, w) \/ (e.id = x /\ e.in = w)
                      /\ stack' \in Seq(Call)
    BY <1>4, <2>1, Push
  <2> HIDE DEF o
  <2>. QED  BY <1>2, <1>4, <2>2
<1>6. Typed'
  BY <1>1, <1>3, <1>5 DEF Typed, HeapTyped, EndTyped, heapVars, endVars
<1>7. \A x \in Id : References(x)' = References(x) + IF x = o THEN 1 ELSE 0
  <2> SUFFICES ASSUME NEW x \in Id PROVE References(x)' = References(x) + IF x = o THEN 1 ELSE 0
    OBVIOUS
  <2>1. Vars(x)' = Vars(x) /\ Props(x)' = Props(x) /\ leaks'[x] = leaks[x] /\ Raised(x)' = Raised(x)
    BY <1>1, <1>3, VarsSame, PropsSame, PutRaised DEF heapVars, endVars
  <2>2. Count(stack, x)' = Count(stack, x) + (IF x = o THEN 1 ELSE 0)
    BY <1>5
  <2> HIDE DEF o
  <2>. QED  BY <1>6, <2>1, <2>2, Sum, SumNext DEF Typed
<1>. QED  BY <1>1, <1>5, <1>6, <1>7, PutKeeps

-----------------------------------------------------------------------------
(* Where the request is.                                                    *)

\* A bucket whose count or mark changes keeps its object, its validity and its link.
LEMMA BucketsStay ==
  ASSUME Typed, Core,
         \/ CallDestructor \/ SkipDestructor \/ FreeStorage \/ DropReference \/ EndDestructor \/ Unwind
         \/ \E v \in Var : Unset(v) \/ SweepSymbol(v) \/ KeepSymbol(v) \/ SweepGlobal(v) \/ SweepStatic(v)
         \/ \E v \in Var, o \in Id : Assign(v, o)
         \/ \E o, w \in Id : SetProperty(o, w)
         \/ \E o \in Id : UnsetProperty(o)
         \/ FatalError \/ Exit
  PROVE  /\ \A h \in Handle : /\ bucket'[h].obj = bucket[h].obj /\ bucket'[h].valid = bucket[h].valid
                             /\ bucket'[h].next = bucket[h].next
         /\ UNCHANGED <<top, free_list_head, handle, phase, cursor, hold>>
<1> DEFINE Stay == /\ \A h \in Handle : /\ bucket'[h].obj = bucket[h].obj /\ bucket'[h].valid = bucket[h].valid
                                       /\ bucket'[h].next = bucket[h].next
                   /\ UNCHANGED <<top, free_list_head, handle, phase, cursor, hold>>
<1>1. \A h \in Handle : bucket[h] \in Bucket
  BY DEF Typed, StoreTyped
<1>2. \A o \in Id, n \in Int : Add(o, n) =>
        \A h \in Handle : /\ bucket'[h].obj = bucket[h].obj /\ bucket'[h].valid = bucket[h].valid
                         /\ bucket'[h].next = bucket[h].next
  BY <1>1 DEF Add, Bucket, Typed, StoreTyped
<1>3. ASSUME CallDestructor PROVE Stay
  <2>1. stack # <<>> /\ UNCHANGED <<top, free_list_head, handle, phase, cursor, hold>>
        /\ bucket' = [bucket EXCEPT ![handle[Top.id]].destructor_called = TRUE,
                                    ![handle[Top.id]].refcount = @ + 1]
    BY <1>3 DEF CallDestructor, In, endVars
  <2>2. handle[Top.id] \in Handle
    BY <2>1, TopOwned DEF Core
  <2> DEFINE c == [bucket[handle[Top.id]] EXCEPT !.destructor_called = TRUE, !.refcount = @ + 1]
  <2>3. bucket' = [bucket EXCEPT ![handle[Top.id]] = c]
    BY <2>1, <2>2 DEF Typed, StoreTyped
  <2>4. /\ c.obj = bucket[handle[Top.id]].obj /\ c.valid = bucket[handle[Top.id]].valid
        /\ c.next = bucket[handle[Top.id]].next
    <3> DEFINE b == bucket[handle[Top.id]]
    <3>1. b \in Bucket /\ 1 \in Int
      BY <1>1, <2>2
    <3> HIDE DEF b
    <3>2. LET d == [b EXCEPT !.destructor_called = TRUE, !.refcount = @ + 1]
          IN  d.obj = b.obj /\ d.valid = b.valid /\ d.next = b.next
      BY <3>1, Marked
    <3>. QED  BY <3>2 DEF b
  <2> HIDE DEF c
  <2>5. \A h \in Handle : bucket'[h] = IF h = handle[Top.id] THEN c ELSE bucket[h]
    BY <2>3 DEF Typed, StoreTyped
  <2>. QED  BY <2>1, <2>4, <2>5
<1>4. ASSUME SkipDestructor PROVE Stay
  <2>1. \A b \in Bucket : LET c == [b EXCEPT !.destructor_called = TRUE]
                          IN  c.obj = b.obj /\ c.valid = b.valid /\ c.next = b.next
    BY DEF Bucket
  <2>. QED  BY <1>1, <1>4, <2>1 DEF SkipDestructor, endVars, Typed, StoreTyped
<1>5. ASSUME FreeStorage \/ EndDestructor \/ Unwind PROVE Stay
  BY <1>5 DEF FreeStorage, EndDestructor, Unwind, storeVars, endVars
<1>6. ASSUME DropReference PROVE Stay
  <2>1. stack # <<>> /\ Add(Top.id, -1) /\ -1 \in Int /\ UNCHANGED <<top, free_list_head, handle, phase, cursor, hold>>
    BY <1>6 DEF DropReference, In, endVars
  <2>2. Top.id \in Id
    BY <2>1, TopOwned DEF Core
  <2>. QED  BY <1>2, <2>1, <2>2
<1>7. ASSUME NEW v \in Var,
             Unset(v) \/ SweepSymbol(v) \/ KeepSymbol(v) \/ SweepGlobal(v) \/ SweepStatic(v)
      PROVE  Stay
  BY <1>7 DEF Unset, SweepSymbol, KeepSymbol, SweepGlobal, SweepStatic, Sweep, storeVars
<1>8. ASSUME NEW v \in Var, NEW o \in Id, Assign(v, o) PROVE Stay
  <2>1. Add(o, 1) /\ 1 \in Int /\ UNCHANGED <<top, free_list_head, handle, phase, cursor, hold>>
    BY <1>8 DEF Assign, endVars
  <2>. QED  BY <1>2, <2>1
<1>9. ASSUME NEW o \in Id, NEW w \in Id, SetProperty(o, w) PROVE Stay
  <2>1. Add(w, 1) /\ 1 \in Int /\ UNCHANGED <<top, free_list_head, handle, phase, cursor, hold>>
    BY <1>9 DEF SetProperty, endVars
  <2>. QED  BY <1>2, <2>1
<1>10. ASSUME NEW o \in Id, UnsetProperty(o) PROVE Stay
  BY <1>10 DEF UnsetProperty, storeVars, endVars
<1>11. ASSUME FatalError PROVE Stay
  <2>1. \A b \in Bucket : LET c == [b EXCEPT !.destructor_called = TRUE]
                          IN  c.obj = b.obj /\ c.valid = b.valid /\ c.next = b.next
    BY DEF Bucket
  <2>. QED  BY <1>1, <1>11, <2>1 DEF FatalError, MarkDestructed, endVars
<1>12. ASSUME Exit PROVE Stay
  BY <1>12 DEF Exit, storeVars, endVars
<1> HIDE DEF Stay
<1>13. Stay
  BY <1>3, <1>4, <1>5, <1>6, <1>7, <1>8, <1>9, <1>10, <1>11, <1>12
<1>. QED  BY <1>13 DEF Stay

\* Objects stay in valid buckets, and the loop over the destructors at its own.
LEMMA PhasesStay ==
  ASSUME Typed, Phases, UNCHANGED <<phase, cursor, hold>>, top' \in Nat, top <= top',
         \A h \in Handle : bucket'[h].obj # None /\ ~ bucket'[h].valid =>
                             bucket[h].obj # None /\ ~ bucket[h].valid,
         hold => bucket'[cursor].valid
  PROVE  Phases'
<1>1. cursor \in Nat /\ top \in Nat
  BY DEF Typed, StoreTyped, EndTyped
<1>2. hold => cursor < top'
  BY <1>1 DEF Phases
<1>. QED  BY <1>2 DEF Phases

LEMMA DelRefPhases ==
  ASSUME Typed, Core, Phases, DelRef
  PROVE  Phases' /\ UNCHANGED <<top, handle>>
<1>0. top \in Nat /\ top <= top /\ (hold => cursor \in Handle /\ bucket[cursor].valid)
  BY RaisedThere DEF Typed, StoreTyped
<1>1. CASE AddToFreeList
  <2>1. PICK o \in Id : o = Top.id /\ Owner(o) /\ handle[o] \in Handle
    BY <1>1, TopOwned DEF AddToFreeList, In, Core
  <2>2. Has(stack, o, "free")
    BY <1>1, <2>1, CountBelow DEF AddToFreeList, In, Typed, HeapTyped
  <2>3. hold => cursor # handle[o]
    BY <2>1, <2>2, FreeIsAlone DEF Core, Raised, Owner
  <2>4. /\ \A k \in Handle : k # handle[o] => bucket'[k] = bucket[k]
        /\ bucket'[handle[o]].obj = None
        /\ UNCHANGED <<top, handle, phase, cursor, hold>>
    <3>1. /\ bucket' = [bucket EXCEPT
               ![handle[o]].valid = FALSE, ![handle[o]].next = free_list_head,
               ![handle[o]].obj = None,
               ![handle[o]].refcount = IF Top.at = moves THEN @ - 1 ELSE @]
          /\ UNCHANGED <<top, handle, phase, cursor, hold>>
      BY <1>1, <2>1 DEF AddToFreeList, endVars
    <3>. QED  BY <2>1, <3>1 DEF Typed, StoreTyped, Bucket
  <2>. QED  BY <1>0, <2>3, <2>4, PhasesStay
<1>2. CASE ~ AddToFreeList
  <2>1. CallDestructor \/ SkipDestructor \/ FreeStorage \/ DropReference \/ EndDestructor \/ Unwind
    BY <1>2 DEF DelRef
  <2>2. /\ \A h \in Handle : bucket'[h].obj = bucket[h].obj /\ bucket'[h].valid = bucket[h].valid
        /\ UNCHANGED <<top, handle, phase, cursor, hold>>
    BY <2>1, BucketsStay
  <2>. QED  BY <1>0, <2>2, PhasesStay
<1>. QED  BY <1>1, <1>2

LEMMA ScriptPhases ==
  ASSUME Typed, Core, Numbered, Phases, Typed', Script
  PROVE  Phases'
<1>0. top \in Nat /\ top <= top /\ top' \in Nat /\ (hold => cursor \in Handle /\ bucket[cursor].valid)
      /\ (hold => bucket[cursor].obj # None)
  BY RaisedThere, Finite DEF Typed, StoreTyped
<1>1. ASSUME NEW d \in BOOLEAN, NEW called \in BOOLEAN, Made # Id, Put(Cardinality(Made) + 1, d, called),
             UNCHANGED endVars
      PROVE  Phases'
  <2>1. /\ \A k \in Handle : bucket'[k].valid \/ bucket'[k] = bucket[k]
        /\ top <= top'
        /\ \A k \in Handle : bucket[k].obj # None => bucket'[k] = bucket[k]
    BY <1>1, PutTyped
  <2>. QED  BY <1>0, <1>1, <2>1, PhasesStay DEF endVars
<1>2. ASSUME NewFails PROVE Phases'
  BY <1>1, <1>2 DEF NewFails
<1>3. ASSUME NEW v \in Var, NEW d \in BOOLEAN, New(v, d) PROVE Phases'
  BY <1>1, <1>3 DEF New
<1>4. ASSUME \/ \E v \in Var : Unset(v)
             \/ \E v \in Var, o \in Id : Assign(v, o)
             \/ \E o, w \in Id : SetProperty(o, w)
             \/ \E o \in Id : UnsetProperty(o)
             \/ FatalError \/ Exit
      PROVE  Phases'
  <2>1. /\ \A h \in Handle : bucket'[h].obj = bucket[h].obj /\ bucket'[h].valid = bucket[h].valid
        /\ UNCHANGED <<top, handle, phase, cursor, hold>>
    BY <1>4, BucketsStay
  <2>. QED  BY <1>0, <2>1, PhasesStay
<1>5. Destructors \subseteq BOOLEAN
  BY ObjectsStoreAssumption DEF ObjectsStoreAssumption
<1>. QED  BY <1>2, <1>3, <1>4, <1>5 DEF Script

LEMMA ShutdownPhases ==
  ASSUME Typed, Core, Phases, Typed', Shutdown
  PROVE  Phases' /\ UNCHANGED <<top, handle>>
<1>0. top \in Nat /\ top <= top /\ (hold => cursor \in Handle /\ bucket[cursor].valid)
  BY RaisedThere DEF Typed, StoreTyped
<1>1. ASSUME \E v \in Var : SweepSymbol(v) \/ KeepSymbol(v) \/ SweepGlobal(v) \/ SweepStatic(v)
      PROVE  Phases' /\ UNCHANGED <<top, handle>>
  <2>1. /\ \A h \in Handle : bucket'[h].obj = bucket[h].obj /\ bucket'[h].valid = bucket[h].valid
        /\ UNCHANGED <<top, handle, phase, cursor, hold>>
    BY <1>1, BucketsStay
  <2>. QED  BY <1>0, <2>1, PhasesStay
<1>2. ASSUME EndScript \/ EndSweep \/ EndDestruct \/ EndGlobals \/ EndStatics \/ EndFree
      PROVE  Phases' /\ UNCHANGED <<top, handle>>
  <2>1. UNCHANGED <<bucket, top, handle>>
    BY <1>2 DEF EndScript, EndSweep, EndDestruct, EndGlobals, EndStatics, EndFree, storeVars
  <2>2. \/ phase = "run" /\ Goto("symbols", Set(Global), Cardinality(Set(Global)))
        \/ phase = "symbols" /\ Goto("symbols", Set(Global), Cardinality(Set(Global)))
        \/ phase = "symbols" /\ Goto("destruct", {}, 1)
        \/ phase = "destruct" /\ Goto("globals", {}, 0)
        \/ phase = "globals" /\ Goto("statics", Set(Static), 0)
        \/ phase = "statics" /\ Goto("free", {}, 1)
        \/ phase = "free" /\ Goto("done", {}, 0)
    BY <1>2 DEF EndScript, EndSweep, EndDestruct, EndGlobals, EndStatics, EndFree, InPhase
  <2>. QED  BY <2>1, <2>2 DEF Phases, Goto
<1>3. ASSUME CatchBailout PROVE Phases' /\ UNCHANGED <<top, handle>>
  <2>1. UNCHANGED <<top, handle>>
    BY <1>3 DEF CatchBailout
  <2>2. \A h \in Handle : bucket'[h].obj = bucket[h].obj /\ bucket'[h].valid = bucket[h].valid
    <3>1. \A b \in Bucket : LET c == [b EXCEPT !.destructor_called = TRUE]
                            IN  c.obj = b.obj /\ c.valid = b.valid
      BY DEF Bucket
    <3>2. \A h \in Handle : bucket[h] \in Bucket
      BY DEF Typed, StoreTyped
    <3>3. UNCHANGED bucket \/ MarkDestructed
      BY <1>3 DEF CatchBailout
    <3>. QED  BY <3>1, <3>2, <3>3 DEF MarkDestructed
  <2>3. /\ ~ hold'
        /\ \/ phase' \in {"symbols", "globals", "statics"} /\ phase \notin {"free", "done"}
           \/ phase' = "done"
    BY <1>3 DEF CatchBailout, Goto, Typed, EndTyped, Phase
  <2>. QED  BY <2>1, <2>2, <2>3 DEF Phases
<1>4. ASSUME DestructNext PROVE Phases' /\ UNCHANGED <<top, handle>>
  <2>1. /\ phase = "destruct" /\ phase' = phase /\ UNCHANGED <<top, handle>> /\ ~ hold /\ cursor < top
        /\ cursor \in Nat /\ cursor >= 1
    BY <1>4 DEF DestructNext, InPhase, Phases, Typed, EndTyped
  <2>2. cursor \in Handle
    BY <2>1, Finite DEF Typed, StoreTyped, Handle
  <2>3. /\ \A h \in Handle : bucket'[h].obj = bucket[h].obj /\ bucket'[h].valid = bucket[h].valid
        /\ \/ hold' = TRUE /\ cursor' = cursor /\ bucket[cursor].valid
           \/ hold' = hold /\ cursor' = cursor + 1
    <3> DEFINE b == bucket[cursor]
    <3>1. b \in Bucket /\ 2 \in Int
      BY <2>2 DEF Typed, StoreTyped
    <3>2. CASE b.valid /\ ~ b.destructor_called /\ destructor[b.obj]
      <4> DEFINE c == [b EXCEPT !.destructor_called = TRUE, !.refcount = @ + 2]
      <4>1. /\ bucket' = [bucket EXCEPT ![cursor].destructor_called = TRUE, ![cursor].refcount = @ + 2]
            /\ hold' = TRUE /\ cursor' = cursor /\ bucket[cursor].valid
        BY <1>4, <3>2 DEF DestructNext
      <4>2. bucket' = [bucket EXCEPT ![cursor] = c]
        BY <2>2, <4>1 DEF Typed, StoreTyped
      <4>3. c.obj = b.obj /\ c.valid = b.valid
        BY <3>1, Marked
      <4> HIDE DEF c
      <4>4. \A h \in Handle : bucket'[h] = IF h = cursor THEN c ELSE bucket[h]
        BY <4>2 DEF Typed, StoreTyped
      <4>. QED  BY <4>1, <4>3, <4>4
    <3>3. CASE ~ (b.valid /\ ~ b.destructor_called /\ destructor[b.obj])
      <4> DEFINE t == b.destructor_called \/ b.valid
                 c == [b EXCEPT !.destructor_called = t]
      <4>1. /\ bucket' = [bucket EXCEPT ![cursor] = c]
            /\ hold' = hold /\ cursor' = cursor + 1
        BY <1>4, <2>2, <3>3 DEF DestructNext, Typed, StoreTyped
      <4> HIDE DEF t
      <4>3. c.obj = b.obj /\ c.valid = b.valid
        BY <3>1 DEF Bucket
      <4> HIDE DEF c
      <4>4. \A h \in Handle : bucket'[h] = IF h = cursor THEN c ELSE bucket[h]
        BY <4>1 DEF Typed, StoreTyped
      <4>. QED  BY <4>1, <4>3, <4>4
    <3>. QED  BY <3>2, <3>3
  <2>4. cursor' >= 1
    BY <2>1, <2>3
  <2>. QED  BY <2>1, <2>2, <2>3, <2>4 DEF Phases
<1>5. ASSUME DestructDone PROVE Phases' /\ UNCHANGED <<top, handle>>
  <2>1. /\ phase = "destruct" /\ phase' = phase /\ UNCHANGED <<top, handle>> /\ ~ hold'
        /\ cursor' = cursor + 1 /\ bucket' = [bucket EXCEPT ![cursor].refcount = @ - 1]
    BY <1>5 DEF DestructDone, InPhase
  <2>2. \A h \in Handle : bucket'[h].obj = bucket[h].obj /\ bucket'[h].valid = bucket[h].valid
    <3>1. \A h \in Handle : bucket[h] \in Bucket
      BY DEF Typed, StoreTyped
    <3>. QED  BY <2>1, <3>1 DEF Bucket, Typed, StoreTyped
  <2>3. cursor \in Nat /\ cursor >= 1
    BY <2>1 DEF Phases, Typed, EndTyped
  <2>4. cursor' >= 1
    BY <2>1, <2>3
  <2>. QED  BY <2>1, <2>2, <2>4 DEF Phases
<1>6. ASSUME FreeNext PROVE Phases' /\ UNCHANGED <<top, handle>>
  <2>1. /\ phase = "free" /\ phase' = phase /\ UNCHANGED <<top, handle>> /\ hold' = hold /\ ~ hold
        /\ cursor' = cursor + 1 /\ cursor \in Nat /\ cursor >= 1
    BY <1>6 DEF FreeNext, InPhase, Phases, Typed, EndTyped
  <2>2. cursor' >= 1
    BY <2>1
  <2>. QED  BY <2>1, <2>2 DEF Phases
<1>. QED  BY <1>1, <1>2, <1>3, <1>4, <1>5, <1>6 DEF Shutdown

-----------------------------------------------------------------------------
(* The invariant holds.                                                     *)

\* What a sweep has still to visit is something when the step comes to it.
LEMMA NextTodo ==
  ASSUME IInv, Next
  PROVE  Todo'
<1> USE DEF IInv, Typed, HeapTyped, EndTyped, Todo
<1>1. ASSUME DelRef \/ DestructNext \/ DestructDone \/ FreeNext PROVE Todo'
  BY <1>1 DEF DelRef, CallDestructor, SkipDestructor, FreeStorage, AddToFreeList, DropReference,
     EndDestructor, Unwind, DestructNext, DestructDone, FreeNext, heapVars, endVars
<1>2. ASSUME NEW v \in Var, NEW x \in Id, var[v] = None, var' = [var EXCEPT ![v] = x], UNCHANGED todo
      PROVE  Todo'
  BY <1>2, Finite
<1>3. ASSUME NEW v \in Var, NEW d, New(v, d) PROVE Todo'
  <2>1. Cardinality(Made) + 1 \in Id
    BY <1>3, NextObject DEF New
  <2>. QED  BY <1>2, <1>3, <2>1 DEF New, endVars
<1>4. ASSUME NEW v \in Var, NEW o \in Id, Assign(v, o) PROVE Todo'
  BY <1>2, <1>4 DEF Assign, endVars
<1>5. ASSUME NEW v \in Var,
             Unset(v) \/ SweepSymbol(v) \/ KeepSymbol(v) \/ SweepGlobal(v) \/ SweepStatic(v)
      PROVE  Todo'
  BY <1>5 DEF Unset, SweepSymbol, KeepSymbol, SweepGlobal, SweepStatic, Sweep, heapVars
<1>6. ASSUME \/ NewFails \/ \E o, w \in Id : SetProperty(o, w)
             \/ \E o \in Id : UnsetProperty(o)
             \/ FatalError \/ Exit
      PROVE  Todo'
  BY <1>6 DEF NewFails, SetProperty, UnsetProperty, FatalError, Exit, heapVars, endVars
<1>7. ASSUME EndScript \/ EndSweep \/ EndDestruct \/ EndGlobals \/ EndStatics \/ EndFree \/ CatchBailout
      PROVE  Todo'
  <2>1. \E p \in Phase, W \in {Set(Global), Set(Static), {}}, i \in Nat : Goto(p, W, i)
    <3>1. ASSUME EndScript \/ EndSweep \/ EndDestruct
          PROVE  \E p \in Phase, W \in {Set(Global), Set(Static), {}}, i \in Nat : Goto(p, W, i)
      BY <3>1, Sets DEF EndScript, EndSweep, EndDestruct
    <3>2. ASSUME EndGlobals \/ EndStatics \/ EndFree
          PROVE  \E p \in Phase, W \in {Set(Global), Set(Static), {}}, i \in Nat : Goto(p, W, i)
      BY <3>2, Sets DEF EndGlobals, EndStatics, EndFree
    <3>3. ASSUME CatchBailout
          PROVE  \E p \in Phase, W \in {Set(Global), Set(Static), {}}, i \in Nat : Goto(p, W, i)
      BY <3>3, Sets DEF CatchBailout
    <3>. QED  BY <1>7, <3>1, <3>2, <3>3
  <2>. QED  BY <2>1 DEF Goto, Set, heapVars
<1>. QED  BY <1>1, <1>3, <1>4, <1>5, <1>6, <1>7 DEF Next, Script, Shutdown

LEMMA DelRefKeeps ==
  ASSUME Typed, Core, Phases, DelRef
  PROVE  Typed' /\ Core'
  BY CallDestructorKeeps, SkipDestructorKeeps, FreeStorageKeeps, AddToFreeListKeeps,
     DropReferenceKeeps, EndDestructorKeeps, UnwindKeeps DEF DelRef

LEMMA ScriptKeeps ==
  ASSUME Typed, Core, Numbered, Phases, Script
  PROVE  Typed' /\ Core' /\ Numbered'
<1>1. Destructors \subseteq BOOLEAN
  BY ObjectsStoreAssumption DEF ObjectsStoreAssumption
<1>2. ASSUME NewFails \/ \E v \in Var, d \in Destructors : New(v, d)
      PROVE  Typed' /\ Core' /\ Numbered'
  BY <1>1, <1>2, NewKeeps, NewFailsKeeps
<1>3. ASSUME \/ \E v \in Var : Unset(v)
             \/ \E v \in Var, o \in Id : Assign(v, o)
             \/ \E o, w \in Id : SetProperty(o, w)
             \/ \E o \in Id : UnsetProperty(o)
             \/ FatalError \/ Exit
      PROVE  Typed' /\ Core' /\ Numbered'
  <2>1. Typed' /\ Core'
    BY <1>3, UnsetKeeps, AssignKeeps, SetPropertyKeeps, UnsetPropertyKeeps, FatalErrorKeeps, ExitKeeps
  <2>2. UNCHANGED <<top, handle>>
    BY <1>3, BucketsStay
  <2>. QED  BY <2>1, <2>2 DEF Numbered
<1>. QED  BY <1>2, <1>3 DEF Script

LEMMA ShutdownKeeps ==
  ASSUME Typed, Core, Phases, Todo, Shutdown
  PROVE  Typed' /\ Core'
<1>1. ASSUME NEW v \in Var, SweepSymbol(v) \/ SweepGlobal(v) \/ SweepStatic(v)
      PROVE  Typed' /\ Core'
  <2>1. var[v] # None /\ stack = <<>> /\ Sweep(v)
    BY <1>1 DEF SweepSymbol, SweepGlobal, SweepStatic, InPhase, Todo
  <2>. QED  BY <2>1, SweepKeeps
<1>2. ASSUME EndScript \/ EndSweep \/ EndDestruct \/ EndGlobals \/ EndStatics \/ EndFree
      PROVE  Typed' /\ Core'
  BY <1>2, PhaseStepsKeep
<1>3. ASSUME DestructNext \/ DestructDone \/ FreeNext \/ CatchBailout
      PROVE  Typed' /\ Core'
  BY <1>3, DestructNextKeeps, DestructDoneKeeps, FreeNextKeeps, CatchBailoutKeeps
<1>4. ASSUME NEW v \in Var, KeepSymbol(v)
      PROVE  Typed' /\ Core'
  BY <1>4, KeepSymbolKeeps
<1>. QED  BY <1>1, <1>2, <1>3, <1>4 DEF Shutdown

LEMMA InvInit ==
  ASSUME Init
  PROVE  IInv
<1>1. Cardinality(Id) \in Nat
  BY Finite
<1>2. Typed
  <2>1. bucket \in [Handle -> Bucket]
    <3>1. 0 \in Int /\ -1 \in Handle \cup {-1} /\ None \in Id \cup {None} /\ FALSE \in BOOLEAN
      OBVIOUS
    <3>. QED  BY <3>1 DEF Init, Bucket
  <2>2. StoreTyped
    <3>1. 1 \in 1..(Cardinality(Id) + 1) /\ InitSize \in Nat /\ 1 <= InitSize /\ 0 \in Nat
      BY <1>1, ObjectsStoreAssumption DEF ObjectsStoreAssumption
    <3>. QED  BY <2>1, <3>1 DEF Init, StoreTyped
  <2>3. HeapTyped
    <3>1. <<>> \in Seq(Call)
      OBVIOUS
    <3>2. bailing \in BOOLEAN /\ stack \in Seq(Call)
      BY <3>1 DEF Init
    <3>3. prop \in [Id -> Id \cup {None}] /\ var \in [Var -> Id \cup {None}]
      BY DEF Init
    <3>. QED  BY <3>2, <3>3 DEF HeapTyped
  <2>4. EndTyped
    BY DEF Init, EndTyped, Phase
  <2>. QED  BY <2>2, <2>3, <2>4 DEF Typed
<1>3. Numbered
  <2>1. 0 \in 0..Cardinality(Id) /\ \A o \in Id : handle[o] = 0 /\ ~ (o <= 0)
    BY <1>1, Finite DEF Init
  <2>2. top <= 0 + 1
    BY DEF Init
  <2>. QED  BY <2>1, <2>2 DEF Numbered
<1>4. Placed
  BY DEF Init, Placed
<1>5. Listed
  <2>1. Free = {}
    BY DEF Init, Free, Handle
  <2>. QED  BY <2>1 DEF Init, Listed
<1>6. \A o \in Id : References(o) = 0 /\ \A w : ~ Has(stack, o, w)
  <2> SUFFICES ASSUME NEW o \in Id PROVE References(o) = 0 /\ \A w : ~ Has(stack, o, w)
    OBVIOUS
  <2>1. {v \in Var : var[v] = o} = {} /\ {p \in Id : prop[p] = o} = {}
    BY Finite DEF Init
  <2>2. Vars(o) = 0 /\ Props(o) = 0
    BY <2>1, FS_EmptySet DEF Vars, Props
  <2>3. Count(stack, o) = 0 /\ \A w : ~ Has(stack, o, w)
    BY CountNone DEF Init
  <2>4. Raised(o) = 0 /\ leaks[o] = 0
    BY DEF Init, Raised
  <2>. QED  BY <1>2, <2>2, <2>3, <2>4, Sum DEF Typed
<1>7. Owned
  BY <1>6 DEF Owned
<1>8. \A o \in Id : ~ Owner(o)
  BY DEF Init, Owner
<1>9. Counted /\ Calls /\ FreedOnce /\ DestructedOnce
  BY <1>6, <1>8 DEF Init, Counted, Calls, FreedOnce, DestructedOnce
<1>10. Phases /\ Todo
  BY DEF Init, Phases, Todo
<1>. QED  BY <1>2, <1>3, <1>4, <1>5, <1>7, <1>9, <1>10 DEF IInv, Core

LEMMA InvNext ==
  ASSUME IInv, [Next]_vars
  PROVE  IInv'
<1>1. CASE DelRef
  <2>1. Typed' /\ Core' /\ Phases' /\ UNCHANGED <<top, handle>>
    BY <1>1, DelRefKeeps, DelRefPhases DEF IInv
  <2>2. Todo'
    BY <1>1, NextTodo DEF Next
  <2>. QED  BY <2>1, <2>2 DEF IInv, Numbered
<1>2. CASE Script
  <2>1. Typed' /\ Core' /\ Numbered'
    BY <1>2, ScriptKeeps DEF IInv
  <2>2. Phases'
    BY <1>2, <2>1, ScriptPhases DEF IInv
  <2>3. Todo'
    BY <1>2, NextTodo DEF Next
  <2>. QED  BY <2>1, <2>2, <2>3 DEF IInv
<1>3. CASE Shutdown
  <2>1. Typed' /\ Core'
    BY <1>3, ShutdownKeeps DEF IInv
  <2>2. Phases' /\ UNCHANGED <<top, handle>>
    BY <1>3, <2>1, ShutdownPhases DEF IInv
  <2>3. Todo'
    BY <1>3, NextTodo DEF Next
  <2>. QED  BY <2>1, <2>2, <2>3 DEF IInv, Numbered
<1>4. CASE UNCHANGED vars
  <2>1. UNCHANGED <<storeVars, heapVars, stack, leaks, destructed, freed>>
        /\ UNCHANGED <<bailing, phase, todo, cursor, hold>>
    BY <1>4 DEF vars, endVars
  <2>2. \A o \in Id : Raised(o)' = Raised(o)
    BY <2>1 DEF Raised, storeVars
  <2>3. Typed' /\ Core'
    BY <2>1, <2>2, StillKeeps DEF IInv, Typed, HeapTyped, EndTyped
  <2>4. Numbered' /\ Phases' /\ Todo'
    BY <2>1 DEF IInv, Numbered, Phases, Todo, storeVars, heapVars
  <2>. QED  BY <2>3, <2>4 DEF IInv
<1>. QED  BY <1>1, <1>2, <1>3, <1>4 DEF Next

LEMMA Invariant == Spec => []IInv
  BY InvInit, InvNext, PTL DEF Spec

-----------------------------------------------------------------------------
(* The theorems.                                                            *)

\* Every variable of the store keeps its type, and top stays within the buckets there are
\* (zend_objects_store_put).
THEOREM StoreIsTyped == Spec => []TypeOK
<1>1. IInv => TypeOK
  BY TypedIsTypeOK DEF IInv
<1>. QED  BY <1>1, Invariant, PTL

\* For any number of objects the count of each is the number of references to it, through
\* destructors that bring it back, releases within releases and bailouts
\* (zend_objects_store_add_ref, zend_objects_store_del_ref).
THEOREM StoreCountsReferences == Spec => []CountsReferences
<1>1. IInv => CountsReferences
  <2> SUFFICES ASSUME IInv, NEW h \in Handle, bucket[h].valid
               PROVE  bucket[h].refcount = References(bucket[h].obj)
    BY DEF CountsReferences
  <2>1. bucket[h].obj \in Id /\ handle[bucket[h].obj] = h /\ h # 0
    BY DEF IInv, Core, Placed, Typed, StoreTyped, Bucket, Handle
  <2>. QED  BY <2>1 DEF IInv, Core, Counted, Owner
<1>. QED  BY <1>1, Invariant, PTL

\* Until the request frees all storages, whatever is referred to is in its bucket, and what is
\* being freed is referred to by the release that frees it alone
\* (zend_objects_store_del_ref_by_handle_ex, zend_objects_store_put).
THEOREM NothingInUseIsFreed == Spec => []NothingDangles
<1>1. IInv => NothingDangles
  <2> SUFFICES ASSUME IInv, phase \notin {"free", "done"}, NEW o \in Id, References(o) > 0
               PROVE  /\ bucket[handle[o]].valid /\ bucket[handle[o]].obj = o
                      /\ \/ freed[o] = 0
                         \/ /\ References(o) = 1
                            /\ \E i \in 1..Len(stack) : stack[i].id = o /\ stack[i].in = "free"
    BY DEF NothingDangles
  <2>1. Owner(o) /\ handle[o] \in Handle /\ bucket[handle[o]].obj = o
    BY DEF IInv, Core, Owned, Owner, Typed, StoreTyped
  <2>2. bucket[handle[o]].valid
    BY <2>1, Finite DEF IInv, Phases
  <2>3. freed[o] = 0 \/ Has(stack, o, "free")
    BY <2>1, <2>2 DEF IInv, Core, FreedOnce, Typed, EndTyped
  <2>. QED  BY <2>1, <2>2, <2>3 DEF IInv, Core, Calls, Has
<1>. QED  BY <1>1, Invariant, PTL

\* No object is destructed twice nor freed twice, whichever part of the code comes to it first:
\* a release, the loop over the destructors or the one over the storages
\* (zend_objects_store_del_ref_by_handle_ex, zend_objects_store_call_destructors,
\* zend_objects_store_free_object_storage).
THEOREM DestructedAndFreedOnce == Spec => []OnceEach
<1>1. IInv => OnceEach
  BY DEF IInv, Core, FreedOnce, DestructedOnce, OnceEach
<1>. QED  BY <1>1, Invariant, PTL

-----------------------------------------------------------------------------
(* The free list has every free handle.                                     *)

Chained == phase \notin {"free", "done"} =>
  \E s \in [1..Cardinality(Unused) -> Unused] : Follows(bucket, free_list_head, s, Cardinality(Unused))

LEMMA UnusedFacts ==
  ASSUME Typed
  PROVE  /\ IsFiniteSet(Unused) /\ Cardinality(Unused) \in Nat /\ Unused \subseteq Handle
         /\ top \in Nat /\ top >= 1
<1>1. top \in Nat /\ top >= 1 /\ top - 1 <= Cardinality(Id) /\ Cardinality(Id) \in Nat
  BY Finite DEF Typed, StoreTyped
<1>2. IsFiniteSet(1..(top - 1))
  BY <1>1, FS_Interval
<1>3. Unused \in SUBSET (1..(top - 1)) /\ Unused \subseteq Handle
  BY <1>1 DEF Unused, Handle
<1>4. IsFiniteSet(Unused)
  BY <1>2, <1>3, FS_Subset
<1>. QED  BY <1>1, <1>3, <1>4, FS_CardinalityType

\* A step that leaves handles in use in use and the links alone.
LEMMA ListStays ==
  ASSUME Typed, Chained, phase' \notin {"free", "done"} => phase \notin {"free", "done"},
         \A h \in Handle : bucket'[h].valid = bucket[h].valid /\ bucket'[h].next = bucket[h].next,
         UNCHANGED <<top, free_list_head>>
  PROVE  Chained'
<1> SUFFICES ASSUME phase' \notin {"free", "done"}
             PROVE  \E s \in [1..Cardinality(Unused') -> Unused'] : Follows(bucket', free_list_head', s, Cardinality(Unused'))
  BY DEF Chained
<1>1. Unused' = Unused
  BY DEF Unused, Valid
<1>2. PICK s \in [1..Cardinality(Unused) -> Unused] : Follows(bucket, free_list_head, s, Cardinality(Unused))
  BY DEF Chained
<1>3. \A i \in 1..Cardinality(Unused) : s[i] \in Handle
  BY UnusedFacts
<1>4. Follows(bucket', free_list_head', s, Cardinality(Unused))
  BY <1>1, <1>2, <1>3 DEF Follows
<1>. QED  BY <1>1, <1>4

\* The handle of a freed object becomes the head.
LEMMA HandleIsListed ==
  ASSUME Typed, Core, Phases, Chained, AddToFreeList
  PROVE  Chained'
<1>0. stack # <<>> /\ Top.in = "free"
  BY DEF AddToFreeList, In
<1>1. PICK o \in Id : o = Top.id /\ Owner(o) /\ handle[o] \in Handle /\ bucket[handle[o]].obj = o
  BY <1>0, TopOwned DEF Core, Owner
<1> DEFINE h == handle[o]
<1>2. bucket[h].valid /\ h < top /\ h \in Handle
  BY <1>0, <1>1, CountBelow DEF Core, Calls, Placed, Typed, HeapTyped
<1>3. /\ free_list_head' = h /\ UNCHANGED <<top, phase>>
      /\ bucket' = [bucket EXCEPT
           ![h].valid = FALSE, ![h].next = free_list_head, ![h].obj = None,
           ![h].refcount = IF Top.at = moves THEN @ - 1 ELSE @]
  BY <1>1 DEF AddToFreeList, endVars
<1>4. /\ \A k \in Handle \ {h} : bucket'[k] = bucket[k]
      /\ bucket'[h].next = free_list_head /\ ~ bucket'[h].valid
  <2> DEFINE b == bucket[h]
             d == [b EXCEPT !.valid = FALSE, !.next = free_list_head, !.obj = None]
             n == IF Top.at = moves THEN b.refcount - 1 ELSE b.refcount
             c == [d EXCEPT !.refcount = n]
  <2>1. b \in Bucket
    BY <1>2 DEF Typed, StoreTyped
  <2>2. bucket' = [bucket EXCEPT ![h] = c]
    BY <1>2, <1>3, <2>1 DEF Typed, StoreTyped, Bucket
  <2>3. d.next = free_list_head /\ ~ d.valid /\ DOMAIN d = DOMAIN b
    BY <2>1 DEF Bucket
  <2> HIDE DEF d
  <2>4. c.next = free_list_head /\ ~ c.valid
    BY <2>1, <2>3 DEF Bucket
  <2> HIDE DEF c
  <2>. QED  BY <1>2, <2>2, <2>4 DEF Typed, StoreTyped
<1> HIDE DEF h
<1> SUFFICES ASSUME phase' \notin {"free", "done"}
             PROVE  \E s \in [1..Cardinality(Unused') -> Unused'] : Follows(bucket', free_list_head', s, Cardinality(Unused'))
  BY DEF Chained
<1>5. Unused' = Unused \cup {h} /\ h \notin Unused
  <2>1. \A k \in 1..(top - 1) : k \in Handle
    BY Finite DEF Typed, StoreTyped, Handle
  <2>2. h \in 1..(top - 1)
    BY <1>2, UnusedFacts DEF Handle
  <2>. QED  BY <1>2, <1>3, <1>4, <2>1, <2>2 DEF Unused, Valid
<1> DEFINE n == Cardinality(Unused)
<1>6. Cardinality(Unused') = n + 1 /\ n \in Nat
  BY <1>5, UnusedFacts, FS_AddElement
<1>7. PICK s \in [1..n -> Unused] : Follows(bucket, free_list_head, s, n)
  BY <1>3 DEF Chained
<1> HIDE DEF n
<1> DEFINE t == [i \in 1..(n + 1) |-> IF i = 1 THEN h ELSE s[i - 1]]
<1>8. \A i \in 1..(n + 1) : i = 1 \/ i - 1 \in 1..n
  BY <1>6
<1>9. t \in [1..(n + 1) -> Unused']
  BY <1>5, <1>7, <1>8
<1>10. Follows(bucket', free_list_head', t, n + 1)
  <2>1. \A i, j \in 1..(n + 1) : t[i] = t[j] => i = j
    BY <1>5, <1>6, <1>7, <1>8 DEF Follows
  <2>2. t[1] = h /\ n + 1 # 0 /\ 1 \in 1..(n + 1)
    BY <1>6
  <2>3. ASSUME NEW i \in 1..(n + 1)
        PROVE  bucket'[t[i]].next = IF i = n + 1 THEN -1 ELSE t[i + 1]
    <3>1. CASE i = 1
      <4>1. n = 0 \/ t[2] = s[1]
        BY <1>6, <1>8
      <4>. QED  BY <1>4, <1>6, <1>7, <2>2, <3>1, <4>1 DEF Follows
    <3>2. CASE i # 1
      <4>1. i - 1 \in 1..n /\ t[i] = s[i - 1] /\ s[i - 1] \in Handle \ {h}
        BY <1>5, <1>6, <1>7, <1>8, <3>2, UnusedFacts
      <4>2. bucket[s[i - 1]].next = IF i - 1 = n THEN -1 ELSE s[i]
        BY <1>6, <1>7, <4>1 DEF Follows
      <4>3. i # n + 1 => t[i + 1] = s[i]
        BY <1>6
      <4>4. i = n + 1 <=> i - 1 = n
        BY <1>6
      <4>. QED  BY <1>4, <4>1, <4>2, <4>3, <4>4
    <3>. QED  BY <3>1, <3>2
  <2>. QED  BY <1>3, <2>1, <2>2, <2>3 DEF Follows
<1>. QED  BY <1>6, <1>9, <1>10

\* A new object takes the head, or a handle that was not used before.
LEMMA HeadIsTaken ==
  ASSUME Typed, Core, Numbered, Chained, Made # Id, NEW d, NEW called,
         Put(Cardinality(Made) + 1, d, called), UNCHANGED phase
  PROVE  Chained'
<1> DEFINE h == IF free_list_head # -1 THEN free_list_head ELSE top
<1>1. h \in Handle
  BY NextObject
<1>2. /\ free_list_head' = IF free_list_head # -1 THEN bucket[h].next ELSE -1
      /\ top' = IF free_list_head # -1 THEN top ELSE top + 1
  BY DEF Put
<1>3. bucket'[h].valid /\ \A k \in Handle \ {h} : bucket'[k] = bucket[k]
  BY <1>1 DEF Put, Typed, StoreTyped
<1>h. h = IF free_list_head # -1 THEN free_list_head ELSE top
  OBVIOUS
<1> HIDE DEF h
<1> SUFFICES ASSUME phase' \notin {"free", "done"}
             PROVE  \E s \in [1..Cardinality(Unused') -> Unused'] : Follows(bucket', free_list_head', s, Cardinality(Unused'))
  BY DEF Chained
<1> DEFINE n == Cardinality(Unused)
<1>4. PICK s \in [1..n -> Unused] : Follows(bucket, free_list_head, s, n)
  BY DEF Chained
<1>5. n \in Nat /\ IsFiniteSet(Unused) /\ \A i \in 1..n : s[i] \in Unused /\ s[i] \in Handle /\ s[i] # -1
  BY <1>4, UnusedFacts DEF Handle
<1>6. Unused' = {k \in 1..(top' - 1) : k \notin Handle \/ ~ bucket'[k].valid}
      /\ Unused = {k \in 1..(top - 1) : k \notin Handle \/ ~ bucket[k].valid}
  BY DEF Unused, Valid
<1>7. CASE free_list_head = -1
  <2>1. h = top /\ top' = top + 1 /\ free_list_head' = -1 /\ top \in Nat /\ top >= 1
    BY <1>2, <1>7, <1>h, UnusedFacts
  <2>2. \A k \in 1..(top' - 1) : k = top \/ k \in 1..(top - 1)
    BY <2>1
  <2>3. \A k \in 1..(top - 1) : k \in 1..(top' - 1) /\ k # top
    BY <2>1
  <2>4. Unused' = Unused
    BY <1>1, <1>3, <1>6, <2>1, <2>2, <2>3
  <2>5. n = 0
    BY <1>4, <1>5, <1>7 DEF Follows
  <2> HIDE DEF n
  <2>6. Follows(bucket', free_list_head', s, n)
    BY <2>1, <2>5 DEF Follows
  <2>. QED  BY <1>4, <2>4, <2>6 DEF n
<1>8. CASE free_list_head # -1
  <2>1. h = free_list_head /\ top' = top /\ free_list_head' = bucket[h].next
    BY <1>2, <1>8, <1>h
  <2>2. n # 0 /\ h = s[1] /\ 1 \in 1..n /\ h \in Unused
    BY <1>4, <1>5, <1>8, <2>1 DEF Follows
  <2>3. Unused' = Unused \ {h}
    BY <1>1, <1>3, <1>6, <2>1
  <2>4. Cardinality(Unused') = n - 1
    BY <1>5, <2>2, <2>3, FS_RemoveElement
  <2> HIDE DEF n
  <2> DEFINE t == [i \in 1..(n - 1) |-> s[i + 1]]
  <2>5. \A i \in 1..(n - 1) : i \in 1..n /\ i + 1 \in 1..n /\ i + 1 # 1
    BY <1>5
  <2>6. t \in [1..(n - 1) -> Unused']
    BY <1>4, <1>5, <2>2, <2>3, <2>5 DEF Follows
  <2>7. \A i, j \in 1..(n - 1) : t[i] = t[j] => i = j
    BY <1>4, <1>5, <2>5 DEF Follows
  <2>8. free_list_head' = IF n - 1 = 0 THEN -1 ELSE t[1]
    <3>1. bucket[s[1]].next = IF 1 = n THEN -1 ELSE s[2]
      BY <1>4, <2>2 DEF Follows
    <3>2. n # 1 => t[1] = s[2]
      BY <1>5, <2>2
    <3>. QED  BY <1>5, <2>1, <2>2, <3>1, <3>2
  <2>9. ASSUME NEW i \in 1..(n - 1)
        PROVE  bucket'[t[i]].next = IF i = n - 1 THEN -1 ELSE t[i + 1]
    <3>1. t[i] = s[i + 1] /\ s[i + 1] \in Handle \ {h} /\ i + 1 \in 1..n
      BY <1>4, <1>5, <2>2, <2>5 DEF Follows
    <3>2. bucket[s[i + 1]].next = IF i + 1 = n THEN -1 ELSE s[(i + 1) + 1]
      BY <1>4, <3>1 DEF Follows
    <3>3. i # n - 1 => t[i + 1] = s[(i + 1) + 1]
      BY <1>5
    <3>4. i = n - 1 <=> i + 1 = n
      BY <1>5
    <3>. QED  BY <1>3, <3>1, <3>2, <3>3, <3>4
  <2>10. Follows(bucket', free_list_head', t, n - 1)
    BY <2>7, <2>8, <2>9 DEF Follows
  <2>. QED  BY <2>4, <2>6, <2>10
<1>. QED  BY <1>7, <1>8

LEMMA ChainedNext ==
  ASSUME IInv, Chained, [Next]_vars
  PROVE  Chained'
<1>0. Typed /\ Core /\ Numbered /\ Phases
  BY DEF IInv
<1>1. ASSUME \/ CallDestructor \/ SkipDestructor \/ FreeStorage \/ DropReference \/ EndDestructor \/ Unwind
             \/ \E v \in Var : Unset(v) \/ SweepSymbol(v) \/ KeepSymbol(v) \/ SweepGlobal(v) \/ SweepStatic(v)
             \/ \E v \in Var, o \in Id : Assign(v, o)
             \/ \E o, w \in Id : SetProperty(o, w)
             \/ \E o \in Id : UnsetProperty(o)
             \/ FatalError \/ Exit
      PROVE  Chained'
  BY <1>0, <1>1, BucketsStay, ListStays
<1>2. CASE AddToFreeList
  BY <1>0, <1>2, HandleIsListed
<1>3. ASSUME NEW v \in Var, NEW d \in Destructors, New(v, d) PROVE Chained'
  BY <1>0, <1>3, HeadIsTaken DEF New, endVars
<1>4. CASE NewFails
  BY <1>0, <1>4, HeadIsTaken DEF NewFails, endVars
<1>5. \A h \in Handle : bucket[h] \in Bucket
  BY <1>0 DEF Typed, StoreTyped
<1>6. \A b \in Bucket, x \in BOOLEAN :
        LET c == [b EXCEPT !.destructor_called = x] IN c.valid = b.valid /\ c.next = b.next
  BY DEF Bucket
<1>7. ASSUME EndScript \/ EndSweep \/ EndDestruct \/ EndGlobals \/ EndStatics \/ EndFree
      PROVE  Chained'
  <2>1. UNCHANGED <<bucket, top, free_list_head>> /\ (phase = "free" => phase' = "done") /\ phase # "done"
    BY <1>7 DEF EndScript, EndSweep, EndDestruct, EndGlobals, EndStatics, EndFree, InPhase, Goto, storeVars
  <2>. QED  BY <1>0, <2>1, ListStays
<1>8. CASE DestructNext
  <2>1. UNCHANGED <<top, free_list_head, phase>> /\ cursor < top /\ cursor \in Handle
    <3>1. cursor >= 1 /\ cursor < top /\ UNCHANGED <<top, free_list_head, phase>>
      BY <1>0, <1>8 DEF DestructNext, InPhase, Phases
    <3>. QED  BY <1>0, <3>1, Finite DEF Typed, StoreTyped, EndTyped, Handle
  <2>2. bucket[cursor] \in Bucket /\ 2 \in Int
    BY <1>5, <2>1
  <2> DEFINE c == [bucket[cursor] EXCEPT !.destructor_called = TRUE, !.refcount = @ + 2]
  <2>3. c.valid = bucket[cursor].valid /\ c.next = bucket[cursor].next
    <3> DEFINE b == bucket[cursor]
    <3> HIDE DEF b
    <3>1. b \in Bucket => LET e == [b EXCEPT !.destructor_called = TRUE, !.refcount = @ + 2]
                          IN  e.valid = b.valid /\ e.next = b.next
      BY <2>2, Marked
    <3>. QED  BY <2>2, <3>1 DEF b
  <2>4. \/ bucket' = [bucket EXCEPT ![cursor] = c]
        \/ bucket' = [bucket EXCEPT ![cursor].destructor_called = @ \/ bucket[cursor].valid]
    BY <1>0, <1>8, <2>1 DEF DestructNext, Typed, StoreTyped
  <2> HIDE DEF c
  <2>5. CASE bucket' = [bucket EXCEPT ![cursor] = c]
    BY <1>0, <2>1, <2>3, <2>5, ListStays DEF Typed, StoreTyped
  <2>6. CASE bucket' = [bucket EXCEPT ![cursor].destructor_called = @ \/ bucket[cursor].valid]
    <3>1. \A h \in Handle : bucket'[h].valid = bucket[h].valid /\ bucket'[h].next = bucket[h].next
      BY <1>0, <2>1, <2>6 DEF Typed, StoreTyped, Bucket
    <3>. QED  BY <1>0, <2>1, <3>1, ListStays
  <2>. QED  BY <2>4, <2>5, <2>6
<1>9. CASE DestructDone
  <2>1. UNCHANGED <<top, free_list_head, phase>> /\ bucket' = [bucket EXCEPT ![cursor].refcount = @ - 1]
    BY <1>9 DEF DestructDone
  <2>2. \A h \in Handle : bucket'[h].valid = bucket[h].valid /\ bucket'[h].next = bucket[h].next
    BY <1>0, <1>5, <2>1 DEF Typed, StoreTyped, Bucket
  <2>. QED  BY <1>0, <2>1, <2>2, ListStays
<1>10. CASE FreeNext
  BY <1>10 DEF FreeNext, InPhase, Chained
<1>11. CASE CatchBailout
  <2>1. UNCHANGED <<top, free_list_head>> /\ (bucket' = bucket \/ MarkDestructed)
    BY <1>11 DEF CatchBailout
  <2>2. phase' \notin {"free", "done"} => phase \notin {"free", "done"}
    BY <1>11 DEF CatchBailout, Goto
  <2>3. \A h \in Handle : bucket'[h].valid = bucket[h].valid /\ bucket'[h].next = bucket[h].next
    BY <1>5, <1>6, <2>1 DEF MarkDestructed
  <2>. QED  BY <1>0, <2>1, <2>2, <2>3, ListStays
<1>12. CASE UNCHANGED vars
  BY <1>0, <1>12, ListStays DEF vars, storeVars, endVars
<1>. QED  BY <1>1, <1>2, <1>3, <1>4, <1>7, <1>8, <1>9, <1>10, <1>11, <1>12
          DEF Next, DelRef, Script, Shutdown

\* Until the request frees all storages every handle below top is in use or in the free list,
\* once, for any number of objects: ZEND_OBJECTS_STORE_ADD_TO_FREE_LIST loses none and
\* zend_objects_store_put gives none to two objects.
THEOREM NoHandleIsLost == Spec => []FreeHandles
<1>1. Init => Chained
  <2> SUFFICES ASSUME Init PROVE \E s \in [1..Cardinality(Unused) -> Unused] : Follows(bucket, free_list_head, s, Cardinality(Unused))
    BY DEF Chained
  <2>1. Unused = {} /\ free_list_head = -1
    BY DEF Init, Unused
  <2>2. Cardinality(Unused) = 0
    BY <2>1, FS_EmptySet
  <2> DEFINE s == [i \in 1..0 |-> 0]
  <2>3. s \in [1..0 -> Unused]
    OBVIOUS
  <2>4. Follows(bucket, free_list_head, s, 0)
    BY <2>1 DEF Follows
  <2>. QED  BY <2>2, <2>3, <2>4
<1>2. IInv /\ Chained /\ [Next]_vars => Chained'
  BY ChainedNext
<1>3. IInv /\ Chained => FreeHandles
  BY TypedIsTypeOK DEF IInv, Chained, FreeHandles
<1>. QED  BY <1>1, <1>2, <1>3, Invariant, PTL DEF Spec
=============================================================================
