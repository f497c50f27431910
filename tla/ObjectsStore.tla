---------------------------- MODULE ObjectsStore ----------------------------
(***************************************************************************)
(* Zend/zend_objects_API.c: the store that gives the objects of a request   *)
(* their handles, calls their destructors and frees them, from the script   *)
(* to the end of the request (shutdown_destructors and shutdown_executor of *)
(* Zend/zend_execute_API.c).                                                *)
(*                                                                         *)
(* Nothing runs concurrently, but a release of a reference calls user code  *)
(* that creates, copies and releases others and may end in a bailout (a     *)
(* longjmp to the nearest zend_try): `stack' holds the calls in progress.   *)
(*                                                                         *)
(* A variable stands for the variables and elements that share one zval,    *)
(* the unit that counts in the store; an object has one property. What the  *)
(* cycle collector does to the store is in GcCycle.                         *)
(***************************************************************************)
EXTENDS Integers, Sequences, FiniteSets

CONSTANTS
  Id,        \* objects, in the order they are made: 1..n (bound)
  Global,    \* global variables
  Static,    \* static variables of functions and classes
  None,      \* no object
  InitSize,  \* how many buckets the store starts with (1024)
  Destructors \* which classes the script has: with a destructor, without, or both

Var == Global \cup Static
Handle == 1..Cardinality(Id)

ASSUME ObjectsStoreAssumption ==
  /\ IsFiniteSet(Id) /\ Id = 1..Cardinality(Id)
  /\ IsFiniteSet(Global) /\ IsFiniteSet(Static) /\ Global \cap Static = {}
  /\ None \notin Id
  /\ InitSize \in Nat \ {0, 1}
  /\ Destructors \subseteq BOOLEAN

VARIABLES
  bucket,          \* the buckets of the store; the members of their union are apart
  top,             \* objects->top: handles below it have been in use
  size,            \* objects->size: how many buckets are allocated
  free_list_head,  \* objects->free_list_head
  moves,           \* how often the buckets were reallocated
  handle,          \* the handle each object was given, 0 before it is made
  destructor,      \* whether the class of an object has a destructor
  prop,            \* what the property of each object refers to
  var,             \* what each variable refers to
  stack,           \* calls in progress, the innermost last
  bailing,         \* a bailout is looking for its zend_try
  phase,           \* where the request is
  todo,            \* variables the sweep over a table has still to visit
  cursor,          \* i, or the number of symbols, of the loop in progress
  hold,            \* zend_objects_store_call_destructors has raised a count
  leaks,           \* counts that a bailout left raised, of each object
  destructed,      \* how often the destructor of each object was called
  freed            \* how often the storage of each object was freed

storeVars == <<bucket, top, size, free_list_head, moves, handle, destructor>>
heapVars == <<prop, var>>
endVars == <<phase, todo, cursor, hold>>
vars == <<storeVars, heapVars, stack, bailing, endVars, leaks, destructed, freed>>

Phase == {"run", "symbols", "destruct", "globals", "statics", "free", "done"}

\* A call: user code of a destructor, or a release that is at its start, in the
\* destructor or in free_storage. `at' is the store that its obj points into.
Call == [in : {"user", "enter", "dtor", "free"}, id : Id, failure : BOOLEAN, at : Nat]

TypeOK ==
  /\ bucket \in [Handle -> [valid : BOOLEAN, destructor_called : BOOLEAN,
                            refcount : Int, obj : Id \cup {None}, next : Handle \cup {-1}]]
  /\ top \in 1..(Cardinality(Id) + 1) /\ size \in Nat /\ top <= size
  /\ free_list_head \in Handle \cup {-1} /\ moves \in Nat
  /\ handle \in [Id -> Handle \cup {0}]
  /\ destructor \in [Id -> BOOLEAN]
  /\ prop \in [Id -> Id \cup {None}] /\ var \in [Var -> Id \cup {None}]
  /\ stack \in Seq(Call) /\ bailing \in BOOLEAN
  /\ phase \in Phase /\ todo \subseteq Var /\ cursor \in Nat /\ hold \in BOOLEAN
  /\ leaks \in [Id -> Nat] /\ destructed \in [Id -> Nat] /\ freed \in [Id -> Nat]

Init ==
  /\ bucket = [h \in Handle |-> [valid |-> FALSE, destructor_called |-> FALSE,
                                 refcount |-> 0, obj |-> None, next |-> -1]]
  /\ top = 1 /\ size = InitSize /\ free_list_head = -1 /\ moves = 0
  /\ handle = [o \in Id |-> 0] /\ destructor = [o \in Id |-> FALSE]
  /\ prop = [o \in Id |-> None] /\ var = [v \in Var |-> None]
  /\ stack = <<>> /\ bailing = FALSE
  /\ phase = "run" /\ todo = {} /\ cursor = 0 /\ hold = FALSE
  /\ leaks = [o \in Id |-> 0]
  /\ destructed = [o \in Id |-> 0] /\ freed = [o \in Id |-> 0]

-----------------------------------------------------------------------------
(* The stack of calls.                                                      *)

Top == stack[Len(stack)]
Below == SubSeq(stack, 1, Len(stack) - 1)
In(where) == stack # <<>> /\ ~ bailing /\ Top.in = where

User(o)    == [in |-> "user", id |-> o, failure |-> FALSE, at |-> 0]
\* obj = &EG(objects_store).object_buckets[handle].bucket.obj
Release(o) == [in |-> "enter", id |-> o, failure |-> FALSE, at |-> moves]

\* The innermost call returns; a release that caught a bailout passes it on.
Return == stack' = Below /\ bailing' = Top.failure

\* The counts of the store, changed through a handle.
Add(o, n) == bucket' = [bucket EXCEPT ![handle[o]].refcount = @ + n]

-----------------------------------------------------------------------------
(* zend_objects_store_del_ref_by_handle_ex.                                 *)

\* Mutant: destructor_called is not set.
CallDestructorUnmarked ==
  LET b == bucket[handle[Top.id]] IN
  /\ In("enter") /\ b.valid /\ b.refcount = 1 /\ ~ b.destructor_called /\ destructor[b.obj]
  /\ Add(Top.id, 1)
  /\ destructed' = [destructed EXCEPT ![b.obj] = @ + 1]
  /\ stack' = Below \o <<[Top EXCEPT !.in = "dtor"], User(b.obj)>>
  /\ UNCHANGED <<top, size, free_list_head, moves, handle, destructor, heapVars, bailing,
                 endVars, leaks, freed>>

\* The last reference to an object whose destructor has not been called calls
\* it, with a zval of its own for $this.
CallDestructor ==
  LET b == bucket[handle[Top.id]] IN
  /\ In("enter") /\ b.valid /\ b.refcount = 1 /\ ~ b.destructor_called /\ destructor[b.obj]
  /\ bucket' = [bucket EXCEPT ![handle[Top.id]].destructor_called = TRUE,
                              ![handle[Top.id]].refcount = @ + 1]
  /\ destructed' = [destructed EXCEPT ![b.obj] = @ + 1]
  /\ stack' = Below \o <<[Top EXCEPT !.in = "dtor"], User(b.obj)>>
  /\ UNCHANGED <<top, size, free_list_head, moves, handle, destructor, heapVars, bailing,
                 endVars, leaks, freed>>

\* Nothing to call.
SkipDestructor ==
  LET b == bucket[handle[Top.id]] IN
  /\ In("enter") /\ b.valid /\ b.refcount = 1 /\ (b.destructor_called \/ ~ destructor[b.obj])
  /\ bucket' = [bucket EXCEPT ![handle[Top.id]].destructor_called = TRUE]
  /\ stack' = Below \o <<[Top EXCEPT !.in = "dtor"]>>
  /\ UNCHANGED <<top, size, free_list_head, moves, handle, destructor, heapVars, bailing,
                 endVars, leaks, destructed, freed>>

\* Mutant: the count is not looked at again after the destructor.
FreeStorageAnyway ==
  LET o == bucket[handle[Top.id]].obj IN
  /\ In("dtor")
  /\ freed' = [freed EXCEPT ![o] = @ + 1]
  /\ prop' = [prop EXCEPT ![o] = None]
  /\ stack' = Below \o <<[Top EXCEPT !.in = "free", !.at = moves]>>
                    \o IF prop[o] = None THEN <<>> ELSE <<Release(prop[o])>>
  /\ UNCHANGED <<storeVars, var, bailing, endVars, leaks, destructed>>

\* Still the last reference after the destructor: free_storage releases what
\* the property refers to.
FreeStorage ==
  LET o == bucket[handle[Top.id]].obj IN
  /\ In("dtor") /\ bucket[handle[Top.id]].refcount = 1
  /\ freed' = [freed EXCEPT ![o] = @ + 1]
  /\ prop' = [prop EXCEPT ![o] = None]
  /\ stack' = Below \o <<[Top EXCEPT !.in = "free", !.at = moves]>>
                    \o IF prop[o] = None THEN <<>> ELSE <<Release(prop[o])>>
  /\ UNCHANGED <<storeVars, var, bailing, endVars, leaks, destructed>>

\* ZEND_OBJECTS_STORE_ADD_TO_FREE_LIST, and the count goes down where obj points:
\* in memory the store has left if it moved during free_storage.
AddToFreeList ==
  /\ In("free")
  /\ bucket' = [bucket EXCEPT
       ![handle[Top.id]].valid = FALSE, ![handle[Top.id]].next = free_list_head,
       ![handle[Top.id]].obj = None,
       ![handle[Top.id]].refcount = IF Top.at = moves THEN @ - 1 ELSE @]
  /\ free_list_head' = handle[Top.id]
  /\ Return
  /\ UNCHANGED <<top, size, moves, handle, destructor, heapVars, endVars, leaks,
                 destructed, freed>>

\* Other references are left, or the destructor has made some, or the object is
\* gone already: only the count goes down.
DropReference ==
  LET b == bucket[handle[Top.id]] IN
  /\ \/ In("enter") /\ (~ b.valid \/ b.refcount # 1)
     \/ In("dtor") /\ b.refcount # 1
  /\ Add(Top.id, -1)
  /\ Return
  /\ UNCHANGED <<top, size, free_list_head, moves, handle, destructor, heapVars, endVars, leaks,
                 destructed, freed>>

\* Mutant: the zval of $this is forgotten.
EndDestructorLeak ==
  /\ In("user")
  /\ stack' = Below
  /\ UNCHANGED <<storeVars, heapVars, bailing, endVars, leaks, destructed, freed>>

\* The end of a destructor: zend_objects_destroy_object releases its zval.
EndDestructor ==
  /\ In("user")
  /\ stack' = Below \o <<Release(Top.id)>>
  /\ UNCHANGED <<storeVars, heapVars, bailing, endVars, leaks, destructed, freed>>

-----------------------------------------------------------------------------
(* User code: the script, or a destructor with its $this.                   *)

UserCode == ~ bailing /\ IF stack = <<>> THEN phase = "run" ELSE Top.in = "user"

\* The objects that the code has in hand, and those one property away.
Held == ({var[v] : v \in Var} \cup (IF stack = <<>> THEN {} ELSE {Top.id})) \ {None}
Reach == Held \cup ({prop[o] : o \in Held} \ {None})

Made == {o \in Id : handle[o] # 0}
Valid == {h \in Handle : bucket[h].valid}

\* Mutant: the free list is not advanced.
PutAgain(o, d, called) ==
  LET h == IF free_list_head # -1 THEN free_list_head ELSE top IN
  /\ bucket' = [bucket EXCEPT ![h] = [valid |-> TRUE, destructor_called |-> called,
                                      refcount |-> 1, obj |-> o, next |-> -1]]
  /\ UNCHANGED free_list_head
  /\ IF free_list_head # -1 THEN UNCHANGED <<top, size, moves>>
     ELSE /\ top' = top + 1
          /\ IF top = size THEN size' = 2 * size /\ moves' = moves + 1
                           ELSE UNCHANGED <<size, moves>>
  /\ handle' = [handle EXCEPT ![o] = h]
  /\ destructor' = [destructor EXCEPT ![o] = d]

\* zend_objects_store_put: a handle of the free list, or the next one; the
\* buckets move when they are full.
Put(o, d, called) ==
  LET h == IF free_list_head # -1 THEN free_list_head ELSE top IN
  /\ bucket' = [bucket EXCEPT ![h] = [valid |-> TRUE, destructor_called |-> called,
                                      refcount |-> 1, obj |-> o, next |-> -1]]
  /\ free_list_head' = IF free_list_head # -1 THEN bucket[h].next ELSE -1
  /\ IF free_list_head # -1 THEN UNCHANGED <<top, size, moves>>
     ELSE /\ top' = top + 1
          /\ IF top = size THEN size' = 2 * size /\ moves' = moves + 1
                           ELSE UNCHANGED <<size, moves>>
  /\ handle' = [handle EXCEPT ![o] = h]
  /\ destructor' = [destructor EXCEPT ![o] = d]

\* $v = new C
New(v, d) ==
  /\ UserCode /\ var[v] = None /\ Made # Id
  /\ LET o == Cardinality(Made) + 1 IN Put(o, d, FALSE) /\ var' = [var EXCEPT ![v] = o]
  /\ UNCHANGED <<prop, stack, bailing, endVars, leaks, destructed, freed>>

\* new C where the constructor throws: zend_object_store_ctor_failed, and the
\* object goes without its destructor.
NewFails ==
  /\ UserCode /\ Made # Id
  /\ LET o == Cardinality(Made) + 1 IN Put(o, TRUE, TRUE) /\ stack' = Append(stack, Release(o))
  /\ UNCHANGED <<heapVars, bailing, endVars, leaks, destructed, freed>>

\* $v = $w, $v = $w->p, $v = $this: zend_objects_store_add_ref.
Assign(v, o) ==
  /\ UserCode /\ var[v] = None /\ o \in Reach
  /\ var' = [var EXCEPT ![v] = o] /\ Add(o, 1)
  /\ UNCHANGED <<top, size, free_list_head, moves, handle, destructor, prop, stack, bailing,
                 endVars, leaks, destructed, freed>>

\* $o->p = $w
SetProperty(o, w) ==
  /\ UserCode /\ o \in Held /\ w \in Held /\ prop[o] = None
  /\ prop' = [prop EXCEPT ![o] = w] /\ Add(w, 1)
  /\ UNCHANGED <<top, size, free_list_head, moves, handle, destructor, var, stack, bailing,
                 endVars, leaks, destructed, freed>>

\* unset($v): the variable is gone before the release starts.
Unset(v) ==
  /\ UserCode /\ var[v] # None
  /\ var' = [var EXCEPT ![v] = None] /\ todo' = todo \ {v}
  /\ stack' = Append(stack, Release(var[v]))
  /\ UNCHANGED <<storeVars, prop, bailing, phase, cursor, hold, leaks, destructed, freed>>

\* unset($o->p)
UnsetProperty(o) ==
  /\ UserCode /\ o \in Held /\ prop[o] # None
  /\ prop' = [prop EXCEPT ![o] = None]
  /\ stack' = Append(stack, Release(prop[o]))
  /\ UNCHANGED <<storeVars, var, bailing, endVars, leaks, destructed, freed>>

MarkDestructed ==
  bucket' = [h \in Handle |-> IF h < top /\ bucket[h].valid
                              THEN [bucket[h] EXCEPT !.destructor_called = TRUE] ELSE bucket[h]]

\* A fatal error: zend_objects_store_mark_destructed, then zend_bailout.
FatalError ==
  /\ UserCode /\ MarkDestructed /\ bailing' = TRUE
  /\ UNCHANGED <<top, size, free_list_head, moves, handle, destructor, heapVars, stack, endVars,
                 leaks, destructed, freed>>

\* exit
Exit ==
  /\ UserCode /\ bailing' = TRUE
  /\ UNCHANGED <<storeVars, heapVars, stack, endVars, leaks, destructed, freed>>

\* The bailout leaves a destructor, and the zval for its $this behind; the
\* release that called it catches it and goes on.
Unwind ==
  /\ bailing /\ stack # <<>>
  /\ IF Top.in = "user"
     THEN stack' = Below /\ leaks' = [leaks EXCEPT ![Top.id] = @ + 1] /\ UNCHANGED bailing
     ELSE stack' = Below \o <<[Top EXCEPT !.failure = TRUE]>> /\ bailing' = FALSE /\ UNCHANGED leaks
  /\ UNCHANGED <<storeVars, heapVars, endVars, destructed, freed>>

-----------------------------------------------------------------------------
(* The end of the request.                                                  *)

InPhase(p) == phase = p /\ stack = <<>> /\ ~ bailing
Set(W) == {v \in W : var[v] # None}

Sweep(v) ==
  /\ var' = [var EXCEPT ![v] = None] /\ todo' = todo \ {v}
  /\ stack' = <<Release(var[v])>>
  /\ UNCHANGED <<storeVars, prop, bailing, phase, cursor, hold, leaks, destructed, freed>>

Goto(p, W, i) ==
  /\ phase' = p /\ todo' = W /\ cursor' = i /\ hold' = FALSE
  /\ UNCHANGED <<heapVars, stack, freed>>

\* The script is over.
EndScript ==
  /\ InPhase("run") /\ Goto("symbols", Set(Global), Cardinality(Set(Global)))
  /\ UNCHANGED <<storeVars, bailing, leaks, destructed>>

\* shutdown_destructors: over the symbol table, until its size does not change.
\* zval_call_destructor deletes a variable that alone has its zval and keeps one
\* whose zval something else shares (its Z_REFCOUNT is not 1); who shares a zval
\* with whom is not kept, so a pass may find a variable either way.
SweepSymbol(v) == InPhase("symbols") /\ v \in todo /\ Sweep(v)

KeepSymbol(v) ==
  /\ InPhase("symbols") /\ v \in todo /\ todo' = todo \ {v}
  /\ UNCHANGED <<storeVars, heapVars, stack, bailing, phase, cursor, hold, leaks, destructed, freed>>

EndSweep ==
  /\ InPhase("symbols") /\ todo = {}
  /\ IF cursor = Cardinality(Set(Global)) THEN Goto("destruct", {}, 1)
     ELSE Goto("symbols", Set(Global), Cardinality(Set(Global)))
  /\ UNCHANGED <<storeVars, bailing, leaks, destructed>>

\* zend_objects_store_call_destructors: the count is raised for the destructor.
DestructNext ==
  LET b == bucket[cursor] IN
  /\ InPhase("destruct") /\ ~ hold /\ cursor < top
  /\ IF b.valid /\ ~ b.destructor_called /\ destructor[b.obj]
     THEN /\ bucket' = [bucket EXCEPT ![cursor].destructor_called = TRUE, ![cursor].refcount = @ + 2]
          /\ destructed' = [destructed EXCEPT ![b.obj] = @ + 1]
          /\ stack' = <<User(b.obj)>> /\ hold' = TRUE /\ UNCHANGED cursor
     ELSE /\ bucket' = [bucket EXCEPT ![cursor].destructor_called = @ \/ b.valid]
          /\ cursor' = cursor + 1 /\ UNCHANGED <<destructed, stack, hold>>
  /\ UNCHANGED <<top, size, free_list_head, moves, handle, destructor, heapVars, bailing, phase, todo,
                 leaks, freed>>

DestructDone ==
  /\ InPhase("destruct") /\ hold
  /\ bucket' = [bucket EXCEPT ![cursor].refcount = @ - 1]
  /\ hold' = FALSE /\ cursor' = cursor + 1
  /\ UNCHANGED <<top, size, free_list_head, moves, handle, destructor, heapVars, stack, bailing, phase,
                 todo, leaks, destructed, freed>>

EndDestruct ==
  /\ InPhase("destruct") /\ ~ hold /\ cursor >= top /\ Goto("globals", {}, 0)
  /\ UNCHANGED <<storeVars, bailing, leaks, destructed>>

\* shutdown_executor: the symbol table until it is empty, then the static
\* variables of functions and classes once, then the storages.
SweepGlobal(v) == InPhase("globals") /\ var[v] # None /\ v \in Global /\ Sweep(v)

EndGlobals ==
  /\ InPhase("globals") /\ Set(Global) = {} /\ Goto("statics", Set(Static), 0)
  /\ UNCHANGED <<storeVars, bailing, leaks, destructed>>

SweepStatic(v) == InPhase("statics") /\ v \in todo /\ Sweep(v)

EndStatics ==
  /\ InPhase("statics") /\ todo = {} /\ Goto("free", {}, 1)
  /\ UNCHANGED <<storeVars, bailing, leaks, destructed>>

\* zend_objects_store_free_object_storage: what is left goes whoever refers to it.
FreeNext ==
  LET b == bucket[cursor] IN
  /\ InPhase("free") /\ cursor < top /\ cursor' = cursor + 1
  /\ IF b.valid
     THEN /\ bucket' = [bucket EXCEPT ![cursor].valid = FALSE]
          /\ freed' = [freed EXCEPT ![b.obj] = @ + 1]
          /\ prop' = [prop EXCEPT ![b.obj] = None]
          /\ stack' = IF prop[b.obj] = None THEN <<>> ELSE <<Release(prop[b.obj])>>
     ELSE UNCHANGED <<bucket, freed, prop, stack>>
  /\ UNCHANGED <<top, size, free_list_head, moves, handle, destructor, var, bailing, phase, todo, hold,
                 leaks, destructed>>

EndFree ==
  /\ InPhase("free") /\ cursor >= top /\ Goto("done", {}, 0)
  /\ UNCHANGED <<storeVars, bailing, leaks, destructed>>

\* A bailout that no release catches ends the script, or the zend_try of the
\* phase it is in; out of the destructors it leaves a raised count behind, and
\* all objects marked as destructed.
CatchBailout ==
  /\ bailing /\ stack = <<>> /\ bailing' = FALSE
  /\ CASE phase = "run" ->
            Goto("symbols", Set(Global), Cardinality(Set(Global))) /\ UNCHANGED <<bucket, leaks>>
       [] phase \in {"symbols", "destruct"} ->
            /\ Goto("globals", {}, 0) /\ MarkDestructed
            /\ leaks' = IF hold THEN [leaks EXCEPT ![bucket[cursor].obj] = @ + 1] ELSE leaks
       [] phase = "globals" -> Goto("statics", Set(Static), 0) /\ UNCHANGED <<bucket, leaks>>
       [] OTHER -> Goto("done", {}, 0) /\ UNCHANGED <<bucket, leaks>>
  /\ UNCHANGED <<top, size, free_list_head, moves, handle, destructor, destructed>>

-----------------------------------------------------------------------------
DelRef == CallDestructor \/ SkipDestructor \/ FreeStorage \/ AddToFreeList \/ DropReference
          \/ EndDestructor \/ Unwind

Script ==
  \/ \E v \in Var : Unset(v) \/ \E d \in Destructors : New(v, d)
  \/ NewFails
  \/ \E v \in Var, o \in Id : Assign(v, o)
  \/ \E o, w \in Id : SetProperty(o, w)
  \/ \E o \in Id : UnsetProperty(o)
  \/ FatalError \/ Exit

Shutdown ==
  \/ EndScript \/ EndSweep \/ EndDestruct \/ EndGlobals \/ EndStatics \/ EndFree
  \/ \E v \in Var : SweepSymbol(v) \/ KeepSymbol(v) \/ SweepGlobal(v) \/ SweepStatic(v)
  \/ DestructNext \/ DestructDone \/ FreeNext \/ CatchBailout

Next == DelRef \/ Script \/ Shutdown

Spec == Init /\ [][Next]_vars

-----------------------------------------------------------------------------
(* Properties.                                                              *)

\* The references to an object: from variables, properties and destructors, in
\* releases that have not counted down yet, the one of the loop over the
\* destructors, and those a bailout left.
References(o) ==
  Cardinality({v \in Var : var[v] = o}) + Cardinality({p \in Id : prop[p] = o})
  + Cardinality({i \in 1..Len(stack) : stack[i].id = o})
  + (IF hold /\ bucket[cursor].obj = o THEN 1 ELSE 0) + leaks[o]

\* The count of an object in the store is the number of references to it,
\* whatever nested destructors and bailouts do (zend_objects_store_add_ref,
\* zend_objects_store_del_ref).
CountsReferences ==
  \A h \in Handle : bucket[h].valid => bucket[h].refcount = References(bucket[h].obj)

\* Until the request frees all storages, whatever is referred to is there, under
\* the handle it was given, and what is being freed has no reference but the one
\* that frees it (zend_objects_store_del_ref_by_handle_ex, zend_objects_store_put).
NothingDangles ==
  phase \notin {"free", "done"} =>
    \A o \in Id : References(o) > 0 =>
      /\ bucket[handle[o]].valid /\ bucket[handle[o]].obj = o
      /\ \/ freed[o] = 0
         \/ References(o) = 1 /\ \E i \in 1..Len(stack) : stack[i].id = o /\ stack[i].in = "free"

\* No object is destructed twice and none is freed twice, although destructors
\* can bring an object back and three parts of the code call them.
OnceEach == \A o \in Id : destructed[o] <= 1 /\ freed[o] <= 1

\* Handles that have been used and are not in use.
Unused == (1..(top - 1)) \ Valid

\* Following the links b from the head f visits the handles s, and ends after n of them.
Follows(b, f, s, n) ==
  /\ \A i, j \in 1..n : s[i] = s[j] => i = j
  /\ f = IF n = 0 THEN -1 ELSE s[1]
  /\ \A i \in 1..n : b[s[i]].next = IF i = n THEN -1 ELSE s[i + 1]

\* Every handle below top is in use or in the free list, once: none is lost and
\* none can be given to two objects (ZEND_OBJECTS_STORE_ADD_TO_FREE_LIST); top is
\* within the buckets there are.
FreeHandles ==
  TypeOK /\ (phase \notin {"free", "done"} =>
    \E s \in [1..Cardinality(Unused) -> Unused] : Follows(bucket, free_list_head, s, Cardinality(Unused)))

\* zend_objects_API.c:213, "re-read the object from the object store as the store
\* might have been reallocated": a release counts down in the store there is.
FreshPointer == In("free") => Top.at = moves
=============================================================================
