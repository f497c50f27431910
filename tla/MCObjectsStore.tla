--------------------------- MODULE MCObjectsStore ---------------------------
(* Small stores for ObjectsStore.                                           *)
EXTENDS ObjectsStore

CONSTANT MaxId

Objects == 1..MaxId
=============================================================================
