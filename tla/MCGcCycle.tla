----------------------------- MODULE MCGcCycle -----------------------------
(* Small heaps for GcCycle: the Slots are the elements a table may have.      *)
EXTENDS GcCycle

CONSTANTS a, o, p, q

\* A global variable, an array of two elements, an object with one property.
Slots == {<<Globals, 1>>, <<a, 1>>, <<a, 2>>, <<o, 1>>}
=============================================================================
