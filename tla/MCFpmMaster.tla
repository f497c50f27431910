---------------------------- MODULE MCFpmMaster -----------------------------
(* Instances of FpmMaster: one pool of either style, or one of each.       *)
EXTENDS FpmMaster, TLC

CONSTANTS D, S,        \* a dynamic pool, a static one
          MaxD, MaxS, Spare, MaxSpare

Of(d, s) == [w \in Pools |-> IF w = D THEN d ELSE s]
MCpm == Of("dynamic", "static")
MCmax == Of(MaxD, MaxS)
MCmin_spare == Of(Spare, 0)
MCmax_spare == Of(MaxSpare, 0)

Symmetry == Permutations(Pids)
=============================================================================
