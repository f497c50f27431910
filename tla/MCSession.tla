----------------------------- MODULE MCSession -----------------------------
(* Session data of two lengths.                                             *)
EXTENDS Session, TLC

CONSTANTS short, long

Sizes == short :> 1 @@ long :> 2
=============================================================================
