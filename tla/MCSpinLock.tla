----------------------------- MODULE MCSpinLock -----------------------------
(* Instances of SpinLock: every incarnation with a pid of its own, and two *)
(* incarnations that carry the same pid.                                   *)
EXTENDS SpinLock, TLC

CONSTANTS w1, w2, w3

OwnPids == w1 :> 11 @@ w2 :> 12 @@ w3 :> 13
RecycledPid == w1 :> 11 @@ w2 :> 12 @@ w3 :> 11
=============================================================================
