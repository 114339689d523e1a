------------------------------ MODULE CacheLock ------------------------------
(***************************************************************************)
(* What the spinlock at offset 0 of the shared cache file promises to the  *)
(* code in gen_cache.rs that runs between try_lock() and unlock(): at most *)
(* one running worker is between the two, and a lock whose holder has died *)
(* can be taken over.  A worker that dies keeps the lock until somebody    *)
(* takes it over.                                                          *)
(***************************************************************************)
CONSTANTS Procs,    \* incarnations of worker processes
          NoProc    \* stands for no worker

VARIABLES holder,   \* the worker that owns the lock, or NoProc
          gone      \* the workers that have died

vars == <<holder, gone>>

Init ==
  /\ holder = NoProc
  /\ gone = {}

Acquire(p) ==
  /\ p \notin gone
  /\ holder \in gone \cup {NoProc}
  /\ holder' = p
  /\ UNCHANGED gone

Release(p) ==
  /\ p \notin gone
  /\ holder = p
  /\ holder' = NoProc
  /\ UNCHANGED gone

Die(p) ==
  /\ p \notin gone
  /\ gone' = gone \cup {p}
  /\ UNCHANGED holder

Next == \E p \in Procs : Acquire(p) \/ Release(p) \/ Die(p)

Spec == Init /\ [][Next]_vars
=============================================================================
