------------------------------- MODULE SpinLock -------------------------------
(***************************************************************************)
(* try_lock() and unlock() of shared_cache/src/region.rs: a spinlock in a  *)
(* memory-mapped file shared by the worker processes of the server.  The   *)
(* lock word holds the pid of its owner, 0 when it is free.  A worker that *)
(* times out asks the kernel whether the owner is still alive and takes    *)
(* the lock over when it is not.                                           *)
(*                                                                         *)
(* A member of Procs is one incarnation of a worker.  Two incarnations may *)
(* carry the same pid (the file outlives the server, pids are recycled),   *)
(* though never at the same time: PidOf says which.                        *)
(***************************************************************************)
EXTENDS Integers

CONSTANTS Procs,  \* incarnations of worker processes
          PidOf,  \* the pid of each incarnation
          NoProc  \* stands for no worker

SentinelMinusOne == -1   \* mutant of Unlocked
Unlocked == 0     \* PID 0 is the unlocked sentinel

ASSUME PidAssumption == PidOf \in [Procs -> Nat \ {Unlocked}]
ASSUME NoProcAssumption == NoProc \notin Procs

VARIABLES lock,   \* CoordHeader.lock
          life,   \* what the kernel knows of each incarnation
          pc,     \* where each incarnation is in try_lock() .. unlock()
          owner   \* try_lock's local `owner'

vars == <<lock, life, pc, owner>>

Lives == {"unborn", "running", "zombie", "dead"}
Steps == {"idle", "spin", "timedout", "probe", "steal", "critical"}

Transition(p, from, to) ==
  /\ life[p] = "running"
  /\ pc[p] = from
  /\ pc' = [pc EXCEPT ![p] = to]

(* kill(pid, 0) finds a process: one that runs, or one not reaped yet.     *)
Exists(pid) == \E q \in Procs : PidOf[q] = pid /\ life[q] \in {"running", "zombie"}

Init ==
  /\ lock = Unlocked
  /\ life = [p \in Procs |-> "unborn"]
  /\ pc = [p \in Procs |-> "idle"]
  /\ owner = [p \in Procs |-> Unlocked]

-----------------------------------------------------------------------------
(* The supervisor of entrypoint.py and the kernel.                         *)

Spawn(p) ==
  /\ life[p] = "unborn"
  /\ ~Exists(PidOf[p])
  /\ life' = [life EXCEPT ![p] = "running"]
  /\ UNCHANGED <<lock, pc, owner>>

(* SIGKILL, or a crash: wherever the worker was, the lock word stays.      *)
Crash(p) ==
  /\ life[p] = "running"
  /\ life' = [life EXCEPT ![p] = "zombie"]
  /\ UNCHANGED <<lock, pc, owner>>

(* _all_workers_alive() polls is_alive(), which waits for the child.       *)
Reap(p) ==
  /\ life[p] = "zombie"
  /\ life' = [life EXCEPT ![p] = "dead"]
  /\ UNCHANGED <<lock, pc, owner>>

-----------------------------------------------------------------------------
(* try_lock                                                                *)

Call(p) ==
  /\ Transition(p, "idle", "spin")
  /\ UNCHANGED <<lock, life, owner>>

CasFree(p) ==
  /\ Transition(p, "spin", "critical")
  /\ lock = Unlocked
  /\ lock' = PidOf[p]
  /\ UNCHANGED <<life, owner>>

(* The exchange failed and LOCK_TIMEOUT has passed.                        *)
TimeOut(p) ==
  /\ Transition(p, "spin", "timedout")
  /\ lock # Unlocked
  /\ UNCHANGED <<lock, life, owner>>

LoadOwner(p) ==
  /\ Transition(p, "timedout", IF lock \in {Unlocked, PidOf[p]} THEN "idle" ELSE "probe")
  /\ owner' = [owner EXCEPT ![p] = lock]
  /\ UNCHANGED <<lock, life>>

(* Mutants of KillZero: the owner is taken for dead, or for alive, unasked.*)
KillZeroAssumesDead(p) ==
  /\ Transition(p, "probe", "steal")
  /\ UNCHANGED <<lock, life, owner>>

KillZeroAssumesAlive(p) ==
  /\ Transition(p, "probe", "idle")
  /\ UNCHANGED <<lock, life, owner>>

KillZero(p) ==
  /\ Transition(p, "probe", IF Exists(owner[p]) THEN "idle" ELSE "steal")
  /\ UNCHANGED <<lock, life, owner>>

(* Mutant of Steal: a store where the code has a compare-exchange.         *)
StealNoCompare(p) ==
  /\ Transition(p, "steal", "critical")
  /\ lock' = PidOf[p]
  /\ UNCHANGED <<life, owner>>

(* The second exchange: it takes the lock from the dead owner, or fails    *)
(* because another worker got there first.                                 *)
Steal(p) ==
  /\ Transition(p, "steal", IF lock = owner[p] THEN "critical" ELSE "idle")
  /\ lock' = IF lock = owner[p] THEN PidOf[p] ELSE lock
  /\ UNCHANGED <<life, owner>>

try_lock(p) == CasFree(p) \/ TimeOut(p) \/ LoadOwner(p) \/ KillZero(p) \/ Steal(p)

unlock(p) ==
  /\ Transition(p, "critical", "idle")
  /\ lock' = Unlocked
  /\ UNCHANGED <<life, owner>>

-----------------------------------------------------------------------------

Next ==
  \E p \in Procs :
    \/ Spawn(p) \/ Crash(p) \/ Reap(p)
    \/ Call(p) \/ try_lock(p) \/ unlock(p)

(* The scheduler runs every live worker, requests keep calling the cache,  *)
(* and the supervisor keeps polling its children.  Nobody has to crash.    *)
Fairness ==
  \A p \in Procs : /\ WF_vars(Call(p) \/ try_lock(p) \/ unlock(p))
                   /\ WF_vars(Reap(p))

Spec == Init /\ [][Next]_vars
FairSpec == Spec /\ Fairness
-----------------------------------------------------------------------------

TypeOK ==
  /\ lock \in Nat
  /\ life \in [Procs -> Lives]
  /\ pc \in [Procs -> Steps]
  /\ owner \in [Procs -> Nat]

(* No two running workers are between try_lock() returning true and        *)
(* unlock(), however often owners die and locks are taken over.            *)
MutualExclusion ==
  \A p, q \in Procs :
    /\ pc[p] = "critical" /\ life[p] = "running"
    /\ pc[q] = "critical" /\ life[q] = "running"
    => p = q

(* What makes mutual exclusion inductive when no two incarnations share a  *)
(* pid: the lock word is the pid of the running worker in the critical     *)
(* section, and an owner about to be robbed was born and has since died.   *)
CriticalOwns ==
  \A p \in Procs : pc[p] = "critical" /\ life[p] = "running" => lock = PidOf[p]
UnbornIsIdle ==
  \A p \in Procs : life[p] = "unborn" => pc[p] = "idle" /\ lock # PidOf[p]
OwnerWasBorn ==
  \A p, q \in Procs :
    pc[p] \in {"probe", "steal"} /\ owner[p] = PidOf[q] => life[q] # "unborn"
VictimIsDead ==
  \A p, q \in Procs : pc[p] = "steal" /\ owner[p] = PidOf[q] => life[q] = "dead"

LockInv == CriticalOwns /\ UnbornIsIdle /\ OwnerWasBorn /\ VictimIsDead

DistinctPids == \A p, q \in Procs : PidOf[p] = PidOf[q] => p = q

(* A lock is never taken from a worker that is still alive: the word only  *)
(* leaves a running owner's pid by that owner's own unlock().              *)
NoTheftFromTheLiving ==
  [][\A p \in Procs :
       lock = PidOf[p] /\ life[p] = "running" /\ pc[p] = "critical" /\ lock' # lock
         => pc'[p] = "idle"]_vars

(* With distinct pids the lock word is the abstract lock of CacheLock.     *)
Holder == IF \E p \in Procs : lock = PidOf[p]
          THEN CHOOSE p \in Procs : lock = PidOf[p]
          ELSE NoProc
Gone == {p \in Procs : life[p] \in {"zombie", "dead"}}
Abs == INSTANCE CacheLock WITH holder <- Holder, gone <- Gone

(* Every step of try_lock() and unlock() takes, takes over or releases the *)
(* abstract lock, or leaves it alone.                                      *)
ImplementsCacheLock == Abs!Spec

(* "This prevents a crashed worker from permanently wedging the cache": a  *)
(* lock word left behind by a dead worker does not stay while another      *)
(* worker lives to ask for it.                                             *)
OrphanRecovered ==
  \A p \in Procs :
    (lock = PidOf[p] /\ pc[p] = "critical" /\ life[p] = "dead")
      ~> (lock # PidOf[p] \/ \A q \in Procs : life[q] # "running")
=============================================================================
