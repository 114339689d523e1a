--------------------------- MODULE SpinLockProofs ---------------------------
(* What TLAPS proves about SpinLock, for any number of workers and crashes. *)
EXTENDS SpinLock, TLAPS

(* The lock word, the lives and the program counters keep their types.     *)
THEOREM TypeCorrect == Spec => []TypeOK
<1> USE PidAssumption
<1>1. Init => TypeOK
  BY DEF Init, TypeOK, Unlocked, Lives, Steps
<1>2. TypeOK /\ [Next]_vars => TypeOK'
  <2> SUFFICES ASSUME TypeOK, [Next]_vars PROVE TypeOK'
    OBVIOUS
  <2> USE DEF TypeOK, Lives, Steps, Transition, Unlocked
  <2>1. CASE UNCHANGED vars
    BY <2>1 DEF vars
  <2>2. ASSUME NEW p \in Procs, Spawn(p) \/ Crash(p) \/ Reap(p) PROVE TypeOK'
    BY <2>2 DEF Spawn, Crash, Reap
  <2>3. ASSUME NEW p \in Procs, Call(p) \/ CasFree(p) \/ TimeOut(p) PROVE TypeOK'
    BY <2>3 DEF Call, CasFree, TimeOut
  <2>4. ASSUME NEW p \in Procs, LoadOwner(p) \/ KillZero(p) PROVE TypeOK'
    BY <2>4 DEF LoadOwner, KillZero
  <2>5. ASSUME NEW p \in Procs, Steal(p) \/ unlock(p) PROVE TypeOK'
    BY <2>5 DEF Steal, unlock
  <2>6. QED
    BY <2>1, <2>2, <2>3, <2>4, <2>5 DEF Next, try_lock
<1>3. QED
  BY <1>1, <1>2, PTL DEF Spec

(* One step of any worker, of the kernel or of the supervisor preserves    *)
(* LockInv when no two incarnations share a pid.                           *)
LEMMA LockInvStep ==
  ASSUME DistinctPids, TypeOK, LockInv, [Next]_vars
  PROVE  LockInv'
<1> USE PidAssumption DEF TypeOK, Lives, Steps, Transition, Unlocked, LockInv,
        CriticalOwns, UnbornIsIdle, OwnerWasBorn, VictimIsDead
<1>1. CASE UNCHANGED vars
  BY <1>1 DEF vars
<1>2. ASSUME NEW p \in Procs, Spawn(p) PROVE LockInv'
  BY <1>2 DEF Spawn
<1>3. ASSUME NEW p \in Procs, Crash(p) PROVE LockInv'
  BY <1>3 DEF Crash
<1>4. ASSUME NEW p \in Procs, Reap(p) PROVE LockInv'
  BY <1>4 DEF Reap
<1>5. ASSUME NEW p \in Procs, Call(p) PROVE LockInv'
  BY <1>5 DEF Call
<1>6. ASSUME NEW p \in Procs, CasFree(p) PROVE LockInv'
  BY <1>6 DEF CasFree, DistinctPids
<1>7. ASSUME NEW p \in Procs, TimeOut(p) PROVE LockInv'
  BY <1>7 DEF TimeOut
<1>8. ASSUME NEW p \in Procs, LoadOwner(p) PROVE LockInv'
  BY <1>8 DEF LoadOwner
<1>9. ASSUME NEW p \in Procs, KillZero(p) PROVE LockInv'
  BY <1>9 DEF KillZero, Exists
<1>10. ASSUME NEW p \in Procs, Steal(p) PROVE LockInv'
  BY <1>10 DEF Steal, DistinctPids
<1>11. ASSUME NEW p \in Procs, unlock(p) PROVE LockInv'
  BY <1>11 DEF unlock, DistinctPids
<1>12. QED
  BY <1>1, <1>2, <1>3, <1>4, <1>5, <1>6, <1>7, <1>8, <1>9, <1>10, <1>11
     DEF Next, try_lock

(* The inductive invariant holds in every reachable state.                 *)
THEOREM LockInvariant == ASSUME DistinctPids PROVE Spec => []LockInv
<1>1. Init => LockInv
  BY PidAssumption DEF Init, LockInv, CriticalOwns, UnbornIsIdle, OwnerWasBorn,
     VictimIsDead, Unlocked
<1>2. TypeOK /\ LockInv /\ [Next]_vars => LockInv'
  BY LockInvStep
<1>3. QED
  BY <1>1, <1>2, TypeCorrect, PTL DEF Spec

(* No two running workers hold the lock of region.rs at once, however many *)
(* of them die with it, provided pids are not recycled.                    *)
THEOREM LockIsExclusive == ASSUME DistinctPids PROVE Spec => []MutualExclusion
<1>1. LockInv => MutualExclusion
  BY DEF LockInv, CriticalOwns, MutualExclusion, DistinctPids
<1>2. QED
  BY <1>1, LockInvariant, PTL

(* A running worker's lock changes hands only by its own unlock().         *)
THEOREM NoTheft == ASSUME DistinctPids PROVE Spec => NoTheftFromTheLiving
<1>1. TypeOK /\ LockInv /\ [Next]_vars =>
        [\A p \in Procs :
           lock = PidOf[p] /\ life[p] = "running" /\ pc[p] = "critical" /\ lock' # lock
             => pc'[p] = "idle"]_vars
  <2> SUFFICES ASSUME TypeOK, LockInv, Next,
                      NEW p \in Procs, lock = PidOf[p], life[p] = "running",
                      pc[p] = "critical", lock' # lock
               PROVE  pc'[p] = "idle"
    BY DEF vars
  <2> USE PidAssumption DEF TypeOK, Transition, LockInv
  <2>1. ASSUME NEW q \in Procs, CasFree(q) PROVE FALSE
    BY <2>1 DEF CasFree, Unlocked
  <2>2. ASSUME NEW q \in Procs, Steal(q) PROVE FALSE
    BY <2>2 DEF Steal, VictimIsDead
  <2>3. ASSUME NEW q \in Procs, unlock(q) PROVE pc'[p] = "idle"
    BY <2>3 DEF unlock, CriticalOwns, DistinctPids
  <2>4. QED
    BY <2>1, <2>2, <2>3
       DEF Next, try_lock, Spawn, Crash, Reap, Call, TimeOut, LoadOwner, KillZero
<1>2. QED
  BY <1>1, TypeCorrect, LockInvariant, PTL DEF Spec, NoTheftFromTheLiving

(* The spinlock is the abstract lock of CacheLock: stealing takes over a   *)
(* dead holder's lock and unlock() releases its caller's.                  *)
THEOREM Refinement == ASSUME DistinctPids PROVE Spec => ImplementsCacheLock
<1> USE PidAssumption, NoProcAssumption DEF Transition, Unlocked
<1>1. Init => Abs!Init
  BY DEF Init, Abs!Init, Holder, Gone
<1>2. TypeOK /\ LockInv /\ [Next]_vars => [Abs!Next]_(Abs!vars)
  <2> SUFFICES ASSUME TypeOK, LockInv, [Next]_vars PROVE [Abs!Next]_(Abs!vars)
    OBVIOUS
  <2> USE DEF TypeOK, Holder, Gone, Abs!vars
  <2>1. CASE UNCHANGED vars
    BY <2>1 DEF vars
  <2>2. ASSUME NEW p \in Procs, Spawn(p) \/ Reap(p) \/ Call(p) \/ TimeOut(p)
                                 \/ LoadOwner(p) \/ KillZero(p)
        PROVE  UNCHANGED <<Holder, Gone>>
    <3>1. lock' = lock
      BY <2>2 DEF Spawn, Reap, Call, TimeOut, LoadOwner, KillZero
    <3>2. Gone' = Gone
      BY <2>2 DEF Spawn, Reap, Call, TimeOut, LoadOwner, KillZero
    <3>3. QED
      BY <3>1, <3>2
  <2>3. ASSUME NEW p \in Procs, Crash(p) PROVE Abs!Die(p)
    BY <2>3 DEF Crash, Abs!Die
  <2>4. ASSUME NEW p \in Procs, lock' = PidOf[p] PROVE Holder' = p
    BY <2>4 DEF DistinctPids
  <2>5. ASSUME NEW p \in Procs, CasFree(p) PROVE Abs!Acquire(p)
    BY <2>5, <2>4 DEF CasFree, Abs!Acquire
  <2>6. ASSUME NEW p \in Procs, Steal(p) PROVE Abs!Acquire(p) \/ UNCHANGED <<Holder, Gone>>
    <3>1. CASE lock = owner[p]
      <4>1. Holder \in Gone \cup {NoProc}
        BY <2>6, <3>1 DEF Steal, LockInv, VictimIsDead
      <4>2. QED
        BY <2>6, <3>1, <4>1, <2>4 DEF Steal, Abs!Acquire
    <3>2. CASE lock # owner[p]
      BY <2>6, <3>2 DEF Steal
    <3>3. QED
      BY <3>1, <3>2
  <2>7. ASSUME NEW p \in Procs, unlock(p) PROVE Abs!Release(p)
    <3>1. Holder = p
      BY <2>7 DEF unlock, LockInv, CriticalOwns, DistinctPids
    <3>2. Holder' = NoProc
      BY <2>7 DEF unlock
    <3>3. QED
      BY <2>7, <3>1, <3>2 DEF unlock, Abs!Release
  <2>8. QED
    BY <2>1, <2>2, <2>3, <2>5, <2>6, <2>7 DEF Next, try_lock, Abs!Next
<1>3. QED
  BY <1>1, <1>2, TypeCorrect, LockInvariant, PTL DEF Spec, ImplementsCacheLock, Abs!Spec
=============================================================================
