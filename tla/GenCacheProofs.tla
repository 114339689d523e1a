---------------------------- MODULE GenCacheProofs ----------------------------
(***************************************************************************)
(* What is proved of the generational cache for every number of workers,   *)
(* pages, keys and responses: only the holder of the lock is in the middle *)
(* of a change and pages keep their shape, wherever workers are killed;    *)
(* and, when none is killed, the ring is at rest and the counts are right  *)
(* whenever the lock is free.                                              *)
(***************************************************************************)
EXTENDS GenCache, FiniteSetTheorems, WellFoundedInduction, TLAPS

-----------------------------------------------------------------------------
(* The lock.                                                               *)

(* What Goto does to the state, without the values of the locals.          *)
Moves(p, to) ==
  /\ dead' = dead
  /\ pc' = [pc EXCEPT ![p] = to]
  /\ DOMAIN loc' = Procs
  /\ DOMAIN loc'[p] = DOMAIN Quiet
  /\ \A q \in Procs \ {p} : loc'[q] = loc[q]

LEMMA GotoMoves ==
  ASSUME Shape, NEW p \in Procs, NEW to, NEW l, Goto(p, to, l), DOMAIN l = DOMAIN Quiet
  PROVE  Moves(p, to)
BY DEF Shape, Goto, Moves

LEMMA FinishMoves ==
  ASSUME Shape, NEW p \in Procs, NEW r, Finish(p, r)  PROVE Moves(p, "done")
BY DEF Shape, Finish, Goto, Moves

LEMMA GiveUpMoves ==
  ASSUME Shape, NEW p \in Procs, GiveUp(p)  PROVE Moves(p, "idle")
BY DEF Shape, GiveUp, Goto, Moves

LEMMA NotFoundMoves ==
  ASSUME Shape, NEW p \in Procs, NotFound(p)
  PROVE  Moves(p, "check") \/ Moves(p, "done")
<1>1. CASE loc[p].op = "set"
  BY <1>1 DEF Shape, NotFound, Goto, Moves
<1>2. CASE loc[p].op # "set"
  BY <1>2, FinishMoves DEF NotFound
<1> QED BY <1>1, <1>2

LEMMA NextSealedMoves ==
  ASSUME Shape, NEW p \in Procs, NextSealed(p)  PROVE Moves(p, "sealed")
BY DEF Shape, NextSealed, Goto, Moves

LEMMA AfterChunkMoves ==
  ASSUME Shape, NEW p \in Procs, NEW l, DOMAIN l = DOMAIN Quiet,
         Goto(p, AfterChunk(p, l).to, AfterChunk(p, l).l)
  PROVE  Moves(p, "chunk") \/ Moves(p, "insert")
<1>1. CASE l.i + CHUNK < SlotCount
  <2>1. AfterChunk(p, l).to = "chunk" /\ DOMAIN AfterChunk(p, l).l = DOMAIN Quiet
    BY <1>1 DEF AfterChunk
  <2> QED BY <2>1, GotoMoves
<1>2. CASE ~(l.i + CHUNK < SlotCount)
  <2>1. AfterChunk(p, l).to = "insert" /\ DOMAIN AfterChunk(p, l).l = DOMAIN Quiet
    BY <1>2 DEF AfterChunk
  <2> QED BY <2>1, GotoMoves
<1> QED BY <1>1, <1>2

(* One worker moves on, and the lock follows it into and out of the        *)
(* sections that write.                                                    *)
LEMMA Move ==
  ASSUME Shape, WriterHoldsLock, NoProc \notin Procs,
         NEW p \in Procs, NEW to, p \notin dead, Moves(p, to),
         \/ lock' = lock /\ (to \in Writing <=> pc[p] \in Writing)
         \/ CanLock /\ lock' = p /\ to \in Writing
         \/ CanLock /\ lock' = NoProc /\ to \notin Writing
         \/ pc[p] \in Writing /\ lock' = NoProc /\ to \notin Writing
  PROVE  Shape' /\ WriterHoldsLock'
<1>1. Shape'
  BY DEF Shape, Moves, CanLock
<1>2. \A q \in Procs \ {p} : pc'[q] = pc[q]
  BY DEF Shape, Moves
<1>3. pc'[p] = to /\ dead' = dead
  BY DEF Shape, Moves
<1>4. \A q \in Procs \ dead : q # p => (pc[q] \in Writing <=> lock' = q)
  <2>1. \A q \in Procs \ dead : q # p => (pc[q] \in Writing <=> lock = q)
    BY DEF WriterHoldsLock
  <2>2. pc[p] \in Writing => lock = p
    BY DEF WriterHoldsLock
  <2>3. CanLock => \A q \in Procs \ dead : lock # q
    BY DEF CanLock
  <2> QED BY <2>1, <2>2, <2>3
<1>5. to \in Writing <=> lock' = p
  BY DEF WriterHoldsLock
<1> QED BY <1>1, <1>2, <1>3, <1>4, <1>5 DEF WriterHoldsLock

(* A step of p outside the sections that write: the ring does not change,  *)
(* and the lock is at most taken for a moment.                             *)
Resting == {"idle", "done", "probe", "read", "verify", "sealed", "sealed_probe",
            "sealed_read", "sealed_verify", "check", "scan", "chunk", "chunk_read",
            "insert", "pop_lock"}

Reads(p) ==
  /\ p \notin dead /\ pc[p] \notin Writing
  /\ counter' = counter /\ gen' = gen /\ sealed' = sealed
  /\ lock' = lock \/ (CanLock /\ lock' = NoProc)
  /\ \E to \in Resting : /\ Moves(p, to)
                         /\ to = "pop_lock" => pc[p] = "filter" /\ loc'[p].i = loc[p].i

ReadStep(p) ==
  \/ Lookup(p) \/ SetLockTimeout(p) \/ CheckFull(p) \/ ScanStart(p) \/ ChunkStart(p)
  \/ ChunkRead(p) \/ Return(p)

LEMMA ReadStepReads ==
  ASSUME Shape, NEW p \in Procs, ReadStep(p)  PROVE Reads(p)
<1>a. \A q \in Procs : DOMAIN loc[q] = DOMAIN Quiet
  BY DEF Shape
<1>b. ASSUME p \notin dead, pc[p] \notin Writing,
             counter' = counter, gen' = gen, sealed' = sealed,
             lock' = lock \/ (CanLock /\ lock' = NoProc),
             NEW to \in Resting \ {"pop_lock"}, Moves(p, to)
      PROVE  Reads(p)
  BY <1>b DEF Reads
<1> USE DEF Writing, Resting
<1>1. CASE FilterCheck(p)
  <2>1. CASE NotFound(p)
    <3>1. Moves(p, "check") \/ Moves(p, "done")
      BY <2>1, NotFoundMoves
    <3> QED BY <1>1, <3>1, <1>b DEF FilterCheck, On, shared, ring
  <2>2. CASE ~NotFound(p)
    <3>1. \/ Moves(p, "pop_lock") /\ loc'[p].i = loc[p].i
          \/ Moves(p, "probe")
      BY <1>1, <2>2 DEF FilterCheck, Shape, Goto, Moves
    <3> QED BY <1>1, <3>1 DEF FilterCheck, Reads, On, shared
  <2> QED BY <2>1, <2>2
<1>2. CASE LookupLockTimeout(p)
  <2>1. Moves(p, "check") \/ Moves(p, "done")
    BY <1>2, NotFoundMoves DEF LookupLockTimeout
  <2> QED BY <1>2, <2>1, <1>b DEF LookupLockTimeout, On, shared, ring
<1>3. CASE ProbeActive(p)
  <2>1. Moves(p, "sealed") \/ Moves(p, "read") \/ Moves(p, "check") \/ Moves(p, "done")
    BY <1>3, NotFoundMoves, FinishMoves DEF ProbeActive, Goto, Moves, Shape
  <2> QED BY <1>3, <2>1, <1>b DEF ProbeActive, On, ring
<1>4. CASE ReadActive(p)
  <2>1. Moves(p, "verify")
    BY <1>4, <1>a, GotoMoves DEF ReadActive
  <2> QED BY <1>4, <2>1, <1>b DEF ReadActive, On, shared, ring
<1>5. CASE VerifyActive(p)
  <2>1. Moves(p, "done")
    BY <1>5, FinishMoves DEF VerifyActive
  <2> QED BY <1>5, <2>1, <1>b DEF VerifyActive, On, shared, ring
<1>6. CASE SealedGeneration(p)
  <2>1. \/ Moves(p, "check") \/ Moves(p, "done") \/ Moves(p, "sealed")
        \/ Moves(p, "sealed_probe")
    BY <1>6, NotFoundMoves, NextSealedMoves DEF SealedGeneration, Goto, Moves, Shape
  <2> QED BY <1>6, <2>1, <1>b DEF SealedGeneration, On, shared, ring
<1>7. CASE SealedProbe(p)
  <2>1. Moves(p, "sealed") \/ Moves(p, "sealed_read") \/ Moves(p, "sealed_verify")
    BY <1>7, NextSealedMoves DEF SealedProbe, Goto, Moves, Shape
  <2> QED BY <1>7, <2>1, <1>b DEF SealedProbe, On, shared, ring
<1>8. CASE SealedRead(p)
  <2>1. Moves(p, "sealed_verify")
    BY <1>8, <1>a, GotoMoves DEF SealedRead
  <2> QED BY <1>8, <2>1, <1>b DEF SealedRead, On, shared, ring
<1>9. CASE SealedVerify(p)
  <2>1. Moves(p, "check") \/ Moves(p, "done") \/ Moves(p, "sealed")
    BY <1>9, NotFoundMoves, NextSealedMoves, FinishMoves DEF SealedVerify
  <2> QED BY <1>9, <2>1, <1>b DEF SealedVerify, On, shared, ring
<1>10. CASE SetLockTimeout(p)
  <2>1. Moves(p, "idle")
    BY <1>10, GiveUpMoves DEF SetLockTimeout
  <2> QED BY <1>10, <2>1, <1>b DEF SetLockTimeout, On, shared, ring
<1>11. CASE CheckFull(p)
  <2>1. Moves(p, "scan") \/ Moves(p, "insert")
    BY <1>11 DEF CheckFull, Shape, Goto, Moves
  <2> QED BY <1>11, <2>1, <1>b DEF CheckFull, On, ring
<1>12. CASE ScanStart(p)
  <2>1. Moves(p, "insert") \/ Moves(p, "chunk")
    BY <1>12 DEF ScanStart, Shape, Goto, Moves
  <2> QED BY <1>12, <2>1, <1>b DEF ScanStart, On, shared, ring
<1>13. CASE ChunkStart(p)
  <2>1. Moves(p, "chunk") \/ Moves(p, "insert") \/ Moves(p, "chunk_read")
    BY <1>13, <1>a, GotoMoves, AfterChunkMoves DEF ChunkStart
  <2> QED BY <1>13, <2>1, <1>b DEF ChunkStart, On, shared, ring
<1>14. CASE ChunkRead(p)
  <2> DEFINE l == [loc[p] EXCEPT !.surv = @ \o Survivors(page[loc[p].ai], loc[p].i,
                                            Min({loc[p].i + CHUNK, SlotCount}))]
  <2>1. \/ Goto(p, AfterChunk(p, l).to, AfterChunk(p, l).l)
        \/ Goto(p, AfterChunk(p, loc[p]).to, AfterChunk(p, loc[p]).l)
        \/ Goto(p, "chunk", [loc[p] EXCEPT !.att = @ + 1, !.gen = 0])
    BY <1>14 DEF ChunkRead
  <2>2. DOMAIN l = DOMAIN Quiet
    BY <1>a
  <2> HIDE DEF l
  <2>3. Moves(p, "chunk") \/ Moves(p, "insert")
    <3>1. CASE Goto(p, AfterChunk(p, l).to, AfterChunk(p, l).l)
      BY <2>2, <3>1, AfterChunkMoves
    <3>2. CASE Goto(p, AfterChunk(p, loc[p]).to, AfterChunk(p, loc[p]).l)
      BY <1>a, <3>2, AfterChunkMoves
    <3>3. CASE Goto(p, "chunk", [loc[p] EXCEPT !.att = @ + 1, !.gen = 0])
      BY <3>3 DEF Goto, Moves, Shape
    <3> QED BY <2>1, <3>1, <3>2, <3>3
  <2> QED BY <1>14, <2>3, <1>b DEF ChunkRead, On, shared, ring
<1>15. CASE Return(p)
  <2>1. Moves(p, "idle")
    BY <1>15, GotoMoves DEF Return
  <2> QED BY <1>15, <2>1, <1>b DEF Return, On, shared, ring
<1> QED
  BY <1>1, <1>2, <1>3, <1>4, <1>5, <1>6, <1>7, <1>8, <1>9, <1>10, <1>11, <1>12, <1>13,
     <1>14, <1>15 DEF ReadStep, Lookup

(* The other steps: those that take the lock to write, write, or release   *)
(* it.                                                                     *)
WriteStep(p) ==
  \/ InsertLock(p) \/ RotateOdd(p) \/ RotateZero(p) \/ RotateFill(p) \/ RotateEven(p)
  \/ RotateAdvance(p) \/ PlaceFails(p) \/ Place(p) \/ Copy(p) \/ Publish(p)
  \/ InsertFingerprint(p) \/ Pop(p) \/ Invalidate(p)

LEMMA StepSplit == ASSUME NEW p, Step(p)  PROVE ReadStep(p) \/ WriteStep(p)
BY DEF Step, ReadStep, WriteStep, Set

LEMMA LockInit == ASSUME NoProc \notin Procs, Init PROVE Shape /\ WriterHoldsLock
BY DEF Init, Shape, WriterHoldsLock, Writing

LEMMA LockStep ==
  ASSUME Shape, WriterHoldsLock, NoProc \notin Procs, [Next]_vars
  PROVE  Shape' /\ WriterHoldsLock'
<1>1. CASE UNCHANGED vars
  BY <1>1 DEF vars, shared, Shape, WriterHoldsLock
<1>2. ASSUME NEW p \in Procs, NEW op, NEW k, NEW v, Start(p, op, k, v)
      PROVE  Shape' /\ WriterHoldsLock'
  BY <1>2 DEF Start, shared, Shape, WriterHoldsLock, Writing
<1>3. ASSUME NEW p \in Procs, Crash(p)  PROVE Shape' /\ WriterHoldsLock'
  BY <1>3 DEF Crash, shared, Shape, WriterHoldsLock
<1>4. ASSUME NEW p \in Procs, ReadStep(p)  PROVE Shape' /\ WriterHoldsLock'
  <2>1. Reads(p)
    BY <1>4, ReadStepReads
  <2>2. Resting \cap Writing = {}
    BY DEF Resting, Writing
  <2> QED BY <2>1, <2>2, Move DEF Reads
<1>5. ASSUME NEW p \in Procs, WriteStep(p)  PROVE Shape' /\ WriterHoldsLock'
  <2> USE DEF Writing
  <2>a. \A q \in Procs : DOMAIN loc[q] = DOMAIN Quiet
    BY DEF Shape
  <2>1. CASE InsertLock(p)
    <3>1. Moves(p, "rot_odd") \/ Moves(p, "place")
      BY <2>1 DEF InsertLock, Shape, Goto, Moves
    <3> QED BY <2>1, <3>1, Move DEF InsertLock, On
  <2>2. CASE RotateOdd(p)
    BY <2>2, Move, <2>a, GotoMoves DEF RotateOdd, On
  <2>3. CASE RotateZero(p)
    BY <2>3, Move, <2>a, GotoMoves DEF RotateZero, On
  <2>4. CASE RotateFill(p)
    BY <2>4, Move, <2>a, GotoMoves DEF RotateFill, On
  <2>5. CASE RotateEven(p)
    BY <2>5, Move, <2>a, GotoMoves DEF RotateEven, On
  <2>6. CASE RotateAdvance(p)
    BY <2>6, Move, <2>a, GotoMoves DEF RotateAdvance, On
  <2>7. CASE PlaceFails(p)
    BY <2>7, Move, GiveUpMoves DEF PlaceFails, On
  <2>8. CASE Place(p)
    BY <2>8, Move, <2>a, GotoMoves DEF Place, On
  <2>9. CASE Copy(p)
    BY <2>9, Move, <2>a, GotoMoves DEF Copy, On
  <2>10. CASE Publish(p)
    BY <2>10, Move, <2>a, GotoMoves DEF Publish, On
  <2>11. CASE InsertFingerprint(p)
    BY <2>11, Move, FinishMoves DEF InsertFingerprint, On
  <2>12. CASE PopLock(p)
    BY <2>12, Move, <2>a, GotoMoves DEF PopLock, On
  <2>13. CASE PopPage(p)
    <3>1. \/ Moves(p, "done") /\ lock' = NoProc
          \/ Moves(p, "pop_page") /\ lock' = lock
          \/ Moves(p, "pop_tomb") /\ lock' = lock
      BY <2>13, FinishMoves DEF PopPage, shared, Goto, Moves, Shape
    <3> QED BY <2>13, <3>1, Move DEF PopPage, On
  <2>14. CASE PopTomb(p)
    <3>1. Moves(p, "pop_page") \/ Moves(p, "pop_even")
      BY <2>14 DEF PopTomb, Shape, Goto, Moves
    <3> QED BY <2>14, <3>1, Move DEF PopTomb, On
  <2>15. CASE PopEven(p)
    BY <2>15, Move, <2>a, GotoMoves DEF PopEven, On
  <2>16. CASE InvalidateLock(p)
    BY <2>16, Move, <2>a, GotoMoves DEF InvalidateLock, On
  <2>17. CASE InvalidateOdd(p)
    BY <2>17, Move, <2>a, GotoMoves DEF InvalidateOdd, On
  <2>18. CASE InvalidateZero(p)
    BY <2>18, Move, <2>a, GotoMoves DEF InvalidateZero, On
  <2>19. CASE InvalidateEven(p)
    <3>1. Moves(p, "inv_odd") \/ Moves(p, "inv_reset")
      BY <2>19 DEF InvalidateEven, Shape, Goto, Moves
    <3> QED BY <2>19, <3>1, Move DEF InvalidateEven, On
  <2>20. CASE InvalidateReset(p)
    BY <2>20, Move, FinishMoves DEF InvalidateReset, On
  <2> QED
    BY <1>5, <2>1, <2>2, <2>3, <2>4, <2>5, <2>6, <2>7, <2>8, <2>9, <2>10, <2>11, <2>12,
       <2>13, <2>14, <2>15, <2>16, <2>17, <2>18, <2>19, <2>20
       DEF WriteStep, Pop, Invalidate
<1> QED
  BY <1>1, <1>2, <1>3, <1>4, <1>5, StepSplit DEF Next, Call

(* Only the holder of the spinlock is in the middle of a change to pages,  *)
(* filter or counter, at any moment, with any number of workers and        *)
(* wherever some of them are killed and robbed of the lock: set(), pop()   *)
(* and invalidate() never write outside it.                                *)
THEOREM WritersExclude == Spec => []WriterHoldsLock
<1>1. NoProc \notin Procs
  BY CacheAssumption
<1>2. Init => Shape /\ WriterHoldsLock
  BY <1>1, LockInit
<1>3. Shape /\ WriterHoldsLock /\ [Next]_vars => (Shape /\ WriterHoldsLock)'
  BY <1>1, LockStep
<1> QED BY <1>2, <1>3, PTL DEF Spec

-----------------------------------------------------------------------------
(* Arithmetic of the two wrapping counters.                                *)

LEMMA Multiples ==
  ASSUME NEW n \in Nat \ {0}, NEW a \in Int, NEW b \in Int, a < b
  PROVE  n * a + n <= n * b
<1>1. n * a + n = n * (a + 1)
  BY Z3
<1>2. PICK d \in Nat : b = a + 1 + d
  <2>1. b - a - 1 \in Nat
    OBVIOUS
  <2> QED BY <2>1
<1>3. n * b = n * (a + 1) + n * d
  BY <1>2, Z3
<1>4. n * d \in Nat
  BY Z3
<1> QED BY <1>1, <1>3, <1>4, Z3

LEMMA Remainder ==
  ASSUME NEW n \in Nat \ {0}, NEW q \in Int, NEW r \in 0 .. n - 1
  PROVE  (n * q + r) % n = r
<1> DEFINE x == n * q + r
<1>1. /\ x \in Int /\ x \div n \in Int /\ x % n \in 0 .. n - 1
      /\ x = (n * (x \div n)) + (x % n)
  BY Z3
<1>2. CASE x \div n < q
  <2>1. n * (x \div n) + n <= n * q
    BY <1>1, <1>2, Multiples
  <2> QED BY <1>1, <2>1, Z3
<1>3. CASE q < x \div n
  <2>1. n * q + n <= n * (x \div n)
    BY <1>1, <1>3, Multiples
  <2> QED BY <1>1, <2>1, Z3
<1>4. CASE q = x \div n
  BY <1>1, <1>4, Z3
<1> QED BY <1>1, <1>2, <1>3, <1>4, Z3

LEMMA SmallRemainder == ASSUME NEW n \in Nat \ {0}, NEW r \in 0 .. n - 1  PROVE r % n = r
<1>1. n * 0 + r = r
  BY Z3
<1> QED BY <1>1, Remainder

LEMMA FullRemainder == ASSUME NEW n \in Nat \ {0}  PROVE n % n = 0
<1>1. n * 1 + 0 = n
  BY Z3
<1> QED BY <1>1, Remainder

(* Bumping a generation flips its parity, at the wrap too.                 *)
LEMMA IncFlips ==
  ASSUME NEW n \in 0 .. Wrap - 1
  PROVE  Inc(n) \in 0 .. Wrap - 1 /\ (Odd(Inc(n)) <=> ~Odd(n))
<1>1. Wrap \in Nat \ {0} /\ Wrap % 2 = 0
  BY CacheAssumption
<1>2. CASE n + 1 < Wrap
  <2>1. (n + 1) % Wrap = n + 1
    BY <1>1, <1>2, SmallRemainder
  <2> QED BY <1>1, <1>2, <2>1 DEF Inc, Odd
<1>3. CASE n + 1 = Wrap
  <2>1. (n + 1) % Wrap = 0
    BY <1>1, <1>3, FullRemainder
  <2> QED BY <1>1, <1>3, <2>1 DEF Inc, Odd
<1> QED BY <1>1, <1>2, <1>3

(* The page after the active one is another page, and is the active one    *)
(* once the counter has advanced.                                          *)
LEMMA RingIndex ==
  ASSUME NEW c \in 0 .. CounterWrap - 1
  PROVE  /\ c % NPages \in Pages
         /\ ((c % NPages) + 1) % NPages \in Pages
         /\ ((c % NPages) + 1) % NPages # c % NPages
         /\ (c + 1) % CounterWrap \in 0 .. CounterWrap - 1
         /\ ((c + 1) % CounterWrap) % NPages = ((c % NPages) + 1) % NPages
<1>a. /\ NPages \in Nat /\ NPages >= 2
      /\ CounterWrap \in Nat \ {0} /\ CounterWrap % NPages = 0
  BY CacheAssumption
<1> DEFINE r == c % NPages
           q == c \div NPages
<1>1. r \in 0 .. NPages - 1 /\ q \in Int /\ c = NPages * q + r
  BY <1>a, Z3
<1> HIDE DEF r, q
<1>2. (r + 1) % NPages = IF r + 1 = NPages THEN 0 ELSE r + 1
  <2>1. CASE r + 1 = NPages
    BY <2>1, <1>a, FullRemainder
  <2>2. CASE r + 1 # NPages
    <3>1. r + 1 \in 0 .. NPages - 1
      BY <2>2, <1>1, <1>a
    <3> QED BY <2>2, <3>1, <1>a, SmallRemainder
  <2> QED BY <2>1, <2>2
<1>3. (c + 1) % NPages = (r + 1) % NPages
  <2>1. CASE r + 1 = NPages
    <3>1. c + 1 = NPages * (q + 1) + 0
      BY <2>1, <1>1, <1>a, Z3
    <3>2. (NPages * (q + 1) + 0) % NPages = 0
      BY <1>1, <1>a, Remainder
    <3> QED BY <2>1, <3>1, <3>2, <1>2
  <2>2. CASE r + 1 # NPages
    <3>1. c + 1 = NPages * q + (r + 1)
      BY <1>1, <1>a, Z3
    <3>2. (NPages * q + (r + 1)) % NPages = r + 1
      BY <2>2, <1>1, <1>a, Remainder
    <3> QED BY <2>2, <3>1, <3>2, <1>2
  <2> QED BY <2>1, <2>2
<1>4. (c + 1) % CounterWrap = IF c + 1 = CounterWrap THEN 0 ELSE c + 1
  <2>1. CASE c + 1 = CounterWrap
    BY <2>1, <1>a, FullRemainder
  <2>2. CASE c + 1 # CounterWrap
    BY <2>2, <1>a, SmallRemainder
  <2> QED BY <2>1, <2>2
<1>5. 0 % NPages = 0
  BY <1>a, SmallRemainder
<1>6. ((c + 1) % CounterWrap) % NPages = (r + 1) % NPages
  BY <1>3, <1>4, <1>5, <1>a
<1>7. (c + 1) % CounterWrap \in 0 .. CounterWrap - 1
  BY <1>4, <1>a
<1>8. /\ r \in Pages /\ (r + 1) % NPages \in Pages /\ (r + 1) % NPages # r
  BY <1>1, <1>2, <1>a DEF Pages
<1> QED BY <1>6, <1>7, <1>8 DEF r

-----------------------------------------------------------------------------
(* The ring.  Its invariant speaks of the holder of the lock only, so that *)
(* a step matters by what it does to Stage, Cursor and the ring.           *)

Holder == Shape /\ WriterHoldsLock /\ dead = {} /\ NoProc \notin Procs

CursorAt(step, i) ==
  /\ step \in {"filter", "pop_lock", "inv_lock"} => i = 0
  /\ step = "pop_page" => i \in 0 .. NPages
  /\ step \in {"pop_tomb", "pop_even", "inv_odd", "inv_zero", "inv_even"} => i \in Pages

(* The cursors of the other workers stay where they are.                   *)
LEMMA CursorStep ==
  ASSUME Shape, CursorInv, NEW p \in Procs, NEW to, Moves(p, to), CursorAt(to, loc'[p].i)
  PROVE  CursorInv'
<1>1. \A q \in Procs \ {p} : pc'[q] = pc[q] /\ loc'[q] = loc[q]
  BY DEF Shape, Moves
<1>2. pc'[p] = to
  BY DEF Shape, Moves
<1>3. ASSUME NEW q \in Procs  PROVE CursorAt(pc'[q], loc'[q].i)
  <2>1. CASE q = p
    BY <1>2, <2>1
  <2>2. CASE q # p
    BY <1>1, <2>2 DEF CursorInv, CursorAt
  <2> QED BY <2>1, <2>2
<1> QED BY <1>3 DEF CursorInv, CursorAt

(* While p writes, the invariant is about p.                               *)
LEMMA HeldBy ==
  ASSUME Holder, NEW p \in Procs, pc[p] \in Writing
  PROVE  lock = p /\ Stage = pc[p] /\ Cursor = loc[p].i
BY DEF Holder, WriterHoldsLock, Stage, Cursor

LEMMA HeldNext ==
  ASSUME Shape, NEW p \in Procs, NEW to, Moves(p, to), lock' = p
  PROVE  Stage' = to /\ Cursor' = loc'[p].i
BY DEF Shape, Moves, Stage, Cursor

(* With nobody killed, a lock that can be taken is free.                   *)
LEMMA Free ==
  ASSUME Holder, CanLock  PROVE lock = NoProc /\ Stage = "none" /\ Cursor = 0
BY DEF Holder, CanLock, Stage, Cursor

LEMMA FreeNext ==
  ASSUME Holder, lock' = NoProc  PROVE Stage' = "none" /\ Cursor' = 0
BY DEF Holder, Stage, Cursor

(* Stages at which no page is odd and the seals follow the counter.        *)
Still == {"none", "rot_odd", "place", "copy", "publish", "fingerprint", "pop_page"}

(* A step between such stages that leaves the ring alone.                  *)
LEMMA StillStep ==
  ASSUME RingType, ParityInv, SealInv, counter' = counter, gen' = gen, sealed' = sealed,
         Stage \in Still, Stage' \in Still
  PROVE  RingType' /\ ParityInv' /\ SealInv'
<1>1. RingType'
  BY DEF RingType
<1>2. \A g \in Pages : ~Rewriting(g) /\ ~Rewriting(g)'
  BY DEF Rewriting, Still
<1>3. Reset = 0 /\ Reset' = 0
  BY DEF Reset, Still
<1>4. active_idx' = active_idx
  BY DEF active_idx
<1>5. ParityInv'
  BY <1>2 DEF ParityInv, Odd
<1>6. SealInv'
  <2>1. \A g \in Pages : sealed[g] <=> g # active_idx
    BY DEF SealInv, Still
  <2>2. \A g \in Pages : ~(g < 0)
    BY DEF Pages
  <2> QED BY <1>3, <1>4, <2>1, <2>2 DEF SealInv, Still
<1> QED BY <1>1, <1>5, <1>6


LEMMA RingPages ==
  ASSUME RingType
  PROVE  active_idx \in Pages /\ retiring_idx \in Pages /\ retiring_idx # active_idx
BY RingIndex DEF RingType, active_idx, retiring_idx

(* A bump of page h's generation keeps ParityInv if h is the page that the *)
(* step takes up or lets go.                                               *)
LEMMA ParityBump ==
  ASSUME RingType, ParityInv, NEW h \in Pages, gen' = [gen EXCEPT ![h] = Inc(@)],
         \A g \in Pages : Rewriting(g)' <=> (IF g = h THEN ~Rewriting(g) ELSE Rewriting(g))
  PROVE  ParityInv' /\ gen' \in [Pages -> 0 .. Wrap - 1]
<1>1. gen \in [Pages -> 0 .. Wrap - 1]
  BY DEF RingType
<1>2. gen[h] \in 0 .. Wrap - 1
  BY <1>1
<1>3. Inc(gen[h]) \in 0 .. Wrap - 1 /\ (Odd(Inc(gen[h])) <=> ~Odd(gen[h]))
  BY <1>2, IncFlips
<1>4. gen' \in [Pages -> 0 .. Wrap - 1]
  BY <1>1, <1>3
<1>5. ASSUME NEW g \in Pages  PROVE Odd(gen'[g]) <=> Rewriting(g)'
  <2>1. CASE g = h
    <3>1. gen'[g] = Inc(gen[h])
      BY <1>1, <2>1
    <3> QED BY <1>3, <2>1, <3>1 DEF ParityInv
  <2>2. CASE g # h
    <3>1. gen'[g] = gen[g]
      BY <1>1, <2>2
    <3> QED BY <2>2, <3>1 DEF ParityInv
  <2> QED BY <2>1, <2>2
<1>6. ParityInv'
  BY <1>5 DEF ParityInv, Odd
<1> QED BY <1>4, <1>6

LEMMA RotateKeepsRing ==
  ASSUME Holder, RingType, ParityInv, SealInv, NEW p \in Procs,
         \/ RotateOdd(p) \/ RotateZero(p) \/ RotateFill(p) \/ RotateEven(p)
         \/ RotateAdvance(p)
  PROVE  RingType' /\ ParityInv' /\ SealInv'
<1>a. Shape /\ \A q \in Procs : DOMAIN loc[q] = DOMAIN Quiet
  BY DEF Holder, Shape
<1>b. active_idx \in Pages /\ retiring_idx \in Pages /\ retiring_idx # active_idx
  BY RingPages
<1>c. \A g \in Pages : ~(g < 0)
  BY DEF Pages
<1>1. CASE RotateOdd(p)
  <2>1. Stage = "rot_odd" /\ Stage' = "rot_zero"
    BY <1>1, <1>a, HeldBy, HeldNext, GotoMoves DEF RotateOdd, On, Writing
  <2>2. active_idx' = active_idx /\ retiring_idx' = retiring_idx
    BY <1>1 DEF RotateOdd, active_idx, retiring_idx
  <2>3. \A g \in Pages : ~Rewriting(g) /\ (Rewriting(g)' <=> g = retiring_idx)
    BY <2>1, <2>2 DEF Rewriting
  <2>4. ParityInv' /\ gen' \in [Pages -> 0 .. Wrap - 1]
    BY <1>1, <1>b, <2>3, ParityBump DEF RotateOdd
  <2>5. sealed' \in [Pages -> BOOLEAN] /\ \A g \in Pages : sealed'[g]
    BY <1>1, <2>1 DEF RotateOdd, RingType, SealInv
  <2>6. Reset' = 0
    BY <2>1 DEF Reset
  <2> QED BY <1>1, <1>c, <2>1, <2>4, <2>5, <2>6 DEF RingType, SealInv, RotateOdd
<1>2. CASE RotateZero(p) \/ RotateFill(p)
  <2>1. Stage \in {"rot_zero", "rot_fill"} /\ Stage' \in {"rot_fill", "rot_even"}
    BY <1>2, <1>a, HeldBy, HeldNext, GotoMoves DEF RotateZero, RotateFill, On, Writing
  <2>2. counter' = counter /\ gen' = gen /\ sealed' = sealed
    BY <1>2 DEF RotateZero, RotateFill, ring
  <2>3. active_idx' = active_idx /\ retiring_idx' = retiring_idx
    BY <2>2 DEF active_idx, retiring_idx
  <2>4. \A g \in Pages : Rewriting(g)' <=> Rewriting(g)
    BY <2>1, <2>3 DEF Rewriting
  <2>5. Reset' = 0
    BY <2>1 DEF Reset
  <2>6. ParityInv'
    BY <2>2, <2>4 DEF ParityInv, Odd
  <2>7. SealInv'
    BY <1>c, <2>1, <2>2, <2>5 DEF SealInv
  <2> QED BY <2>2, <2>6, <2>7 DEF RingType
<1>3. CASE RotateEven(p)
  <2>1. Stage = "rot_even" /\ Stage' = "rot_advance"
    BY <1>3, <1>a, HeldBy, HeldNext, GotoMoves DEF RotateEven, On, Writing
  <2>2. active_idx' = active_idx /\ retiring_idx' = retiring_idx
    BY <1>3 DEF RotateEven, active_idx, retiring_idx
  <2>3. \A g \in Pages : ~Rewriting(g)' /\ (Rewriting(g) <=> g = retiring_idx)
    BY <2>1, <2>2 DEF Rewriting
  <2>4. ParityInv' /\ gen' \in [Pages -> 0 .. Wrap - 1]
    BY <1>3, <1>b, <2>3, ParityBump DEF RotateEven
  <2>5. Reset' = 0
    BY <2>1 DEF Reset
  <2> QED BY <1>3, <1>c, <2>1, <2>4, <2>5 DEF RingType, SealInv, RotateEven
<1>4. CASE RotateAdvance(p)
  <2>1. Stage = "rot_advance" /\ Stage' = "place"
    BY <1>4, <1>a, HeldBy, HeldNext, GotoMoves DEF RotateAdvance, On, Writing
  <2>2. counter' \in 0 .. CounterWrap - 1 /\ active_idx' = retiring_idx
    BY <1>4, RingIndex DEF RotateAdvance, RingType, active_idx, retiring_idx
  <2>3. \A g \in Pages : ~Rewriting(g) /\ ~Rewriting(g)'
    BY <2>1 DEF Rewriting
  <2>4. ParityInv'
    BY <1>4, <2>3 DEF RotateAdvance, ParityInv, Odd
  <2>5. /\ sealed' \in [Pages -> BOOLEAN]
        /\ \A g \in Pages : sealed'[g] <=> g # retiring_idx
    BY <1>4, <2>1 DEF RotateAdvance, RingType, SealInv
  <2>6. Reset' = 0
    BY <2>1 DEF Reset
  <2> QED BY <1>4, <1>c, <2>1, <2>2, <2>4, <2>5, <2>6 DEF RingType, SealInv, RotateAdvance
<1> QED BY <1>1, <1>2, <1>3, <1>4


LEMMA PopKeepsRing ==
  ASSUME Holder, RingInv, NEW p \in Procs,
         PopPage(p) \/ PopTomb(p) \/ PopEven(p)
  PROVE  RingType' /\ CursorInv' /\ ParityInv' /\ SealInv'
<1>a. Shape /\ RingType /\ CursorInv /\ ParityInv /\ SealInv /\ DOMAIN loc = Procs
  BY DEF Holder, Shape, RingInv
<1>b. DOMAIN loc[p] = DOMAIN Quiet /\ "i" \in DOMAIN loc[p]
  BY <1>a DEF Shape, Quiet
<1>c. \A g \in Pages : ~(g < 0)
  BY DEF Pages
<1>d. NPages \in Nat
  BY CacheAssumption
<1>e. lock = p /\ Stage = pc[p] /\ Cursor = loc[p].i
  BY HeldBy DEF PopPage, PopTomb, PopEven, On, Writing
(* A move within pop() that leaves counter and seals alone.                *)
<1>f. ASSUME NEW to \in {"pop_page", "pop_tomb", "pop_even"}, Moves(p, to), lock' = lock,
             Stage \in {"pop_page", "pop_tomb", "pop_even"},
             counter' = counter, sealed' = sealed, CursorAt(to, loc'[p].i)
      PROVE  /\ CursorInv' /\ SealInv' /\ Stage' = to /\ Cursor' = loc'[p].i
             /\ active_idx' = active_idx
             /\ counter' \in 0 .. CounterWrap - 1 /\ sealed' \in [Pages -> BOOLEAN]
  <2>1. CursorInv'
    BY <1>a, <1>f, CursorStep
  <2>2. Stage' = to /\ Cursor' = loc'[p].i
    BY <1>a, <1>e, <1>f, HeldNext
  <2>3. active_idx' = active_idx
    BY <1>f DEF active_idx
  <2>4. Reset' = 0
    BY <2>2 DEF Reset
  <2>5. SealInv'
    BY <1>a, <1>c, <1>f, <2>2, <2>3, <2>4 DEF SealInv
  <2> QED BY <1>a, <1>f, <2>1, <2>2, <2>3, <2>5 DEF RingType
<1>1. CASE PopPage(p)
  <2>1. Stage = "pop_page" /\ loc[p].i \in 0 .. NPages
    BY <1>1, <1>a, <1>e DEF PopPage, On, CursorInv
  <2>2. CASE Moves(p, "done") /\ lock' = NoProc /\ UNCHANGED ring
    <3>1. CursorInv'
      BY <1>a, <2>2, CursorStep DEF CursorAt
    <3>2. Stage' = "none"
      BY <2>2, FreeNext
    <3> QED BY <1>a, <2>1, <2>2, <3>1, <3>2, StillStep DEF ring, Still
  <2>3. CASE /\ Goto(p, "pop_page", [loc[p] EXCEPT !.i = @ + 1])
             /\ loc[p].i < NPages /\ UNCHANGED shared
    <3>1. Moves(p, "pop_page") /\ loc'[p].i = loc[p].i + 1
      BY <1>a, <1>b, <2>3 DEF Goto, Moves, Shape
    <3>2. CursorAt("pop_page", loc'[p].i)
      BY <1>d, <2>1, <2>3, <3>1 DEF CursorAt
    <3>3. CursorInv' /\ SealInv' /\ Stage' = "pop_page"
      BY <1>f, <2>1, <2>3, <3>1, <3>2 DEF shared
    <3> QED BY <1>a, <2>1, <2>3, <3>3, StillStep DEF shared, Still
  <2>4. CASE /\ \E s : Goto(p, "pop_tomb", [loc[p] EXCEPT !.slot = s, !.res = TRUE])
             /\ loc[p].i < NPages
             /\ IF loc[p].i = active_idx THEN gen' = gen
                ELSE gen' = [gen EXCEPT ![loc[p].i] = Inc(@)]
             /\ lock' = lock /\ counter' = counter /\ sealed' = sealed
    <3>1. Moves(p, "pop_tomb") /\ loc'[p].i = loc[p].i
      BY <1>a, <1>b, <2>4 DEF Goto, Moves, Shape
    <3>2. CursorAt("pop_tomb", loc'[p].i) /\ loc[p].i \in Pages
      BY <1>d, <2>1, <2>4, <3>1 DEF CursorAt, Pages
    <3>3. /\ CursorInv' /\ SealInv' /\ Stage' = "pop_tomb" /\ Cursor' = loc[p].i
          /\ counter' \in 0 .. CounterWrap - 1 /\ sealed' \in [Pages -> BOOLEAN]
          /\ active_idx' = active_idx
      BY <1>f, <2>1, <2>4, <3>1, <3>2
    <3>4. \A g \in Pages : ~Rewriting(g)
                           /\ (Rewriting(g)' <=> g = loc[p].i /\ loc[p].i # active_idx)
      BY <2>1, <3>3 DEF Rewriting
    <3>5. CASE loc[p].i = active_idx
      <4>1. ParityInv'
        BY <1>a, <2>4, <3>4, <3>5 DEF ParityInv, Odd
      <4> QED BY <1>a, <2>4, <3>3, <3>5, <4>1 DEF RingType
    <3>6. CASE loc[p].i # active_idx
      <4>1. ParityInv' /\ gen' \in [Pages -> 0 .. Wrap - 1]
        BY <1>a, <2>4, <3>2, <3>4, <3>6, ParityBump
      <4> QED BY <3>3, <4>1 DEF RingType
    <3> QED BY <3>5, <3>6
  <2> QED BY <1>1, <1>a, <2>1, <2>2, <2>3, <2>4, <1>d, FinishMoves DEF PopPage
<1>2. CASE PopTomb(p)
  <2>1. /\ Stage = "pop_tomb" /\ loc[p].i \in Pages
        /\ counter' = counter /\ gen' = gen /\ sealed' = sealed /\ lock' = lock
    BY <1>2, <1>a, <1>e DEF PopTomb, On, CursorInv, ring
  <2>2. CASE loc[p].i = active_idx
    <3>1. Moves(p, "pop_page") /\ loc'[p].i = loc[p].i + 1
      BY <1>2, <1>a, <1>b, <2>2 DEF PopTomb, Goto, Moves, Shape
    <3>2. CursorAt("pop_page", loc'[p].i)
      BY <1>d, <2>1, <3>1 DEF CursorAt, Pages
    <3>3. /\ CursorInv' /\ SealInv' /\ Stage' = "pop_page"
      BY <1>f, <2>1, <3>1, <3>2
    <3>4. \A g \in Pages : ~Rewriting(g) /\ ~Rewriting(g)'
      BY <1>e, <2>1, <2>2, <3>3 DEF Rewriting
    <3> QED BY <1>a, <2>1, <3>3, <3>4 DEF RingType, ParityInv, Odd
  <2>3. CASE loc[p].i # active_idx
    <3>1. Moves(p, "pop_even") /\ loc'[p].i = loc[p].i
      BY <1>2, <1>a, <1>b, <2>3 DEF PopTomb, Goto, Moves, Shape
    <3>2. CursorAt("pop_even", loc'[p].i)
      BY <2>1, <3>1 DEF CursorAt
    <3>3. /\ CursorInv' /\ SealInv' /\ Stage' = "pop_even" /\ Cursor' = loc[p].i
      BY <1>f, <2>1, <3>1, <3>2
    <3>4. \A g \in Pages : Rewriting(g)' <=> Rewriting(g)
      BY <1>e, <2>1, <2>3, <3>3 DEF Rewriting
    <3> QED BY <1>a, <2>1, <3>3, <3>4 DEF RingType, ParityInv, Odd
  <2> QED BY <2>2, <2>3
<1>3. CASE PopEven(p)
  <2>1. /\ Stage = "pop_even" /\ loc[p].i \in Pages
        /\ counter' = counter /\ sealed' = sealed /\ lock' = lock
    BY <1>3, <1>a, <1>e DEF PopEven, On, CursorInv
  <2>2. Moves(p, "pop_page") /\ loc'[p].i = loc[p].i + 1
    BY <1>3, <1>a, <1>b DEF PopEven, Goto, Moves, Shape
  <2>3. CursorAt("pop_page", loc'[p].i)
    BY <1>d, <2>1, <2>2 DEF CursorAt, Pages
  <2>4. /\ CursorInv' /\ SealInv' /\ Stage' = "pop_page"
        /\ counter' \in 0 .. CounterWrap - 1 /\ sealed' \in [Pages -> BOOLEAN]
    BY <1>f, <2>1, <2>2, <2>3
  <2>5. \A g \in Pages : ~Rewriting(g)' /\ (Rewriting(g) <=> g = loc[p].i)
    BY <1>e, <2>1, <2>4 DEF Rewriting
  <2>6. ParityInv' /\ gen' \in [Pages -> 0 .. Wrap - 1]
    BY <1>3, <1>a, <2>1, <2>5, ParityBump DEF PopEven
  <2> QED BY <2>4, <2>6 DEF RingType
<1> QED BY <1>1, <1>2, <1>3


LEMMA InvalidateKeepsRing ==
  ASSUME Holder, RingInv, NEW p \in Procs,
         InvalidateOdd(p) \/ InvalidateZero(p) \/ InvalidateEven(p) \/ InvalidateReset(p)
  PROVE  RingType' /\ CursorInv' /\ ParityInv' /\ SealInv'
<1>a. Shape /\ RingType /\ CursorInv /\ ParityInv /\ SealInv
  BY DEF Holder, RingInv
<1>b. DOMAIN loc = Procs /\ DOMAIN loc[p] = DOMAIN Quiet /\ "i" \in DOMAIN loc[p]
  BY <1>a DEF Shape, Quiet
<1>c. NPages \in Nat /\ NPages >= 2 /\ CounterWrap \in Nat \ {0}
  BY CacheAssumption
<1>d. lock = p /\ Stage = pc[p] /\ Cursor = loc[p].i
  BY HeldBy DEF InvalidateOdd, InvalidateZero, InvalidateEven, InvalidateReset, On, Writing
<1>1. CASE InvalidateOdd(p)
  <2>1. Stage = "inv_odd" /\ loc[p].i \in Pages
    BY <1>1, <1>a, <1>d DEF InvalidateOdd, On, CursorInv
  <2>2. Moves(p, "inv_zero") /\ loc'[p].i = loc[p].i
    BY <1>1, <1>a, <1>b DEF InvalidateOdd, Goto, Moves, Shape
  <2>3. CursorInv' /\ Stage' = "inv_zero" /\ Cursor' = loc[p].i
    BY <1>1, <1>a, <1>d, <2>1, <2>2, CursorStep, HeldNext DEF CursorAt, InvalidateOdd
  <2>4. \A g \in Pages : ~Rewriting(g) /\ (Rewriting(g)' <=> g = loc[p].i)
    BY <2>1, <2>3 DEF Rewriting
  <2>5. ParityInv' /\ gen' \in [Pages -> 0 .. Wrap - 1]
    BY <1>1, <1>a, <2>1, <2>4, ParityBump DEF InvalidateOdd
  <2>6. Reset' = Reset
    BY <1>d, <2>1, <2>3 DEF Reset
  <2>7. SealInv'
    BY <1>1, <1>a, <2>1, <2>3, <2>6 DEF SealInv, InvalidateOdd
  <2> QED BY <1>1, <1>a, <2>3, <2>5, <2>7 DEF RingType, InvalidateOdd
<1>2. CASE InvalidateZero(p)
  <2>1. Stage = "inv_zero" /\ loc[p].i \in Pages
    BY <1>2, <1>a, <1>d DEF InvalidateZero, On, CursorInv
  <2>2. Moves(p, "inv_even") /\ loc'[p].i = loc[p].i
    BY <1>2, <1>a, <1>b DEF InvalidateZero, Goto, Moves, Shape
  <2>3. CursorInv' /\ Stage' = "inv_even" /\ Cursor' = loc[p].i
    BY <1>2, <1>a, <1>d, <2>1, <2>2, CursorStep, HeldNext DEF CursorAt, InvalidateZero
  <2>4. \A g \in Pages : Rewriting(g)' <=> Rewriting(g)
    BY <1>d, <2>1, <2>3 DEF Rewriting
  <2>5. ParityInv'
    BY <1>2, <1>a, <2>4 DEF ParityInv, Odd, InvalidateZero
  <2>6. Reset = loc[p].i /\ Reset' = loc[p].i + 1
    BY <1>d, <2>1, <2>3 DEF Reset
  <2>7. /\ sealed' \in [Pages -> BOOLEAN]
        /\ \A g \in Pages : sealed'[g] = IF g = loc[p].i THEN g # 0 ELSE sealed[g]
    BY <1>2, <1>a, <2>1 DEF InvalidateZero, RingType
  <2>8. \A g \in Pages : g < loc[p].i + 1 => g = loc[p].i \/ g < loc[p].i
    BY <1>c, <2>1 DEF Pages
  <2>9. \A g \in Pages : g < loc[p].i + 1 => (sealed'[g] <=> g # 0)
    BY <1>a, <2>6, <2>7, <2>8 DEF SealInv
  <2>10. SealInv'
    BY <2>3, <2>6, <2>9 DEF SealInv
  <2> QED BY <1>2, <1>a, <2>3, <2>5, <2>7, <2>10 DEF RingType, InvalidateZero
<1>3. CASE InvalidateEven(p)
  <2>1. Stage = "inv_even" /\ loc[p].i \in Pages
    BY <1>3, <1>a, <1>d DEF InvalidateEven, On, CursorInv
  <2>2. /\ loc'[p].i = loc[p].i + 1
        /\ \/ Moves(p, "inv_odd") /\ loc[p].i + 1 < NPages
           \/ Moves(p, "inv_reset") /\ ~(loc[p].i + 1 < NPages)
    BY <1>3, <1>a, <1>b DEF InvalidateEven, Goto, Moves, Shape
  <2>3. CursorInv'
    BY <1>a, <1>c, <2>1, <2>2, CursorStep DEF CursorAt, Pages
  <2>4. /\ Cursor' = loc[p].i + 1
        /\ \/ Stage' = "inv_odd"
           \/ Stage' = "inv_reset" /\ NPages = loc[p].i + 1
    BY <1>3, <1>a, <1>c, <1>d, <2>1, <2>2, HeldNext DEF InvalidateEven, Pages
  <2>5. \A g \in Pages : ~Rewriting(g)' /\ (Rewriting(g) <=> g = loc[p].i)
    BY <1>d, <2>1, <2>4 DEF Rewriting
  <2>6. ParityInv' /\ gen' \in [Pages -> 0 .. Wrap - 1]
    BY <1>3, <1>a, <2>1, <2>5, ParityBump DEF InvalidateEven
  <2>7. Reset' = Reset
    BY <1>d, <2>1, <2>4 DEF Reset
  <2>8. SealInv'
    BY <1>3, <1>a, <2>1, <2>4, <2>7 DEF SealInv, InvalidateEven
  <2> QED BY <1>3, <1>a, <2>3, <2>6, <2>8 DEF RingType, InvalidateEven
<1>4. CASE InvalidateReset(p)
  <2>1. Stage = "inv_reset" /\ Stage' = "none" /\ Moves(p, "done")
    BY <1>4, <1>a, <1>d, FreeNext, FinishMoves DEF InvalidateReset, On
  <2>2. CursorInv'
    BY <1>a, <2>1, CursorStep DEF CursorAt
  <2>3. counter' \in 0 .. CounterWrap - 1 /\ active_idx' = 0
    BY <1>4, <1>c, SmallRemainder DEF InvalidateReset, active_idx
  <2>4. ParityInv'
    BY <1>4, <1>a, <2>1 DEF InvalidateReset, ParityInv, Rewriting, Odd
  <2>5. Reset = NPages /\ Reset' = 0 /\ \A g \in Pages : g < NPages /\ ~(g < 0)
    BY <1>c, <2>1 DEF Reset, Pages
  <2>6. SealInv'
    BY <1>4, <1>a, <2>1, <2>3, <2>5 DEF SealInv, InvalidateReset
  <2> QED BY <1>4, <1>a, <2>2, <2>3, <2>4, <2>6 DEF InvalidateReset, RingType
<1> QED BY <1>1, <1>2, <1>3, <1>4


(* A step by a worker that neither holds, takes nor releases the lock.     *)
LEMMA SameHolder ==
  ASSUME RingType, ParityInv, SealInv, counter' = counter, gen' = gen, sealed' = sealed,
         Stage' = Stage, Cursor' = Cursor
  PROVE  RingType' /\ ParityInv' /\ SealInv'
<1>1. active_idx' = active_idx /\ retiring_idx' = retiring_idx
  BY DEF active_idx, retiring_idx
<1>2. Reset' = Reset /\ \A g \in Pages : Rewriting(g)' <=> Rewriting(g)
  BY <1>1 DEF Reset, Rewriting
<1>3. RingType' /\ ParityInv'
  BY <1>2 DEF RingType, ParityInv, Odd
<1>4. SealInv'
  BY <1>1, <1>2 DEF SealInv
<1> QED BY <1>3, <1>4

LEMMA StartKeepsRing ==
  ASSUME Holder, RingInv, NEW p \in Procs, NEW op, NEW k, NEW v, Start(p, op, k, v)
  PROVE  RingInv'
<1>a. Shape /\ RingType /\ CursorInv /\ ParityInv /\ SealInv /\ dead = {}
  BY DEF Holder, RingInv
<1>1. /\ pc[p] = "idle" /\ dead' = dead /\ lock' = lock
      /\ counter' = counter /\ gen' = gen /\ sealed' = sealed
  BY DEF Start, shared
<1>2. pc'[p] \in {"inv_lock", "filter"} /\ loc'[p].i = 0
  BY <1>a DEF Start, Shape, Quiet
<1>3. ASSUME NEW q \in Procs, q # p  PROVE pc'[q] = pc[q] /\ loc'[q].i = loc[q].i
  <2>1. "i" \in DOMAIN loc[q]
    BY <1>a DEF Shape, Quiet
  <2> QED BY <1>a, <1>3, <2>1 DEF Start, Shape
<1>4. CursorInv'
  BY <1>a, <1>2, <1>3 DEF CursorInv
<1>5. lock # p
  BY <1>1 DEF Holder, WriterHoldsLock, Writing
<1>6. Stage' = Stage /\ Cursor' = Cursor
  BY <1>1, <1>3, <1>5 DEF Stage, Cursor
<1> QED BY <1>a, <1>1, <1>4, <1>6, SameHolder DEF RingInv

LEMMA ReadKeepsRing ==
  ASSUME Holder, RingInv, NEW p \in Procs, Reads(p)  PROVE RingInv'
<1>a. Shape /\ RingType /\ CursorInv /\ ParityInv /\ SealInv /\ dead = {}
  BY DEF Holder, RingInv
<1>1. lock' = lock /\ lock # p /\ dead' = dead
  BY <1>a, Free DEF Reads, Holder, WriterHoldsLock, Moves
<1>2. PICK to \in Resting : /\ Moves(p, to)
                            /\ to = "pop_lock" => pc[p] = "filter" /\ loc'[p].i = loc[p].i
  BY DEF Reads
<1>3. CursorAt(to, loc'[p].i)
  BY <1>a, <1>2 DEF Resting, CursorAt, CursorInv
<1>4. CursorInv'
  BY <1>a, <1>2, <1>3, CursorStep
<1>5. Stage' = Stage /\ Cursor' = Cursor
  BY <1>a, <1>1, <1>2 DEF Moves, Shape, Stage, Cursor
<1> QED BY <1>a, <1>1, <1>4, <1>5, SameHolder DEF RingInv, Reads

(* The steps of set() under the lock that are not the rotation's.          *)
LEMMA InsertKeepsRing ==
  ASSUME Holder, RingInv, NEW p \in Procs,
         \/ InsertLock(p) \/ PlaceFails(p) \/ Place(p) \/ Copy(p) \/ Publish(p)
         \/ InsertFingerprint(p) \/ PopLock(p)
  PROVE  RingType' /\ CursorInv' /\ ParityInv' /\ SealInv'
<1>a. Shape /\ RingType /\ CursorInv /\ ParityInv /\ SealInv
  BY DEF Holder, RingInv
<1>b. \A q \in Procs : DOMAIN loc[q] = DOMAIN Quiet
  BY <1>a DEF Shape
<1>c. DOMAIN loc = Procs /\ "i" \in DOMAIN loc[p] /\ 0 \in 0 .. NPages
  BY <1>a, CacheAssumption DEF Shape, Quiet
<1>d. counter' = counter /\ gen' = gen /\ sealed' = sealed
  BY DEF InsertLock, PlaceFails, Place, Copy, Publish, InsertFingerprint, PopLock, ring
<1>e. ASSUME NEW to \in (Still \ {"none", "pop_page"}) \cup {"idle", "done"}, Moves(p, to)
      PROVE  CursorInv'
  BY <1>a, <1>e, CursorStep DEF CursorAt, Still
<1>1. CASE InsertLock(p)
  <2>1. Moves(p, "rot_odd") \/ Moves(p, "place")
    BY <1>1, <1>a DEF InsertLock, Goto, Moves, Shape
  <2>2. CursorInv' /\ Stage = "none" /\ Stage' \in Still
    BY <1>1, <1>a, <1>e, <2>1, Free, HeldNext DEF InsertLock, Still
  <2> QED BY <1>a, <1>d, <2>2, StillStep DEF Still
<1>2. CASE PlaceFails(p) \/ InsertFingerprint(p)
  <2>1. Moves(p, "idle") \/ Moves(p, "done")
    BY <1>2, <1>a, GiveUpMoves, FinishMoves DEF PlaceFails, InsertFingerprint
  <2>2. CursorInv' /\ Stage \in {"place", "fingerprint"} /\ Stage' = "none"
    BY <1>2, <1>e, <2>1, HeldBy, FreeNext DEF PlaceFails, InsertFingerprint, On, Writing
  <2> QED BY <1>a, <1>d, <2>2, StillStep DEF Still
<1>3. CASE Place(p) \/ Copy(p) \/ Publish(p)
  <2>1. Moves(p, "copy") \/ Moves(p, "publish") \/ Moves(p, "fingerprint")
    BY <1>3, <1>a, <1>b, GotoMoves DEF Place, Copy, Publish
  <2>2. lock = p /\ lock' = p /\ Stage \in Still
    BY <1>3, HeldBy DEF Place, Copy, Publish, On, Writing, Still
  <2>3. CursorInv' /\ Stage' \in Still
    BY <1>a, <1>e, <2>1, <2>2, HeldNext DEF Still
  <2> QED BY <1>a, <1>d, <2>2, <2>3, StillStep
<1>4. CASE PopLock(p)
  <2>1. Moves(p, "pop_page") /\ loc'[p].i = loc[p].i /\ loc[p].i = 0
    BY <1>4, <1>a, <1>c DEF PopLock, On, Goto, Moves, Shape, CursorInv
  <2>2. CursorInv'
    BY <1>a, <1>c, <2>1, CursorStep DEF CursorAt
  <2>3. Stage = "none" /\ Stage' = "pop_page"
    BY <1>4, <1>a, <2>1, Free, HeldNext DEF PopLock
  <2> QED BY <1>a, <1>d, <2>2, <2>3, StillStep DEF Still
<1> QED BY <1>1, <1>2, <1>3, <1>4

LEMMA InvalidateLockKeepsRing ==
  ASSUME Holder, RingInv, NEW p \in Procs, InvalidateLock(p)
  PROVE  RingType' /\ CursorInv' /\ ParityInv' /\ SealInv'
<1>a. Shape /\ RingType /\ CursorInv /\ ParityInv /\ SealInv
  BY DEF Holder, RingInv
<1>b. DOMAIN loc = Procs /\ "i" \in DOMAIN loc[p] /\ 0 \in Pages /\ \A g \in Pages : ~(g < 0)
  BY <1>a, CacheAssumption DEF Shape, Quiet, Pages
<1>1. Moves(p, "inv_odd") /\ loc'[p].i = 0
  BY <1>a, <1>b DEF InvalidateLock, On, Goto, Moves, Shape, CursorInv
<1>2. CursorInv'
  BY <1>a, <1>b, <1>1, CursorStep DEF CursorAt
<1>3. Stage = "none" /\ Stage' = "inv_odd" /\ Cursor' = 0
  BY <1>a, <1>1, Free, HeldNext DEF InvalidateLock
<1>4. counter' = counter /\ gen' = gen /\ sealed' = sealed
  BY DEF InvalidateLock, ring
<1>5. \A g \in Pages : ~Rewriting(g) /\ ~Rewriting(g)'
  BY <1>3 DEF Rewriting
<1>6. Reset' = 0
  BY <1>3 DEF Reset
<1>7. SealInv'
  BY <1>b, <1>3, <1>6 DEF SealInv
<1> QED BY <1>a, <1>2, <1>4, <1>5, <1>7 DEF RingType, ParityInv, Odd

LEMMA RingInit == ASSUME NoProc \notin Procs, Init  PROVE RingInv
<1>1. /\ NPages \in Nat /\ NPages >= 2 /\ Wrap \in Nat \ {0} /\ CounterWrap \in Nat \ {0}
  BY CacheAssumption
<1>2. active_idx = 0 /\ Stage = "none"
  BY <1>1, SmallRemainder DEF Init, active_idx, Stage
<1>3. RingType
  BY <1>1 DEF Init, RingType
<1>4. CursorInv
  BY DEF Init, CursorInv
<1>5. ParityInv
  BY <1>2 DEF Init, ParityInv, Rewriting, Odd
<1>6. SealInv
  <2>1. Reset = 0 /\ \A g \in Pages : ~(g < 0)
    BY <1>2 DEF Reset, Pages
  <2> QED BY <1>2, <2>1 DEF Init, SealInv
<1> QED BY <1>3, <1>4, <1>5, <1>6 DEF Init, RingInv

LEMMA RingStep ==
  ASSUME MaxCrashes = 0, NoProc \notin Procs, Shape, WriterHoldsLock, RingInv, [Next]_vars
  PROVE  RingInv'
<1>a. Holder /\ RingType /\ CursorInv /\ ParityInv /\ SealInv /\ dead = {}
  BY DEF Holder, RingInv
<1>1. CASE UNCHANGED vars
  <2>1. Stage' = Stage /\ Cursor' = Cursor
    BY <1>1 DEF vars, shared, Stage, Cursor
  <2>2. CursorInv' /\ dead' = {}
    BY <1>1, <1>a DEF vars, shared, CursorInv
  <2> QED BY <1>1, <1>a, <2>1, <2>2, SameHolder DEF vars, shared, RingInv
<1>2. ASSUME NEW p \in Procs, Crash(p)  PROVE FALSE
  <2>1. Cardinality(dead) = 0
    BY <1>a, FS_EmptySet
  <2> QED BY <1>2, <2>1 DEF Crash
<1>3. ASSUME NEW p \in Procs, ReadStep(p)  PROVE RingInv'
  BY <1>3, <1>a, ReadStepReads, ReadKeepsRing
<1>4. ASSUME NEW p \in Procs, WriteStep(p)  PROVE RingInv'
  <2>1. dead' = {}
    BY <1>4, <1>a DEF WriteStep, InsertLock, RotateOdd, RotateZero, RotateFill, RotateEven,
       RotateAdvance, PlaceFails, Place, Copy, Publish, InsertFingerprint, Pop, PopLock,
       PopPage, PopTomb, PopEven, Invalidate, InvalidateLock, InvalidateOdd, InvalidateZero,
       InvalidateEven, InvalidateReset, GiveUp, Finish, Goto
  <2>2. CASE \/ RotateOdd(p) \/ RotateZero(p) \/ RotateFill(p) \/ RotateEven(p)
             \/ RotateAdvance(p)
    <3>1. \E to \in {"rot_zero", "rot_fill", "rot_even", "rot_advance", "place"} : Moves(p, to)
      BY <2>2, GotoMoves DEF RotateOdd, RotateZero, RotateFill, RotateEven, RotateAdvance, Shape
    <3>2. CursorInv'
      BY <1>a, <3>1, CursorStep DEF CursorAt
    <3> QED BY <1>a, <2>1, <2>2, <3>2, RotateKeepsRing DEF RingInv
  <2> QED BY <1>4, <1>a, <2>1, <2>2, InsertKeepsRing, PopKeepsRing, InvalidateKeepsRing,
             InvalidateLockKeepsRing DEF WriteStep, Pop, Invalidate, RingInv
<1> QED BY <1>1, <1>2, <1>3, <1>4, <1>a, StartKeepsRing, StepSplit DEF Next, Call

LEMMA RingInvRests == ASSUME NoProc \notin Procs, RingInv  PROVE RingAtRest
<1>1. ASSUME lock = NoProc  PROVE Stage = "none"
  BY <1>1 DEF Stage
<1>2. Stage = "none" => \A g \in Pages : ~Odd(gen[g]) /\ (sealed[g] <=> g # active_idx)
  BY DEF RingInv, ParityInv, SealInv, Rewriting
<1> QED BY <1>1, <1>2 DEF RingAtRest

(* As long as no worker is killed, whenever the lock is free every page's  *)
(* generation is even and exactly the active page is unsealed: rotations,  *)
(* pops and invalidations bump generations in pairs and move the seals     *)
(* with the counter on every path, at the wraps of both counters too.      *)
THEOREM RingComesToRest == ASSUME MaxCrashes = 0  PROVE Spec => []RingAtRest
<1>1. NoProc \notin Procs
  BY CacheAssumption
<1>2. Init => Shape /\ WriterHoldsLock /\ RingInv
  BY <1>1, LockInit, RingInit
<1>3. Shape /\ WriterHoldsLock /\ RingInv /\ [Next]_vars
        => (Shape /\ WriterHoldsLock /\ RingInv)'
  BY <1>1, LockStep, RingStep
<1>4. RingInv => RingAtRest
  BY <1>1, RingInvRests
<1> QED BY <1>2, <1>3, <1>4, PTL DEF Spec

-----------------------------------------------------------------------------
(* The pages.  A page that is well formed stays so through every write to  *)
(* it, and between the writes of one set() or pop() the worker's plan fits *)
(* the page: nobody but the holder of the lock writes keys or allocations. *)

SlotClasses == {0} \cup {Class[v] : v \in Values}
Slot == [key : Keys \cup {EMPTY, TOMBSTONE}, off : Nat, len : Nat, cap : Nat, cls : SlotClasses,
         vis : BOOLEAN, seq : Nat]
Contents == Values \cup {Zero, Torn}
PageType == [head : 0 .. ArenaCap, count : Nat, slots : [SlotIds -> Slot],
             arena : [0 .. ArenaCap - 1 -> Contents]]
Survivor == [key : Keys, len : Nat \ {0}, cls : SlotClasses, content : Contents]

(* No EMPTY slot lies between a key's home and its j-th slot.              *)
PathTo(pg, k, j) == \A m \in 0 .. j - 1 : pg.slots[At(k, m)].key # EMPTY
Reaches(pg) ==
  \A i \in Live(pg) : \E j \in SlotIds : At(pg.slots[i].key, j) = i /\ PathTo(pg, pg.slots[i].key, j)
Apart(s, t) == s.off + s.cap <= t.off \/ t.off + t.cap <= s.off

PageInv(pg) ==
  /\ pg \in PageType
  /\ NoDuplicateKey(pg) /\ Reachable(pg) /\ ArenaDisjoint(pg)
  /\ \A i \in SlotIds : pg.slots[i].key # EMPTY => pg.slots[i].len # 0

(* What do_insert() has decided still holds of the page it will publish in.*)
PlanFits(pg, pl, k, len) ==
  /\ pl.slot \in SlotIds /\ pl.off \in Nat /\ pl.cap \in Nat /\ len <= pl.cap
  /\ pl.head = pg.head /\ pl.off + pl.cap <= pg.head
  /\ pl.fresh \in BOOLEAN
  /\ pl.fresh => pg.slots[pl.slot].key \in {EMPTY, TOMBSTONE} /\ \A i \in SlotIds : pg.slots[i].key # k
  /\ ~pl.fresh => pg.slots[pl.slot].key = k
  /\ \E j \in SlotIds : At(k, j) = pl.slot /\ PathTo(pg, k, j)
  /\ \A i \in SlotIds \ {pl.slot} : pg.slots[i].key # EMPTY => Apart(pg.slots[i], pl)

Setting == {"check", "scan", "chunk", "chunk_read", "insert", "rot_odd", "rot_zero", "rot_fill",
            "rot_even", "rot_advance", "place", "copy", "publish", "fingerprint"}
Keyless == {"idle", "done", "inv_lock", "inv_odd", "inv_zero", "inv_even", "inv_reset"}
LocalInv(c, l) ==
  /\ l.surv \in Seq(Survivor)
  /\ c \notin Keyless => l.key \in Keys
  /\ l.op = "set" /\ c \notin {"idle", "done"} => l.val \in Values
  /\ c \in Setting => l.op = "set"
  /\ c \in {"check", "scan", "chunk", "chunk_read"} => l.i \in SlotIds
  /\ c \in {"scan", "chunk", "chunk_read"} => l.ai \in Pages
  /\ c = "sealed" => l.ai \in Pages /\ l.i \in 1 .. NPages
  /\ c \in {"sealed_probe", "sealed_read", "sealed_verify"} => l.ai \in Pages /\ l.i \in 1 .. NPages - 1
  /\ c \in {"filter", "pop_lock", "inv_lock"} => l.i = 0
  /\ c = "filter" => l.surv = <<>>
  /\ c = "pop_page" => l.i \in 0 .. NPages
  /\ c \in {"pop_tomb", "pop_even", "inv_odd", "inv_zero", "inv_even"} => l.i \in Pages

(* The worker c, l that holds the lock, where a is the active page.        *)
HeldInv(c, l, pages, a) ==
  /\ c \in {"copy", "publish"} => PlanFits(pages[a], l.plan, l.key, Size[l.val])
  /\ c = "pop_tomb" => l.slot \in Live(pages[l.i])

FilterType == [Buckets -> [SlotIdx -> Nat]]
RestType ==
  /\ counter \in Nat /\ filter \in FilterType
  /\ gen \in [Pages -> 0 .. Wrap - 1] /\ sealed \in [Pages -> BOOLEAN] /\ pc \in [Procs -> Labels]
TableInv ==
  /\ RestType /\ DOMAIN page = Pages
  /\ \A g \in Pages : PageInv(page[g])
  /\ \A p \in Procs : LocalInv(pc[p], loc[p])
  /\ \A p \in Procs \ dead : HeldInv(pc[p], loc[p], page, active_idx)

(* entry_count follows the entries of the active page, except between the  *)
(* two writes of a pop, and of a page that is being refilled.              *)
Exact(pg) == pg.count = Cardinality(Live(pg))
Popped(g) == Stage = "pop_tomb" /\ g = Cursor /\ g = active_idx
CountInv ==
  \A g \in Pages :
    /\ Popped(g) => page[g].count + 1 = Cardinality(Live(page[g]))
    /\ ~Popped(g) => page[g].count >= Cardinality(Live(page[g]))
    /\ g = active_idx /\ ~Popped(g) => Exact(page[g])
    /\ Stage \in {"rot_fill", "rot_even", "rot_advance"} /\ g = retiring_idx => Exact(page[g])
    /\ g < Reset => Exact(page[g])

-----------------------------------------------------------------------------
(* Least members, and induction along a range.                             *)

LEMMA LeastMember ==
  ASSUME NEW S, S \subseteq Nat, S # {}  PROVE Min(S) \in S /\ \A j \in S : Min(S) <= j
<1>1. PICK m \in S : \A j \in S : ~(<<j, m>> \in OpToRel(<, Nat))
  BY NatLessThanWellFounded, WFMin
<1>2. \A j \in S : ~(j < m)
  BY <1>1 DEF OpToRel
<1>3. \A j \in S : m <= j
  BY <1>2
<1> QED BY <1>3 DEF Min

LEMMA RangeInduction ==
  ASSUME NEW N \in Nat, NEW S, NEW c, c[0] \in S,
         \A n \in 1 .. N : c[n - 1] \in S => c[n] \in S
  PROVE  \A n \in 0 .. N : c[n] \in S
<1> DEFINE B == {n \in 0 .. N : c[n] \notin S}
<1> SUFFICES ASSUME B # {}  PROVE FALSE
  OBVIOUS
<1> HIDE DEF B
<1>1. B \subseteq Nat
  BY DEF B
<1>2. Min(B) \in B /\ \A j \in B : Min(B) <= j
  BY <1>1, LeastMember
<1> DEFINE m == Min(B)
<1>3. m \in B /\ \A j \in B : m <= j
  BY <1>2
<1> HIDE DEF m
<1>4. m \in 1 .. N /\ m - 1 \in 0 .. N /\ ~(m <= m - 1)
  BY <1>3 DEF B
<1>5. c[m - 1] \in S
  BY <1>3, <1>4 DEF B
<1> QED BY <1>3, <1>4, <1>5 DEF B

(* A function that is defined by recursion along a range exists.           *)
StepsIn(S, N) == [S \X (1 .. N) -> S]
ChainIn(S, N, base, step, a) ==
  a \in [0 .. N -> S] /\ a[0] = base /\ \A n \in 1 .. N : a[n] = step[<<a[n - 1], n>>]

LEMMA Recursion ==
  ASSUME NEW S, NEW N, N \in Nat, NEW base, base \in S, NEW step, step \in StepsIn(S, N)
  PROVE  \E a : ChainIn(S, N, base, step, a)
<1>0. step \in [S \X (1 .. N) -> S]
  BY DEF StepsIn
<1> DEFINE G == {n \in 0 .. N : \E a \in [0 .. n -> S] :
                   a[0] = base /\ \A j \in 1 .. n : a[j] = step[<<a[j - 1], j>>]}
           c == [n \in 0 .. N |-> n]
<1>1. c[0] \in G
  <2> DEFINE z == [n \in 0 .. 0 |-> base]
  <2>1. z \in [0 .. 0 -> S] /\ z[0] = base /\ 1 .. 0 = {} /\ 0 \in 0 .. N /\ c[0] = 0
    OBVIOUS
  <2> HIDE DEF z, c
  <2> QED BY <2>1
<1>2. ASSUME NEW n \in 1 .. N, c[n - 1] \in G  PROVE c[n] \in G
  <2>1. n - 1 \in 0 .. N /\ n \in 0 .. N /\ c[n - 1] = n - 1 /\ c[n] = n
    OBVIOUS
  <2>2. PICK a \in [0 .. n - 1 -> S] : a[0] = base /\ \A j \in 1 .. n - 1 : a[j] = step[<<a[j - 1], j>>]
    BY <1>2, <2>1
  <2> DEFINE b == [j \in 0 .. n |-> IF j = n THEN step[<<a[n - 1], n>>] ELSE a[j]]
  <2>3. n - 1 \in 0 .. n - 1 /\ a[n - 1] \in S /\ <<a[n - 1], n>> \in S \X (1 .. N)
    BY <2>1
  <2>4. step[<<a[n - 1], n>>] \in S
    BY <1>0, <2>3
  <2>5. ASSUME NEW j \in 0 .. n  PROVE b[j] \in S
    <3>1. j # n => j \in 0 .. n - 1
      BY <2>1
    <3> QED BY <2>4, <3>1
  <2>6. b \in [0 .. n -> S]
    BY <2>5
  <2>7. b[0] = base
    BY <2>1, <2>2
  <2>8. ASSUME NEW j \in 1 .. n  PROVE b[j] = step[<<b[j - 1], j>>]
    <3>1. j \in 0 .. n /\ j - 1 \in 0 .. n /\ j - 1 # n /\ (j # n => j \in 1 .. n - 1)
      BY <2>1
    <3>2. b[j - 1] = a[j - 1]
      BY <3>1
    <3> QED BY <2>2, <3>1, <3>2
  <2> QED BY <2>1, <2>6, <2>7, <2>8
<1> HIDE DEF G, c
<1>3. \A n \in 0 .. N : c[n] \in G
  BY <1>1, <1>2, RangeInduction
<1>4. N \in G
  BY <1>3 DEF c
<1> QED BY <1>4 DEF G, ChainIn

-----------------------------------------------------------------------------
(* One page as a hash table.                                               *)

LEMMA AtFacts ==
  ASSUME NEW k \in Keys, NEW j \in SlotIds
  PROVE  At(k, j) \in SlotIds /\ \A m \in SlotIds : At(k, m) = At(k, j) => m = j
<1>1. SlotCount \in Nat \ {0} /\ Home[k] \in 0 .. SlotCount - 1 /\ j \in 0 .. SlotCount - 1
  BY PageAssumption DEF SlotIds
<1> DEFINE n == SlotCount
           h == Home[k]
<1> HIDE DEF n, h
<1>2. n \in Nat \ {0} /\ h \in 0 .. n - 1 /\ j \in 0 .. n - 1 /\ SlotIds = 0 .. n - 1
  BY <1>1 DEF n, h, SlotIds
<1>3. ASSUME NEW i \in 0 .. n - 1  PROVE (h + i) % n = IF h + i < n THEN h + i ELSE h + i - n
  <2>1. CASE h + i < n
    <3>1. h + i \in 0 .. n - 1
      BY <1>2, <2>1
    <3> QED BY <1>2, <2>1, <3>1, SmallRemainder
  <2>2. CASE ~(h + i < n)
    <3>1. h + i - n \in 0 .. n - 1 /\ n * 1 + (h + i - n) = h + i
      BY <1>2, <2>2
    <3>2. (n * 1 + (h + i - n)) % n = h + i - n
      BY <1>2, <3>1, Remainder
    <3> QED BY <2>2, <3>1, <3>2
  <2> QED BY <2>1, <2>2
<1>4. \A i \in 0 .. n - 1 : At(k, i) = IF h + i < n THEN h + i ELSE h + i - n
  BY <1>3 DEF At, n, h
<1>5. At(k, j) \in 0 .. n - 1
  BY <1>2, <1>4
<1>6. ASSUME NEW m \in 0 .. n - 1, At(k, m) = At(k, j)  PROVE m = j
  BY <1>2, <1>4, <1>6
<1> QED BY <1>2, <1>5, <1>6

(* A probe stops at the key or at the first EMPTY slot.                    *)
LEMMA StopFacts ==
  ASSUME NEW pg, NEW k \in Keys
  PROVE  /\ FirstStop(pg, k) \in 0 .. SlotCount
         /\ FirstStop(pg, k) < SlotCount =>
              FirstStop(pg, k) \in SlotIds /\ pg.slots[At(k, FirstStop(pg, k))].key \in {EMPTY, k}
         /\ \A m \in SlotIds : m < FirstStop(pg, k) => pg.slots[At(k, m)].key \notin {EMPTY, k}
         /\ \A m \in 0 .. FirstStop(pg, k) - 1 : m \in SlotIds
<1>1. SlotCount \in Nat \ {0}
  BY PageAssumption
<1> DEFINE stops == {j \in SlotIds : pg.slots[At(k, j)].key \in {EMPTY, k}}
<1>2. CASE stops = {}
  <2>1. FirstStop(pg, k) = SlotCount
    BY <1>2 DEF FirstStop
  <2> QED BY <1>1, <1>2, <2>1 DEF SlotIds
<1>3. CASE stops # {}
  <2>1. FirstStop(pg, k) = Min(stops)
    BY <1>3 DEF FirstStop
  <2>2. stops \subseteq Nat
    BY DEF SlotIds
  <2> DEFINE m == Min(stops)
  <2>3. m \in stops /\ \A j \in stops : m <= j
    <3> HIDE DEF stops
    <3> QED BY <1>3, <2>2, LeastMember
  <2> HIDE DEF m
  <2>4. FirstStop(pg, k) = m
    BY <2>1 DEF m
  <2>5. m \in SlotIds /\ pg.slots[At(k, m)].key \in {EMPTY, k} /\ m \in 0 .. SlotCount - 1
    BY <2>3 DEF SlotIds
  <2>6. ASSUME NEW j \in SlotIds, j < m  PROVE j \notin stops
    BY <2>3, <2>5, <2>6 DEF SlotIds
  <2>7. \A j \in SlotIds : j < m => pg.slots[At(k, j)].key \notin {EMPTY, k}
    BY <2>6
  <2> HIDE DEF stops
  <2>8. m \in 0 .. SlotCount /\ \A j \in 0 .. m - 1 : j \in SlotIds
    BY <1>1, <2>5 DEF SlotIds
  <2> QED BY <2>4, <2>5, <2>7, <2>8
<1> QED BY <1>2, <1>3

LEMMA ProbeFacts ==
  ASSUME NEW pg, NEW k \in Keys
  PROVE  LET s == do_probe(pg, k)
         IN  /\ s \in SlotIds \/ s = NoSlot
             /\ s # NoSlot => s \in SlotIds /\ pg.slots[s].key = k /\ s \in Live(pg)
<1> DEFINE j == FirstStop(pg, k)
<1>1. CASE j < SlotCount /\ pg.slots[At(k, j)].key = k
  <2>1. do_probe(pg, k) = At(k, j)
    BY <1>1 DEF do_probe
  <2>2. At(k, j) \in SlotIds
    BY <1>1, StopFacts, AtFacts
  <2>3. k \notin {EMPTY, TOMBSTONE}
    BY PageAssumption
  <2> HIDE DEF j
  <2> QED BY <1>1, <2>1, <2>2, <2>3 DEF Live
<1>2. CASE ~(j < SlotCount /\ pg.slots[At(k, j)].key = k)
  BY <1>2 DEF do_probe
<1> QED BY <1>1, <1>2

(* The two ways to say that a probe finds every entry.                     *)
LEMMA ReachesIsReachable ==
  ASSUME NEW pg, \A i \in SlotIds : pg.slots[i].key \in Keys \cup {EMPTY, TOMBSTONE}
  PROVE  /\ Reachable(pg) => Reaches(pg)
         /\ NoDuplicateKey(pg) /\ Reaches(pg) => Reachable(pg)
<1>0. SlotCount \in Nat \ {0}
  BY PageAssumption
<1>k. \A i \in Live(pg) : i \in SlotIds /\ pg.slots[i].key \in Keys
  BY DEF Live
<1>1. ASSUME Reachable(pg), NEW i \in Live(pg)
      PROVE  \E j \in SlotIds : At(pg.slots[i].key, j) = i /\ PathTo(pg, pg.slots[i].key, j)
  <2> DEFINE k == pg.slots[i].key
             j == FirstStop(pg, k)
  <2>1. k \in Keys /\ do_probe(pg, k) = i /\ i # NoSlot
    BY <1>0, <1>1, <1>k DEF Reachable, SlotIds, NoSlot
  <2>2. j < SlotCount /\ At(k, j) = i
    BY <2>1 DEF do_probe
  <2>3. j \in SlotIds /\ \A m \in 0 .. j - 1 : pg.slots[At(k, m)].key # EMPTY
    <3>1. j \in 0 .. SlotCount
      BY <2>1, StopFacts
    <3>2. j \in SlotIds /\ \A m \in SlotIds : m < j => pg.slots[At(k, m)].key \notin {EMPTY, k}
      BY <2>1, <2>2, StopFacts
    <3>3. \A m \in 0 .. j - 1 : m \in SlotIds /\ m < j
      BY <2>1, <3>1, StopFacts
    <3> QED BY <3>2, <3>3
  <2> HIDE DEF j
  <2> QED BY <2>2, <2>3 DEF PathTo
<1>2. ASSUME NoDuplicateKey(pg), Reaches(pg), NEW i \in Live(pg)
      PROVE  do_probe(pg, pg.slots[i].key) = i
  <2> DEFINE k == pg.slots[i].key
             s == FirstStop(pg, k)
  <2>1. k \in Keys /\ i \in SlotIds
    BY <1>k
  <2>2. PICK j \in SlotIds : At(k, j) = i /\ PathTo(pg, k, j)
    BY <1>2 DEF Reaches
  <2>3. s <= j
    <3>1. ~(j < s)
      BY <2>1, <2>2, StopFacts
    <3> QED BY <1>0, <2>1, <3>1, StopFacts DEF SlotIds
  <2>4. s \in SlotIds /\ s < SlotCount /\ pg.slots[At(k, s)].key \in {EMPTY, k} /\ At(k, s) \in SlotIds
    <3>1. s < SlotCount
      BY <1>0, <2>1, <2>3, StopFacts DEF SlotIds
    <3>2. s \in SlotIds /\ pg.slots[At(k, s)].key \in {EMPTY, k}
      BY <2>1, <3>1, StopFacts
    <3> QED BY <2>1, <3>1, <3>2, AtFacts
  <2>5. s = j
    <3>1. CASE s < j
      <4>1. pg.slots[At(k, s)].key # EMPTY
        <5>1. s \in 0 .. j - 1
          BY <2>2, <2>4, <3>1 DEF SlotIds
        <5> QED BY <2>2, <5>1 DEF PathTo
      <4>2. At(k, s) \in Live(pg) /\ pg.slots[At(k, s)].key = k
        BY <2>1, <2>4, <4>1, PageAssumption DEF Live
      <4>3. At(k, s) = i
        BY <1>2, <4>2 DEF NoDuplicateKey
      <4> QED BY <2>1, <2>2, <2>4, <4>3, AtFacts
    <3>2. CASE ~(s < j)
      BY <2>2, <2>3, <2>4, <3>2 DEF SlotIds
    <3> QED BY <3>1, <3>2
  <2> HIDE DEF s
  <2> QED BY <2>2, <2>4, <2>5 DEF do_probe, s
<1> QED BY <1>1, <1>2 DEF Reachable, Reaches

(* Two pages with the same keys and allocations.                           *)
SameTable(pg, q) ==
  \A i \in SlotIds : /\ q.slots[i].key = pg.slots[i].key /\ q.slots[i].off = pg.slots[i].off
                     /\ q.slots[i].len = pg.slots[i].len /\ q.slots[i].cap = pg.slots[i].cap

LEMMA PageFields ==
  ASSUME NEW pg \in PageType
  PROVE  /\ pg.head \in 0 .. ArenaCap /\ pg.count \in Nat /\ pg.slots \in [SlotIds -> Slot]
         /\ pg.arena \in [0 .. ArenaCap - 1 -> Contents]
         /\ \A i \in SlotIds : /\ pg.slots[i].key \in Keys \cup {EMPTY, TOMBSTONE} /\ pg.slots[i] \in Slot
                               /\ pg.slots[i].off \in Nat /\ pg.slots[i].len \in Nat /\ pg.slots[i].cap \in Nat
         /\ ArenaCap \in Nat /\ SlotCount \in Nat \ {0}
BY PageAssumption DEF PageType, Slot

LEMMA TableKeeps ==
  ASSUME NEW pg, PageInv(pg), NEW q \in PageType, SameTable(pg, q), pg.head <= q.head
  PROVE  PageInv(q) /\ Live(q) = Live(pg)
<1>1. pg \in PageType /\ NoDuplicateKey(pg) /\ Reachable(pg) /\ ArenaDisjoint(pg)
  BY DEF PageInv
<1>k. /\ \A i \in SlotIds : pg.slots[i].key \in Keys \cup {EMPTY, TOMBSTONE}
      /\ \A i \in SlotIds : q.slots[i].key \in Keys \cup {EMPTY, TOMBSTONE}
  BY <1>1, PageFields
<1>2. Live(q) = Live(pg)
  BY DEF Live, SameTable
<1>3. NoDuplicateKey(q)
  BY <1>1, <1>2 DEF NoDuplicateKey, SameTable, Live
<1>4. Reaches(pg)
  BY <1>1, <1>k, ReachesIsReachable
<1>5. Reaches(q)
  <2> SUFFICES ASSUME NEW i \in Live(q)
               PROVE  \E j \in SlotIds : At(q.slots[i].key, j) = i /\ PathTo(q, q.slots[i].key, j)
    BY DEF Reaches
  <2> DEFINE k == q.slots[i].key
  <2>1. k = pg.slots[i].key /\ k \in Keys
    BY <1>2, <1>k DEF Live, SameTable
  <2>2. PICK j \in SlotIds : At(k, j) = i /\ PathTo(pg, k, j)
    BY <1>2, <1>4, <2>1 DEF Reaches
  <2>3. PathTo(q, k, j)
    <3> SUFFICES ASSUME NEW m \in 0 .. j - 1  PROVE q.slots[At(k, m)].key # EMPTY
      BY DEF PathTo
    <3>1. m \in SlotIds
      BY PageAssumption DEF SlotIds
    <3>2. At(k, m) \in SlotIds
      BY <2>1, <3>1, AtFacts
    <3> QED BY <2>2, <3>2 DEF PathTo, SameTable
  <2> QED BY <2>2, <2>3
<1>6. Reachable(q)
  BY <1>3, <1>5, <1>k, ReachesIsReachable
<1>7. ArenaDisjoint(q)
  <2>1. /\ q.head \in 0 .. ArenaCap /\ pg.head \in 0 .. ArenaCap /\ ArenaCap \in Nat
        /\ \A i \in SlotIds : pg.slots[i].off \in Nat /\ pg.slots[i].len \in Nat /\ pg.slots[i].cap \in Nat
    BY <1>1, PageFields
  <2>2. q.head <= ArenaCap
    BY <2>1
  <2>3. \A i \in SlotIds : q.slots[i].key # EMPTY => q.slots[i].off + q.slots[i].cap <= q.head
                                                     /\ q.slots[i].len <= q.slots[i].cap
    <3> SUFFICES ASSUME NEW i \in SlotIds, q.slots[i].key # EMPTY
                 PROVE  q.slots[i].off + q.slots[i].cap <= q.head /\ q.slots[i].len <= q.slots[i].cap
      OBVIOUS
    <3>1. pg.slots[i].off + pg.slots[i].cap <= pg.head /\ pg.slots[i].len <= pg.slots[i].cap
      BY <1>1 DEF ArenaDisjoint, SameTable
    <3> QED BY <2>1, <3>1 DEF SameTable
  <2> QED BY <1>1, <2>2, <2>3 DEF ArenaDisjoint, SameTable
<1>8. \A i \in SlotIds : q.slots[i].key # EMPTY => q.slots[i].len # 0
  BY DEF PageInv, SameTable
<1> QED BY <1>2, <1>3, <1>6, <1>7, <1>8 DEF PageInv

LEMMA PlanKeeps ==
  ASSUME NEW pg, NEW q, NEW pl, NEW k \in Keys, NEW len, PlanFits(pg, pl, k, len), SameTable(pg, q),
         q.head = pg.head
  PROVE  PlanFits(q, pl, k, len)
<1>1. PICK j \in SlotIds : At(k, j) = pl.slot /\ PathTo(pg, k, j)
  BY DEF PlanFits
<1>2. PathTo(q, k, j)
  <2> SUFFICES ASSUME NEW m \in 0 .. j - 1  PROVE q.slots[At(k, m)].key # EMPTY
    BY DEF PathTo
  <2>1. m \in SlotIds
    BY PageAssumption DEF SlotIds
  <2>2. At(k, m) \in SlotIds
    BY <2>1, AtFacts
  <2> QED BY <1>1, <2>2 DEF PathTo, SameTable
<1>3. \A i \in SlotIds \ {pl.slot} : q.slots[i].key # EMPTY => Apart(q.slots[i], pl)
  BY DEF PlanFits, SameTable, Apart
<1> QED BY <1>1, <1>2, <1>3 DEF PlanFits, SameTable

(* The entry is published where it was planned.                            *)
LEMMA PublishFits ==
  ASSUME NEW pg, PageInv(pg), NEW k \in Keys, NEW len \in Nat \ {0}, NEW cls \in SlotClasses, NEW pl,
         PlanFits(pg, pl, k, len)
  PROVE  LET q == publish_slot(pg, pl, k, len, cls)
         IN  /\ PageInv(q) /\ Live(q) = Live(pg) \cup {pl.slot}
             /\ pl.fresh <=> pl.slot \notin Live(pg)
             /\ q.count = IF pl.fresh THEN pg.count + 1 ELSE pg.count
<1> DEFINE q == publish_slot(pg, pl, k, len, cls)
           new == [pg.slots[pl.slot] EXCEPT !.key = k, !.off = pl.off, !.len = len, !.cap = pl.cap,
                                            !.cls = cls, !.vis = FALSE]
           n == IF pl.fresh THEN pg.count + 1 ELSE pg.count
<1>1. pg \in PageType /\ NoDuplicateKey(pg) /\ Reachable(pg) /\ ArenaDisjoint(pg)
  BY DEF PageInv
<1>2. /\ pl.slot \in SlotIds /\ pl.off \in Nat /\ pl.cap \in Nat /\ len <= pl.cap
      /\ pl.off + pl.cap <= pg.head
      /\ pl.fresh \in BOOLEAN
      /\ pl.fresh => pg.slots[pl.slot].key \in {EMPTY, TOMBSTONE} /\ \A i \in SlotIds : pg.slots[i].key # k
      /\ ~pl.fresh => pg.slots[pl.slot].key = k
      /\ \A i \in SlotIds \ {pl.slot} : pg.slots[i].key # EMPTY => Apart(pg.slots[i], pl)
  BY DEF PlanFits
<1>3. /\ new \in Slot /\ new.key = k /\ new.off = pl.off /\ new.len = len /\ new.cap = pl.cap
  <2>1. pg.slots[pl.slot] \in Slot
    BY <1>1, <1>2, PageFields
  <2> QED BY <1>2, <2>1, Zenon DEF Slot
<1>4. n \in Nat
  BY <1>1, PageFields
<1>5. q = [pg EXCEPT !.slots = [pg.slots EXCEPT ![pl.slot] = new], !.count = n]
  BY <1>1 DEF publish_slot, PageType
<1> HIDE DEF q, new, n
<1>6. /\ q.head = pg.head /\ q.count = n /\ q.arena = pg.arena
      /\ q.slots = [pg.slots EXCEPT ![pl.slot] = new]
  BY <1>1, <1>5 DEF PageType
<1>7. /\ q.slots \in [SlotIds -> Slot] /\ q.slots[pl.slot] = new
      /\ \A i \in SlotIds \ {pl.slot} : q.slots[i] = pg.slots[i]
  BY <1>1, <1>2, <1>3, <1>6, PageFields
<1>8. q \in PageType
  BY <1>1, <1>4, <1>5, <1>6, <1>7 DEF PageType
<1>k. k \notin {EMPTY, TOMBSTONE}
  BY PageAssumption
<1>9. Live(q) = Live(pg) \cup {pl.slot}
  BY <1>2, <1>3, <1>7, <1>k DEF Live
<1>10. pl.fresh <=> pl.slot \notin Live(pg)
  BY <1>2, <1>k DEF Live
<1>o. \A i \in Live(pg) : pg.slots[i].key = k => i = pl.slot
  <2> SUFFICES ASSUME NEW i \in Live(pg), pg.slots[i].key = k  PROVE i = pl.slot
    OBVIOUS
  <2>1. i \in SlotIds
    BY DEF Live
  <2>2. ~pl.fresh
    BY <1>2, <2>1
  <2> QED BY <1>1, <1>2, <1>10, <2>2 DEF NoDuplicateKey
<1>11. NoDuplicateKey(q)
  <2> SUFFICES ASSUME NEW i \in Live(q), NEW j \in Live(q), q.slots[i].key = q.slots[j].key  PROVE i = j
    BY DEF NoDuplicateKey
  <2>1. CASE i = pl.slot \/ j = pl.slot
    BY <1>2, <1>3, <1>7, <1>9, <1>o, <2>1 DEF Live
  <2>2. CASE i # pl.slot /\ j # pl.slot
    BY <1>1, <1>7, <1>9, <2>2 DEF NoDuplicateKey, Live
  <2> QED BY <2>1, <2>2
<1>12. Reaches(q)
  <2>1. Reaches(pg)
    BY <1>1, PageFields, ReachesIsReachable
  <2>2. ASSUME NEW h \in Keys, NEW j \in SlotIds, PathTo(pg, h, j)  PROVE PathTo(q, h, j)
    <3> SUFFICES ASSUME NEW m \in 0 .. j - 1  PROVE q.slots[At(h, m)].key # EMPTY
      BY DEF PathTo
    <3>1. m \in SlotIds
      BY PageAssumption DEF SlotIds
    <3>2. At(h, m) \in SlotIds
      BY <3>1, AtFacts
    <3> QED BY <1>3, <1>7, <1>k, <2>2, <3>2 DEF PathTo
  <2> SUFFICES ASSUME NEW i \in Live(q)
               PROVE  \E j \in SlotIds : At(q.slots[i].key, j) = i /\ PathTo(q, q.slots[i].key, j)
    BY DEF Reaches
  <2>3. CASE i = pl.slot
    BY <1>3, <1>7, <2>2, <2>3 DEF PlanFits
  <2>4. CASE i # pl.slot
    <3>1. i \in Live(pg) /\ q.slots[i] = pg.slots[i] /\ pg.slots[i].key \in Keys
      BY <1>1, <1>7, <1>9, <2>4, PageFields DEF Live
    <3>2. PICK j \in SlotIds : At(pg.slots[i].key, j) = i /\ PathTo(pg, pg.slots[i].key, j)
      BY <2>1, <3>1 DEF Reaches
    <3> QED BY <2>2, <3>1, <3>2
  <2> QED BY <2>3, <2>4
<1>13. Reachable(q)
  <2>1. \A i \in SlotIds : q.slots[i].key \in Keys \cup {EMPTY, TOMBSTONE}
    BY <1>8, PageFields
  <2> QED BY <1>11, <1>12, <2>1, ReachesIsReachable
<1>14. ArenaDisjoint(q)
  <2>1. \A i \in SlotIds : q.slots[i].key # EMPTY =>
          q.slots[i].off + q.slots[i].cap <= q.head /\ q.slots[i].len <= q.slots[i].cap
    BY <1>1, <1>2, <1>3, <1>6, <1>7 DEF ArenaDisjoint
  <2>2. ASSUME NEW i \in SlotIds, NEW j \in SlotIds, i # j, q.slots[i].key # EMPTY, q.slots[j].key # EMPTY
        PROVE  \/ q.slots[i].off + q.slots[i].cap <= q.slots[j].off
               \/ q.slots[j].off + q.slots[j].cap <= q.slots[i].off
    <3>1. CASE i = pl.slot
      BY <1>2, <1>3, <1>7, <2>2, <3>1 DEF Apart
    <3>2. CASE j = pl.slot
      BY <1>2, <1>3, <1>7, <2>2, <3>2 DEF Apart
    <3>3. CASE i # pl.slot /\ j # pl.slot
      BY <1>1, <1>7, <2>2, <3>3 DEF ArenaDisjoint
    <3> QED BY <3>1, <3>2, <3>3
  <2> QED BY <1>1, <1>6, <2>1, <2>2 DEF ArenaDisjoint
<1>15. \A i \in SlotIds : q.slots[i].key # EMPTY => q.slots[i].len # 0
  BY <1>3, <1>7 DEF PageInv
<1> QED BY <1>6, <1>8, <1>9, <1>10, <1>11, <1>13, <1>14, <1>15 DEF PageInv, q, n

(* What do_insert() plans fits the page as copy_value() leaves it.         *)
LEMMA PlanFitsPage ==
  ASSUME NEW pg, PageInv(pg), NEW k \in Keys, NEW len \in Nat \ {0}, plan_insert(pg, k, len).fits,
         NEW q, SameTable(pg, q), q.head = plan_insert(pg, k, len).head
  PROVE  LET pl == plan_insert(pg, k, len)
         IN  /\ PlanFits(q, pl, k, len)
             /\ pl.head \in 0 .. ArenaCap /\ pg.head <= pl.head
             /\ pl.off \in 0 .. ArenaCap - 1 /\ pl.inplace \in BOOLEAN
<1> DEFINE stop == FirstStop(pg, k)
           tombs == {j \in 0 .. stop - 1 : pg.slots[At(k, j)].key = TOMBSTONE}
           exists == stop < SlotCount /\ pg.slots[At(k, stop)].key = k
           i == IF ~exists /\ tombs # {} THEN At(k, Min(tombs))
                ELSE IF stop < SlotCount THEN At(k, stop) ELSE NoSlot
           old == IF i = NoSlot THEN BlankSlot ELSE pg.slots[i]
           reuse == old.key # EMPTY /\ len <= old.cap
           need == (IF reuse THEN 0 ELSE len) + (IF exists THEN 0 ELSE KeyUnits)
           off == IF reuse THEN old.off ELSE pg.head
           cap == IF reuse THEN old.cap ELSE len
           pl == plan_insert(pg, k, len)
<1>1. pl = [slot |-> i, fits |-> i # NoSlot /\ pg.head + need <= ArenaCap,
            fresh |-> ~exists, inplace |-> exists /\ reuse, off |-> off, cap |-> cap,
            head |-> pg.head + need]
  BY DEF plan_insert
<1>2. /\ pg \in PageType /\ NoDuplicateKey(pg) /\ Reachable(pg) /\ ArenaDisjoint(pg)
  BY DEF PageInv
<1>3. /\ SlotCount \in Nat \ {0} /\ KeyUnits \in Nat /\ ArenaCap \in Nat /\ k \notin {EMPTY, TOMBSTONE}
      /\ EMPTY # TOMBSTONE
  BY PageAssumption
<1>f. /\ pg.head \in 0 .. ArenaCap
      /\ \A m \in SlotIds : /\ pg.slots[m].key \in Keys \cup {EMPTY, TOMBSTONE}
                            /\ pg.slots[m].off \in Nat /\ pg.slots[m].len \in Nat /\ pg.slots[m].cap \in Nat
  BY <1>2, PageFields
<1>4. /\ pl.slot = i /\ pl.fresh = ~exists /\ pl.inplace = (exists /\ reuse) /\ pl.off = off /\ pl.cap = cap
      /\ pl.head = pg.head + need /\ (pl.fits <=> i # NoSlot /\ pg.head + need <= ArenaCap)
  <2> HIDE DEF i, exists, reuse, need, off, cap, pl
  <2> QED BY <1>1
<1>5. i # NoSlot /\ pg.head + need <= ArenaCap
  <2> HIDE DEF i, need
  <2> QED BY <1>4
<1> HIDE DEF pl
<1>6. PICK j \in SlotIds : /\ At(k, j) = i /\ PathTo(pg, k, j)
                           /\ exists => pg.slots[i].key = k
                           /\ ~exists => pg.slots[i].key \in {EMPTY, TOMBSTONE}
  <2>1. /\ stop \in 0 .. SlotCount
        /\ stop < SlotCount => stop \in SlotIds /\ pg.slots[At(k, stop)].key \in {EMPTY, k}
        /\ \A m \in SlotIds : m < stop => pg.slots[At(k, m)].key \notin {EMPTY, k}
        /\ \A m \in 0 .. stop - 1 : m \in SlotIds
    BY StopFacts
  <2>2. ASSUME NEW m \in SlotIds, m <= stop  PROVE PathTo(pg, k, m)
    <3> HIDE DEF stop
    <3>1. \A n \in 0 .. m - 1 : n \in SlotIds /\ n < stop
      BY <2>1, <2>2, <1>3 DEF SlotIds
    <3> QED BY <2>1, <3>1 DEF PathTo
  <2> HIDE DEF stop
  <2>3. CASE ~exists /\ tombs # {}
    <3>1. tombs \subseteq Nat
      OBVIOUS
    <3> DEFINE m == Min(tombs)
    <3>2. m \in tombs
      <4> HIDE DEF tombs
      <4> QED BY <2>3, <3>1, LeastMember
    <3>3. i = At(k, m)
      BY <2>3
    <3> HIDE DEF m
    <3>4. m \in SlotIds /\ m <= stop /\ pg.slots[At(k, m)].key = TOMBSTONE
      BY <2>1, <3>2 DEF SlotIds
    <3> QED BY <2>2, <2>3, <3>3, <3>4
  <2>4. CASE ~(~exists /\ tombs # {})
    <3>1. i = (IF stop < SlotCount THEN At(k, stop) ELSE NoSlot)
      BY <2>4
    <3>2. stop < SlotCount /\ i = At(k, stop)
      BY <1>5, <3>1
    <3>3. stop \in SlotIds /\ stop <= stop
      BY <2>1, <3>2
    <3> QED BY <2>1, <2>2, <3>2, <3>3
  <2> QED BY <2>3, <2>4
<1>7. i \in SlotIds
  <2> HIDE DEF i
  <2> QED BY <1>6, AtFacts
<1>8. old = pg.slots[i]
  <2> HIDE DEF i
  <2> QED BY <1>5
<1>9. ~exists => \A m \in SlotIds : pg.slots[m].key # k
  <2> SUFFICES ASSUME NEW m \in SlotIds, pg.slots[m].key = k  PROVE exists
    OBVIOUS
  <2>1. m \in Live(pg)
    BY <1>3 DEF Live
  <2>2. do_probe(pg, k) = m /\ m # NoSlot
    BY <1>2, <1>3, <2>1 DEF Reachable, NoSlot, SlotIds
  <2> QED BY <2>2 DEF do_probe
<1> HIDE DEF exists, i, old
<1>10. old.off \in Nat /\ old.cap \in Nat /\ (old.key # EMPTY => old.off + old.cap <= pg.head)
  BY <1>2, <1>7, <1>8, <1>f DEF ArenaDisjoint
<1>11. /\ need \in Nat /\ off \in Nat /\ cap \in Nat /\ len <= cap /\ off + cap <= pg.head + need
       /\ pg.head + need \in 0 .. ArenaCap /\ off \in 0 .. ArenaCap - 1
  BY <1>3, <1>5, <1>10, <1>f
<1>12. ASSUME NEW m \in SlotIds \ {i}, pg.slots[m].key # EMPTY
       PROVE  pg.slots[m].off + pg.slots[m].cap <= off \/ off + cap <= pg.slots[m].off
  <2>1. pg.slots[m].off + pg.slots[m].cap <= pg.head
    BY <1>2, <1>12 DEF ArenaDisjoint
  <2>2. CASE reuse
    <3>1. pg.slots[m].off + pg.slots[m].cap <= old.off \/ old.off + old.cap <= pg.slots[m].off
      BY <1>2, <1>7, <1>8, <1>12, <2>2 DEF ArenaDisjoint
    <3> QED BY <2>2, <3>1
  <2>3. CASE ~reuse
    BY <2>1, <2>3
  <2> QED BY <2>2, <2>3
<1> HIDE DEF reuse, need, off, cap
<1>13. PathTo(q, k, j)
  <2> SUFFICES ASSUME NEW m \in 0 .. j - 1  PROVE q.slots[At(k, m)].key # EMPTY
    BY DEF PathTo
  <2>1. m \in SlotIds
    BY PageAssumption DEF SlotIds
  <2>2. At(k, m) \in SlotIds
    BY <2>1, AtFacts
  <2> QED BY <1>6, <2>2 DEF PathTo, SameTable
<1>14. \A m \in SlotIds \ {pl.slot} : q.slots[m].key # EMPTY => Apart(q.slots[m], pl)
  BY <1>4, <1>12 DEF Apart, SameTable
<1>15. q.head = pl.head
  BY DEF pl
<1>16. PlanFits(q, pl, k, len)
  BY <1>4, <1>6, <1>7, <1>9, <1>11, <1>13, <1>14, <1>15 DEF PlanFits, SameTable
<1>17. pl.head \in 0 .. ArenaCap /\ pg.head <= pl.head /\ pl.off \in 0 .. ArenaCap - 1
  BY <1>4, <1>11, <1>f
<1>18. pl.inplace \in BOOLEAN
  BY <1>4 DEF exists, reuse
<1> QED BY <1>16, <1>17, <1>18 DEF pl

(* Writes to one slot that leave its key and allocation alone.             *)
WithSlot(pg, s, new, n) == [pg EXCEPT !.slots = [pg.slots EXCEPT ![s] = new], !.count = n]
SameShape(pg, q) == PageInv(q) /\ SameTable(pg, q) /\ Live(q) = Live(pg) /\ q.head = pg.head

LEMMA SlotEdit ==
  ASSUME NEW pg, PageInv(pg), NEW s \in SlotIds, NEW new \in Slot, NEW n \in Nat,
         new.key = pg.slots[s].key, new.off = pg.slots[s].off, new.len = pg.slots[s].len,
         new.cap = pg.slots[s].cap
  PROVE  SameShape(pg, WithSlot(pg, s, new, n)) /\ WithSlot(pg, s, new, n).count = n
<1> DEFINE q == WithSlot(pg, s, new, n)
<1>1. pg \in PageType
  BY DEF PageInv
<1>2. /\ q.head = pg.head /\ q.count = n /\ q.arena = pg.arena
      /\ q.slots = [pg.slots EXCEPT ![s] = new]
  BY <1>1 DEF PageType, WithSlot
<1>3. q.slots \in [SlotIds -> Slot]
  BY <1>1, <1>2, PageFields
<1>4. q \in PageType
  BY <1>1, <1>2, <1>3 DEF PageType, WithSlot
<1> HIDE DEF q
<1>5. SameTable(pg, q)
  BY <1>1, <1>2, PageFields DEF SameTable
<1>6. pg.head <= q.head
  BY <1>1, <1>2, PageFields
<1>7. PageInv(q) /\ Live(q) = Live(pg)
  BY <1>4, <1>5, <1>6, TableKeeps
<1> QED BY <1>2, <1>5, <1>7 DEF q, SameShape

LEMMA SeqBump ==
  ASSUME NEW pg, PageInv(pg), NEW s \in SlotIds, NEW m \in Nat
  PROVE  LET q == [pg EXCEPT !.slots[s].seq = m]
         IN  SameShape(pg, q) /\ q.count = pg.count
<1> DEFINE new == [pg.slots[s] EXCEPT !.seq = m]
<1>1. pg \in PageType /\ pg.slots[s] \in Slot /\ pg.count \in Nat
  BY PageFields DEF PageInv
<1>2. /\ new \in Slot /\ new.key = pg.slots[s].key /\ new.off = pg.slots[s].off
      /\ new.len = pg.slots[s].len /\ new.cap = pg.slots[s].cap
  BY <1>1 DEF Slot
<1>3. [pg EXCEPT !.slots[s].seq = m] = WithSlot(pg, s, new, pg.count)
  BY <1>1 DEF PageType, WithSlot
<1> HIDE DEF new
<1>4. SameShape(pg, WithSlot(pg, s, new, pg.count)) /\ WithSlot(pg, s, new, pg.count).count = pg.count
  BY <1>1, <1>2, SlotEdit
<1> QED BY <1>3, <1>4

LEMMA VisEdit ==
  ASSUME NEW pg, PageInv(pg), NEW s \in SlotIds
  PROVE  LET q == [pg EXCEPT !.slots[s].vis = TRUE]
         IN  SameShape(pg, q) /\ q.count = pg.count
<1> DEFINE new == [pg.slots[s] EXCEPT !.vis = TRUE]
<1>1. pg \in PageType /\ pg.slots[s] \in Slot /\ pg.count \in Nat
  BY PageFields DEF PageInv
<1>2. /\ new \in Slot /\ new.key = pg.slots[s].key /\ new.off = pg.slots[s].off
      /\ new.len = pg.slots[s].len /\ new.cap = pg.slots[s].cap
  BY <1>1, Zenon DEF Slot
<1>3. [pg EXCEPT !.slots[s].vis = TRUE] = WithSlot(pg, s, new, pg.count)
  BY <1>1 DEF PageType, WithSlot
<1> HIDE DEF new
<1>4. SameShape(pg, WithSlot(pg, s, new, pg.count)) /\ WithSlot(pg, s, new, pg.count).count = pg.count
  BY <1>1, <1>2, SlotEdit
<1> QED BY <1>3, <1>4

LEMMA CopyKeeps ==
  ASSUME NEW pg, PageInv(pg), NEW pl, NEW content \in Contents, pl.head \in 0 .. ArenaCap,
         pg.head <= pl.head, pl.off \in 0 .. ArenaCap - 1
  PROVE  LET q == copy_value(pg, pl, content)
         IN  /\ PageInv(q) /\ SameTable(pg, q) /\ Live(q) = Live(pg)
             /\ q.head = pl.head /\ q.count = pg.count
<1> DEFINE q == copy_value(pg, pl, content)
<1>1. pg \in PageType
  BY DEF PageInv
<1>2. /\ q.head = pl.head /\ q.count = pg.count /\ q.arena = [pg.arena EXCEPT ![pl.off] = content]
      /\ q.slots = pg.slots
      /\ q = [pg EXCEPT !.head = pl.head, !.arena = [pg.arena EXCEPT ![pl.off] = content]]
  BY <1>1 DEF PageType, copy_value
<1> HIDE DEF q
<1>3. q.arena \in [0 .. ArenaCap - 1 -> Contents]
  BY <1>1, <1>2, PageFields
<1>4. q \in PageType
  BY <1>1, <1>2, <1>3 DEF PageType
<1>5. SameTable(pg, q)
  BY <1>2 DEF SameTable
<1>6. PageInv(q) /\ Live(q) = Live(pg)
  BY <1>2, <1>4, <1>5, TableKeeps
<1> QED BY <1>2, <1>5, <1>6 DEF q

(* The visited bits of a page are cleared when it is sealed.               *)
LEMMA ClearKeeps ==
  ASSUME NEW pg, PageInv(pg)
  PROVE  LET q == [pg EXCEPT !.slots = [i \in SlotIds |-> IF @[i].key # EMPTY
                                            THEN [@[i] EXCEPT !.vis = FALSE] ELSE @[i]]]
         IN  SameShape(pg, q) /\ q.count = pg.count
<1> DEFINE t == [i \in SlotIds |-> IF pg.slots[i].key # EMPTY
                                   THEN [pg.slots[i] EXCEPT !.vis = FALSE] ELSE pg.slots[i]]
           q == [pg EXCEPT !.slots = t]
<1>1. pg \in PageType
  BY DEF PageInv
<1>2. /\ q.head = pg.head /\ q.count = pg.count /\ q.arena = pg.arena /\ q.slots = t
  BY <1>1 DEF PageType
<1>3. ASSUME NEW i \in SlotIds
      PROVE  t[i] \in Slot /\ t[i].key = pg.slots[i].key /\ t[i].off = pg.slots[i].off
             /\ t[i].len = pg.slots[i].len /\ t[i].cap = pg.slots[i].cap
  <2>1. pg.slots[i] \in Slot
    BY <1>1, PageFields
  <2>2. CASE pg.slots[i].key # EMPTY
    <3>1. t[i] = [pg.slots[i] EXCEPT !.vis = FALSE]
      BY <2>2
    <3> HIDE DEF t
    <3> QED BY <2>1, <3>1, Zenon DEF Slot
  <2>3. CASE pg.slots[i].key = EMPTY
    BY <2>1, <2>3
  <2> QED BY <2>2, <2>3
<1>4. t \in [SlotIds -> Slot]
  BY <1>3
<1>5. SameTable(pg, q)
  BY <1>2, <1>3 DEF SameTable
<1> HIDE DEF t
<1>6. q \in PageType
  BY <1>1, <1>2, <1>4 DEF PageType
<1> HIDE DEF q
<1>7. pg.head <= q.head
  BY <1>1, <1>2, PageFields
<1>8. PageInv(q) /\ Live(q) = Live(pg)
  BY <1>5, <1>6, <1>7, TableKeeps
<1> QED BY <1>2, <1>5, <1>8 DEF q, t, SameShape

(* A tombstone keeps the probe sequences that go past it.                  *)
LEMMA TombKeeps ==
  ASSUME NEW pg, PageInv(pg), NEW s \in Live(pg)
  PROVE  LET q == [pg EXCEPT !.slots[s].key = TOMBSTONE]
         IN  PageInv(q) /\ Live(q) = Live(pg) \ {s} /\ q.count = pg.count
<1> DEFINE new == [pg.slots[s] EXCEPT !.key = TOMBSTONE]
           q == [pg EXCEPT !.slots[s].key = TOMBSTONE]
<1>1. pg \in PageType /\ NoDuplicateKey(pg) /\ Reachable(pg) /\ ArenaDisjoint(pg)
  BY DEF PageInv
<1>2. s \in SlotIds /\ pg.slots[s] \in Slot /\ pg.slots[s].key # EMPTY
  BY <1>1, PageFields DEF Live
<1>3. /\ new \in Slot /\ new.key = TOMBSTONE /\ new.off = pg.slots[s].off
      /\ new.len = pg.slots[s].len /\ new.cap = pg.slots[s].cap
  BY <1>2 DEF Slot
<1>4. q = [pg EXCEPT !.slots = [pg.slots EXCEPT ![s] = new]]
  BY <1>1 DEF PageType
<1> HIDE DEF q, new
<1>5. /\ q.head = pg.head /\ q.count = pg.count /\ q.arena = pg.arena
      /\ q.slots = [pg.slots EXCEPT ![s] = new]
  BY <1>1, <1>4 DEF PageType
<1>6. /\ q.slots \in [SlotIds -> Slot] /\ q.slots[s] = new
      /\ \A i \in SlotIds \ {s} : q.slots[i] = pg.slots[i]
  BY <1>1, <1>2, <1>3, <1>5, PageFields
<1>7. q \in PageType
  BY <1>1, <1>4, <1>5, <1>6 DEF PageType
<1>8. Live(q) = Live(pg) \ {s}
  BY <1>2, <1>3, <1>6 DEF Live
<1>9. NoDuplicateKey(q)
  BY <1>1, <1>6, <1>8 DEF NoDuplicateKey, Live
<1>10. Reaches(q)
  <2>1. Reaches(pg)
    BY <1>1, PageFields, ReachesIsReachable
  <2> SUFFICES ASSUME NEW i \in Live(q)
               PROVE  \E j \in SlotIds : At(q.slots[i].key, j) = i /\ PathTo(q, q.slots[i].key, j)
    BY DEF Reaches
  <2>2. i \in Live(pg) /\ q.slots[i] = pg.slots[i] /\ pg.slots[i].key \in Keys
    BY <1>1, <1>6, <1>8, PageFields DEF Live
  <2> DEFINE k == pg.slots[i].key
  <2>3. PICK j \in SlotIds : At(k, j) = i /\ PathTo(pg, k, j)
    BY <2>1, <2>2 DEF Reaches
  <2>4. PathTo(q, k, j)
    <3> SUFFICES ASSUME NEW m \in 0 .. j - 1  PROVE q.slots[At(k, m)].key # EMPTY
      BY DEF PathTo
    <3>1. m \in SlotIds
      BY PageAssumption DEF SlotIds
    <3>2. At(k, m) \in SlotIds
      BY <2>2, <3>1, AtFacts
    <3>3. pg.slots[At(k, m)].key # EMPTY
      BY <2>3 DEF PathTo
    <3> QED BY <1>3, <1>6, <3>2, <3>3, PageAssumption
  <2> QED BY <2>2, <2>3, <2>4
<1>11. Reachable(q)
  <2>1. \A i \in SlotIds : q.slots[i].key \in Keys \cup {EMPTY, TOMBSTONE}
    BY <1>7, PageFields
  <2> QED BY <1>9, <1>10, <2>1, ReachesIsReachable
<1>12. ArenaDisjoint(q)
  <2>1. \A i \in SlotIds : /\ q.slots[i].key # EMPTY => pg.slots[i].key # EMPTY
                           /\ q.slots[i].off = pg.slots[i].off /\ q.slots[i].cap = pg.slots[i].cap
                           /\ q.slots[i].len = pg.slots[i].len
    BY <1>2, <1>3, <1>6
  <2> QED BY <1>1, <1>5, <2>1 DEF ArenaDisjoint
<1>13. \A i \in SlotIds : q.slots[i].key # EMPTY => q.slots[i].len # 0
  BY <1>2, <1>3, <1>6 DEF PageInv
<1> QED BY <1>5, <1>7, <1>8, <1>9, <1>11, <1>12, <1>13 DEF PageInv, q

LEMMA BlankKeeps == PageInv(BlankPage) /\ Live(BlankPage) = {} /\ Exact(BlankPage)
<1>1. ArenaCap \in Nat /\ SlotCount \in Nat
  BY PageAssumption
<1>2. BlankSlot \in Slot
  BY DEF BlankSlot, Slot, SlotClasses
<1>3. /\ BlankPage.head = 0 /\ BlankPage.count = 0
      /\ BlankPage.slots = [i \in SlotIds |-> BlankSlot]
      /\ BlankPage.arena = [a \in 0 .. ArenaCap - 1 |-> Zero]
  BY DEF BlankPage
<1>4. BlankPage \in PageType
  BY <1>1, <1>2 DEF BlankPage, PageType, Contents
<1>5. \A i \in SlotIds : BlankPage.slots[i].key = EMPTY
  BY <1>3 DEF BlankSlot
<1>6. Live(BlankPage) = {}
  BY <1>5 DEF Live
<1>7. ArenaDisjoint(BlankPage)
  BY <1>1, <1>3, <1>5 DEF ArenaDisjoint
<1> QED BY <1>3, <1>4, <1>5, <1>6, <1>7, FS_EmptySet DEF PageInv, NoDuplicateKey, Reachable, Exact

LEMMA LiveFinite == ASSUME NEW pg  PROVE IsFiniteSet(Live(pg))
<1>1. IsFiniteSet(SlotIds) /\ Live(pg) \subseteq SlotIds
  BY FS_Interval, PageAssumption DEF SlotIds, Live
<1> QED BY <1>1, FS_Subset

(* An entry published where it was planned is counted.                     *)
LEMMA PublishCounts ==
  ASSUME NEW pg, NEW q, NEW s, NEW fresh \in BOOLEAN, pg.count \in Nat, Live(q) = Live(pg) \cup {s},
         fresh <=> s \notin Live(pg), q.count = IF fresh THEN pg.count + 1 ELSE pg.count
  PROVE  /\ Exact(pg) => Exact(q)
         /\ pg.count >= Cardinality(Live(pg)) => q.count >= Cardinality(Live(q))
<1>1. IsFiniteSet(Live(pg)) /\ Cardinality(Live(pg)) \in Nat
  BY LiveFinite, FS_CardinalityType
<1>2. Cardinality(Live(q)) = IF fresh THEN Cardinality(Live(pg)) + 1 ELSE Cardinality(Live(pg))
  BY <1>1, FS_AddElement
<1> QED BY <1>1, <1>2 DEF Exact

(* The copy of a planned value, bracketed or not, leaves a page in which   *)
(* the plan can be published.                                              *)
LEMMA CopyFits ==
  ASSUME NEW pg, PageInv(pg), NEW k \in Keys, NEW len \in Nat \ {0}, plan_insert(pg, k, len).fits,
         NEW b, SameShape(pg, b), b.count = pg.count, NEW content \in Contents
  PROVE  LET pl == plan_insert(pg, k, len)
             q == copy_value(b, pl, content)
         IN  PageInv(q) /\ PlanFits(q, pl, k, len) /\ Live(q) = Live(pg) /\ q.count = pg.count
<1> DEFINE pl == plan_insert(pg, k, len)
           q == copy_value(b, pl, content)
           w == [pg EXCEPT !.head = pl.head]
<1>1. pg \in PageType
  BY DEF PageInv
<1>2. SameTable(pg, w) /\ w.head = pl.head
  BY <1>1 DEF SameTable, PageType
<1> HIDE DEF w
<1>3. pl.head \in 0 .. ArenaCap /\ pg.head <= pl.head /\ pl.off \in 0 .. ArenaCap - 1
  BY <1>2, PlanFitsPage
<1> HIDE DEF pl
<1>4. PageInv(b) /\ SameTable(pg, b) /\ Live(b) = Live(pg) /\ b.head = pg.head
  BY DEF SameShape
<1>5. /\ PageInv(q) /\ SameTable(b, q) /\ Live(q) = Live(b)
      /\ q.head = pl.head /\ q.count = b.count
  BY <1>3, <1>4, CopyKeeps
<1> HIDE DEF q
<1>6. SameTable(pg, q)
  BY <1>4, <1>5 DEF SameTable
<1>7. PlanFits(q, pl, k, len)
  BY <1>5, <1>6, PlanFitsPage DEF pl
<1> QED BY <1>4, <1>5, <1>7 DEF q, pl

LEMMA SameShapeSelf == ASSUME NEW pg, PageInv(pg)  PROVE SameShape(pg, pg)
BY DEF SameShape, SameTable

LEMMA PlanTypes ==
  ASSUME NEW pg, PageInv(pg), NEW k \in Keys, NEW len \in Nat \ {0}, plan_insert(pg, k, len).fits
  PROVE  LET pl == plan_insert(pg, k, len)
         IN  /\ pl.slot \in SlotIds /\ pl.fresh \in BOOLEAN /\ pl.inplace \in BOOLEAN
             /\ pl.head \in 0 .. ArenaCap /\ pl.off \in 0 .. ArenaCap - 1
<1> DEFINE pl == plan_insert(pg, k, len)
           w == [pg EXCEPT !.head = pl.head]
<1>1. pg \in PageType
  BY DEF PageInv
<1>2. SameTable(pg, w) /\ w.head = pl.head
  BY <1>1 DEF SameTable, PageType
<1> HIDE DEF w
<1> QED BY <1>2, PlanFitsPage DEF PlanFits

(* do_insert() as commit_rotation() calls it for a survivor.               *)
LEMMA InsertKeeps ==
  ASSUME NEW pg, PageInv(pg), NEW s \in Survivor
  PROVE  PageInv(do_insert(pg, s)) /\ (Exact(pg) => Exact(do_insert(pg, s)))
<1> DEFINE pl == plan_insert(pg, s.key, s.len)
           bumped == IF pl.inplace THEN [pg EXCEPT !.slots[pl.slot].seq = @ + 2] ELSE pg
           c == copy_value(bumped, pl, s.content)
           q == publish_slot(c, pl, s.key, s.len, s.cls)
<1>1. do_insert(pg, s) = IF pl.fits THEN q ELSE pg
  BY DEF do_insert
<1>2. s.key \in Keys /\ s.len \in Nat \ {0} /\ s.cls \in SlotClasses /\ s.content \in Contents
  BY DEF Survivor
<1>3. CASE pl.fits
  <2>1. pg \in PageType /\ pl.slot \in SlotIds /\ pl.inplace \in BOOLEAN /\ pl.fresh \in BOOLEAN
    BY <1>2, <1>3, PlanTypes DEF PageInv
  <2>2. pg.slots[pl.slot].seq \in Nat
    <3> HIDE DEF pl
    <3>1. pg.slots[pl.slot] \in Slot
      BY <2>1, PageFields
    <3> QED BY <3>1 DEF Slot
  <2>3. SameShape(pg, bumped) /\ bumped.count = pg.count
    <3> HIDE DEF pl
    <3>1. CASE pl.inplace
      <4> DEFINE m == pg.slots[pl.slot].seq + 2
                 r == [pg EXCEPT !.slots[pl.slot].seq = m]
      <4>1. m \in Nat
        BY <2>2
      <4> HIDE DEF m
      <4>2. SameShape(pg, r) /\ r.count = pg.count
        BY <2>1, <4>1, SeqBump
      <4>3. bumped = r
        BY <3>1 DEF m
      <4> QED BY <4>2, <4>3
    <3>2. CASE ~pl.inplace
      BY <3>2, SameShapeSelf
    <3> QED BY <3>1, <3>2
  <2> HIDE DEF bumped
  <2>4. PageInv(c) /\ PlanFits(c, pl, s.key, s.len) /\ Live(c) = Live(pg) /\ c.count = pg.count
    BY <1>2, <1>3, <2>3, CopyFits
  <2> HIDE DEF c, pl
  <2>5. /\ PageInv(q) /\ Live(q) = Live(c) \cup {pl.slot} /\ (pl.fresh <=> pl.slot \notin Live(c))
        /\ q.count = IF pl.fresh THEN c.count + 1 ELSE c.count
    BY <1>2, <2>4, PublishFits
  <2> HIDE DEF q
  <2>6. c.count \in Nat
    BY <2>4, PageFields DEF PageInv
  <2>7. Exact(c) => Exact(q)
    BY <2>1, <2>5, <2>6, PublishCounts
  <2> QED BY <1>1, <1>3, <2>4, <2>5, <2>7 DEF Exact
<1>4. CASE ~pl.fits
  BY <1>1, <1>4
<1> QED BY <1>3, <1>4

-----------------------------------------------------------------------------
(* The filter keeps its type: every write hits a slot of a bucket.         *)

LEMMA BucketFacts ==
  /\ \A h \in [lo : Nat, hi : Nat] : idx(h) \in Buckets /\ fingerprint(h) \in Nat
  /\ \A b \in Buckets, fp \in Nat : alt(b, fp) \in Buckets
<1> DEFINE n == BucketCount
           u == 1540483477 % n
<1>1. n \in Nat \ {0} /\ Buckets = 0 .. n - 1
  BY CuckooAssumption DEF Buckets
<1>2. u \in Nat
  BY <1>1
<1> HIDE DEF u
<1>3. \A fp \in Nat : mask(fp) \in Buckets
  <2> SUFFICES ASSUME NEW fp \in Nat  PROVE mask(fp) \in Buckets
    OBVIOUS
  <2> DEFINE t == fp * u + 27492
  <2>1. t \in Nat
    BY <1>2
  <2>2. mask(fp) = t % n
    BY DEF mask, u
  <2> HIDE DEF t, n
  <2> QED BY <1>1, <2>1, <2>2
<1>4. \A h \in [lo : Nat, hi : Nat] : idx(h) \in Buckets /\ fingerprint(h) \in Nat
  BY <1>1 DEF idx, fingerprint
<1> QED BY <1>3, <1>4, XorAssumption DEF alt

LEMMA PutType ==
  ASSUME NEW f \in FilterType, NEW b \in Buckets, NEW fp \in Nat, has_empty_slot(f, b)
  PROVE  put(f, b, fp) \in FilterType
<1> DEFINE S == {t \in SlotIdx : f[b][t] = 0}
           s == Min(S)
<1>1. S # {} /\ S \subseteq Nat
  BY CuckooAssumption DEF has_empty_slot, bucket_has, SlotIdx
<1>2. s \in SlotIdx
  <2> HIDE DEF S
  <2>1. s \in S
    BY <1>1, LeastMember
  <2> QED BY <2>1 DEF S
<1>3. put(f, b, fp) = [f EXCEPT ![b][s] = fp]
  BY DEF put
<1> HIDE DEF s
<1> QED BY <1>2, <1>3 DEF FilterType

LEMMA DeleteType ==
  ASSUME NEW f \in FilterType, NEW h \in [lo : Nat, hi : Nat]  PROVE delete(f, h) \in FilterType
<1> DEFINE fp == fingerprint(h)
           b == IF bucket_has(f, idx(h), fp) THEN idx(h) ELSE alt(idx(h), fp)
           S == {t \in SlotIdx : f[b][t] = fp}
           s == Min(S)
<1>1. b \in Buckets
  BY BucketFacts
<1>2. delete(f, h) = IF bucket_has(f, b, fp) THEN [f EXCEPT ![b][s] = 0] ELSE f
  BY DEF delete
<1> HIDE DEF b
<1>3. CASE bucket_has(f, b, fp)
  <2>1. S # {} /\ S \subseteq Nat
    BY <1>3, CuckooAssumption DEF bucket_has, SlotIdx
  <2>2. s \in SlotIdx
    <3> HIDE DEF S
    <3>1. s \in S
      BY <2>1, LeastMember
    <3> QED BY <3>1 DEF S
  <2>3. delete(f, h) = [f EXCEPT ![b][s] = 0]
    BY <1>2, <1>3
  <2> HIDE DEF s
  <2> QED BY <1>1, <2>2, <2>3 DEF FilterType
<1>4. CASE ~bucket_has(f, b, fp)
  BY <1>2, <1>4
<1> QED BY <1>3, <1>4

KickState == [f : FilterType, fp : Nat, b : Buckets]

LEMMA KickType ==
  ASSUME NEW c \in KickState, NEW k \in Nat  PROVE kick(c, k) \in KickState
<1> DEFINE s == k % SLOTS
           kicked == c.f[c.b][s]
           f == [c.f EXCEPT ![c.b][s] = c.fp]
           b == alt(c.b, kicked)
<1>1. s \in SlotIdx
  BY CuckooAssumption DEF SlotIdx
<1>2. kick(c, k) = IF has_empty_slot(f, b) THEN [f |-> put(f, b, kicked), fp |-> 0, b |-> b]
                   ELSE [f |-> f, fp |-> kicked, b |-> b]
  BY DEF kick
<1> HIDE DEF s
<1>3. kicked \in Nat /\ f \in FilterType /\ c.b \in Buckets
  BY <1>1 DEF KickState, FilterType
<1> HIDE DEF kicked, f
<1>4. b \in Buckets
  BY <1>3, BucketFacts
<1> HIDE DEF b
<1>5. CASE has_empty_slot(f, b)
  <2>1. put(f, b, kicked) \in FilterType
    BY <1>3, <1>4, <1>5, PutType
  <2> QED BY <1>2, <1>4, <1>5, <2>1 DEF KickState
<1>6. CASE ~has_empty_slot(f, b)
  BY <1>2, <1>3, <1>4, <1>6 DEF KickState
<1> QED BY <1>5, <1>6

LEMMA KicksType ==
  ASSUME NEW f \in FilterType, NEW h \in [lo : Nat, hi : Nat]  PROVE kicks(f, h) \in KickState
<1> DEFINE N == MAX_KICKS
           base == [f |-> f, fp |-> fingerprint(h), b |-> idx(h)]
           round(x, n) == IF x.fp = 0 THEN x ELSE kick(x, n - 1)
           body(a) == [n \in 0 .. N |-> IF n = 0 THEN base ELSE round(a[n - 1], n)]
           c == CHOOSE a : a = body(a)
           step == [x \in KickState \X (1 .. N) |-> round(x[1], x[2])]
<1>1. kicks(f, h) = c[N]
  BY DEF kicks
<1>2. N \in Nat
  BY CuckooAssumption
<1>3. base \in KickState
  BY BucketFacts DEF KickState
<1> HIDE DEF N, base
<1>4. \A x \in KickState, n \in 1 .. N : round(x, n) \in KickState
  BY <1>2, KickType
<1> HIDE DEF round
<1>5. step \in StepsIn(KickState, N)
  BY <1>4 DEF StepsIn
<1>6. PICK a : a \in [0 .. N -> KickState] /\ a[0] = base /\ \A n \in 1 .. N : a[n] = step[<<a[n - 1], n>>]
  <2> HIDE DEF step
  <2>1. \E a : ChainIn(KickState, N, base, step, a)
    BY <1>2, <1>3, <1>5, Recursion
  <2> QED BY <2>1 DEF ChainIn
<1>7. a = body(a)
  <2>1. \A n \in 1 .. N : a[n] = round(a[n - 1], n)
    <3> SUFFICES ASSUME NEW n \in 1 .. N  PROVE a[n] = round(a[n - 1], n)
      OBVIOUS
    <3>1. <<a[n - 1], n>> \in KickState \X (1 .. N)
      BY <1>2, <1>6
    <3> QED BY <1>6, <3>1
  <2> HIDE DEF step
  <2> QED BY <1>6, <2>1
<1>8. c = body(c)
  <2> HIDE DEF body
  <2> QED BY <1>7
<1> HIDE DEF c
<1>9. c[0] = base /\ \A n \in 1 .. N : c[n] = round(c[n - 1], n)
  BY <1>2, <1>8
<1>10. c[0] \in KickState /\ \A n \in 1 .. N : c[n - 1] \in KickState => c[n] \in KickState
  BY <1>3, <1>4, <1>9
<1>11. \A n \in 0 .. N : c[n] \in KickState
  <2> HIDE DEF body
  <2> QED BY <1>2, <1>10, RangeInduction, Zenon
<1> QED BY <1>1, <1>2, <1>11

LEMMA InsertType ==
  ASSUME NEW f \in FilterType, NEW h \in [lo : Nat, hi : Nat]  PROVE insert(f, h) \in FilterType
<1> DEFINE fp == fingerprint(h)
           b1 == idx(h)
           b2 == alt(b1, fp)
<1>1. b1 \in Buckets /\ b2 \in Buckets /\ fp \in Nat
  BY BucketFacts
<1>2. insert(f, h) = IF b1 \in roomFor(f, h) THEN put(f, b1, fp)
                     ELSE IF roomFor(f, h) # {} THEN put(f, b2, fp) ELSE kicks(f, h).f
  BY DEF insert
<1>3. roomFor(f, h) = {b \in {b1, b2} : has_empty_slot(f, b)}
  BY DEF roomFor
<1> HIDE DEF fp, b1, b2
<1>4. kicks(f, h).f \in FilterType
  BY KicksType DEF KickState
<1>5. CASE b1 \in roomFor(f, h)
  BY <1>1, <1>2, <1>3, <1>5, PutType
<1>6. CASE b1 \notin roomFor(f, h) /\ roomFor(f, h) # {}
  <2>1. has_empty_slot(f, b2)
    BY <1>3, <1>6
  <2> QED BY <1>1, <1>2, <1>6, <2>1, PutType
<1>7. CASE b1 \notin roomFor(f, h) /\ roomFor(f, h) = {}
  BY <1>2, <1>4, <1>7
<1> QED BY <1>5, <1>6, <1>7

-----------------------------------------------------------------------------
(* The survivors of a retiring page, and the page they are put back into.  *)

EntryOf(pg, i) == [key |-> pg.slots[i].key, len |-> pg.slots[i].len,
                   cls |-> pg.slots[i].cls, content |-> pg.arena[pg.slots[i].off]]

LEMMA SurvivorsIn ==
  ASSUME NEW pg, NEW T, \A i \in Live(pg) : EntryOf(pg, i) \in T,
         NEW from \in SlotIds, NEW to \in from .. SlotCount
  PROVE  Survivors(pg, from, to) \in Seq(T)
<1> DEFINE S == Seq(T)
           N == to - from
           kept(i) == pg.slots[i].key \notin {EMPTY, TOMBSTONE} /\ pg.slots[i].vis
           entry(i) == [key |-> pg.slots[i].key, len |-> pg.slots[i].len,
                        cls |-> pg.slots[i].cls, content |-> pg.arena[pg.slots[i].off]]
           round(x, n) == IF kept(from + n - 1) THEN Append(x, entry(from + n - 1)) ELSE x
           body(a) == [n \in 0 .. N |-> IF n = 0 THEN <<>> ELSE round(a[n - 1], n)]
           c == CHOOSE a : a = body(a)
           step == [x \in S \X (1 .. N) |-> round(x[1], x[2])]
<1>1. Survivors(pg, from, to) = c[N]
  BY DEF Survivors
<1>2. N \in Nat /\ \A n \in 1 .. N : from + n - 1 \in SlotIds
  BY PageAssumption DEF SlotIds
<1>3. <<>> \in S
  OBVIOUS
<1>4. ASSUME NEW i \in SlotIds, kept(i)  PROVE entry(i) \in T
  BY <1>4 DEF EntryOf, Live
<1> HIDE DEF N, entry, kept
<1>5. \A x \in S, n \in 1 .. N : round(x, n) \in S
  BY <1>2, <1>4
<1> HIDE DEF round, S
<1>6. step \in StepsIn(S, N)
  BY <1>5 DEF StepsIn
<1>7. PICK a : a \in [0 .. N -> S] /\ a[0] = <<>> /\ \A n \in 1 .. N : a[n] = step[<<a[n - 1], n>>]
  <2> HIDE DEF step
  <2>1. \E a : ChainIn(S, N, <<>>, step, a)
    BY <1>2, <1>3, <1>6, Recursion
  <2> QED BY <2>1 DEF ChainIn
<1>8. a = body(a)
  <2>1. \A n \in 1 .. N : a[n] = round(a[n - 1], n)
    <3> SUFFICES ASSUME NEW n \in 1 .. N  PROVE a[n] = round(a[n - 1], n)
      OBVIOUS
    <3>1. <<a[n - 1], n>> \in S \X (1 .. N)
      BY <1>2, <1>7
    <3> QED BY <1>7, <3>1
  <2> HIDE DEF step
  <2> QED BY <1>7, <2>1
<1>9. c = body(c)
  <2> HIDE DEF body
  <2> QED BY <1>8
<1> HIDE DEF c
<1>10. c[0] = <<>> /\ \A n \in 1 .. N : c[n] = round(c[n - 1], n)
  BY <1>2, <1>9
<1>11. c[0] \in S /\ \A n \in 1 .. N : c[n - 1] \in S => c[n] \in S
  BY <1>3, <1>5, <1>10
<1>12. \A n \in 0 .. N : c[n] \in S
  <2> HIDE DEF body
  <2> QED BY <1>2, <1>11, RangeInduction, Zenon
<1> QED BY <1>1, <1>2, <1>12 DEF S

LEMMA EntrySurvives ==
  ASSUME NEW pg, PageInv(pg), NEW i \in Live(pg)  PROVE EntryOf(pg, i) \in Survivor
<1>1. i \in SlotIds /\ pg.slots[i].key # EMPTY
  BY DEF Live
<1>2. pg \in PageType /\ ArenaDisjoint(pg) /\ pg.slots[i].len # 0
  BY <1>1 DEF PageInv
<1>3. /\ pg.slots[i] \in Slot /\ pg.slots[i].off \in Nat /\ pg.slots[i].len \in Nat
      /\ pg.slots[i].cap \in Nat /\ pg.head \in 0 .. ArenaCap /\ ArenaCap \in Nat
      /\ pg.slots[i].key \in Keys \cup {EMPTY, TOMBSTONE}
      /\ pg.arena \in [0 .. ArenaCap - 1 -> Contents]
  BY <1>1, <1>2, PageFields
<1>4. pg.slots[i].off + pg.slots[i].cap <= pg.head /\ pg.slots[i].len <= pg.slots[i].cap
  BY <1>1, <1>2 DEF ArenaDisjoint
<1>5. pg.slots[i].off \in 0 .. ArenaCap - 1
  BY <1>2, <1>3, <1>4
<1>6. pg.slots[i].cls \in SlotClasses /\ pg.slots[i].key \in Keys /\ pg.slots[i].len \in Nat \ {0}
  BY <1>1, <1>2, <1>3 DEF Slot, Live
<1>7. pg.arena[pg.slots[i].off] \in Contents
  BY <1>3, <1>5
<1> QED BY <1>6, <1>7 DEF Survivor, EntryOf

LEMMA SurvivorsType ==
  ASSUME NEW pg, PageInv(pg), NEW from \in SlotIds, NEW to \in from .. SlotCount
  PROVE  Survivors(pg, from, to) \in Seq(Survivor)
BY EntrySurvives, SurvivorsIn

(* commit_rotation() refills a page in order, and counts what it puts in.  *)
LEMMA RefillIn ==
  ASSUME NEW U, NEW T, \A x \in U, s \in T : do_insert(x, s) \in U, \A s \in T : s.key \in Keys,
         NEW pg \in U, NEW f \in FilterType, NEW survivors \in Seq(T)
  PROVE  LET done == Refill(pg, f, survivors)
         IN  done.pg \in U /\ done.f \in FilterType
<1> DEFINE S == [pg : U, f : FilterType]
           N == Len(survivors)
           base == [pg |-> pg, f |-> f]
           add(c, s) == [pg |-> do_insert(c.pg, s),
                         f |-> IF plan_insert(c.pg, s.key, s.len).fits THEN c.f
                               ELSE delete(c.f, HashOf[s.key])]
           body(a) == [n \in 0 .. N |-> IF n = 0 THEN base ELSE add(a[n - 1], survivors[n])]
           c == CHOOSE a : a = body(a)
           step == [x \in S \X (1 .. N) |-> add(x[1], survivors[x[2]])]
<1>1. Refill(pg, f, survivors) = c[N]
  BY DEF Refill
<1>2. N \in Nat /\ \A n \in 1 .. N : survivors[n] \in T
  OBVIOUS
<1>3. base \in S
  OBVIOUS
<1>4. ASSUME NEW x \in S, NEW s \in T  PROVE add(x, s) \in S
  <2>1. x.pg \in U /\ x.f \in FilterType /\ do_insert(x.pg, s) \in U
    OBVIOUS
  <2>2. s.key \in Keys /\ HashOf[s.key] \in [lo : Nat, hi : Nat]
    BY CacheAssumption
  <2>3. delete(x.f, HashOf[s.key]) \in FilterType
    BY <2>1, <2>2, DeleteType
  <2> QED BY <2>1, <2>3
<1> HIDE DEF N, base, add
<1>5. \A x \in S, n \in 1 .. N : add(x, survivors[n]) \in S
  BY <1>2, <1>4
<1>s. \A x \in S : x.pg \in U /\ x.f \in FilterType
  OBVIOUS
<1> HIDE DEF S
<1>6. step \in StepsIn(S, N)
  BY <1>5 DEF StepsIn
<1>7. PICK a : a \in [0 .. N -> S] /\ a[0] = base /\ \A n \in 1 .. N : a[n] = step[<<a[n - 1], n>>]
  <2> HIDE DEF step
  <2>1. \E a : ChainIn(S, N, base, step, a)
    BY <1>2, <1>3, <1>6, Recursion
  <2> QED BY <2>1 DEF ChainIn
<1>8. a = body(a)
  <2>1. \A n \in 1 .. N : a[n] = add(a[n - 1], survivors[n])
    <3> SUFFICES ASSUME NEW n \in 1 .. N  PROVE a[n] = add(a[n - 1], survivors[n])
      OBVIOUS
    <3>1. <<a[n - 1], n>> \in S \X (1 .. N)
      BY <1>2, <1>7
    <3> QED BY <1>7, <3>1
  <2> HIDE DEF step
  <2> QED BY <1>7, <2>1
<1>9. c = body(c)
  <2> HIDE DEF body
  <2> QED BY <1>8
<1> HIDE DEF c
<1>10. c[0] = base /\ \A n \in 1 .. N : c[n] = add(c[n - 1], survivors[n])
  BY <1>2, <1>9
<1>11. c[0] \in S /\ \A n \in 1 .. N : c[n - 1] \in S => c[n] \in S
  BY <1>3, <1>5, <1>10
<1>12. \A n \in 0 .. N : c[n] \in S
  <2> HIDE DEF body
  <2> QED BY <1>2, <1>11, RangeInduction, Zenon
<1>13. c[N] \in S
  BY <1>2, <1>12
<1> QED BY <1>1, <1>13, <1>s

LEMMA RefillKeeps ==
  ASSUME NEW pg, PageInv(pg), NEW f \in FilterType, NEW survivors \in Seq(Survivor)
  PROVE  LET done == Refill(pg, f, survivors)
         IN  PageInv(done.pg) /\ done.f \in FilterType /\ (Exact(pg) => Exact(done.pg))
<1> DEFINE U == {q \in PageType : PageInv(q) /\ (Exact(pg) => Exact(q))}
           done == Refill(pg, f, survivors)
<1>1. pg \in U
  BY DEF PageInv
<1>2. ASSUME NEW x \in U, NEW s \in Survivor  PROVE do_insert(x, s) \in U
  <2>1. PageInv(do_insert(x, s)) /\ (Exact(x) => Exact(do_insert(x, s)))
    BY InsertKeeps
  <2> QED BY <2>1 DEF PageInv
<1>3. \A s \in Survivor : s.key \in Keys
  BY DEF Survivor
<1>4. \A x \in U : PageInv(x) /\ (Exact(pg) => Exact(x))
  OBVIOUS
<1> HIDE DEF U
<1>5. done.pg \in U /\ done.f \in FilterType
  BY <1>1, <1>2, <1>3, RefillIn
<1> QED BY <1>4, <1>5

-----------------------------------------------------------------------------
(* The pages through the steps of the workers.  p lands at a label with    *)
(* the locals that the label calls for.                                    *)

Lands(p, to) == to \in Labels /\ Moves(p, to) /\ LocalInv(to, loc'[p])

LEMMA GotoLands ==
  ASSUME Shape, NEW p \in Procs, NEW to \in Labels, NEW l, Goto(p, to, l), DOMAIN l = DOMAIN Quiet,
         LocalInv(to, l)
  PROVE  Lands(p, to) /\ loc'[p] = l
BY GotoMoves DEF Lands, Shape, Goto

LEMMA QuietLocals ==
  /\ "surv" \in DOMAIN Quiet /\ "i" \in DOMAIN Quiet /\ "key" \in DOMAIN Quiet /\ "op" \in DOMAIN Quiet
  /\ "val" \in DOMAIN Quiet /\ "ai" \in DOMAIN Quiet /\ Quiet.surv = <<>> /\ Quiet.i = 0
  /\ "plan" \in DOMAIN Quiet /\ "slot" \in DOMAIN Quiet
BY DEF Quiet

LEMMA NothingSurvives == <<>> \in Seq(Survivor)
OBVIOUS

LEMMA FinishLands ==
  ASSUME Shape, NEW p \in Procs, NEW r, Finish(p, r)  PROVE Lands(p, "done")
<1> DEFINE l == [Quiet EXCEPT !.op = loc[p].op, !.key = loc[p].key, !.val = loc[p].val,
                              !.res = r, !.fresh = loc[p].fresh]
<1>1. Goto(p, "done", l)
  BY DEF Finish
<1>2. DOMAIN l = DOMAIN Quiet /\ l.surv = <<>>
  BY DEF Quiet
<1> HIDE DEF l
<1>3. LocalInv("done", l)
  BY <1>2, NothingSurvives DEF LocalInv, Setting, Keyless
<1>4. "done" \in Labels
  BY DEF Labels
<1> QED BY <1>1, <1>2, <1>3, <1>4, GotoLands

LEMMA GiveUpLands ==
  ASSUME Shape, NEW p \in Procs, GiveUp(p)  PROVE Lands(p, "idle")
<1>1. LocalInv("idle", Quiet)
  BY QuietLocals, NothingSurvives DEF LocalInv, Setting, Keyless
<1>2. "idle" \in Labels
  BY DEF Labels
<1> QED BY <1>1, <1>2, GotoLands DEF GiveUp

LEMMA NotFoundLands ==
  ASSUME Shape, NEW p \in Procs, NotFound(p), LocalInv(pc[p], loc[p]), pc[p] \notin Keyless
  PROVE  Lands(p, "check") \/ Lands(p, "done")
<1>1. CASE loc[p].op = "set"
  <2> DEFINE l == [Quiet EXCEPT !.op = "set", !.key = loc[p].key, !.val = loc[p].val, !.old = loc[p].old]
  <2>1. Goto(p, "check", l)
    BY <1>1 DEF NotFound
  <2>2. /\ DOMAIN l = DOMAIN Quiet /\ l.surv = <<>> /\ l.op = "set" /\ l.key = loc[p].key
        /\ l.val = loc[p].val /\ l.i = 0
    BY DEF Quiet
  <2> HIDE DEF l
  <2>3. l.key \in Keys /\ l.val \in Values /\ 0 \in SlotIds
    BY <1>1, <2>2, PageAssumption DEF LocalInv, Keyless, SlotIds
  <2>4. LocalInv("check", l)
    BY <2>2, <2>3, NothingSurvives DEF LocalInv
  <2>5. "check" \in Labels
    BY DEF Labels
  <2> QED BY <2>1, <2>2, <2>4, <2>5, GotoLands
<1>2. CASE loc[p].op # "set"
  BY <1>2, FinishLands DEF NotFound
<1> QED BY <1>1, <1>2

LEMMA NextSealedLands ==
  ASSUME Shape, NEW p \in Procs, NextSealed(p), LocalInv(pc[p], loc[p]),
         \/ pc[p] = "sealed" /\ loc[p].i < NPages
         \/ pc[p] \in {"sealed_probe", "sealed_verify"}
  PROVE  Lands(p, "sealed")
<1> DEFINE l == [loc[p] EXCEPT !.i = @ + 1, !.gen = 0, !.slot = 0, !.calm = TRUE]
<1>1. Goto(p, "sealed", l)
  BY DEF NextSealed
<1>2. /\ DOMAIN l = DOMAIN Quiet /\ l.surv = loc[p].surv /\ l.op = loc[p].op /\ l.key = loc[p].key
      /\ l.val = loc[p].val /\ l.ai = loc[p].ai /\ l.i = loc[p].i + 1
  BY QuietLocals DEF Shape
<1> HIDE DEF l
<1>3. loc[p].ai \in Pages /\ loc[p].i \in 1 .. NPages - 1
  BY CacheAssumption DEF LocalInv
<1>4. l.ai \in Pages /\ l.i \in 1 .. NPages
  BY <1>2, <1>3, CacheAssumption
<1>5. LocalInv("sealed", l)
  BY <1>2, <1>4 DEF LocalInv, Keyless, Setting
<1>6. "sealed" \in Labels
  BY DEF Labels
<1> QED BY <1>1, <1>2, <1>5, <1>6, GotoLands

LEMMA AfterChunkLands ==
  ASSUME Shape, NEW p \in Procs, NEW l, DOMAIN l = DOMAIN Quiet,
         Goto(p, AfterChunk(p, l).to, AfterChunk(p, l).l), LocalInv("chunk_read", l)
  PROVE  Lands(p, "chunk") \/ Lands(p, "insert")
<1>1. CASE l.i + CHUNK < SlotCount
  <2> DEFINE m == [l EXCEPT !.i = @ + CHUNK, !.att = 0, !.gen = 0]
  <2>1. Goto(p, "chunk", m)
    BY <1>1 DEF AfterChunk
  <2>2. /\ DOMAIN m = DOMAIN Quiet /\ m.surv = l.surv /\ m.op = l.op /\ m.key = l.key
        /\ m.val = l.val /\ m.ai = l.ai /\ m.i = l.i + CHUNK
    BY QuietLocals
  <2> HIDE DEF m
  <2>3. m.i \in SlotIds
    <3>1. l.i \in SlotIds
      BY DEF LocalInv
    <3> QED BY <1>1, <2>2, <3>1, CacheAssumption, PageAssumption DEF SlotIds
  <2>4. LocalInv("chunk", m)
    BY <2>2, <2>3 DEF LocalInv, Keyless, Setting
  <2>5. "chunk" \in Labels
    BY DEF Labels
  <2> QED BY <2>1, <2>2, <2>4, <2>5, GotoLands
<1>2. CASE ~(l.i + CHUNK < SlotCount)
  <2> DEFINE m == [l EXCEPT !.i = 0, !.att = 0, !.gen = 0]
  <2>1. Goto(p, "insert", m)
    BY <1>2 DEF AfterChunk
  <2>2. /\ DOMAIN m = DOMAIN Quiet /\ m.surv = l.surv /\ m.op = l.op /\ m.key = l.key
        /\ m.val = l.val
    BY QuietLocals
  <2> HIDE DEF m
  <2>4. LocalInv("insert", m)
    BY <2>2 DEF LocalInv, Keyless, Setting
  <2>5. "insert" \in Labels
    BY DEF Labels
  <2> QED BY <2>1, <2>2, <2>4, <2>5, GotoLands
<1> QED BY <1>1, <1>2

LEMMA IndexFacts ==
  ASSUME counter \in Nat
  PROVE  active_idx \in Pages /\ retiring_idx \in Pages /\ NPages \in Nat \ {0}
<1>1. NPages \in Nat \ {0}
  BY CacheAssumption
<1>2. active_idx \in 0 .. NPages - 1
  BY <1>1 DEF active_idx
<1> HIDE DEF active_idx
<1> QED BY <1>1, <1>2 DEF retiring_idx, Pages

LEMMA SealedPageFacts ==
  ASSUME NEW p, loc[p].ai \in Pages, loc[p].i \in 1 .. NPages  PROVE SealedPage(p) \in Pages
<1> DEFINE t == loc[p].ai + NPages - loc[p].i
<1>1. NPages \in Nat \ {0} /\ t \in Nat
  BY CacheAssumption DEF Pages
<1> HIDE DEF t
<1> QED BY <1>1 DEF SealedPage, Pages, t

(* What a step outside the writing sections may do to pages and filter.    *)
SamePages ==
  /\ filter' = filter /\ DOMAIN page' = Pages
  /\ \A g \in Pages : SameShape(page[g], page'[g]) /\ page'[g].count = page[g].count

LEMMA UntouchedPages ==
  ASSUME TableInv, page' = page, filter' = filter  PROVE SamePages
BY SameShapeSelf DEF TableInv, SamePages

LEMMA LookupLands ==
  ASSUME Shape, TableInv, NEW p \in Procs, Lookup(p)
  PROVE  SamePages /\ \E to \in Resting : Lands(p, to)
<1>a. DOMAIN loc[p] = DOMAIN Quiet /\ LocalInv(pc[p], loc[p])
  BY DEF Shape, TableInv
<1>b. counter \in Nat /\ active_idx \in Pages
  BY IndexFacts DEF TableInv, RestType
<1>q. /\ {"done", "check", "probe", "read", "verify", "sealed", "sealed_probe", "sealed_read",
          "sealed_verify", "pop_lock"} \subseteq Resting
      /\ {"probe", "read", "verify", "sealed", "sealed_probe", "sealed_read", "sealed_verify",
          "pop_lock"} \subseteq Labels
  BY DEF Resting, Labels
(* Locals that keep what a lookup needs to know.                           *)
<1>c. ASSUME NEW to \in {"probe", "read", "verify", "sealed", "sealed_probe", "sealed_read",
                         "sealed_verify", "pop_lock"}, NEW l, Goto(p, to, l),
             pc[p] \in {"filter", "probe", "read", "sealed", "sealed_probe", "sealed_read"},
             DOMAIN l = DOMAIN Quiet, l.surv = loc[p].surv, l.op = loc[p].op, l.key = loc[p].key,
             l.val = loc[p].val,
             to = "sealed" => l.ai \in Pages /\ l.i \in 1 .. NPages,
             to \in {"sealed_probe", "sealed_read", "sealed_verify"} => l.ai \in Pages /\ l.i \in 1 .. NPages - 1,
             to = "pop_lock" => l.i = 0
      PROVE  \E t \in Resting : Lands(p, t)
  <2>1. LocalInv(to, l)
    BY <1>a, <1>c DEF LocalInv, Keyless, Setting
  <2>2. to \in Labels /\ to \in Resting
    BY <1>c, <1>q
  <2>3. Lands(p, to)
    BY <1>c, <2>1, <2>2, GotoLands
  <2> QED BY <2>2, <2>3
<1>n. ASSUME NotFound(p), pc[p] \notin Keyless  PROVE \E t \in Resting : Lands(p, t)
  <2>1. Lands(p, "check") \/ Lands(p, "done")
    BY <1>a, <1>n, NotFoundLands
  <2> QED BY <1>q, <2>1
<1>f. ASSUME NEW r, Finish(p, r)  PROVE \E t \in Resting : Lands(p, t)
  BY <1>f, <1>q, FinishLands
<1>s. ASSUME NextSealed(p), \/ pc[p] = "sealed" /\ loc[p].i < NPages
                            \/ pc[p] \in {"sealed_probe", "sealed_verify"}
      PROVE  \E t \in Resting : Lands(p, t)
  BY <1>s, <1>a, <1>q, NextSealedLands
<1>u. page' = page /\ filter' = filter => SamePages
  BY UntouchedPages
<1>1. CASE FilterCheck(p)
  <2>1. pc[p] = "filter" /\ loc[p].i = 0 /\ SamePages
    BY <1>1, <1>a, <1>u DEF FilterCheck, On, LocalInv, shared
  <2>2. CASE lookup(filter, HashOf[loc[p].key])
    <3> DEFINE to == IF loc[p].op = "pop" THEN "pop_lock" ELSE "probe"
    <3>1. Goto(p, to, loc[p]) /\ to \in {"pop_lock", "probe"}
      BY <1>1, <2>2 DEF FilterCheck
    <3> HIDE DEF to
    <3> QED BY <2>1, <3>1, <1>a, <1>c
  <2>3. CASE ~lookup(filter, HashOf[loc[p].key])
    BY <1>1, <2>1, <2>3, <1>n DEF FilterCheck, Keyless
  <2> QED BY <2>2, <2>3
<1>2. CASE LookupLockTimeout(p)
  BY <1>2, <1>n, <1>u DEF LookupLockTimeout, On, Keyless, shared
<1>3. CASE ProbeActive(p)
  <2> DEFINE s == do_probe(page[active_idx], loc[p].key)
             slot == page[active_idx].slots[s]
             l1 == [loc[p] EXCEPT !.ai = active_idx, !.i = 1]
             l2 == [loc[p] EXCEPT !.ai = active_idx, !.slot = s, !.off = slot.off, !.len = slot.len,
                                  !.gen = gen[active_idx], !.seq = slot.seq]
  <2>1. pc[p] = "probe" /\ SamePages
    BY <1>3, <1>u DEF ProbeActive, On
  <2>2. \/ Goto(p, "sealed", l1) \/ Goto(p, "read", l2) \/ Finish(p, TRUE) \/ Finish(p, "unchanged")
        \/ NotFound(p)
    BY <1>3 DEF ProbeActive
  <2>3. /\ DOMAIN l1 = DOMAIN Quiet /\ l1.surv = loc[p].surv /\ l1.op = loc[p].op /\ l1.key = loc[p].key
        /\ l1.val = loc[p].val /\ l1.ai = active_idx /\ l1.i = 1
    BY <1>a, QuietLocals
  <2>4. /\ DOMAIN l2 = DOMAIN Quiet /\ l2.surv = loc[p].surv /\ l2.op = loc[p].op /\ l2.key = loc[p].key
        /\ l2.val = loc[p].val
    BY <1>a, QuietLocals
  <2>5. 1 \in 1 .. NPages
    BY CacheAssumption
  <2> HIDE DEF l1, l2
  <2>6. CASE Goto(p, "sealed", l1)
    BY <1>b, <1>c, <2>1, <2>3, <2>5, <2>6
  <2>7. CASE Goto(p, "read", l2)
    BY <1>c, <2>1, <2>4, <2>7
  <2>8. CASE NotFound(p)
    BY <1>n, <2>1, <2>8 DEF Keyless
  <2> QED BY <1>f, <2>1, <2>2, <2>6, <2>7, <2>8
<1>4. CASE ReadActive(p)
  <2> DEFINE l == [loc[p] EXCEPT !.res = ReadArena(loc[p].ai, loc[p].off, loc[p].len)]
  <2>1. pc[p] = "read" /\ SamePages /\ Goto(p, "verify", l)
    BY <1>4, <1>u DEF ReadActive, On, shared
  <2>2. /\ DOMAIN l = DOMAIN Quiet /\ l.surv = loc[p].surv /\ l.op = loc[p].op /\ l.key = loc[p].key
        /\ l.val = loc[p].val
    BY <1>a, QuietLocals
  <2> HIDE DEF l
  <2> QED BY <1>c, <2>1, <2>2
<1>5. CASE VerifyActive(p)
  BY <1>5, <1>f, <1>u DEF VerifyActive, shared
<1>6. CASE SealedGeneration(p)
  <2> DEFINE g == SealedPage(p)
             l == [loc[p] EXCEPT !.gen = gen[g], !.calm = Calm(g)]
  <2>1. pc[p] = "sealed" /\ SamePages /\ loc[p].ai \in Pages /\ loc[p].i \in 1 .. NPages
    BY <1>6, <1>a, <1>u DEF SealedGeneration, On, shared, LocalInv
  <2>2. \/ NotFound(p)
        \/ loc[p].i < NPages /\ NextSealed(p)
        \/ loc[p].i < NPages /\ Goto(p, "sealed_probe", l)
    BY <1>6 DEF SealedGeneration
  <2>3. /\ DOMAIN l = DOMAIN Quiet /\ l.surv = loc[p].surv /\ l.op = loc[p].op /\ l.key = loc[p].key
        /\ l.val = loc[p].val /\ l.ai = loc[p].ai /\ l.i = loc[p].i
    BY <1>a, QuietLocals
  <2>4. loc[p].i < NPages => loc[p].i \in 1 .. NPages - 1
    BY <2>1, CacheAssumption
  <2> HIDE DEF l
  <2>5. CASE loc[p].i < NPages /\ Goto(p, "sealed_probe", l)
    BY <1>c, <2>1, <2>3, <2>4, <2>5
  <2> QED BY <1>n, <1>s, <2>1, <2>2, <2>5 DEF Keyless
<1>7. CASE SealedProbe(p)
  <2> DEFINE g == SealedPage(p)
             s == do_probe(page[g], loc[p].key)
             slot == page[g].slots[s]
             l1 == [loc[p] EXCEPT !.off = slot.off, !.len = slot.len]
             l2 == [loc[p] EXCEPT !.res = loc[p].op = "contains" \/ SameContent(slot, loc[p].val)]
  <2>1. pc[p] = "sealed_probe" /\ loc[p].ai \in Pages /\ loc[p].i \in 1 .. NPages - 1 /\ loc[p].key \in Keys
    BY <1>7, <1>a DEF SealedProbe, On, LocalInv, Keyless
  <2>2. g \in Pages
    BY <2>1, SealedPageFacts, CacheAssumption
  <2>3. \/ NextSealed(p) /\ UNCHANGED shared
        \/ /\ s # NoSlot /\ Goto(p, "sealed_read", l1) /\ page' = [page EXCEPT ![g].slots[s].vis = TRUE]
           /\ filter' = filter
        \/ Goto(p, "sealed_verify", l2) /\ UNCHANGED shared
    BY <1>7 DEF SealedProbe
  <2>4. /\ DOMAIN l1 = DOMAIN Quiet /\ l1.surv = loc[p].surv /\ l1.op = loc[p].op /\ l1.key = loc[p].key
        /\ l1.val = loc[p].val /\ l1.ai = loc[p].ai /\ l1.i = loc[p].i
    BY <1>a, QuietLocals
  <2>5. /\ DOMAIN l2 = DOMAIN Quiet /\ l2.surv = loc[p].surv /\ l2.op = loc[p].op /\ l2.key = loc[p].key
        /\ l2.val = loc[p].val /\ l2.ai = loc[p].ai /\ l2.i = loc[p].i
    BY <1>a, QuietLocals
  <2> HIDE DEF l1, l2
  <2>6. CASE NextSealed(p) /\ UNCHANGED shared
    BY <1>s, <1>u, <2>1, <2>6 DEF shared
  <2>7. CASE Goto(p, "sealed_verify", l2) /\ UNCHANGED shared
    BY <1>c, <1>u, <2>1, <2>5, <2>7 DEF shared
  <2>8. CASE /\ s # NoSlot /\ Goto(p, "sealed_read", l1) /\ page' = [page EXCEPT ![g].slots[s].vis = TRUE]
             /\ filter' = filter
    <3>1. s \in SlotIds
      BY <2>1, <2>8, ProbeFacts
    <3> HIDE DEF s, g
    <3> DEFINE q == [page[g] EXCEPT !.slots[s].vis = TRUE]
    <3>2. SameShape(page[g], q) /\ q.count = page[g].count
      BY <2>2, <3>1, VisEdit DEF TableInv
    <3>3. page' = [page EXCEPT ![g] = q]
      BY <2>8
    <3> HIDE DEF q
    <3>4. DOMAIN page' = Pages /\ page'[g] = q /\ \A h \in Pages \ {g} : page'[h] = page[h]
      BY <2>2, <3>3 DEF TableInv
    <3>5. SamePages
      <4>1. \A h \in Pages : SameShape(page[h], page[h])
        BY SameShapeSelf DEF TableInv
      <4> QED BY <2>8, <3>2, <3>4, <4>1 DEF SamePages
    <3> QED BY <1>c, <2>1, <2>4, <2>8, <3>5
  <2> QED BY <2>3, <2>6, <2>7, <2>8
<1>8. CASE SealedRead(p)
  <2> DEFINE l == [loc[p] EXCEPT !.res = ReadArena(SealedPage(p), loc[p].off, loc[p].len)]
  <2>1. /\ pc[p] = "sealed_read" /\ SamePages /\ Goto(p, "sealed_verify", l)
        /\ loc[p].ai \in Pages /\ loc[p].i \in 1 .. NPages - 1
    BY <1>8, <1>a, <1>u DEF SealedRead, On, shared, LocalInv
  <2>2. /\ DOMAIN l = DOMAIN Quiet /\ l.surv = loc[p].surv /\ l.op = loc[p].op /\ l.key = loc[p].key
        /\ l.val = loc[p].val /\ l.ai = loc[p].ai /\ l.i = loc[p].i
    BY <1>a, QuietLocals
  <2> HIDE DEF l
  <2> QED BY <1>c, <2>1, <2>2
<1>9. CASE SealedVerify(p)
  <2>1. pc[p] = "sealed_verify" /\ SamePages
    BY <1>9, <1>u DEF SealedVerify, On, shared
  <2> QED BY <1>9, <1>f, <1>n, <1>s, <2>1 DEF SealedVerify, Keyless
<1> QED BY <1>1, <1>2, <1>3, <1>4, <1>5, <1>6, <1>7, <1>8, <1>9 DEF Lookup

LEMMA ReadLands ==
  ASSUME Shape, TableInv, NEW p \in Procs, ReadStep(p)
  PROVE  SamePages /\ \E to \in Resting : Lands(p, to)
<1>a. DOMAIN loc[p] = DOMAIN Quiet /\ LocalInv(pc[p], loc[p])
  BY DEF Shape, TableInv
<1>b. retiring_idx \in Pages
  BY IndexFacts DEF TableInv, RestType
<1>u. page' = page /\ filter' = filter => SamePages
  BY UntouchedPages
<1>q. /\ {"idle", "scan", "chunk", "chunk_read", "insert"} \subseteq Resting
      /\ {"scan", "chunk", "chunk_read", "insert"} \subseteq Labels
  BY DEF Resting, Labels
<1>c. ASSUME NEW to \in {"scan", "chunk", "chunk_read", "insert"}, NEW l, Goto(p, to, l),
             pc[p] \in {"check", "scan", "chunk", "chunk_read"},
             DOMAIN l = DOMAIN Quiet, l.surv \in Seq(Survivor), l.op = loc[p].op, l.key = loc[p].key,
             l.val = loc[p].val, l.i = loc[p].i,
             to # "insert" => l.ai \in Pages
      PROVE  \E t \in Resting : Lands(p, t)
  <2>1. LocalInv(to, l)
    BY <1>a, <1>c DEF LocalInv, Keyless, Setting
  <2>2. to \in Labels /\ to \in Resting
    BY <1>c, <1>q
  <2>3. Lands(p, to)
    BY <1>c, <2>1, <2>2, GotoLands
  <2> QED BY <2>2, <2>3
<1>1. CASE SetLockTimeout(p)
  BY <1>1, <1>q, <1>u, GiveUpLands DEF SetLockTimeout, shared
<1>2. CASE Return(p)
  <2>1. Goto(p, "idle", Quiet) /\ SamePages
    BY <1>2, <1>u DEF Return, shared
  <2>2. LocalInv("idle", Quiet) /\ "idle" \in Labels
    BY QuietLocals, NothingSurvives DEF LocalInv, Setting, Keyless, Labels
  <2> QED BY <1>q, <2>1, <2>2, GotoLands
<1>3. CASE CheckFull(p)
  <2> DEFINE full == page[active_idx].count >= GenMax
             to == IF full THEN "scan" ELSE "insert"
             l == [loc[p] EXCEPT !.rot = full, !.ai = IF full THEN retiring_idx ELSE 0,
                                 !.snap = IF full THEN counter ELSE 0]
  <2>1. pc[p] = "check" /\ SamePages /\ Goto(p, to, l)
    BY <1>3, <1>u DEF CheckFull, On
  <2>2. /\ DOMAIN l = DOMAIN Quiet /\ l.surv = loc[p].surv /\ l.op = loc[p].op /\ l.key = loc[p].key
        /\ l.val = loc[p].val /\ l.i = loc[p].i /\ l.ai = IF full THEN retiring_idx ELSE 0
    <3> HIDE DEF full
    <3> QED BY <1>a, QuietLocals
  <2>3. to \in {"scan", "insert"} /\ (to # "insert" => l.ai \in Pages)
    <3> HIDE DEF l, full
    <3> QED BY <1>b, <2>2
  <2>4. loc[p].surv \in Seq(Survivor)
    BY <1>a DEF LocalInv
  <2> HIDE DEF l, to
  <2> QED BY <1>c, <2>1, <2>2, <2>3, <2>4
<1>4. CASE ScanStart(p)
  <2> DEFINE to == IF Odd(gen[loc[p].ai]) THEN "insert" ELSE "chunk"
  <2>1. pc[p] = "scan" /\ SamePages /\ Goto(p, to, loc[p]) /\ to \in {"insert", "chunk"}
    BY <1>4, <1>u DEF ScanStart, On, shared
  <2>2. loc[p].surv \in Seq(Survivor) /\ loc[p].ai \in Pages
    BY <1>a, <2>1 DEF LocalInv
  <2> HIDE DEF to
  <2> QED BY <1>a, <1>c, <2>1, <2>2
<1>5. CASE ChunkStart(p)
  <2>1. pc[p] = "chunk" /\ SamePages
    BY <1>5, <1>u DEF ChunkStart, On, shared
  <2>2. loc[p].surv \in Seq(Survivor) /\ loc[p].ai \in Pages /\ LocalInv("chunk_read", loc[p])
    BY <1>a, <2>1 DEF LocalInv, Keyless, Setting
  <2>3. CASE Odd(gen[loc[p].ai])
    <3>1. Goto(p, AfterChunk(p, loc[p]).to, AfterChunk(p, loc[p]).l)
      BY <1>5, <2>3 DEF ChunkStart
    <3>2. Lands(p, "chunk") \/ Lands(p, "insert")
      BY <1>a, <2>2, <3>1, AfterChunkLands
    <3> QED BY <1>q, <2>1, <3>2
  <2>4. CASE ~Odd(gen[loc[p].ai])
    <3> DEFINE l == [loc[p] EXCEPT !.gen = gen[loc[p].ai]]
    <3>1. Goto(p, "chunk_read", l)
      BY <1>5, <2>4 DEF ChunkStart
    <3>2. /\ DOMAIN l = DOMAIN Quiet /\ l.surv = loc[p].surv /\ l.op = loc[p].op /\ l.key = loc[p].key
          /\ l.val = loc[p].val /\ l.i = loc[p].i /\ l.ai = loc[p].ai
      BY <1>a, QuietLocals
    <3> HIDE DEF l
    <3> QED BY <1>c, <2>1, <2>2, <3>1, <3>2
  <2> QED BY <2>3, <2>4
<1>6. CASE ChunkRead(p)
  <2> DEFINE pg == page[loc[p].ai]
             end == Min({loc[p].i + CHUNK, SlotCount})
             sv == Survivors(pg, loc[p].i, end)
             l == [loc[p] EXCEPT !.surv = @ \o sv]
             m == [loc[p] EXCEPT !.att = @ + 1, !.gen = 0]
  <2>1. pc[p] = "chunk_read" /\ SamePages
    BY <1>6, <1>u DEF ChunkRead, On, shared
  <2>2. /\ loc[p].surv \in Seq(Survivor) /\ loc[p].ai \in Pages /\ loc[p].i \in SlotIds
        /\ LocalInv("chunk_read", loc[p])
    BY <1>a, <2>1 DEF LocalInv
  <2>3. \/ Goto(p, AfterChunk(p, l).to, AfterChunk(p, l).l)
        \/ Goto(p, AfterChunk(p, loc[p]).to, AfterChunk(p, loc[p]).l)
        \/ Goto(p, "chunk", m)
    BY <1>6 DEF ChunkRead
  <2>4. end \in loc[p].i .. SlotCount
    <3> DEFINE i == loc[p].i
               T == {i + CHUNK, SlotCount}
    <3>1. T \subseteq Nat /\ T # {} /\ i \in Nat /\ i + CHUNK >= i /\ SlotCount >= i /\ SlotCount \in Nat
      BY <2>2, CacheAssumption, PageAssumption DEF SlotIds
    <3>2. \A j \in T : j \in Nat /\ j >= i
      BY <3>1
    <3>3. SlotCount \in T
      OBVIOUS
    <3> HIDE DEF i, T
    <3>4. Min(T) \in T /\ \A j \in T : Min(T) <= j
      BY <3>1, LeastMember
    <3> QED BY <3>1, <3>2, <3>3, <3>4 DEF i, T
  <2>5. sv \in Seq(Survivor)
    <3> HIDE DEF end, pg
    <3>1. PageInv(pg)
      BY <2>2 DEF TableInv, pg
    <3> QED BY <2>2, <2>4, <3>1, SurvivorsType
  <2> HIDE DEF sv
  <2>6. /\ DOMAIN l = DOMAIN Quiet /\ l.surv = loc[p].surv \o sv /\ l.op = loc[p].op /\ l.key = loc[p].key
        /\ l.val = loc[p].val /\ l.i = loc[p].i /\ l.ai = loc[p].ai
    BY <1>a, QuietLocals
  <2>7. /\ DOMAIN m = DOMAIN Quiet /\ m.surv = loc[p].surv /\ m.op = loc[p].op /\ m.key = loc[p].key
        /\ m.val = loc[p].val /\ m.i = loc[p].i /\ m.ai = loc[p].ai
    BY <1>a, QuietLocals
  <2> HIDE DEF l, m
  <2>8. LocalInv("chunk_read", l)
    BY <2>2, <2>5, <2>6 DEF LocalInv
  <2>9. CASE Goto(p, "chunk", m)
    BY <1>c, <2>1, <2>2, <2>7, <2>9
  <2>10. CASE Goto(p, AfterChunk(p, l).to, AfterChunk(p, l).l)
    <3>1. Lands(p, "chunk") \/ Lands(p, "insert")
      BY <2>6, <2>8, <2>10, AfterChunkLands
    <3> QED BY <1>q, <2>1, <3>1
  <2>11. CASE Goto(p, AfterChunk(p, loc[p]).to, AfterChunk(p, loc[p]).l)
    <3>1. Lands(p, "chunk") \/ Lands(p, "insert")
      BY <1>a, <2>2, <2>11, AfterChunkLands
    <3> QED BY <1>q, <2>1, <3>1
  <2> QED BY <2>3, <2>9, <2>10, <2>11
<1>7. CASE Lookup(p)
  BY <1>7, LookupLands
<1> QED BY <1>1, <1>2, <1>3, <1>4, <1>5, <1>6, <1>7 DEF ReadStep

LEMMA OthersStay ==
  ASSUME Shape, TableInv, NEW p \in Procs, NEW to, Lands(p, to)
  PROVE  /\ dead' = dead /\ pc' \in [Procs -> Labels] /\ pc'[p] = to
         /\ \A q \in Procs \ {p} : pc'[q] = pc[q] /\ loc'[q] = loc[q]
         /\ \A q \in Procs : LocalInv(pc'[q], loc'[q])
<1>1. /\ dead' = dead /\ pc' = [pc EXCEPT ![p] = to] /\ to \in Labels /\ LocalInv(to, loc'[p])
      /\ \A q \in Procs \ {p} : loc'[q] = loc[q]
  BY DEF Lands, Moves
<1>2. pc \in [Procs -> Labels] /\ \A q \in Procs : LocalInv(pc[q], loc[q])
  BY DEF TableInv, RestType
<1>3. pc' \in [Procs -> Labels] /\ pc'[p] = to /\ \A q \in Procs \ {p} : pc'[q] = pc[q]
  BY <1>1, <1>2
<1>4. \A q \in Procs : LocalInv(pc'[q], loc'[q])
  <2> SUFFICES ASSUME NEW q \in Procs  PROVE LocalInv(pc'[q], loc'[q])
    OBVIOUS
  <2>1. CASE q = p
    BY <1>1, <1>3, <2>1
  <2>2. CASE q # p
    BY <1>1, <1>2, <1>3, <2>2
  <2> QED BY <2>1, <2>2
<1> QED BY <1>1, <1>3, <1>4

(* A worker that reads does not disturb the one that writes.               *)
LEMMA ReaderKeepsTable ==
  ASSUME Shape, TableInv, NEW p \in Procs, NEW to \in Resting, Lands(p, to), SamePages,
         counter' = counter, gen' = gen, sealed' = sealed
  PROVE  TableInv'
<1>1. /\ dead' = dead /\ pc' \in [Procs -> Labels] /\ pc'[p] = to
      /\ \A q \in Procs \ {p} : pc'[q] = pc[q] /\ loc'[q] = loc[q]
      /\ \A q \in Procs : LocalInv(pc'[q], loc'[q])
  BY OthersStay
<1>2. RestType'
  BY <1>1 DEF TableInv, RestType, SamePages
<1>3. DOMAIN page' = Pages /\ \A g \in Pages : PageInv(page'[g])
  BY DEF SamePages, SameShape
<1>4. active_idx' = active_idx /\ active_idx \in Pages
  BY IndexFacts DEF active_idx, TableInv, RestType
<1>5. ASSUME NEW q \in Procs \ dead  PROVE HeldInv(pc'[q], loc'[q], page', active_idx)
  <2>1. CASE q = p
    BY <1>1, <2>1 DEF HeldInv, Resting
  <2>2. CASE q # p
    <3>1. /\ pc'[q] = pc[q] /\ loc'[q] = loc[q] /\ LocalInv(pc[q], loc[q])
          /\ HeldInv(pc[q], loc[q], page, active_idx)
      BY <1>1, <2>2 DEF TableInv
    <3>2. CASE pc[q] \in {"copy", "publish"}
      <4> DEFINE a == active_idx
      <4>1. PlanFits(page[a], loc[q].plan, loc[q].key, Size[loc[q].val]) /\ loc[q].key \in Keys
        BY <3>1, <3>2 DEF HeldInv, LocalInv, Keyless
      <4>2. SameTable(page[a], page'[a]) /\ page'[a].head = page[a].head
        BY <1>4 DEF SamePages, SameShape
      <4> HIDE DEF a
      <4>3. PlanFits(page'[a], loc[q].plan, loc[q].key, Size[loc[q].val])
        BY <4>1, <4>2, PlanKeeps
      <4> QED BY <3>1, <3>2, <4>3 DEF HeldInv, a
    <3>3. CASE pc[q] = "pop_tomb"
      <4>1. loc[q].slot \in Live(page[loc[q].i]) /\ loc[q].i \in Pages
        BY <3>1, <3>3 DEF HeldInv, LocalInv
      <4>2. Live(page'[loc[q].i]) = Live(page[loc[q].i])
        BY <4>1 DEF SamePages, SameShape
      <4> QED BY <3>1, <3>3, <4>1, <4>2 DEF HeldInv
    <3> QED BY <3>1, <3>2, <3>3 DEF HeldInv
  <2> QED BY <2>1, <2>2
<1> QED BY <1>1, <1>2, <1>3, <1>4, <1>5 DEF TableInv

(* A worker that writes does so alone.                                     *)
LEMMA WriterKeepsTable ==
  ASSUME Shape, TableInv, NEW p \in Procs, NEW to, Lands(p, to),
         \A q \in Procs \ dead : q # p => pc[q] \notin Writing,
         counter' \in Nat, filter' \in FilterType, gen' \in [Pages -> 0 .. Wrap - 1],
         sealed' \in [Pages -> BOOLEAN], DOMAIN page' = Pages, \A g \in Pages : PageInv(page'[g]),
         HeldInv(to, loc'[p], page', active_idx')
  PROVE  TableInv'
<1>1. /\ dead' = dead /\ pc' \in [Procs -> Labels] /\ pc'[p] = to
      /\ \A q \in Procs \ {p} : pc'[q] = pc[q] /\ loc'[q] = loc[q]
      /\ \A q \in Procs : LocalInv(pc'[q], loc'[q])
  BY OthersStay
<1>2. RestType'
  BY <1>1 DEF RestType
<1>3. ASSUME NEW q \in Procs \ dead  PROVE HeldInv(pc'[q], loc'[q], page', active_idx')
  <2>1. CASE q = p
    BY <1>1, <2>1
  <2>2. CASE q # p
    BY <1>1, <2>2 DEF HeldInv, Writing
  <2> QED BY <2>1, <2>2
<1> QED BY <1>1, <1>2, <1>3 DEF TableInv

(* A write to one page.                                                    *)
LEMMA OnePage ==
  ASSUME TableInv, NEW g \in Pages, NEW q, PageInv(q), page' = [page EXCEPT ![g] = q]
  PROVE  /\ DOMAIN page' = Pages /\ page'[g] = q /\ \A h \in Pages \ {g} : page'[h] = page[h]
         /\ \A h \in Pages : PageInv(page'[h])
<1>1. DOMAIN page = Pages /\ \A h \in Pages : PageInv(page[h])
  BY DEF TableInv
<1>2. DOMAIN page' = Pages /\ page'[g] = q /\ \A h \in Pages \ {g} : page'[h] = page[h]
  BY <1>1
<1> QED BY <1>1, <1>2

LEMMA Alone ==
  ASSUME WriterHoldsLock, NoProc \notin Procs, NEW p \in Procs, p \notin dead,
         pc[p] \in Writing \/ CanLock
  PROVE  \A q \in Procs \ dead : q # p => pc[q] \notin Writing
BY DEF WriterHoldsLock, CanLock

LEMMA GenBump ==
  ASSUME gen \in [Pages -> 0 .. Wrap - 1], NEW g \in Pages
  PROVE  [gen EXCEPT ![g] = Inc(@)] \in [Pages -> 0 .. Wrap - 1]
<1>1. Inc(gen[g]) \in 0 .. Wrap - 1
  <2> DEFINE n == gen[g] + 1
  <2>1. n \in Nat /\ Wrap \in Nat \ {0}
    BY CacheAssumption
  <2> HIDE DEF n
  <2> QED BY <2>1 DEF Inc, n
<1> QED BY <1>1

Inserting == {"rot_odd", "rot_zero", "rot_fill", "rot_even", "rot_advance", "place", "copy", "publish",
              "fingerprint"}

LEMMA SetLands ==
  ASSUME Shape, TableInv, NEW p \in Procs, NEW to \in Inserting, NEW l, Goto(p, to, l),
         pc[p] \in Inserting \cup {"insert"}, DOMAIN l = DOMAIN Quiet, l.surv \in Seq(Survivor),
         l.op = loc[p].op, l.key = loc[p].key, l.val = loc[p].val
  PROVE  Lands(p, to) /\ loc'[p] = l /\ loc[p].key \in Keys /\ loc[p].val \in Values
<1>1. LocalInv(pc[p], loc[p])
  BY DEF TableInv
<1>2. loc[p].key \in Keys /\ loc[p].op = "set" /\ loc[p].val \in Values
  BY <1>1 DEF LocalInv, Keyless, Setting, Inserting
<1>3. LocalInv(to, l)
  BY <1>2 DEF LocalInv, Inserting
<1>4. to \in Labels
  BY DEF Labels, Inserting
<1> QED BY <1>2, <1>3, <1>4, GotoLands

(* A step of a set() that writes no slot and no filter.                    *)
LEMMA RingStepKeepsTable ==
  ASSUME Shape, WriterHoldsLock, NoProc \notin Procs, TableInv, NEW p \in Procs,
         InsertLock(p) \/ RotateEven(p) \/ RotateAdvance(p)
  PROVE  TableInv'
<1>a. DOMAIN loc[p] = DOMAIN Quiet /\ LocalInv(pc[p], loc[p]) /\ loc[p].surv \in Seq(Survivor)
  BY DEF Shape, TableInv, LocalInv
<1>b. /\ counter \in Nat /\ filter \in FilterType /\ gen \in [Pages -> 0 .. Wrap - 1]
      /\ sealed \in [Pages -> BOOLEAN] /\ DOMAIN page = Pages /\ \A g \in Pages : PageInv(page[g])
  BY DEF TableInv, RestType
<1>c. active_idx \in Pages /\ retiring_idx \in Pages
  BY <1>b, IndexFacts
<1>h. ASSUME NEW to \in Inserting \ {"copy", "publish"}, NEW l, NEW pages, NEW a
      PROVE  HeldInv(to, l, pages, a)
  BY <1>h DEF HeldInv, Inserting
<1>1. CASE InsertLock(p)
  <2> DEFINE go == loc[p].rot /\ counter = loc[p].snap
             to == IF go THEN "rot_odd" ELSE "place"
             l == [loc[p] EXCEPT !.rot = FALSE, !.snap = 0, !.ai = 0,
                                 !.surv = IF go THEN @ ELSE <<>>]
  <2>1. /\ p \notin dead /\ pc[p] = "insert" /\ CanLock /\ Goto(p, to, l)
        /\ counter' = counter /\ filter' = filter /\ gen' = gen /\ sealed' = sealed /\ page' = page
    BY <1>1 DEF InsertLock, On, ring
  <2>2. to \in Inserting \ {"copy", "publish"}
    BY DEF Inserting
  <2>3. /\ DOMAIN l = DOMAIN Quiet /\ (l.surv = loc[p].surv \/ l.surv = <<>>)
        /\ l.op = loc[p].op /\ l.key = loc[p].key /\ l.val = loc[p].val
    <3> HIDE DEF go
    <3> QED BY <1>a, QuietLocals
  <2>4. l.surv \in Seq(Survivor)
    BY <1>a, <2>3, NothingSurvives
  <2> HIDE DEF l, to
  <2>5. Lands(p, to)
    BY <2>1, <2>2, <2>3, <2>4, SetLands
  <2> QED BY <1>b, <1>h, <2>1, <2>2, <2>5, Alone, WriterKeepsTable
<1>2. CASE RotateEven(p)
  <2>1. /\ p \notin dead /\ pc[p] = "rot_even" /\ Goto(p, "rot_advance", loc[p])
        /\ gen' = [gen EXCEPT ![retiring_idx] = Inc(@)]
        /\ counter' = counter /\ filter' = filter /\ sealed' = sealed /\ page' = page
    BY <1>2 DEF RotateEven, On
  <2>2. "rot_even" \in Writing /\ "rot_even" \in Inserting /\ "rot_advance" \in Inserting \ {"copy", "publish"}
    BY DEF Writing, Inserting
  <2>3. Lands(p, "rot_advance")
    BY <1>a, <2>1, <2>2, SetLands
  <2>4. gen' \in [Pages -> 0 .. Wrap - 1]
    BY <1>b, <1>c, <2>1, GenBump
  <2> QED BY <1>b, <1>h, <2>1, <2>2, <2>3, <2>4, Alone, WriterKeepsTable
<1>3. CASE RotateAdvance(p)
  <2>1. /\ p \notin dead /\ pc[p] = "rot_advance" /\ Goto(p, "place", loc[p])
        /\ sealed' = [sealed EXCEPT ![retiring_idx] = FALSE] /\ counter' = (counter + 1) % CounterWrap
        /\ filter' = filter /\ gen' = gen /\ page' = page
    BY <1>3 DEF RotateAdvance, On
  <2>2. "rot_advance" \in Writing /\ "rot_advance" \in Inserting /\ "place" \in Inserting \ {"copy", "publish"}
    BY DEF Writing, Inserting
  <2>3. Lands(p, "place")
    BY <1>a, <2>1, <2>2, SetLands
  <2>4. counter' \in Nat /\ sealed' \in [Pages -> BOOLEAN]
    BY <1>b, <1>c, <2>1, CacheAssumption
  <2> QED BY <1>b, <1>h, <2>1, <2>2, <2>3, <2>4, Alone, WriterKeepsTable
<1> QED BY <1>1, <1>2, <1>3

(* What the writes of a rotation do to the pages.                          *)
LEMMA SealEffect ==
  ASSUME TableInv, NEW p, RotateOdd(p)  PROVE SamePages
<1>1. active_idx \in Pages /\ DOMAIN page = Pages /\ \A g \in Pages : PageInv(page[g])
  BY IndexFacts DEF TableInv, RestType
<1> DEFINE a == active_idx
           pg == page[a]
           q == [pg EXCEPT !.slots = [i \in SlotIds |-> IF @[i].key # EMPTY
                                        THEN [@[i] EXCEPT !.vis = FALSE] ELSE @[i]]]
<1>2. page' = [page EXCEPT ![a] = q] /\ filter' = filter
  BY DEF RotateOdd
<1> HIDE DEF a
<1>3. PageInv(pg) /\ a \in Pages
  BY <1>1 DEF a
<1> HIDE DEF pg
<1>4. SameShape(pg, q) /\ q.count = pg.count
  BY <1>3, ClearKeeps
<1> HIDE DEF q
<1>5. DOMAIN page' = Pages /\ page'[a] = q /\ \A h \in Pages \ {a} : page'[h] = page[h]
  BY <1>1, <1>2, <1>3
<1>6. \A h \in Pages : SameShape(page[h], page[h])
  BY <1>1, SameShapeSelf
<1> QED BY <1>2, <1>4, <1>5, <1>6 DEF SamePages, pg

LEMMA FillEffect ==
  ASSUME TableInv, NEW p \in Procs, RotateFill(p)
  PROVE  /\ filter' \in FilterType
         /\ \E q : /\ PageInv(q) /\ page' = [page EXCEPT ![retiring_idx] = q]
                   /\ Exact(page[retiring_idx]) => Exact(q)
<1>1. retiring_idx \in Pages /\ filter \in FilterType /\ PageInv(page[retiring_idx])
  BY IndexFacts DEF TableInv, RestType
<1>2. loc[p].surv \in Seq(Survivor)
  BY DEF TableInv, LocalInv
<1> DEFINE done == Refill(page[retiring_idx], filter, loc[p].surv)
<1>3. PageInv(done.pg) /\ done.f \in FilterType /\ (Exact(page[retiring_idx]) => Exact(done.pg))
  BY <1>1, <1>2, RefillKeeps
<1>4. page' = [page EXCEPT ![retiring_idx] = done.pg] /\ filter' = done.f
  BY DEF RotateFill
<1> HIDE DEF done
<1> QED BY <1>3, <1>4

LEMMA RotateKeepsTable ==
  ASSUME Shape, WriterHoldsLock, NoProc \notin Procs, TableInv, NEW p \in Procs,
         RotateOdd(p) \/ RotateZero(p) \/ RotateFill(p)
  PROVE  TableInv'
<1>a. DOMAIN loc[p] = DOMAIN Quiet /\ LocalInv(pc[p], loc[p]) /\ loc[p].surv \in Seq(Survivor)
  BY DEF Shape, TableInv, LocalInv
<1>b. /\ counter \in Nat /\ filter \in FilterType /\ gen \in [Pages -> 0 .. Wrap - 1]
      /\ sealed \in [Pages -> BOOLEAN]
  BY DEF TableInv, RestType
<1>c. active_idx \in Pages /\ retiring_idx \in Pages
  BY <1>b, IndexFacts
<1>h. ASSUME NEW to \in Inserting \ {"copy", "publish"}, NEW l, NEW pages, NEW a
      PROVE  HeldInv(to, l, pages, a)
  BY <1>h DEF HeldInv, Inserting
<1>w. {"rot_odd", "rot_zero", "rot_fill", "rot_even"} \subseteq (Writing \cap Inserting) \ {"copy", "publish"}
  BY DEF Writing, Inserting
<1>1. CASE RotateOdd(p)
  <2>1. /\ p \notin dead /\ pc[p] = "rot_odd" /\ Goto(p, "rot_zero", loc[p])
        /\ gen' = [gen EXCEPT ![retiring_idx] = Inc(@)] /\ sealed' = [sealed EXCEPT ![active_idx] = TRUE]
        /\ counter' = counter /\ filter' = filter
    BY <1>1 DEF RotateOdd, On
  <2>2. Lands(p, "rot_zero")
    BY <1>a, <1>w, <2>1, SetLands
  <2>3. gen' \in [Pages -> 0 .. Wrap - 1] /\ sealed' \in [Pages -> BOOLEAN]
    BY <1>b, <1>c, <2>1, GenBump
  <2>4. DOMAIN page' = Pages /\ \A g \in Pages : PageInv(page'[g])
    BY <1>1, SealEffect DEF SamePages, SameShape
  <2> QED BY <1>b, <1>h, <1>w, <2>1, <2>2, <2>3, <2>4, Alone, WriterKeepsTable
<1>2. CASE RotateZero(p)
  <2>1. /\ p \notin dead /\ pc[p] = "rot_zero" /\ Goto(p, "rot_fill", loc[p])
        /\ page' = [page EXCEPT ![retiring_idx] = BlankPage]
        /\ gen' = gen /\ sealed' = sealed /\ counter' = counter /\ filter' = filter
    BY <1>2 DEF RotateZero, On, ring
  <2>2. Lands(p, "rot_fill")
    BY <1>a, <1>w, <2>1, SetLands
  <2>3. DOMAIN page' = Pages /\ \A g \in Pages : PageInv(page'[g])
    BY <1>c, <2>1, BlankKeeps, OnePage
  <2> QED BY <1>b, <1>h, <1>w, <2>1, <2>2, <2>3, Alone, WriterKeepsTable
<1>3. CASE RotateFill(p)
  <2> DEFINE l == [loc[p] EXCEPT !.surv = <<>>]
  <2>1. /\ p \notin dead /\ pc[p] = "rot_fill" /\ Goto(p, "rot_even", l)
        /\ gen' = gen /\ sealed' = sealed /\ counter' = counter
    BY <1>3 DEF RotateFill, On, ring
  <2>2. /\ DOMAIN l = DOMAIN Quiet /\ l.surv = <<>> /\ l.op = loc[p].op /\ l.key = loc[p].key
        /\ l.val = loc[p].val
    BY <1>a, QuietLocals
  <2> HIDE DEF l
  <2>s. l.surv \in Seq(Survivor) /\ "rot_even" \in Inserting /\ pc[p] \in Inserting
    BY <2>1, <2>2, NothingSurvives DEF Inserting
  <2>3. Lands(p, "rot_even")
    BY <2>1, <2>2, <2>s, SetLands
  <2>4. filter' \in FilterType /\ DOMAIN page' = Pages /\ \A g \in Pages : PageInv(page'[g])
    BY <1>3, <1>c, FillEffect, OnePage
  <2> QED BY <1>b, <1>h, <1>w, <2>1, <2>3, <2>4, Alone, WriterKeepsTable
<1> QED BY <1>1, <1>2, <1>3

(* What the writes of an insert do to the active page.                     *)
LEMMA BumpKeeps ==
  ASSUME NEW pg, PageInv(pg), NEW pl, pl.slot \in SlotIds
  PROVE  SameShape(pg, BumpSeq(pg, pl)) /\ BumpSeq(pg, pl).count = pg.count
<1>1. CASE pl.inplace
  <2> DEFINE m == Inc(pg.slots[pl.slot].seq)
             r == [pg EXCEPT !.slots[pl.slot].seq = m]
  <2>1. m \in Nat
    <3>1. pg.slots[pl.slot] \in Slot
      BY PageFields DEF PageInv
    <3> DEFINE n == pg.slots[pl.slot].seq + 1
    <3>2. n \in Nat /\ Wrap \in Nat \ {0}
      BY <3>1, CacheAssumption DEF Slot
    <3> HIDE DEF n
    <3> QED BY <3>2 DEF Inc, n
  <2> HIDE DEF m
  <2>2. SameShape(pg, r) /\ r.count = pg.count
    BY <2>1, SeqBump
  <2>3. BumpSeq(pg, pl) = r
    BY <1>1 DEF m, BumpSeq
  <2> QED BY <2>2, <2>3
<1>2. CASE ~pl.inplace
  BY <1>2, SameShapeSelf DEF BumpSeq
<1> QED BY <1>1, <1>2

LEMMA Setter ==
  ASSUME TableInv, NEW p \in Procs, pc[p] \in Inserting
  PROVE  /\ loc[p].key \in Keys /\ loc[p].val \in Values /\ loc[p].op = "set"
         /\ Size[loc[p].val] \in Nat \ {0} /\ Class[loc[p].val] \in SlotClasses
         /\ loc[p].val \in Contents /\ Torn \in Contents
         /\ HashOf[loc[p].key] \in [lo : Nat, hi : Nat]
<1>1. LocalInv(pc[p], loc[p])
  BY DEF TableInv
<1>2. loc[p].key \in Keys /\ loc[p].op = "set" /\ loc[p].val \in Values
  BY <1>1 DEF LocalInv, Keyless, Setting, Inserting
<1> QED BY <1>2, CacheAssumption DEF SlotClasses, Contents

LEMMA PlaceEffect ==
  ASSUME TableInv, NEW p \in Procs, Place(p)
  PROVE  LET pl == plan_insert(page[active_idx], loc[p].key, Size[loc[p].val])
         IN  \E q : /\ PageInv(q) /\ page' = [page EXCEPT ![active_idx] = q]
                    /\ PlanFits(q, pl, loc[p].key, Size[loc[p].val])
                    /\ Live(q) = Live(page[active_idx]) /\ q.count = page[active_idx].count
<1> DEFINE a == active_idx
           k == loc[p].key
           len == Size[loc[p].val]
           pg == page[a]
           pl == plan_insert(pg, k, len)
           q == copy_value(BumpSeq(pg, pl), pl, Torn)
<1>1. active_idx \in Pages
  BY IndexFacts DEF TableInv, RestType
<1>2. pl.fits /\ page' = [page EXCEPT ![active_idx] = q] /\ pc[p] = "place"
  BY DEF Place, On
<1>3. k \in Keys /\ len \in Nat \ {0} /\ Torn \in Contents
  BY <1>2, Setter DEF Inserting
<1>4. PageInv(pg)
  BY <1>1 DEF TableInv
<1> HIDE DEF a, k, len, pg
<1>5. pl.slot \in SlotIds
  BY <1>2, <1>3, <1>4, PlanTypes
<1>6. SameShape(pg, BumpSeq(pg, pl)) /\ BumpSeq(pg, pl).count = pg.count
  <2> HIDE DEF pl
  <2> QED BY <1>4, <1>5, BumpKeeps
<1>7. PageInv(q) /\ PlanFits(q, pl, k, len) /\ Live(q) = Live(pg) /\ q.count = pg.count
  BY <1>2, <1>3, <1>4, <1>6, CopyFits
<1> HIDE DEF q, pl
<1> QED BY <1>2, <1>7 DEF pl, k, len, pg, a

LEMMA PlannedOffset ==
  ASSUME NEW pg, PageInv(pg), NEW pl, NEW k, NEW len \in Nat \ {0}, PlanFits(pg, pl, k, len)
  PROVE  pl.off \in 0 .. ArenaCap - 1 /\ pl.head \in 0 .. ArenaCap /\ pg.head <= pl.head /\ pl.slot \in SlotIds
<1>1. pg.head \in 0 .. ArenaCap /\ ArenaCap \in Nat
  BY PageFields DEF PageInv
<1> QED BY <1>1 DEF PlanFits

LEMMA CopyEffect ==
  ASSUME TableInv, NEW p \in Procs, Copy(p)
  PROVE  \E q : /\ PageInv(q) /\ page' = [page EXCEPT ![active_idx] = q]
                /\ PlanFits(q, loc[p].plan, loc[p].key, Size[loc[p].val])
                /\ Live(q) = Live(page[active_idx]) /\ q.count = page[active_idx].count
<1> DEFINE a == active_idx
           k == loc[p].key
           v == loc[p].val
           len == Size[v]
           pg == page[a]
           pl == loc[p].plan
           c == copy_value(pg, pl, v)
           q == BumpSeq(c, pl)
<1>1. active_idx \in Pages
  BY IndexFacts DEF TableInv, RestType
<1>2. page' = [page EXCEPT ![active_idx] = q] /\ pc[p] = "copy" /\ p \notin dead
  BY DEF Copy, On
<1>3. k \in Keys /\ len \in Nat \ {0} /\ v \in Contents
  BY <1>2, Setter DEF Inserting
<1>4. PageInv(pg) /\ PlanFits(pg, pl, k, len)
  BY <1>1, <1>2 DEF TableInv, HeldInv
<1> HIDE DEF a, k, v, len, pg, pl
<1>5. pl.off \in 0 .. ArenaCap - 1 /\ pl.head \in 0 .. ArenaCap /\ pg.head <= pl.head /\ pl.slot \in SlotIds
  BY <1>3, <1>4, PlannedOffset
<1>6. /\ PageInv(c) /\ SameTable(pg, c) /\ Live(c) = Live(pg)
      /\ c.head = pl.head /\ c.count = pg.count
  BY <1>3, <1>4, <1>5, CopyKeeps
<1> HIDE DEF c
<1>7. SameShape(c, q) /\ q.count = c.count
  BY <1>5, <1>6, BumpKeeps
<1> HIDE DEF q
<1>8. PageInv(q) /\ SameTable(c, q) /\ Live(q) = Live(c) /\ q.head = c.head
  BY <1>7 DEF SameShape
<1>9. SameTable(pg, q) /\ q.head = pg.head
  BY <1>4, <1>6, <1>8 DEF SameTable, PlanFits
<1>10. PlanFits(q, pl, k, len)
  BY <1>3, <1>4, <1>9, PlanKeeps
<1> QED BY <1>2, <1>6, <1>7, <1>8, <1>10 DEF pl, k, v, len, pg, a

LEMMA PublishEffect ==
  ASSUME TableInv, NEW p \in Procs, Publish(p)
  PROVE  \E q : /\ PageInv(q) /\ page' = [page EXCEPT ![active_idx] = q]
                /\ Exact(page[active_idx]) => Exact(q)
<1> DEFINE a == active_idx
           k == loc[p].key
           v == loc[p].val
           len == Size[v]
           cls == Class[v]
           pg == page[a]
           pl == loc[p].plan
           q == publish_slot(pg, pl, k, len, cls)
<1>1. active_idx \in Pages
  BY IndexFacts DEF TableInv, RestType
<1>2. page' = [page EXCEPT ![active_idx] = q] /\ pc[p] = "publish" /\ p \notin dead
  BY DEF Publish, On
<1>3. k \in Keys /\ len \in Nat \ {0} /\ cls \in SlotClasses
  BY <1>2, Setter DEF Inserting
<1>4. PageInv(pg) /\ PlanFits(pg, pl, k, len)
  BY <1>1, <1>2 DEF TableInv, HeldInv
<1> HIDE DEF a, k, v, len, cls, pg, pl
<1>5. /\ PageInv(q) /\ Live(q) = Live(pg) \cup {pl.slot} /\ (pl.fresh <=> pl.slot \notin Live(pg))
      /\ q.count = IF pl.fresh THEN pg.count + 1 ELSE pg.count
  BY <1>3, <1>4, PublishFits
<1> HIDE DEF q
<1>6. pg.count \in Nat /\ pl.fresh \in BOOLEAN
  BY <1>4, PageFields DEF PageInv, PlanFits
<1>7. Exact(pg) => Exact(q)
  BY <1>5, <1>6, PublishCounts
<1> QED BY <1>2, <1>5, <1>7 DEF pg, a

LEMMA InsertKeepsTable ==
  ASSUME Shape, WriterHoldsLock, NoProc \notin Procs, TableInv, NEW p \in Procs,
         PlaceFails(p) \/ Place(p) \/ Copy(p) \/ Publish(p) \/ InsertFingerprint(p)
  PROVE  TableInv'
<1>a. DOMAIN loc[p] = DOMAIN Quiet /\ LocalInv(pc[p], loc[p]) /\ loc[p].surv \in Seq(Survivor)
  BY DEF Shape, TableInv, LocalInv
<1>b. /\ counter \in Nat /\ filter \in FilterType /\ gen \in [Pages -> 0 .. Wrap - 1]
      /\ sealed \in [Pages -> BOOLEAN] /\ DOMAIN page = Pages /\ \A g \in Pages : PageInv(page[g])
  BY DEF TableInv, RestType
<1>c. active_idx \in Pages
  BY <1>b, IndexFacts
<1>w. {"place", "copy", "publish", "fingerprint"} \subseteq (Writing \cap Inserting)
  BY DEF Writing, Inserting
<1>1. CASE PlaceFails(p)
  <2>1. /\ p \notin dead /\ pc[p] = "place" /\ GiveUp(p)
        /\ gen' = gen /\ sealed' = sealed /\ counter' = counter /\ filter' = filter /\ page' = page
    BY <1>1 DEF PlaceFails, On, ring
  <2>2. Lands(p, "idle")
    BY <2>1, GiveUpLands
  <2>3. HeldInv("idle", loc'[p], page', active_idx')
    BY DEF HeldInv
  <2> QED BY <1>b, <1>w, <2>1, <2>2, <2>3, Alone, WriterKeepsTable
<1>2. CASE Place(p)
  <2> DEFINE pl == plan_insert(page[active_idx], loc[p].key, Size[loc[p].val])
             l == [loc[p] EXCEPT !.plan = pl]
  <2>1. /\ p \notin dead /\ pc[p] = "place" /\ Goto(p, "copy", l)
        /\ gen' = gen /\ sealed' = sealed /\ counter' = counter /\ filter' = filter
    BY <1>2 DEF Place, On, ring
  <2>2. PICK q : /\ PageInv(q) /\ page' = [page EXCEPT ![active_idx] = q]
                 /\ PlanFits(q, pl, loc[p].key, Size[loc[p].val])
    BY <1>2, PlaceEffect
  <2> HIDE DEF pl
  <2>3. /\ DOMAIN l = DOMAIN Quiet /\ l.surv = loc[p].surv /\ l.op = loc[p].op /\ l.key = loc[p].key
        /\ l.val = loc[p].val /\ l.plan = pl
    BY <1>a, QuietLocals
  <2> HIDE DEF l
  <2>4. Lands(p, "copy") /\ loc'[p] = l
    BY <1>a, <1>w, <2>1, <2>3, SetLands
  <2>5. DOMAIN page' = Pages /\ page'[active_idx] = q /\ \A g \in Pages : PageInv(page'[g])
    BY <1>c, <2>2, OnePage
  <2>6. HeldInv("copy", loc'[p], page', active_idx')
    <3>1. active_idx' = active_idx
      BY <2>1 DEF active_idx
    <3> QED BY <2>2, <2>3, <2>4, <2>5, <3>1 DEF HeldInv
  <2> QED BY <1>b, <1>w, <2>1, <2>4, <2>5, <2>6, Alone, WriterKeepsTable
<1>3. CASE Copy(p)
  <2>1. /\ p \notin dead /\ pc[p] = "copy" /\ Goto(p, "publish", loc[p])
        /\ gen' = gen /\ sealed' = sealed /\ counter' = counter /\ filter' = filter
    BY <1>3 DEF Copy, On, ring
  <2>2. PICK q : /\ PageInv(q) /\ page' = [page EXCEPT ![active_idx] = q]
                 /\ PlanFits(q, loc[p].plan, loc[p].key, Size[loc[p].val])
    BY <1>3, CopyEffect
  <2>4. Lands(p, "publish") /\ loc'[p] = loc[p]
    BY <1>a, <1>w, <2>1, SetLands
  <2>5. DOMAIN page' = Pages /\ page'[active_idx] = q /\ \A g \in Pages : PageInv(page'[g])
    BY <1>c, <2>2, OnePage
  <2>6. HeldInv("publish", loc'[p], page', active_idx')
    <3>1. active_idx' = active_idx
      BY <2>1 DEF active_idx
    <3> QED BY <2>2, <2>4, <2>5, <3>1 DEF HeldInv
  <2> QED BY <1>b, <1>w, <2>1, <2>4, <2>5, <2>6, Alone, WriterKeepsTable
<1>4. CASE Publish(p)
  <2> DEFINE l == [loc[p] EXCEPT !.plan = <<>>]
  <2>1. /\ p \notin dead /\ pc[p] = "publish" /\ Goto(p, "fingerprint", l)
        /\ gen' = gen /\ sealed' = sealed /\ counter' = counter /\ filter' = filter
    BY <1>4 DEF Publish, On, ring
  <2>2. PICK q : PageInv(q) /\ page' = [page EXCEPT ![active_idx] = q]
    BY <1>4, PublishEffect
  <2>3. /\ DOMAIN l = DOMAIN Quiet /\ l.surv = loc[p].surv /\ l.op = loc[p].op /\ l.key = loc[p].key
        /\ l.val = loc[p].val
    BY <1>a, QuietLocals
  <2> HIDE DEF l
  <2>4. Lands(p, "fingerprint")
    BY <1>a, <1>w, <2>1, <2>3, SetLands
  <2>5. DOMAIN page' = Pages /\ \A g \in Pages : PageInv(page'[g])
    BY <1>c, <2>2, OnePage
  <2>6. HeldInv("fingerprint", loc'[p], page', active_idx')
    BY DEF HeldInv
  <2> QED BY <1>b, <1>w, <2>1, <2>4, <2>5, <2>6, Alone, WriterKeepsTable
<1>5. CASE InsertFingerprint(p)
  <2>1. /\ p \notin dead /\ pc[p] = "fingerprint" /\ Finish(p, "stored")
        /\ filter' = insert(filter, HashOf[loc[p].key])
        /\ gen' = gen /\ sealed' = sealed /\ counter' = counter /\ page' = page
    BY <1>5 DEF InsertFingerprint, On, ring
  <2>2. Lands(p, "done")
    BY <2>1, FinishLands
  <2>3. filter' \in FilterType
    BY <1>b, <1>w, <2>1, Setter, InsertType
  <2>4. HeldInv("done", loc'[p], page', active_idx')
    BY DEF HeldInv
  <2> QED BY <1>b, <1>w, <2>1, <2>2, <2>3, <2>4, Alone, WriterKeepsTable
<1> QED BY <1>1, <1>2, <1>3, <1>4, <1>5

(* pop() and invalidate(): the labels between which they move.             *)
Removing == {"pop_page", "pop_tomb", "pop_even", "inv_odd", "inv_zero", "inv_even", "inv_reset"}

LEMMA RemoveLands ==
  ASSUME Shape, TableInv, NEW p \in Procs, NEW to \in Removing, NEW l, Goto(p, to, l),
         pc[p] \in Removing \cup {"pop_lock", "inv_lock"}, DOMAIN l = DOMAIN Quiet,
         l.surv = loc[p].surv, l.op = loc[p].op, l.key = loc[p].key, l.val = loc[p].val,
         to \in {"pop_page", "pop_tomb", "pop_even"} => pc[p] \in {"pop_lock", "pop_page", "pop_tomb", "pop_even"},
         to = "pop_page" => l.i \in 0 .. NPages,
         to \notin {"pop_page", "inv_reset"} => l.i \in Pages
  PROVE  Lands(p, to) /\ loc'[p] = l
<1>1. LocalInv(pc[p], loc[p])
  BY DEF TableInv
<1>2. LocalInv(to, l)
  BY <1>1 DEF LocalInv, Removing, Keyless, Setting
<1>3. to \in Labels
  BY DEF Labels, Removing
<1> QED BY <1>2, <1>3, GotoLands

(* The first write of a pop to the active page: the entry is still there,  *)
(* and no longer counted.                                                  *)
LEMMA UncountEffect ==
  ASSUME NEW pg, PageInv(pg), NEW s \in SlotIds
  PROVE  LET q == [pg EXCEPT !.slots[s].seq = Inc(@), !.count = IF @ = 0 THEN 0 ELSE @ - 1]
         IN  SameShape(pg, q) /\ q.count = IF pg.count = 0 THEN 0 ELSE pg.count - 1
<1> DEFINE m == Inc(pg.slots[s].seq)
           n == IF pg.count = 0 THEN 0 ELSE pg.count - 1
           new == [pg.slots[s] EXCEPT !.seq = m]
<1>1. m \in Nat
  <2>1. pg.slots[s] \in Slot
    BY PageFields DEF PageInv
  <2> DEFINE i == pg.slots[s].seq + 1
  <2>2. i \in Nat /\ Wrap \in Nat \ {0}
    BY <2>1, CacheAssumption DEF Slot
  <2> HIDE DEF i
  <2> QED BY <2>2 DEF Inc, i
<1>2. n \in Nat
  BY PageFields DEF PageInv
<1>3. pg \in PageType /\ pg.slots[s] \in Slot
  BY PageFields DEF PageInv
<1>4. [pg EXCEPT !.slots[s].seq = Inc(@), !.count = IF @ = 0 THEN 0 ELSE @ - 1] = WithSlot(pg, s, new, n)
  BY <1>3 DEF PageType, WithSlot
<1> HIDE DEF m, n
<1>5. /\ new \in Slot /\ new.key = pg.slots[s].key /\ new.off = pg.slots[s].off
      /\ new.len = pg.slots[s].len /\ new.cap = pg.slots[s].cap
  BY <1>1, <1>3 DEF Slot
<1> HIDE DEF new
<1>6. SameShape(pg, WithSlot(pg, s, new, n)) /\ WithSlot(pg, s, new, n).count = n
  BY <1>2, <1>5, SlotEdit
<1> QED BY <1>4, <1>6 DEF n

LEMMA PopEffect ==
  ASSUME TableInv, NEW p \in Procs, PopPage(p), loc[p].i \in Pages,
         do_probe(page[loc[p].i], loc[p].key) # NoSlot
  PROVE  LET g == loc[p].i
             s == do_probe(page[g], loc[p].key)
             l == [loc[p] EXCEPT !.slot = s, !.res = TRUE]
         IN  /\ Goto(p, "pop_tomb", l) /\ counter' = counter /\ sealed' = sealed /\ lock' = lock
             /\ s \in Live(page[g]) /\ filter' \in FilterType
             /\ g # active_idx => page' = page /\ gen' = [gen EXCEPT ![g] = Inc(@)]
             /\ g = active_idx =>
                  /\ gen' = gen
                  /\ \E q : /\ SameShape(page[g], q) /\ page' = [page EXCEPT ![g] = q]
                            /\ q.count = IF page[g].count = 0 THEN 0 ELSE page[g].count - 1
<1> DEFINE g == loc[p].i
           s == do_probe(page[g], loc[p].key)
           l == [loc[p] EXCEPT !.slot = s, !.res = TRUE]
<1>1. /\ pc[p] = "pop_page" /\ loc[p].key \in Keys /\ g # NPages
  <2>1. pc[p] = "pop_page" /\ LocalInv(pc[p], loc[p])
    BY DEF PopPage, On, TableInv
  <2>2. g # NPages
    BY CacheAssumption DEF Pages
  <2> QED BY <2>1, <2>2 DEF LocalInv, Keyless
<1>2. s \in SlotIds /\ s \in Live(page[g])
  BY <1>1, ProbeFacts
<1>3. /\ Goto(p, "pop_tomb", l) /\ counter' = counter /\ sealed' = sealed /\ lock' = lock
      /\ g # active_idx => page' = page /\ filter' = filter /\ gen' = [gen EXCEPT ![g] = Inc(@)]
      /\ g = active_idx => /\ gen' = gen /\ filter' = delete(filter, HashOf[loc[p].key])
                           /\ page' = [page EXCEPT ![g].slots[s].seq = Inc(@),
                                                   ![g].count = IF @ = 0 THEN 0 ELSE @ - 1]
  BY <1>1 DEF PopPage
<1>4. filter' \in FilterType
  <2>1. filter \in FilterType /\ HashOf[loc[p].key] \in [lo : Nat, hi : Nat]
    BY <1>1, CacheAssumption DEF TableInv, RestType
  <2> QED BY <1>3, <2>1, DeleteType
<1>5. g = active_idx => \E q : /\ SameShape(page[g], q) /\ page' = [page EXCEPT ![g] = q]
                               /\ q.count = IF page[g].count = 0 THEN 0 ELSE page[g].count - 1
  <2> SUFFICES ASSUME g = active_idx
               PROVE  \E q : /\ SameShape(page[g], q) /\ page' = [page EXCEPT ![g] = q]
                             /\ q.count = IF page[g].count = 0 THEN 0 ELSE page[g].count - 1
    OBVIOUS
  <2> DEFINE q == [page[g] EXCEPT !.slots[s].seq = Inc(@), !.count = IF @ = 0 THEN 0 ELSE @ - 1]
  <2>1. DOMAIN page = Pages /\ PageInv(page[g]) /\ g \in Pages
    BY DEF TableInv
  <2> HIDE DEF g, s
  <2>2. page' = [page EXCEPT ![g] = q]
    BY <1>3, <2>1
  <2>3. SameShape(page[g], q) /\ q.count = IF page[g].count = 0 THEN 0 ELSE page[g].count - 1
    BY <1>2, <2>1, UncountEffect
  <2> HIDE DEF q
  <2> QED BY <2>2, <2>3
<1> QED BY <1>2, <1>3, <1>4, <1>5

LEMMA TombEffect ==
  ASSUME TableInv, NEW p \in Procs, PopTomb(p)
  PROVE  LET g == loc[p].i
             s == loc[p].slot
         IN  /\ g \in Pages /\ s \in Live(page[g])
             /\ \E q : /\ PageInv(q) /\ page' = [page EXCEPT ![g] = q]
                       /\ Live(q) = Live(page[g]) \ {s} /\ q.count = page[g].count
<1> DEFINE g == loc[p].i
           s == loc[p].slot
           q == [page[g] EXCEPT !.slots[s].key = TOMBSTONE]
<1>1. p \notin dead /\ pc[p] = "pop_tomb" /\ page' = [page EXCEPT ![g] = q]
  BY DEF PopTomb, On
<1>2. g \in Pages /\ s \in Live(page[g]) /\ PageInv(page[g])
  BY <1>1 DEF TableInv, LocalInv, HeldInv
<1> HIDE DEF g, s
<1>3. PageInv(q) /\ Live(q) = Live(page[g]) \ {s} /\ q.count = page[g].count
  BY <1>2, TombKeeps
<1> HIDE DEF q
<1> QED BY <1>1, <1>2, <1>3 DEF g, s

LEMMA PopKeepsTable ==
  ASSUME Shape, WriterHoldsLock, NoProc \notin Procs, TableInv, NEW p \in Procs, Pop(p)
  PROVE  TableInv'
<1>a. DOMAIN loc[p] = DOMAIN Quiet /\ LocalInv(pc[p], loc[p])
  BY DEF Shape, TableInv
<1>b. /\ counter \in Nat /\ filter \in FilterType /\ gen \in [Pages -> 0 .. Wrap - 1]
      /\ sealed \in [Pages -> BOOLEAN] /\ DOMAIN page = Pages /\ \A g \in Pages : PageInv(page[g])
  BY DEF TableInv, RestType
<1>c. NPages \in Nat \ {0} /\ Pages = 0 .. NPages - 1
  BY CacheAssumption DEF Pages
<1>w. {"pop_page", "pop_tomb", "pop_even"} \subseteq (Writing \cap Removing)
  BY DEF Writing, Removing
<1>h. ASSUME NEW to \in {"pop_page", "pop_even", "done"}, NEW l, NEW pages, NEW a
      PROVE  HeldInv(to, l, pages, a)
  BY <1>h DEF HeldInv
<1>1. CASE PopLock(p)
  <2> DEFINE l == [loc[p] EXCEPT !.res = FALSE]
  <2>1. /\ p \notin dead /\ pc[p] = "pop_lock" /\ CanLock /\ Goto(p, "pop_page", l)
        /\ gen' = gen /\ sealed' = sealed /\ counter' = counter /\ filter' = filter /\ page' = page
    BY <1>1 DEF PopLock, On, ring
  <2>2. /\ DOMAIN l = DOMAIN Quiet /\ l.surv = loc[p].surv /\ l.op = loc[p].op /\ l.key = loc[p].key
        /\ l.val = loc[p].val /\ l.i = loc[p].i
    BY <1>a, QuietLocals
  <2>3. loc[p].i = 0 /\ 0 \in 0 .. NPages
    BY <1>a, <1>c, <2>1 DEF LocalInv
  <2> HIDE DEF l
  <2>4. Lands(p, "pop_page")
    BY <1>w, <2>1, <2>2, <2>3, RemoveLands
  <2> QED BY <1>b, <1>h, <2>1, <2>4, Alone, WriterKeepsTable
<1>2. CASE PopPage(p)
  <2> DEFINE g == loc[p].i
             s == do_probe(page[g], loc[p].key)
             l1 == [loc[p] EXCEPT !.i = @ + 1]
             l2 == [loc[p] EXCEPT !.slot = s, !.res = TRUE]
  <2>1. p \notin dead /\ pc[p] = "pop_page" /\ g \in 0 .. NPages
    BY <1>2, <1>a DEF PopPage, On, LocalInv
  <2>2. CASE g = NPages
    <3>1. /\ Finish(p, loc[p].res) /\ gen' = gen /\ sealed' = sealed /\ counter' = counter
          /\ filter' = filter /\ page' = page
      <4>1. ~(g < NPages)
        BY <1>c, <2>2
      <4> QED BY <1>2, <4>1 DEF PopPage, ring
    <3>2. Lands(p, "done")
      BY <3>1, FinishLands
    <3> QED BY <1>b, <1>h, <1>w, <2>1, <3>1, <3>2, Alone, WriterKeepsTable
  <2>3. CASE g # NPages /\ s = NoSlot
    <3>1. /\ Goto(p, "pop_page", l1) /\ gen' = gen /\ sealed' = sealed /\ counter' = counter
          /\ filter' = filter /\ page' = page
      BY <1>2, <2>3 DEF PopPage, shared
    <3>2. /\ DOMAIN l1 = DOMAIN Quiet /\ l1.surv = loc[p].surv /\ l1.op = loc[p].op /\ l1.key = loc[p].key
          /\ l1.val = loc[p].val /\ l1.i = loc[p].i + 1
      BY <1>a, QuietLocals
    <3>3. loc[p].i + 1 \in 0 .. NPages
      BY <1>c, <2>1, <2>3
    <3> HIDE DEF l1
    <3>4. Lands(p, "pop_page")
      BY <1>w, <2>1, <3>1, <3>2, <3>3, RemoveLands
    <3> QED BY <1>b, <1>h, <1>w, <2>1, <3>1, <3>4, Alone, WriterKeepsTable
  <2>4. CASE g # NPages /\ s # NoSlot
    <3>1. g \in Pages
      BY <1>c, <2>1, <2>4
    <3>2. /\ Goto(p, "pop_tomb", l2) /\ counter' = counter /\ sealed' = sealed
          /\ s \in Live(page[g]) /\ filter' \in FilterType
          /\ g # active_idx => page' = page /\ gen' = [gen EXCEPT ![g] = Inc(@)]
          /\ g = active_idx => /\ gen' = gen
                               /\ \E q : SameShape(page[g], q) /\ page' = [page EXCEPT ![g] = q]
      BY <1>2, <2>4, <3>1, PopEffect
    <3> HIDE DEF s
    <3>3. /\ DOMAIN l2 = DOMAIN Quiet /\ l2.surv = loc[p].surv /\ l2.op = loc[p].op /\ l2.key = loc[p].key
          /\ l2.val = loc[p].val /\ l2.i = loc[p].i /\ l2.slot = s
      BY <1>a, QuietLocals
    <3> HIDE DEF l2
    <3>4. Lands(p, "pop_tomb") /\ loc'[p] = l2
      BY <1>w, <2>1, <3>1, <3>2, <3>3, RemoveLands
    <3>5. gen' \in [Pages -> 0 .. Wrap - 1]
      BY <1>b, <3>1, <3>2, GenBump
    <3>6. DOMAIN page' = Pages /\ Live(page'[g]) = Live(page[g]) /\ \A h \in Pages : PageInv(page'[h])
      <4>1. CASE g # active_idx
        BY <1>b, <3>2, <4>1
      <4>2. CASE g = active_idx
        <5>1. PICK q : SameShape(page[g], q) /\ page' = [page EXCEPT ![g] = q]
          BY <3>2, <4>2
        <5>2. PageInv(q) /\ Live(q) = Live(page[g])
          BY <5>1 DEF SameShape
        <5> QED BY <3>1, <5>1, <5>2, OnePage
      <4> QED BY <4>1, <4>2
    <3>7. HeldInv("pop_tomb", loc'[p], page', active_idx')
      BY <3>2, <3>3, <3>4, <3>6 DEF HeldInv
    <3> QED BY <1>b, <1>w, <2>1, <3>2, <3>4, <3>5, <3>6, <3>7, Alone, WriterKeepsTable
  <2> QED BY <2>2, <2>3, <2>4
<1>3. CASE PopTomb(p)
  <2> DEFINE g == loc[p].i
             to == IF g = active_idx THEN "pop_page" ELSE "pop_even"
             l == [loc[p] EXCEPT !.slot = 0, !.i = IF g = active_idx THEN @ + 1 ELSE @]
  <2>1. /\ p \notin dead /\ pc[p] = "pop_tomb" /\ Goto(p, to, l)
        /\ gen' = gen /\ sealed' = sealed /\ counter' = counter /\ filter' = filter
    BY <1>3 DEF PopTomb, On, ring
  <2>2. g \in Pages /\ \E q : PageInv(q) /\ page' = [page EXCEPT ![g] = q]
    BY <1>3, TombEffect
  <2>3. /\ DOMAIN l = DOMAIN Quiet /\ l.surv = loc[p].surv /\ l.op = loc[p].op /\ l.key = loc[p].key
        /\ l.val = loc[p].val /\ l.i = IF g = active_idx THEN g + 1 ELSE g
    BY <1>a, QuietLocals
  <2>4. /\ to \in {"pop_page", "pop_even"} /\ (to = "pop_page" => l.i \in 0 .. NPages)
        /\ (to = "pop_even" => l.i \in Pages)
    <3> HIDE DEF l
    <3> QED BY <1>c, <2>2, <2>3
  <2> HIDE DEF to, l
  <2>5. Lands(p, to)
    BY <1>w, <2>1, <2>3, <2>4, RemoveLands
  <2>6. DOMAIN page' = Pages /\ \A h \in Pages : PageInv(page'[h])
    BY <2>2, OnePage
  <2> QED BY <1>b, <1>h, <1>w, <2>1, <2>4, <2>5, <2>6, Alone, WriterKeepsTable
<1>4. CASE PopEven(p)
  <2> DEFINE l == [loc[p] EXCEPT !.i = @ + 1]
  <2>1. /\ p \notin dead /\ pc[p] = "pop_even" /\ Goto(p, "pop_page", l)
        /\ gen' = [gen EXCEPT ![loc[p].i] = Inc(@)]
        /\ sealed' = sealed /\ counter' = counter /\ filter' = filter /\ page' = page
    BY <1>4 DEF PopEven, On
  <2>2. /\ DOMAIN l = DOMAIN Quiet /\ l.surv = loc[p].surv /\ l.op = loc[p].op /\ l.key = loc[p].key
        /\ l.val = loc[p].val /\ l.i = loc[p].i + 1
    BY <1>a, QuietLocals
  <2>3. loc[p].i \in Pages /\ loc[p].i + 1 \in 0 .. NPages
    BY <1>a, <1>c, <2>1 DEF LocalInv
  <2> HIDE DEF l
  <2>4. Lands(p, "pop_page")
    BY <1>w, <2>1, <2>2, <2>3, RemoveLands
  <2>5. gen' \in [Pages -> 0 .. Wrap - 1]
    BY <1>b, <2>1, <2>3, GenBump
  <2> QED BY <1>b, <1>h, <1>w, <2>1, <2>4, <2>5, Alone, WriterKeepsTable
<1> QED BY <1>1, <1>2, <1>3, <1>4 DEF Pop

LEMMA EmptyType == emptyFilter \in FilterType
BY DEF emptyFilter, FilterType

LEMMA InvalidateKeepsTable ==
  ASSUME Shape, WriterHoldsLock, NoProc \notin Procs, TableInv, NEW p \in Procs, Invalidate(p)
  PROVE  TableInv'
<1>a. DOMAIN loc[p] = DOMAIN Quiet /\ LocalInv(pc[p], loc[p])
  BY DEF Shape, TableInv
<1>b. /\ counter \in Nat /\ filter \in FilterType /\ gen \in [Pages -> 0 .. Wrap - 1]
      /\ sealed \in [Pages -> BOOLEAN] /\ DOMAIN page = Pages /\ \A g \in Pages : PageInv(page[g])
  BY DEF TableInv, RestType
<1>c. NPages \in Nat \ {0} /\ Pages = 0 .. NPages - 1
  BY CacheAssumption DEF Pages
<1>w. {"inv_odd", "inv_zero", "inv_even", "inv_reset"} \subseteq (Writing \cap Removing)
  BY DEF Writing, Removing
<1>h. ASSUME NEW to \in {"inv_odd", "inv_zero", "inv_even", "inv_reset", "done"}, NEW l, NEW pages, NEW a
      PROVE  HeldInv(to, l, pages, a)
  BY <1>h DEF HeldInv
<1>1. CASE InvalidateLock(p)
  <2>1. /\ p \notin dead /\ pc[p] = "inv_lock" /\ CanLock /\ Goto(p, "inv_odd", loc[p])
        /\ gen' = gen /\ sealed' = sealed /\ counter' = counter /\ filter' = emptyFilter /\ page' = page
    BY <1>1 DEF InvalidateLock, On, ring
  <2>3. loc[p].i \in Pages
    BY <1>a, <1>c, <2>1 DEF LocalInv
  <2>4. Lands(p, "inv_odd")
    BY <1>a, <1>w, <2>1, <2>3, RemoveLands
  <2> QED BY <1>b, <1>h, <2>1, <2>4, Alone, WriterKeepsTable, EmptyType
<1>2. CASE InvalidateOdd(p)
  <2>1. /\ p \notin dead /\ pc[p] = "inv_odd" /\ Goto(p, "inv_zero", loc[p])
        /\ gen' = [gen EXCEPT ![loc[p].i] = Inc(@)]
        /\ sealed' = sealed /\ counter' = counter /\ filter' = filter /\ page' = page
    BY <1>2 DEF InvalidateOdd, On
  <2>3. loc[p].i \in Pages
    BY <1>a, <2>1 DEF LocalInv
  <2>4. Lands(p, "inv_zero")
    BY <1>a, <1>w, <2>1, <2>3, RemoveLands
  <2>5. gen' \in [Pages -> 0 .. Wrap - 1]
    BY <1>b, <2>1, <2>3, GenBump
  <2> QED BY <1>b, <1>h, <1>w, <2>1, <2>4, <2>5, Alone, WriterKeepsTable
<1>3. CASE InvalidateZero(p)
  <2>1. /\ p \notin dead /\ pc[p] = "inv_zero" /\ Goto(p, "inv_even", loc[p])
        /\ page' = [page EXCEPT ![loc[p].i] = BlankPage] /\ sealed' = [sealed EXCEPT ![loc[p].i] = loc[p].i # 0]
        /\ gen' = gen /\ counter' = counter /\ filter' = filter
    BY <1>3 DEF InvalidateZero, On
  <2>3. loc[p].i \in Pages
    BY <1>a, <2>1 DEF LocalInv
  <2>4. Lands(p, "inv_even")
    BY <1>a, <1>w, <2>1, <2>3, RemoveLands
  <2>5. DOMAIN page' = Pages /\ \A h \in Pages : PageInv(page'[h])
    BY <2>1, <2>3, BlankKeeps, OnePage
  <2>6. sealed' \in [Pages -> BOOLEAN]
    BY <1>b, <2>1, <2>3
  <2> QED BY <1>b, <1>h, <1>w, <2>1, <2>4, <2>5, <2>6, Alone, WriterKeepsTable
<1>4. CASE InvalidateEven(p)
  <2> DEFINE to == IF loc[p].i + 1 < NPages THEN "inv_odd" ELSE "inv_reset"
             l == [loc[p] EXCEPT !.i = @ + 1]
  <2>1. /\ p \notin dead /\ pc[p] = "inv_even" /\ Goto(p, to, l)
        /\ gen' = [gen EXCEPT ![loc[p].i] = Inc(@)]
        /\ sealed' = sealed /\ counter' = counter /\ filter' = filter /\ page' = page
    BY <1>4 DEF InvalidateEven, On
  <2>2. /\ DOMAIN l = DOMAIN Quiet /\ l.surv = loc[p].surv /\ l.op = loc[p].op /\ l.key = loc[p].key
        /\ l.val = loc[p].val /\ l.i = loc[p].i + 1
    BY <1>a, QuietLocals
  <2>3. loc[p].i \in Pages
    BY <1>a, <2>1 DEF LocalInv
  <2>4. to \in {"inv_odd", "inv_reset"} /\ (to = "inv_odd" => l.i \in Pages)
    <3> HIDE DEF l
    <3> QED BY <1>c, <2>2, <2>3
  <2> HIDE DEF to, l
  <2>5. Lands(p, to)
    BY <1>w, <2>1, <2>2, <2>4, RemoveLands
  <2>6. gen' \in [Pages -> 0 .. Wrap - 1]
    BY <1>b, <2>1, <2>3, GenBump
  <2> QED BY <1>b, <1>h, <1>w, <2>1, <2>4, <2>5, <2>6, Alone, WriterKeepsTable
<1>5. CASE InvalidateReset(p)
  <2>1. /\ p \notin dead /\ pc[p] = "inv_reset" /\ Finish(p, "flushed")
        /\ counter' = 0 /\ gen' = gen /\ sealed' = sealed /\ filter' = filter /\ page' = page
    BY <1>5 DEF InvalidateReset, On
  <2>2. Lands(p, "done")
    BY <2>1, FinishLands
  <2> QED BY <1>b, <1>h, <1>w, <2>1, <2>2, Alone, WriterKeepsTable
<1> QED BY <1>1, <1>2, <1>3, <1>4, <1>5 DEF Invalidate

(* A call that begins tells the others what it will supersede, and nothing *)
(* that their next steps depend on.                                        *)
LEMMA StartKeepsTable ==
  ASSUME Shape, TableInv, NEW p \in Procs, NEW op, NEW k, NEW v, Start(p, op, k, v),
         op # "invalidate" => k \in Keys, op = "set" => v \in Values
  PROVE  TableInv'
<1> DEFINE kv == IF op = "set" THEN {<<k, v>>} ELSE {}
           superseded == {w \in valid \ (InFlight \cup kv) : op = "invalidate" \/ w[1] = k}
           news == IF op = "get" THEN {w \in valid : w[1] = k} ELSE {}
           olds == IF op \in {"set", "pop", "invalidate"} THEN superseded ELSE {}
           mine == [Quiet EXCEPT !.op = op, !.key = k, !.val = v, !.fresh = news, !.old = olds]
           told(l) == [l EXCEPT !.old = @ \ kv,
                                !.fresh = IF l.op = "get" /\ l.key = k THEN @ \cup kv ELSE @]
           to == IF op = "invalidate" THEN "inv_lock" ELSE "filter"
<1>1. /\ pc[p] = "idle" /\ pc' = [pc EXCEPT ![p] = to]
      /\ loc' = [q \in Procs |-> IF q = p THEN mine ELSE told(loc[q])]
      /\ page' = page /\ filter' = filter /\ gen' = gen /\ sealed' = sealed /\ counter' = counter
      /\ dead' = dead
  BY DEF Start, shared
<1>2. \A q \in Procs : LocalInv(pc[q], loc[q]) /\ DOMAIN loc[q] = DOMAIN Quiet
  BY DEF TableInv, Shape
<1> HIDE DEF news, olds
<1>3. mine.surv = <<>> /\ mine.key = k /\ mine.op = op /\ mine.val = v /\ mine.i = 0
  BY DEF Quiet
<1>4. ASSUME NEW q \in Procs \ {p}
      PROVE  LET l == loc'[q]
             IN  /\ l.surv = loc[q].surv /\ l.key = loc[q].key /\ l.op = loc[q].op /\ l.val = loc[q].val
                 /\ l.i = loc[q].i /\ l.ai = loc[q].ai /\ l.plan = loc[q].plan /\ l.slot = loc[q].slot
  <2>1. loc'[q] = told(loc[q]) /\ DOMAIN loc[q] = DOMAIN Quiet
    BY <1>1, <1>2
  <2>2. "surv" \in DOMAIN loc[q] /\ "i" \in DOMAIN loc[q] /\ "key" \in DOMAIN loc[q] /\ "op" \in DOMAIN loc[q]
        /\ "val" \in DOMAIN loc[q] /\ "ai" \in DOMAIN loc[q] /\ "plan" \in DOMAIN loc[q]
        /\ "slot" \in DOMAIN loc[q]
    BY <2>1, QuietLocals
  <2> HIDE DEF kv
  <2> QED BY <2>1, <2>2
<1> HIDE DEF mine
<1>5. loc'[p] = mine
  BY <1>1
<1>6. to \in {"filter", "inv_lock"} /\ (to = "filter" => k \in Keys)
  OBVIOUS
<1> HIDE DEF to, told
<1>7. /\ pc' \in [Procs -> Labels] /\ pc'[p] = to /\ \A q \in Procs \ {p} : pc'[q] = pc[q]
  BY <1>1, <1>6 DEF TableInv, RestType, Labels
<1>8. ASSUME NEW q \in Procs  PROVE LocalInv(pc'[q], loc'[q])
  <2>1. CASE q = p
    BY <1>3, <1>5, <1>6, <1>7, <2>1, NothingSurvives DEF LocalInv, Keyless, Setting
  <2>2. CASE q # p
    <3>1. pc'[q] = pc[q] /\ LocalInv(pc[q], loc[q])
      BY <1>2, <1>7, <2>2
    <3> QED BY <1>4, <2>2, <3>1 DEF LocalInv
  <2> QED BY <2>1, <2>2
<1>9. ASSUME NEW q \in Procs \ dead  PROVE HeldInv(pc'[q], loc'[q], page, active_idx)
  <2>1. CASE q = p
    BY <1>6, <1>7, <2>1 DEF HeldInv
  <2>2. CASE q # p
    <3>1. pc'[q] = pc[q] /\ HeldInv(pc[q], loc[q], page, active_idx)
      BY <1>7, <2>2 DEF TableInv
    <3> QED BY <1>4, <2>2, <3>1 DEF HeldInv
  <2> QED BY <2>1, <2>2
<1>10. RestType'
  BY <1>1, <1>7 DEF TableInv, RestType
<1>11. active_idx' = active_idx
  BY <1>1 DEF active_idx
<1>12. DOMAIN page' = Pages /\ \A g \in Pages : PageInv(page'[g])
  BY <1>1 DEF TableInv
<1>13. \A q \in Procs \ dead' : HeldInv(pc'[q], loc'[q], page', active_idx')
  BY <1>1, <1>9, <1>11
<1> QED BY <1>8, <1>10, <1>12, <1>13 DEF TableInv

LEMMA TableInit == ASSUME Init  PROVE TableInv
<1>1. RestType
  BY EmptyType, CacheAssumption DEF Init, RestType, Labels, FilterType
<1>2. DOMAIN page = Pages /\ \A g \in Pages : PageInv(page[g])
  BY BlankKeeps DEF Init
<1>3. LocalInv("idle", Quiet)
  BY QuietLocals, NothingSurvives DEF LocalInv, Setting, Keyless
<1>4. \A p \in Procs : LocalInv(pc[p], loc[p]) /\ HeldInv(pc[p], loc[p], page, active_idx)
  BY <1>3 DEF Init, HeldInv
<1> QED BY <1>1, <1>2, <1>4 DEF TableInv

LEMMA TableStep ==
  ASSUME Shape, WriterHoldsLock, NoProc \notin Procs, TableInv, [Next]_vars
  PROVE  TableInv'
<1>1. CASE UNCHANGED vars
  <2>1. /\ page' = page /\ filter' = filter /\ gen' = gen /\ sealed' = sealed /\ counter' = counter
        /\ dead' = dead /\ pc' = pc /\ loc' = loc
    BY <1>1 DEF vars, shared
  <2>2. active_idx' = active_idx
    BY <2>1 DEF active_idx
  <2> QED BY <2>1, <2>2 DEF TableInv, RestType
<1>2. ASSUME NEW p \in Procs, Call(p)  PROVE TableInv'
  <2>1. ASSUME NEW k \in Keys, NEW op \in {"get", "contains", "pop"}, Start(p, op, k, Miss)
        PROVE  TableInv'
    BY <2>1, StartKeepsTable
  <2>2. ASSUME NEW k \in Keys, NEW v \in ValuesFor[k], Start(p, "set", k, v)  PROVE TableInv'
    <3>1. v \in Values
      BY DEF Values
    <3> QED BY <2>2, <3>1, StartKeepsTable
  <2>3. CASE Start(p, "invalidate", Miss, Miss)
    BY <2>3, StartKeepsTable
  <2> QED BY <1>2, <2>1, <2>2, <2>3 DEF Call
<1>3. ASSUME NEW p \in Procs, Crash(p)  PROVE TableInv'
  <2>1. /\ page' = page /\ filter' = filter /\ gen' = gen /\ sealed' = sealed /\ counter' = counter
        /\ dead \subseteq dead' /\ pc' = pc /\ loc' = loc
    BY <1>3 DEF Crash, shared
  <2>2. active_idx' = active_idx
    BY <2>1 DEF active_idx
  <2> QED BY <2>1, <2>2 DEF TableInv, RestType
<1>4. ASSUME NEW p \in Procs, ReadStep(p)  PROVE TableInv'
  <2>1. counter' = counter /\ gen' = gen /\ sealed' = sealed
    BY <1>4, ReadStepReads DEF Reads
  <2>2. SamePages /\ \E to \in Resting : Lands(p, to)
    BY <1>4, ReadLands
  <2> QED BY <2>1, <2>2, ReaderKeepsTable
<1>5. ASSUME NEW p \in Procs, WriteStep(p)  PROVE TableInv'
  BY <1>5, RingStepKeepsTable, RotateKeepsTable, InsertKeepsTable, PopKeepsTable, InvalidateKeepsTable
     DEF WriteStep
<1> QED BY <1>1, <1>2, <1>3, <1>4, <1>5, StepSplit DEF Next

LEMMA TableInvContains ==
  ASSUME Shape, WriterHoldsLock, TableInv  PROVE CutsAreContained
<1>1. ASSUME NEW g \in Pages
      PROVE  /\ page[g].count \in Nat /\ page[g].head \in 0 .. ArenaCap
             /\ \A i \in SlotIds : page[g].slots[i].key \in Keys \cup {EMPTY, TOMBSTONE}
             /\ \A a \in 0 .. ArenaCap - 1 : page[g].arena[a] \in Values \cup {Zero, Torn}
  <2>1. page[g] \in PageType
    BY DEF TableInv, PageInv
  <2> DEFINE pg == page[g]
  <2> HIDE DEF pg
  <2>2. /\ pg.head \in 0 .. ArenaCap /\ pg.count \in Nat
        /\ \A i \in SlotIds : pg.slots[i].key \in Keys \cup {EMPTY, TOMBSTONE}
        /\ pg.arena \in [0 .. ArenaCap - 1 -> Values \cup {Zero, Torn}]
    BY <2>1, PageFields DEF pg, Contents
  <2> QED BY <2>2 DEF pg
<1>2. TypeOK
  BY <1>1 DEF TypeOK, TableInv, RestType, Shape, FilterType
<1>3. PagesWellFormed
  BY DEF PagesWellFormed, TableInv, PageInv
<1> QED BY <1>2, <1>3 DEF CutsAreContained

(* Wherever workers are killed, and robbed of the lock, in the middle of a *)
(* set(), a pop(), an invalidate() or a rotation: memory keeps its types,  *)
(* only the holder of the lock is in the middle of a change, no page holds *)
(* a key twice, every entry is within reach of its probe and no two        *)
(* entries share arena bytes.                                              *)
THEOREM CutsStayContained == Spec => []CutsAreContained
<1>1. NoProc \notin Procs
  BY CacheAssumption
<1>2. Init => Shape /\ WriterHoldsLock /\ TableInv
  BY <1>1, LockInit, TableInit
<1>3. Shape /\ WriterHoldsLock /\ TableInv /\ [Next]_vars => (Shape /\ WriterHoldsLock /\ TableInv)'
  BY <1>1, LockStep, TableStep
<1>4. Shape /\ WriterHoldsLock /\ TableInv => CutsAreContained
  BY TableInvContains
<1> QED BY <1>2, <1>3, <1>4, PTL DEF Spec

-----------------------------------------------------------------------------
(* The counts, as long as no worker is killed.                             *)

Refilling == {"rot_fill", "rot_even", "rot_advance"}
SameEntries(g) == Live(page'[g]) = Live(page[g]) /\ page'[g].count = page[g].count

LEMMA SameEntriesCount ==
  ASSUME NEW g, SameEntries(g)
  PROVE  /\ Exact(page[g]) <=> Exact(page'[g])
         /\ page[g].count >= Cardinality(Live(page[g])) <=> page'[g].count >= Cardinality(Live(page'[g]))
         /\ page[g].count + 1 = Cardinality(Live(page[g]))
              <=> page'[g].count + 1 = Cardinality(Live(page'[g]))
BY DEF SameEntries, Exact

(* A step of a worker that neither holds, takes nor releases the lock.     *)
LEMMA CountSameHolder ==
  ASSUME CountInv, Stage' = Stage, Cursor' = Cursor, counter' = counter, \A g \in Pages : SameEntries(g)
  PROVE  CountInv'
<1>1. active_idx' = active_idx /\ retiring_idx' = retiring_idx
  BY DEF active_idx, retiring_idx
<1>2. Reset' = Reset /\ \A g \in Pages : Popped(g)' <=> Popped(g)
  BY <1>1 DEF Reset, Popped
<1> QED BY <1>1, <1>2, SameEntriesCount DEF CountInv

LEMMA ExactEnough ==
  ASSUME NEW pg, Exact(pg)  PROVE pg.count >= Cardinality(Live(pg))
BY LiveFinite, FS_CardinalityType DEF Exact

(* A step of the holder, away from a pop of the active page, that leaves   *)
(* entries and count of a page alone or brings them in line.               *)
LEMMA CountStep ==
  ASSUME CountInv, counter' = counter,
         \A g \in Pages : ~Popped(g) /\ ~Popped(g)',
         \A g \in Pages : SameEntries(g) \/ Exact(page'[g]),
         Stage' \in Refilling => Stage \in Refilling \/ Exact(page'[retiring_idx]),
         \A g \in Pages : g < Reset' => g < Reset \/ Exact(page'[g])
  PROVE  CountInv'
<1>1. active_idx' = active_idx /\ retiring_idx' = retiring_idx
  BY DEF active_idx, retiring_idx
<1>2. ASSUME NEW g \in Pages
      PROVE  /\ page'[g].count >= Cardinality(Live(page'[g]))
             /\ g = active_idx => Exact(page'[g])
             /\ Stage' \in Refilling /\ g = retiring_idx => Exact(page'[g])
             /\ g < Reset' => Exact(page'[g])
  <2>1. CASE Exact(page'[g])
    BY <2>1, ExactEnough
  <2>2. CASE SameEntries(g)
    <3>1. /\ page[g].count >= Cardinality(Live(page[g]))
          /\ g = active_idx => Exact(page[g])
          /\ Stage \in Refilling /\ g = retiring_idx => Exact(page[g])
          /\ g < Reset => Exact(page[g])
      BY DEF CountInv, Refilling
    <3> QED BY <2>2, <3>1, SameEntriesCount
  <2> QED BY <2>1, <2>2
<1> QED BY <1>1, <1>2 DEF CountInv, Refilling

LEMMA NotPopped ==
  ASSUME Stage # "pop_tomb" \/ Cursor # active_idx  PROVE \A g \in Pages : ~Popped(g)
BY DEF Popped

LEMMA UntouchedEntries ==
  ASSUME page' = page  PROVE \A g \in Pages : SameEntries(g)
BY DEF SameEntries

LEMMA OneChanged ==
  ASSUME TableInv, NEW h \in Pages, NEW q, page' = [page EXCEPT ![h] = q]
  PROVE  page'[h] = q /\ \A g \in Pages \ {h} : SameEntries(g)
<1>1. DOMAIN page = Pages
  BY DEF TableInv
<1> QED BY <1>1 DEF SameEntries

LEMMA RotateCounts ==
  ASSUME Holder, RingType, TableInv, CountInv, NEW p \in Procs,
         RotateOdd(p) \/ RotateZero(p) \/ RotateFill(p) \/ RotateEven(p) \/ RotateAdvance(p)
  PROVE  CountInv'
<1>a. Shape /\ DOMAIN loc[p] = DOMAIN Quiet
  BY DEF Holder, Shape
<1>b. active_idx \in Pages /\ retiring_idx \in Pages /\ \A g \in Pages : ~(g < 0)
  BY RingPages DEF Pages
<1>h. lock = p /\ Stage = pc[p]
  BY HeldBy DEF RotateOdd, RotateZero, RotateFill, RotateEven, RotateAdvance, On, Writing
<1>m. ASSUME NEW to, NEW l, Goto(p, to, l), DOMAIN l = DOMAIN Quiet, lock' = lock  PROVE Stage' = to
  BY <1>a, <1>h, <1>m, GotoMoves, HeldNext
<1>1. CASE RotateOdd(p)
  <2>1. Stage = "rot_odd" /\ Stage' = "rot_zero" /\ counter' = counter
    BY <1>1, <1>a, <1>h, <1>m DEF RotateOdd, On
  <2>2. \A g \in Pages : SameEntries(g)
    BY <1>1, SealEffect DEF SamePages, SameShape, SameEntries
  <2>3. (\A g \in Pages : ~Popped(g) /\ ~Popped(g)') /\ Reset' = 0
    BY <2>1 DEF Popped, Reset
  <2> QED BY <1>b, <2>1, <2>2, <2>3, CountStep DEF Refilling
<1>2. CASE RotateZero(p)
  <2>1. Stage = "rot_zero" /\ Stage' = "rot_fill" /\ counter' = counter
    BY <1>2, <1>a, <1>h, <1>m DEF RotateZero, On, ring
  <2>2. page' = [page EXCEPT ![retiring_idx] = BlankPage]
    BY <1>2 DEF RotateZero
  <2>3. Exact(page'[retiring_idx]) /\ \A g \in Pages \ {retiring_idx} : SameEntries(g)
    BY <1>b, <2>2, OneChanged, BlankKeeps
  <2>4. (\A g \in Pages : ~Popped(g) /\ ~Popped(g)') /\ Reset' = 0
    BY <2>1 DEF Popped, Reset
  <2> QED BY <1>b, <2>1, <2>3, <2>4, CountStep DEF Refilling
<1>3. CASE RotateFill(p)
  <2> DEFINE l == [loc[p] EXCEPT !.surv = <<>>]
  <2>1. Stage = "rot_fill" /\ Goto(p, "rot_even", l) /\ counter' = counter /\ lock' = lock
    BY <1>3, <1>h DEF RotateFill, On, ring
  <2>2. Stage' = "rot_even"
    BY <1>a, <1>m, <2>1
  <2>3. PICK q : /\ page' = [page EXCEPT ![retiring_idx] = q]
                 /\ Exact(page[retiring_idx]) => Exact(q)
    BY <1>3, FillEffect
  <2>4. Exact(page[retiring_idx])
    BY <1>b, <2>1 DEF CountInv
  <2>5. Exact(page'[retiring_idx]) /\ \A g \in Pages \ {retiring_idx} : SameEntries(g)
    BY <1>b, <2>3, <2>4, OneChanged
  <2>6. (\A g \in Pages : ~Popped(g) /\ ~Popped(g)') /\ Reset' = 0
    BY <2>1, <2>2 DEF Popped, Reset
  <2> QED BY <1>b, <2>1, <2>2, <2>5, <2>6, CountStep DEF Refilling
<1>4. CASE RotateEven(p)
  <2>1. Stage = "rot_even" /\ Stage' = "rot_advance" /\ counter' = counter /\ page' = page
    BY <1>4, <1>a, <1>h, <1>m DEF RotateEven, On
  <2>2. (\A g \in Pages : ~Popped(g) /\ ~Popped(g)') /\ Reset' = 0
    BY <2>1 DEF Popped, Reset
  <2> QED BY <1>b, <2>1, <2>2, UntouchedEntries, CountStep DEF Refilling
<1>5. CASE RotateAdvance(p)
  <2>1. /\ Stage = "rot_advance" /\ Stage' = "place" /\ page' = page
        /\ counter' = (counter + 1) % CounterWrap
    BY <1>5, <1>a, <1>h, <1>m DEF RotateAdvance, On
  <2>2. active_idx' = retiring_idx
    BY <2>1, RingIndex DEF RingType, active_idx, retiring_idx
  <2>3. (\A g \in Pages : ~Popped(g) /\ ~Popped(g)') /\ Reset' = 0
    BY <2>1 DEF Popped, Reset
  <2>4. Exact(page[retiring_idx]) /\ \A g \in Pages : page[g].count >= Cardinality(Live(page[g]))
    BY <1>b, <2>1, <2>3 DEF CountInv
  <2> QED BY <1>b, <2>1, <2>2, <2>3, <2>4 DEF CountInv
<1> QED BY <1>1, <1>2, <1>3, <1>4, <1>5

(* The steps of set() under the lock that are not the rotation's, and the  *)
(* beginning of a pop().                                                   *)
LEMMA InsertCounts ==
  ASSUME Holder, RingType, CursorInv, TableInv, CountInv, NEW p \in Procs,
         \/ InsertLock(p) \/ PlaceFails(p) \/ Place(p) \/ Copy(p) \/ Publish(p)
         \/ InsertFingerprint(p) \/ PopLock(p)
  PROVE  CountInv'
<1>a. Shape /\ \A q \in Procs : DOMAIN loc[q] = DOMAIN Quiet
  BY DEF Holder, Shape
<1>b. active_idx \in Pages /\ \A g \in Pages : ~(g < 0)
  BY RingPages DEF Pages
<1>c. counter' = counter
  BY DEF InsertLock, PlaceFails, Place, Copy, Publish, InsertFingerprint, PopLock, ring
<1>d. Stage \in Still /\ Stage' \in Still
  <2>1. CASE InsertLock(p)
    <3>1. Moves(p, "rot_odd") \/ Moves(p, "place")
      BY <2>1, <1>a DEF InsertLock, Goto, Moves, Shape
    <3> QED BY <2>1, <1>a, <3>1, Free, HeldNext DEF InsertLock, Still
  <2>2. CASE PlaceFails(p) \/ InsertFingerprint(p)
    BY <2>2, HeldBy, FreeNext DEF PlaceFails, InsertFingerprint, On, Writing, Still
  <2>3. CASE Place(p) \/ Copy(p) \/ Publish(p)
    <3>1. Moves(p, "copy") \/ Moves(p, "publish") \/ Moves(p, "fingerprint")
      BY <2>3, <1>a, GotoMoves DEF Place, Copy, Publish
    <3>2. lock = p /\ lock' = p /\ Stage \in Still
      BY <2>3, HeldBy DEF Place, Copy, Publish, On, Writing, Still
    <3> QED BY <1>a, <3>1, <3>2, HeldNext DEF Still
  <2>4. CASE PopLock(p)
    <3>1. Moves(p, "pop_page")
      BY <2>4, <1>a DEF PopLock, On, Goto, Moves, Shape
    <3> QED BY <2>4, <1>a, <3>1, Free, HeldNext DEF PopLock, Still
  <2> QED BY <2>1, <2>2, <2>3, <2>4
<1>e. /\ \A g \in Pages : ~Popped(g) /\ ~Popped(g)'
      /\ Stage' \notin Refilling /\ Reset' = 0
  BY <1>d DEF Popped, Reset, Still, Refilling
<1>f. \A g \in Pages : SameEntries(g) \/ Exact(page'[g])
  <2>1. CASE InsertLock(p) \/ PlaceFails(p) \/ InsertFingerprint(p) \/ PopLock(p)
    <3>1. page' = page
      BY <2>1 DEF InsertLock, PlaceFails, InsertFingerprint, PopLock
    <3> QED BY <3>1, UntouchedEntries
  <2>2. CASE Place(p) \/ Copy(p)
    <3>1. \E q : /\ page' = [page EXCEPT ![active_idx] = q]
                 /\ Live(q) = Live(page[active_idx]) /\ q.count = page[active_idx].count
      <4>1. CASE Place(p)
        BY <4>1, PlaceEffect
      <4>2. CASE Copy(p)
        BY <4>2, CopyEffect
      <4> QED BY <2>2, <4>1, <4>2
    <3>2. PICK q : /\ page' = [page EXCEPT ![active_idx] = q]
                   /\ Live(q) = Live(page[active_idx]) /\ q.count = page[active_idx].count
      BY <3>1
    <3>3. page'[active_idx] = q /\ \A g \in Pages \ {active_idx} : SameEntries(g)
      BY <1>b, <3>2, OneChanged
    <3>4. SameEntries(active_idx)
      BY <3>2, <3>3 DEF SameEntries
    <3> QED BY <3>3, <3>4
  <2>3. CASE Publish(p)
    <3>1. PICK q : /\ page' = [page EXCEPT ![active_idx] = q]
                   /\ Exact(page[active_idx]) => Exact(q)
      BY <2>3, PublishEffect
    <3>2. page'[active_idx] = q /\ \A g \in Pages \ {active_idx} : SameEntries(g)
      BY <1>b, <3>1, OneChanged
    <3>3. Exact(page[active_idx])
      BY <1>b, <1>e DEF CountInv
    <3> QED BY <3>1, <3>2, <3>3
  <2> QED BY <2>1, <2>2, <2>3
<1> QED BY <1>b, <1>c, <1>e, <1>f, CountStep

(* invalidate(): the pages before Reset are blank.                         *)
LEMMA InvalidateCounts ==
  ASSUME Holder, RingType, CursorInv, TableInv, CountInv, NEW p \in Procs, Invalidate(p)
  PROVE  CountInv'
<1>a. Shape /\ DOMAIN loc = Procs /\ DOMAIN loc[p] = DOMAIN Quiet /\ "i" \in DOMAIN loc[p]
  BY DEF Holder, Shape, Quiet
<1>b. /\ NPages \in Nat /\ NPages >= 2 /\ Pages = 0 .. NPages - 1 /\ \A g \in Pages : ~(g < 0)
      /\ 0 \in Pages
  BY CacheAssumption DEF Pages
<1>c. ASSUME Stage \notin Refilling \cup {"pop_tomb"}, Stage' \notin Refilling \cup {"pop_tomb"}
      PROVE  (\A g \in Pages : ~Popped(g) /\ ~Popped(g)') /\ Stage' \notin Refilling
  BY <1>c DEF Popped
<1>1. CASE InvalidateLock(p)
  <2>1. Moves(p, "inv_odd") /\ loc'[p].i = 0
    BY <1>1, <1>a DEF InvalidateLock, On, Goto, Moves, Shape, CursorInv
  <2>2. Stage = "none" /\ Stage' = "inv_odd" /\ Cursor' = 0
    BY <1>1, <1>a, <2>1, Free, HeldNext DEF InvalidateLock
  <2>3. counter' = counter /\ page' = page /\ Reset' = 0
    BY <1>1, <2>2 DEF InvalidateLock, ring, Reset
  <2> QED BY <1>b, <1>c, <2>2, <2>3, UntouchedEntries, CountStep DEF Refilling
<1>d. ASSUME pc[p] \in Writing  PROVE lock = p /\ Stage = pc[p] /\ Cursor = loc[p].i
  BY <1>d, HeldBy
<1>2. CASE InvalidateOdd(p)
  <2>1. Stage = "inv_odd" /\ Cursor = loc[p].i /\ lock = p
    BY <1>2, <1>d DEF InvalidateOdd, On, Writing
  <2>2. Moves(p, "inv_zero") /\ loc'[p].i = loc[p].i
    BY <1>2, <1>a DEF InvalidateOdd, Goto, Moves, Shape
  <2>3. Stage' = "inv_zero" /\ Cursor' = loc[p].i
    BY <1>2, <1>a, <2>1, <2>2, HeldNext DEF InvalidateOdd
  <2>4. counter' = counter /\ page' = page /\ Reset' = Reset
    BY <1>2, <2>1, <2>3 DEF InvalidateOdd, Reset
  <2> QED BY <1>c, <2>1, <2>3, <2>4, UntouchedEntries, CountStep DEF Refilling
<1>3. CASE InvalidateZero(p)
  <2>1. Stage = "inv_zero" /\ Cursor = loc[p].i /\ lock = p /\ loc[p].i \in Pages
    BY <1>3, <1>d DEF InvalidateZero, On, Writing, CursorInv
  <2>2. Moves(p, "inv_even") /\ loc'[p].i = loc[p].i
    BY <1>3, <1>a DEF InvalidateZero, Goto, Moves, Shape
  <2>3. Stage' = "inv_even" /\ Cursor' = loc[p].i
    BY <1>3, <1>a, <2>1, <2>2, HeldNext DEF InvalidateZero
  <2>4. counter' = counter /\ page' = [page EXCEPT ![loc[p].i] = BlankPage]
    BY <1>3 DEF InvalidateZero
  <2>5. Reset = loc[p].i /\ Reset' = loc[p].i + 1
    BY <2>1, <2>3 DEF Reset
  <2>6. \A g \in Pages : g < loc[p].i + 1 => g = loc[p].i \/ g < loc[p].i
    BY <1>b, <2>1
  <2>7. Exact(page'[loc[p].i]) /\ \A g \in Pages \ {loc[p].i} : SameEntries(g)
    BY <2>1, <2>4, OneChanged, BlankKeeps
  <2> QED BY <1>c, <2>1, <2>3, <2>4, <2>5, <2>6, <2>7, CountStep DEF Refilling
<1>4. CASE InvalidateEven(p)
  <2>1. Stage = "inv_even" /\ Cursor = loc[p].i /\ lock = p /\ loc[p].i \in Pages
    BY <1>4, <1>d DEF InvalidateEven, On, Writing, CursorInv
  <2>2. /\ loc'[p].i = loc[p].i + 1
        /\ \/ Moves(p, "inv_odd")
           \/ Moves(p, "inv_reset") /\ ~(loc[p].i + 1 < NPages)
    BY <1>4, <1>a DEF InvalidateEven, Goto, Moves, Shape
  <2>3. /\ Cursor' = loc[p].i + 1
        /\ \/ Stage' = "inv_odd"
           \/ Stage' = "inv_reset" /\ NPages = loc[p].i + 1
    BY <1>4, <1>a, <1>b, <2>1, <2>2, HeldNext DEF InvalidateEven
  <2>4. counter' = counter /\ page' = page /\ Reset' = Reset
    BY <1>4, <2>1, <2>3 DEF InvalidateEven, Reset
  <2> QED BY <1>c, <2>1, <2>3, <2>4, UntouchedEntries, CountStep DEF Refilling
<1>5. CASE InvalidateReset(p)
  <2>1. Stage = "inv_reset" /\ Stage' = "none" /\ page' = page
    BY <1>5, <1>d, FreeNext DEF InvalidateReset, On, Writing
  <2>2. Reset = NPages /\ Reset' = 0 /\ \A g \in Pages : g < NPages
    BY <1>b, <2>1 DEF Reset
  <2>3. \A g \in Pages : Exact(page[g])
    BY <2>2 DEF CountInv
  <2>4. \A g \in Pages : page[g].count >= Cardinality(Live(page[g]))
    BY <2>3, ExactEnough
  <2>5. \A g \in Pages : ~Popped(g)'
    BY <2>1 DEF Popped
  <2> QED BY <1>b, <2>1, <2>2, <2>3, <2>4, <2>5 DEF CountInv
<1> QED BY <1>1, <1>2, <1>3, <1>4, <1>5 DEF Invalidate

(* One entry fewer.                                                        *)
LEMMA UncountOne ==
  ASSUME NEW pg, NEW s \in Live(pg)
  PROVE  /\ Cardinality(Live(pg)) \in Nat \ {0}
         /\ Cardinality(Live(pg) \ {s}) = Cardinality(Live(pg)) - 1
<1> DEFINE S == Live(pg)
<1>1. IsFiniteSet(S) /\ s \in S
  BY LiveFinite
<1> HIDE DEF S
<1>2. Cardinality(S) \in Nat /\ (Cardinality(S) = 0 <=> S = {})
  BY <1>1, FS_CardinalityType, FS_EmptySet
<1>3. Cardinality(S \ {s}) = Cardinality(S) - 1
  BY <1>1, FS_RemoveElement
<1> QED BY <1>1, <1>2, <1>3 DEF S

(* pop(): between its two writes to the active page the entry it removes   *)
(* is there and not counted; that of a sealed page stays counted.          *)
LEMMA PopCounts ==
  ASSUME Holder, RingType, CursorInv, TableInv, CountInv, NEW p \in Procs,
         PopPage(p) \/ PopTomb(p) \/ PopEven(p)
  PROVE  CountInv'
<1>a. Shape /\ DOMAIN loc = Procs /\ DOMAIN loc[p] = DOMAIN Quiet /\ "i" \in DOMAIN loc[p]
  BY DEF Holder, Shape, Quiet
<1>b. /\ NPages \in Nat /\ NPages >= 2 /\ Pages = 0 .. NPages - 1 /\ \A g \in Pages : ~(g < 0)
      /\ active_idx \in Pages
  BY CacheAssumption, RingPages DEF Pages
<1>c. lock = p /\ Stage = pc[p] /\ Cursor = loc[p].i
  BY HeldBy DEF PopPage, PopTomb, PopEven, On, Writing
(* The part of the invariant that speaks of this operation.                *)
<1>d. ASSUME Stage' \in {"none", "pop_page", "pop_tomb", "pop_even"}, counter' = counter,
             \A g \in Pages : IF Popped(g)' THEN page'[g].count + 1 = Cardinality(Live(page'[g]))
                              ELSE /\ page'[g].count >= Cardinality(Live(page'[g]))
                                   /\ g = active_idx => Exact(page'[g])
      PROVE  CountInv'
  <2>1. active_idx' = active_idx /\ Reset' = 0 /\ Stage' \notin Refilling
    BY <1>d DEF active_idx, Reset, Refilling
  <2> QED BY <1>b, <1>d, <2>1 DEF CountInv, Refilling
<1>e. ASSUME NEW g \in Pages
      PROVE  IF Popped(g) THEN page[g].count + 1 = Cardinality(Live(page[g]))
             ELSE /\ page[g].count >= Cardinality(Live(page[g]))
                  /\ g = active_idx => Exact(page[g])
  BY DEF CountInv
<1>f. \A g \in Pages : page[g].count \in Nat
  <2> SUFFICES ASSUME NEW g \in Pages  PROVE page[g].count \in Nat
    OBVIOUS
  <2> DEFINE pg == page[g]
  <2>1. PageInv(pg)
    BY DEF TableInv
  <2> HIDE DEF pg
  <2>2. pg.count \in Nat
    BY <2>1, PageFields DEF PageInv
  <2> QED BY <2>2 DEF pg
<1>g. ASSUME NEW g \in Pages, SameEntries(g), ~Popped(g), ~Popped(g)'
      PROVE  /\ page'[g].count >= Cardinality(Live(page'[g]))
             /\ g = active_idx => Exact(page'[g])
  BY <1>e, <1>g, SameEntriesCount
<1>1. CASE PopPage(p)
  <2>1. Stage = "pop_page" /\ loc[p].i \in 0 .. NPages
    BY <1>1, <1>c DEF PopPage, On, CursorInv
  <2>2. \A g \in Pages : ~Popped(g)
    BY <2>1 DEF Popped
  <2>3. CASE loc[p].i = NPages
    <3>1. lock' = NoProc /\ page' = page /\ counter' = counter
      <4>1. ~(loc[p].i < NPages)
        BY <1>b, <2>3
      <4>2. \/ lock' = NoProc /\ page' = page /\ counter' = counter
            \/ loc[p].i < NPages
        BY <1>1, Zenon DEF PopPage, ring
      <4> QED BY <4>1, <4>2
    <3>2. Stage' = "none"
      BY <3>1, FreeNext
    <3>3. \A g \in Pages : ~Popped(g)'
      BY <3>2 DEF Popped
    <3> QED BY <1>d, <1>g, <2>2, <3>1, <3>2, <3>3, UntouchedEntries
  <2>4. CASE loc[p].i < NPages /\ do_probe(page[loc[p].i], loc[p].key) = NoSlot
    <3>1. /\ Goto(p, "pop_page", [loc[p] EXCEPT !.i = @ + 1])
          /\ lock' = lock /\ page' = page /\ counter' = counter
      BY <1>1, <1>b, <2>4 DEF PopPage, shared
    <3>2. Moves(p, "pop_page")
      BY <1>a, <3>1 DEF Goto, Moves, Shape
    <3>3. Stage' = "pop_page"
      BY <1>a, <1>c, <3>1, <3>2, HeldNext
    <3>4. \A g \in Pages : ~Popped(g)'
      BY <3>3 DEF Popped
    <3> QED BY <1>d, <1>g, <2>2, <3>1, <3>3, <3>4, UntouchedEntries
  <2>5. CASE loc[p].i < NPages /\ do_probe(page[loc[p].i], loc[p].key) # NoSlot
    <3> DEFINE h == loc[p].i
               s == do_probe(page[h], loc[p].key)
               l == [loc[p] EXCEPT !.slot = s, !.res = TRUE]
    <3>1. h \in Pages
      BY <1>b, <2>1, <2>5
    <3>2. /\ Goto(p, "pop_tomb", l) /\ counter' = counter /\ lock' = lock /\ s \in Live(page[h])
          /\ h # active_idx => page' = page
          /\ h = active_idx =>
               \E q : /\ SameShape(page[h], q) /\ page' = [page EXCEPT ![h] = q]
                      /\ q.count = IF page[h].count = 0 THEN 0 ELSE page[h].count - 1
      BY <1>1, <2>5, <3>1, PopEffect
    <3>3. DOMAIN l = DOMAIN Quiet /\ l.i = h
      BY <1>a
    <3> HIDE DEF l, s
    <3>4. Moves(p, "pop_tomb") /\ loc'[p].i = h
      BY <1>a, <3>2, <3>3 DEF Goto, Moves, Shape
    <3>5. Stage' = "pop_tomb" /\ Cursor' = h /\ active_idx' = active_idx
      BY <1>a, <1>c, <3>2, <3>4, HeldNext DEF active_idx
    <3>6. CASE h # active_idx
      <4>1. \A g \in Pages : ~Popped(g)'
        BY <3>5, <3>6 DEF Popped
      <4> QED BY <1>d, <1>g, <2>2, <3>2, <3>5, <3>6, <4>1, UntouchedEntries
    <3>7. CASE h = active_idx
      <4>1. \A g \in Pages : Popped(g)' <=> g = h
        BY <3>5, <3>7 DEF Popped
      <4>2. PICK q : /\ SameShape(page[h], q) /\ page' = [page EXCEPT ![h] = q]
                     /\ q.count = IF page[h].count = 0 THEN 0 ELSE page[h].count - 1
        BY <3>2, <3>7
      <4>3. page'[h] = q /\ \A g \in Pages \ {h} : SameEntries(g)
        BY <3>1, <4>2, OneChanged
      <4>4. page[h].count = Cardinality(Live(page[h])) /\ Live(q) = Live(page[h])
        BY <1>e, <2>2, <3>1, <3>7, <4>2 DEF Exact, SameShape
      <4>5. Cardinality(Live(page[h])) \in Nat \ {0}
        BY <3>2, UncountOne
      <4>6. page'[h].count + 1 = Cardinality(Live(page'[h]))
        BY <4>2, <4>3, <4>4, <4>5
      <4> QED BY <1>d, <1>g, <2>2, <3>2, <3>5, <4>1, <4>3, <4>6
    <3> QED BY <3>6, <3>7
  <2> QED BY <1>b, <2>1, <2>3, <2>4, <2>5
<1>2. CASE PopTomb(p)
  <2> DEFINE h == loc[p].i
             s == loc[p].slot
  <2>1. Stage = "pop_tomb" /\ counter' = counter /\ lock' = lock
    BY <1>2, <1>c DEF PopTomb, On, ring
  <2>2. h \in Pages /\ s \in Live(page[h])
    BY <1>2, TombEffect
  <2>3. PICK q : /\ page' = [page EXCEPT ![h] = q]
                 /\ Live(q) = Live(page[h]) \ {s} /\ q.count = page[h].count
    BY <1>2, TombEffect
  <2>4. Moves(p, IF h = active_idx THEN "pop_page" ELSE "pop_even")
    BY <1>2, <1>a DEF PopTomb, Goto, Moves, Shape
  <2>5. Stage' \in {"pop_page", "pop_even"}
    BY <1>a, <1>c, <2>1, <2>4, HeldNext
  <2>6. \A g \in Pages : ~Popped(g)' /\ (Popped(g) <=> g = h /\ g = active_idx)
    BY <1>c, <2>1, <2>5 DEF Popped
  <2>7. page'[h] = q /\ \A g \in Pages \ {h} : SameEntries(g)
    BY <2>2, <2>3, OneChanged
  <2> HIDE DEF h, s
  <2>8. /\ Cardinality(Live(page[h])) \in Nat \ {0}
        /\ Cardinality(Live(page'[h])) = Cardinality(Live(page[h])) - 1
    BY <2>2, <2>3, <2>7, UncountOne
  <2>9. page'[h].count = page[h].count /\ page[h].count \in Nat
    BY <1>f, <2>2, <2>3, <2>7
  <2>10. /\ page'[h].count >= Cardinality(Live(page'[h]))
         /\ h = active_idx => Exact(page'[h])
    <3>1. CASE h = active_idx
      BY <1>e, <2>2, <2>6, <2>8, <2>9, <3>1 DEF Exact
    <3>2. CASE h # active_idx
      BY <1>e, <2>2, <2>6, <2>8, <2>9, <3>2
    <3> QED BY <3>1, <3>2
  <2> QED BY <1>d, <1>g, <2>1, <2>5, <2>6, <2>7, <2>10
<1>3. CASE PopEven(p)
  <2>1. Stage = "pop_even" /\ counter' = counter /\ lock' = lock /\ page' = page
    BY <1>3, <1>c DEF PopEven, On
  <2>2. Moves(p, "pop_page")
    BY <1>3, <1>a DEF PopEven, Goto, Moves, Shape
  <2>3. Stage' = "pop_page"
    BY <1>a, <1>c, <2>1, <2>2, HeldNext
  <2>4. \A g \in Pages : ~Popped(g) /\ ~Popped(g)'
    BY <2>1, <2>3 DEF Popped
  <2> QED BY <1>d, <1>g, <2>1, <2>3, <2>4, UntouchedEntries
<1> QED BY <1>1, <1>2, <1>3

(* The steps of the others leave the holder of the lock where it is.       *)
LEMMA ReadCounts ==
  ASSUME Holder, TableInv, CountInv, NEW p \in Procs, ReadStep(p)  PROVE CountInv'
<1>a. Shape /\ dead = {}
  BY DEF Holder
<1>0. Reads(p)
  BY <1>a, ReadStepReads
<1>1. lock' = lock /\ lock # p /\ counter' = counter
  BY <1>0, <1>a, Free DEF Reads, Holder, WriterHoldsLock, Moves
<1>2. PICK to \in Resting : Moves(p, to)
  BY <1>0 DEF Reads
<1>3. Stage' = Stage /\ Cursor' = Cursor
  BY <1>a, <1>1, <1>2 DEF Moves, Shape, Stage, Cursor
<1>4. \A g \in Pages : SameEntries(g)
  BY <1>a, ReadLands DEF SamePages, SameShape, SameEntries
<1> QED BY <1>1, <1>3, <1>4, CountSameHolder

LEMMA StartCounts ==
  ASSUME Holder, CountInv, NEW p \in Procs, NEW op, NEW k, NEW v, Start(p, op, k, v)
  PROVE  CountInv'
<1>a. Shape
  BY DEF Holder
<1>1. pc[p] = "idle" /\ lock' = lock /\ counter' = counter /\ page' = page
  BY DEF Start, shared
<1>2. ASSUME NEW q \in Procs, q # p  PROVE pc'[q] = pc[q] /\ loc'[q].i = loc[q].i
  <2>1. "i" \in DOMAIN loc[q]
    BY <1>a DEF Shape, Quiet
  <2> QED BY <1>a, <1>2, <2>1 DEF Start, Shape
<1>3. lock # p
  BY <1>1 DEF Holder, WriterHoldsLock, Writing
<1>4. Stage' = Stage /\ Cursor' = Cursor
  BY <1>1, <1>2, <1>3 DEF Stage, Cursor
<1> QED BY <1>1, <1>4, UntouchedEntries, CountSameHolder

LEMMA CountInit == ASSUME NoProc \notin Procs, Init  PROVE CountInv
<1>1. Stage = "none"
  BY DEF Init, Stage
<1>2. Reset = 0 /\ \A g \in Pages : ~Popped(g) /\ ~(g < 0)
  BY <1>1 DEF Reset, Popped, Pages
<1>3. \A g \in Pages : Exact(page[g])
  BY BlankKeeps DEF Init
<1> QED BY <1>1, <1>2, <1>3, ExactEnough DEF CountInv

LEMMA CountsStep ==
  ASSUME MaxCrashes = 0, NoProc \notin Procs, Shape, WriterHoldsLock, RingInv, TableInv, CountInv,
         [Next]_vars
  PROVE  CountInv'
<1>a. Holder /\ RingType /\ CursorInv /\ dead = {}
  BY DEF Holder, RingInv
<1>1. CASE UNCHANGED vars
  <2>1. Stage' = Stage /\ Cursor' = Cursor /\ counter' = counter /\ page' = page
    BY <1>1 DEF vars, shared, Stage, Cursor
  <2> QED BY <2>1, UntouchedEntries, CountSameHolder
<1>2. ASSUME NEW p \in Procs, Crash(p)  PROVE FALSE
  <2>1. Cardinality(dead) = 0
    BY <1>a, FS_EmptySet
  <2> QED BY <1>2, <2>1 DEF Crash
<1>3. ASSUME NEW p \in Procs, ReadStep(p)  PROVE CountInv'
  BY <1>3, <1>a, ReadCounts
<1>4. ASSUME NEW p \in Procs, WriteStep(p)  PROVE CountInv'
  BY <1>4, <1>a, RotateCounts, InsertCounts, PopCounts, InvalidateCounts DEF WriteStep, Pop
<1> QED BY <1>1, <1>2, <1>3, <1>4, <1>a, StartCounts, StepSplit DEF Next, Call

LEMMA CountsInOrder ==
  ASSUME NoProc \notin Procs, TableInv, CountInv  PROVE PagesInOrder
<1>1. PagesWellFormed
  BY DEF PagesWellFormed, TableInv, PageInv
<1>2. ASSUME lock = NoProc
      PROVE  /\ page[active_idx].count = Cardinality(Live(page[active_idx]))
             /\ \A g \in Pages : page[g].count >= Cardinality(Live(page[g]))
  <2>1. Stage = "none"
    BY <1>2 DEF Stage
  <2>2. \A g \in Pages : ~Popped(g)
    BY <2>1 DEF Popped
  <2>3. active_idx \in Pages
    BY IndexFacts DEF TableInv, RestType
  <2> QED BY <2>2, <2>3 DEF CountInv, Exact
<1> QED BY <1>1, <1>2 DEF PagesInOrder, CountsEntries

(* As long as no worker is killed: no page holds a key twice, every entry  *)
(* is within reach of its probe, no two share arena bytes; and whenever    *)
(* the lock is free, entry_count, by which CheckFull decides to rotate, is *)
(* the number of entries of the active page and never below that of a      *)
(* sealed one, through inserts, overwrites, tombstones and their reuse,    *)
(* refills, pops and invalidations.                                        *)
THEOREM PagesStayInOrder == ASSUME MaxCrashes = 0  PROVE Spec => []PagesInOrder
<1>1. NoProc \notin Procs
  BY CacheAssumption
<1>2. Init => Shape /\ WriterHoldsLock /\ RingInv /\ TableInv /\ CountInv
  BY <1>1, LockInit, RingInit, TableInit, CountInit
<1>3. Shape /\ WriterHoldsLock /\ RingInv /\ TableInv /\ CountInv /\ [Next]_vars
        => (Shape /\ WriterHoldsLock /\ RingInv /\ TableInv /\ CountInv)'
  BY <1>1, LockStep, RingStep, TableStep, CountsStep
<1>4. TableInv /\ CountInv => PagesInOrder
  BY <1>1, CountsInOrder
<1> QED BY <1>2, <1>3, <1>4, PTL DEF Spec
=============================================================================
