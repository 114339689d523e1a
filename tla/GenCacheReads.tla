----------------------------- MODULE GenCacheReads -----------------------------
(***************************************************************************)
(* What the lock-free reads of the cache return: theorems about GenCache.  *)
(*                                                                         *)
(* The counters of the code wrap, so that a reader may in principle find a *)
(* counter unchanged that has gone all the way round.  History variables   *)
(* count the changes since a worker noted a counter; the theorems say what *)
(* a read returns as long as none of them has come round.                  *)
(***************************************************************************)
EXTENDS GenCacheProofs

VARIABLES gens,    \* changes of the generation a reader compares, since it noted it
          seqs,    \* changes of the value_seq it compares, since it noted it
          turns    \* changes of the ring counter since a set() noted it

history == <<gens, seqs, turns>>

Watching == {"read", "verify", "sealed_probe", "sealed_read", "sealed_verify"}
Scanning == {"scan", "chunk", "chunk_read", "insert"}
WatchedPage(p) == IF pc[p] \in {"read", "verify"} THEN loc[p].ai ELSE SealedPage(p)
WatchedSlot(p) == page[loc[p].ai].slots[loc[p].slot]
NextSlot(p) == page'[loc[p].ai].slots[loc[p].slot]

Noted ==
  /\ gens' = [p \in Procs |->
       IF pc[p] \notin Watching THEN 0
       ELSE IF gen'[WatchedPage(p)] = gen[WatchedPage(p)] THEN gens[p] ELSE gens[p] + 1]
  /\ seqs' = [p \in Procs |->
       IF pc[p] \notin {"read", "verify"} THEN 0
       ELSE IF NextSlot(p).seq = WatchedSlot(p).seq THEN seqs[p] ELSE seqs[p] + 1]
  /\ turns' = [p \in Procs |->
       IF pc[p] \notin Scanning THEN 0
       ELSE IF counter' = counter THEN turns[p] ELSE turns[p] + 1]

NothingNoted == gens = [p \in Procs |-> 0] /\ seqs = [p \in Procs |-> 0] /\ turns = [p \in Procs |-> 0]

Recorded == Init /\ NothingNoted /\ [][Next /\ Noted]_<<vars, history>>

(* No counter comes round to the value that was noted: fewer than Wrap     *)
(* changes of a generation or a value_seq between two looks at it, and the *)
(* ring counter found unchanged only if it never moved.                    *)
NoWrap ==
  \A p \in Procs :
    /\ gens[p] < Wrap /\ seqs[p] < Wrap
    /\ pc[p] = "insert" /\ loc[p].rot /\ counter = loc[p].snap => turns[p] = 0

-----------------------------------------------------------------------------

SetAt(p) == loc[p].op = "set" /\ pc[p] \notin {"idle", "done"} => loc[p].val \in ValuesFor[loc[p].key]
SetInv == \A p \in Procs : SetAt(p)

Holds(pg, k, off, len) == pg.arena[off] \in ValuesFor[k] /\ Size[pg.arena[off]] = len
Entire(pg, i) == Holds(pg, pg.slots[i].key, pg.slots[i].off, pg.slots[i].len)
Plan == loc[lock].plan
WholeInv ==
  /\ \A g \in Pages : \A i \in Live(page[g]) :
       \/ Entire(page[g], i)
       \/ Stage \in {"copy", "publish"} /\ g = active_idx /\ i = Plan.slot
  /\ Stage = "publish" => page[active_idx].arena[Plan.off] = loc[lock].val

EntireSurvivor == {s \in Survivor : s.content \in ValuesFor[s.key] /\ Size[s.content] = s.len}
SurvAt(p) ==
  /\ pc[p] \in Scanning /\ loc[p].rot /\ turns[p] = 0 =>
       /\ counter = loc[p].snap
       /\ pc[p] # "insert" => loc[p].ai = retiring_idx
       /\ loc[p].surv \in Seq(EntireSurvivor)
  /\ pc[p] \in {"rot_odd", "rot_zero", "rot_fill"} => loc[p].surv \in Seq(EntireSurvivor)
  /\ pc[p] \in {"scan", "chunk", "chunk_read"} => loc[p].rot
  /\ pc[p] = "check" => loc[p].surv = <<>>
SurvInv == \A p \in Procs : SurvAt(p)

(* n changes by Inc have taken a to b. *)
Turned(a, n, b) ==
  \/ n = 0 /\ b = a
  \/ n \in 1 .. Wrap - 1 /\ b \in 0 .. Wrap - 1 /\ (a < Wrap => b = IF a + n < Wrap THEN a + n ELSE a + n - Wrap)
  \/ n >= Wrap

Owned(pg, t, k, off) ==
  /\ off \in Nat /\ off < pg.head
  /\ \A i \in SlotIds : pg.slots[i].key # EMPTY /\ pg.slots[i].off = off => i = t /\ pg.slots[i].key = k
Undisturbed(g, t, off) ==
  /\ Stage \in {"copy", "publish"} /\ g = active_idx => Plan.off # off
  /\ Stage = "pop_tomb" /\ g = Cursor => loc[lock].slot # t
ActiveInv(p) ==
  pc[p] \in {"read", "verify"} =>
    LET g == loc[p].ai
        t == loc[p].slot
    IN  /\ g \in Pages /\ t \in SlotIds /\ loc[p].gen \in 0 .. Wrap - 1 /\ loc[p].seq \in Nat
        /\ Turned(loc[p].gen, gens[p], gen[g])
        /\ gens[p] = 0 =>
             /\ ~Odd(gen[g])
             /\ Turned(loc[p].seq, seqs[p], page[g].slots[t].seq)
             /\ seqs[p] = 0 =>
                  /\ Holds(page[g], loc[p].key, loc[p].off, loc[p].len)
                  /\ Owned(page[g], t, loc[p].key, loc[p].off)
                  /\ Undisturbed(g, t, loc[p].off)
                  /\ pc[p] = "verify" => loc[p].res \in ValuesFor[loc[p].key]

Away(g) ==
  /\ g # active_idx
  /\ Stage = "rot_advance" => g # retiring_idx
  /\ Stage \in {"inv_zero", "inv_even", "inv_reset"} => g # 0
  /\ Stage = "inv_odd" /\ Cursor # 0 => g # 0
SealedInv(p) ==
  pc[p] \in {"sealed_probe", "sealed_read", "sealed_verify"} =>
    LET g == SealedPage(p)
    IN  /\ loc[p].gen \in 0 .. Wrap - 1 /\ Turned(loc[p].gen, gens[p], gen[g])
        /\ gens[p] = 0 /\ loc[p].calm =>
             /\ ~Odd(gen[g]) /\ Away(g)
             /\ pc[p] = "sealed_read" => Holds(page[g], loc[p].key, loc[p].off, loc[p].len)
             /\ pc[p] = "sealed_verify" /\ loc[p].op = "get" => loc[p].res \in ValuesFor[loc[p].key]

ReaderInv == \A p \in Procs : ActiveInv(p) /\ SealedInv(p)

-----------------------------------------------------------------------------
(* Counters that wrap.                                                     *)

LEMMA WrapFacts == Wrap \in Nat /\ Wrap >= 2
BY CacheAssumption

LEMMA IncIs ==
  /\ \A n \in Nat : Inc(n) \in 0 .. Wrap - 1 /\ Inc(n) # n
  /\ \A n \in 0 .. Wrap - 1 : Inc(n) = IF n = Wrap - 1 THEN 0 ELSE n + 1
<1>1. Wrap \in Nat \ {0} /\ Wrap >= 2
  BY WrapFacts
<1>2. ASSUME NEW n \in Nat  PROVE Inc(n) \in 0 .. Wrap - 1
  BY <1>1 DEF Inc
<1>3. ASSUME NEW n \in 0 .. Wrap - 1  PROVE Inc(n) = IF n = Wrap - 1 THEN 0 ELSE n + 1
  <2>1. CASE n = Wrap - 1
    <3>1. n + 1 = Wrap
      BY <1>1, <2>1
    <3> QED BY <1>1, <2>1, <3>1, FullRemainder DEF Inc
  <2>2. CASE n # Wrap - 1
    <3>1. n + 1 \in 0 .. Wrap - 1
      BY <1>1, <2>2
    <3> QED BY <1>1, <2>2, <3>1, SmallRemainder DEF Inc
  <2> QED BY <2>1, <2>2
<1>4. ASSUME NEW n \in Nat  PROVE Inc(n) # n
  <2>1. CASE n < Wrap
    BY <1>1, <1>3, <2>1
  <2>2. CASE ~(n < Wrap)
    BY <1>1, <1>2, <2>2
  <2> QED BY <2>1, <2>2
<1> QED BY <1>2, <1>3, <1>4

LEMMA TurnedStep ==
  ASSUME NEW a \in Nat, NEW n \in Nat, NEW b \in Nat, Turned(a, n, b),
         NEW c, c = b \/ c = Inc(b), NEW m, m = IF c = b THEN n ELSE n + 1
  PROVE  Turned(a, m, c)
<1>1. CASE c = b
  BY <1>1
<1>2. CASE c # b
  <2>1. c = Inc(b) /\ m = n + 1 /\ Wrap \in Nat /\ Wrap >= 2
    BY <1>2, WrapFacts
  <2>2. c \in 0 .. Wrap - 1 /\ (b \in 0 .. Wrap - 1 => c = IF b = Wrap - 1 THEN 0 ELSE b + 1)
    BY <2>1, IncIs
  <2> QED BY <2>1, <2>2 DEF Turned
<1> QED BY <1>1, <1>2

LEMMA TurnedSame ==
  ASSUME NEW a \in Nat, NEW n \in Nat, Turned(a, n, a), n < Wrap  PROVE n = 0
BY WrapFacts DEF Turned

-----------------------------------------------------------------------------
(* What a write does to a page that somebody is reading.                   *)

KeptPage(pg, q) ==
  /\ q.arena = pg.arena /\ q.head = pg.head
  /\ \A i \in SlotIds : /\ q.slots[i].key = pg.slots[i].key /\ q.slots[i].off = pg.slots[i].off
                        /\ q.slots[i].len = pg.slots[i].len /\ q.slots[i].seq = pg.slots[i].seq

(* content has gone to the planned place; the value_seq of the planned     *)
(* slot moves with an overwrite in place.                                  *)
WrittenPage(pg, q, pl, content) ==
  /\ q.head = pl.head
  /\ \A a \in 0 .. ArenaCap - 1 : q.arena[a] = IF a = pl.off THEN content ELSE pg.arena[a]
  /\ \A i \in SlotIds : /\ q.slots[i].key = pg.slots[i].key /\ q.slots[i].off = pg.slots[i].off
                        /\ q.slots[i].len = pg.slots[i].len
                        /\ q.slots[i].seq = IF pl.inplace /\ i = pl.slot THEN Inc(pg.slots[i].seq)
                                            ELSE pg.slots[i].seq

LEMMA KeptSelf == ASSUME NEW pg  PROVE KeptPage(pg, pg)
BY DEF KeptPage

LEMMA KeptLive ==
  ASSUME NEW pg, NEW q, KeptPage(pg, q)
  PROVE  Live(q) = Live(pg) /\ \A i \in SlotIds : Entire(pg, i) => Entire(q, i)
BY DEF KeptPage, Live, Entire, Holds

LEMMA KeptWatched ==
  ASSUME NEW pg, NEW q, KeptPage(pg, q), NEW t, NEW k, NEW off, NEW len
  PROVE  /\ Holds(pg, k, off, len) => Holds(q, k, off, len)
         /\ Owned(pg, t, k, off) => Owned(q, t, k, off)
BY DEF KeptPage, Holds, Owned

LEMMA PlaceWrites ==
  ASSUME NEW pg \in PageType, NEW pl, pl.slot \in SlotIds, pl.off \in 0 .. ArenaCap - 1,
         NEW content
  PROVE  /\ WrittenPage(pg, copy_value(BumpSeq(pg, pl), pl, content), pl, content)
         /\ WrittenPage(pg, BumpSeq(copy_value(pg, pl, content), pl), pl, content)
<1>1. pg.slots \in [SlotIds -> Slot] /\ pg.arena \in [0 .. ArenaCap - 1 -> Contents]
  BY PageFields
<1>2. \A i \in SlotIds : pg.slots[i] \in Slot
  BY <1>1
<1> DEFINE new == [pg.slots[pl.slot] EXCEPT !.seq = Inc(@)]
           slots == IF pl.inplace THEN [pg.slots EXCEPT ![pl.slot] = new] ELSE pg.slots
           arena == [pg.arena EXCEPT ![pl.off] = content]
           q == [pg EXCEPT !.head = pl.head, !.slots = slots, !.arena = arena]
<1>3. copy_value(BumpSeq(pg, pl), pl, content) = q /\ BumpSeq(copy_value(pg, pl, content), pl) = q
  <2>1. CASE pl.inplace
    BY <2>1 DEF copy_value, BumpSeq, PageType
  <2>2. CASE ~pl.inplace
    BY <2>2 DEF copy_value, BumpSeq, PageType
  <2> QED BY <2>1, <2>2
<1>4. q.head = pl.head /\ q.slots = slots /\ q.arena = arena
  BY DEF PageType
<1>5. /\ new.key = pg.slots[pl.slot].key /\ new.off = pg.slots[pl.slot].off
      /\ new.len = pg.slots[pl.slot].len /\ new.seq = Inc(pg.slots[pl.slot].seq)
  BY <1>2 DEF Slot
<1> HIDE DEF new, q
<1>6. \A i \in SlotIds : slots[i] = IF pl.inplace /\ i = pl.slot THEN new ELSE pg.slots[i]
  BY <1>1
<1>7. \A a \in 0 .. ArenaCap - 1 : arena[a] = IF a = pl.off THEN content ELSE pg.arena[a]
  BY <1>1
<1> HIDE DEF slots, arena
<1>8. WrittenPage(pg, q, pl, content)
  BY <1>4, <1>5, <1>6, <1>7 DEF WrittenPage
<1> QED BY <1>3, <1>8

LEMMA PublishPoint ==
  ASSUME NEW pg \in PageType, NEW pl, pl.slot \in SlotIds, NEW k, NEW len, NEW cls
  PROVE  LET q == publish_slot(pg, pl, k, len, cls)
         IN  /\ q.head = pg.head /\ q.arena = pg.arena
             /\ \A i \in SlotIds : q.slots[i].seq = pg.slots[i].seq
             /\ \A i \in SlotIds \ {pl.slot} : q.slots[i] = pg.slots[i]
             /\ q.slots[pl.slot].key = k /\ q.slots[pl.slot].off = pl.off /\ q.slots[pl.slot].len = len
<1>1. pg.slots \in [SlotIds -> Slot]
  BY PageFields
<1>2. pg.slots[pl.slot] \in Slot
  BY <1>1
<1> DEFINE new == [pg.slots[pl.slot] EXCEPT !.key = k, !.off = pl.off, !.len = len,
                                            !.cap = pl.cap, !.cls = cls, !.vis = FALSE]
           slots == [pg.slots EXCEPT ![pl.slot] = new]
           q == publish_slot(pg, pl, k, len, cls)
<1>3. q.slots = slots /\ q.head = pg.head /\ q.arena = pg.arena
  BY DEF publish_slot, PageType
<1>4. new.key = k /\ new.off = pl.off /\ new.len = len /\ new.seq = pg.slots[pl.slot].seq
  BY <1>2 DEF Slot
<1> HIDE DEF new, q
<1>5. \A i \in SlotIds : slots[i] = IF i = pl.slot THEN new ELSE pg.slots[i]
  BY <1>1
<1> HIDE DEF slots
<1> QED BY <1>3, <1>4, <1>5 DEF q

(* A plan takes new space at the bump pointer, or the allocation of its    *)
(* slot; that of an entry only to overwrite it in place.                   *)
LEMMA PlanOffset ==
  ASSUME NEW pg, PageInv(pg), NEW k \in Keys, NEW len \in Nat \ {0}, plan_insert(pg, k, len).fits
  PROVE  LET pl == plan_insert(pg, k, len)
         IN  \/ pl.off = pg.head
             \/ /\ pl.off = pg.slots[pl.slot].off /\ pg.slots[pl.slot].key # EMPTY
                /\ pg.slots[pl.slot].key \in Keys => pl.inplace
<1> DEFINE stop == FirstStop(pg, k)
           tombs == {j \in 0 .. stop - 1 : pg.slots[At(k, j)].key = TOMBSTONE}
           exists == stop < SlotCount /\ pg.slots[At(k, stop)].key = k
           i == IF ~exists /\ tombs # {} THEN At(k, Min(tombs))
                ELSE IF stop < SlotCount THEN At(k, stop) ELSE NoSlot
           old == IF i = NoSlot THEN BlankSlot ELSE pg.slots[i]
           reuse == old.key # EMPTY /\ len <= old.cap
           need == (IF reuse THEN 0 ELSE len) + (IF exists THEN 0 ELSE KeyUnits)
           off == IF reuse THEN old.off ELSE pg.head
           pl == plan_insert(pg, k, len)
<1>1. pl = [slot |-> i, fits |-> i # NoSlot /\ pg.head + need <= ArenaCap,
            fresh |-> ~exists, inplace |-> exists /\ reuse, off |-> off,
            cap |-> IF reuse THEN old.cap ELSE len, head |-> pg.head + need]
  BY DEF plan_insert
<1>2. pl.slot = i /\ pl.inplace = (exists /\ reuse) /\ pl.off = off /\ (pl.fits => i # NoSlot)
  <2> HIDE DEF i, exists, reuse, need, off, pl
  <2> QED BY <1>1
<1> HIDE DEF pl
<1>3. i # NoSlot
  <2> HIDE DEF i
  <2> QED BY <1>2 DEF pl
<1>4. pg.slots[i].key \in Keys => exists
  <2>1. stop < SlotCount => pg.slots[At(k, stop)].key \in {EMPTY, k}
    BY StopFacts
  <2>2. CASE ~exists /\ tombs # {}
    <3>1. tombs \subseteq Nat
      BY StopFacts
    <3>2. Min(tombs) \in tombs
      <4> HIDE DEF tombs
      <4> QED BY <2>2, <3>1, LeastMember
    <3>3. i = At(k, Min(tombs))
      BY <2>2
    <3> HIDE DEF i
    <3>4. pg.slots[i].key = TOMBSTONE
      BY <3>2, <3>3
    <3> QED BY <3>4, PageAssumption
  <2>3. CASE ~(~exists /\ tombs # {})
    <3>1. i = (IF stop < SlotCount THEN At(k, stop) ELSE NoSlot)
      BY <2>3
    <3> HIDE DEF i, tombs, stop
    <3> QED BY <1>3, <2>1, <3>1, PageAssumption
  <2> QED BY <2>2, <2>3
<1>5. old = pg.slots[i]
  <2> HIDE DEF i
  <2> QED BY <1>3
<1> HIDE DEF i, exists, old
<1>6. CASE reuse
  BY <1>2, <1>4, <1>5, <1>6 DEF pl
<1>7. CASE ~reuse
  BY <1>2, <1>7 DEF pl
<1> QED BY <1>6, <1>7

(* Where the bytes of an entry are, and that no other slot lends them.     *)
LEMMA EntryOffset ==
  ASSUME NEW pg, PageInv(pg), NEW i \in SlotIds, pg.slots[i].key # EMPTY
  PROVE  /\ pg.slots[i].off \in 0 .. ArenaCap - 1
         /\ Owned(pg, i, pg.slots[i].key, pg.slots[i].off)
<1>1. /\ pg.head \in 0 .. ArenaCap /\ ArenaCap \in Nat
      /\ \A j \in SlotIds : pg.slots[j].off \in Nat /\ pg.slots[j].len \in Nat /\ pg.slots[j].cap \in Nat
  BY PageFields DEF PageInv
<1>2. /\ \A j \in SlotIds : pg.slots[j].key # EMPTY =>
           pg.slots[j].off + pg.slots[j].cap <= pg.head /\ pg.slots[j].len <= pg.slots[j].cap
      /\ \A j \in SlotIds : pg.slots[j].key # EMPTY => pg.slots[j].len # 0
  BY DEF PageInv, ArenaDisjoint
<1>3. \A j \in SlotIds : pg.slots[j].key # EMPTY /\ j # i =>
           \/ pg.slots[i].off + pg.slots[i].cap <= pg.slots[j].off
           \/ pg.slots[j].off + pg.slots[j].cap <= pg.slots[i].off
  BY DEF PageInv, ArenaDisjoint
<1>4. pg.slots[i].off \in 0 .. ArenaCap - 1 /\ pg.slots[i].off < pg.head
  BY <1>1, <1>2
<1>5. ASSUME NEW j \in SlotIds, pg.slots[j].key # EMPTY, pg.slots[j].off = pg.slots[i].off  PROVE j = i
  BY <1>1, <1>2, <1>3, <1>5
<1> QED BY <1>1, <1>4, <1>5 DEF Owned

AllEntire(pg) == \A i \in Live(pg) : Entire(pg, i)

LEMMA KeptEntire ==
  ASSUME NEW pg, NEW q, KeptPage(pg, q), AllEntire(pg)  PROVE AllEntire(q)
<1>1. Live(q) = Live(pg) /\ \A i \in SlotIds : Entire(pg, i) => Entire(q, i)
  BY KeptLive
<1> QED BY <1>1 DEF AllEntire, Live

(* A watched value that is not where the write goes stays as it is.        *)
LEMMA WrittenWatched ==
  ASSUME NEW pg, PageInv(pg), NEW q, NEW pl, NEW content, WrittenPage(pg, q, pl, content), pl.head \in Nat,
         pg.head <= pl.head, NEW t, NEW k, NEW off, NEW len, pl.off # off,
         Holds(pg, k, off, len), Owned(pg, t, k, off)
  PROVE  Holds(q, k, off, len) /\ Owned(q, t, k, off)
<1>1. off \in 0 .. ArenaCap - 1 /\ pg.head \in 0 .. ArenaCap /\ ArenaCap \in Nat
  BY PageFields DEF PageInv, Owned
<1>2. q.arena[off] = pg.arena[off] /\ q.head = pl.head
  BY <1>1 DEF WrittenPage
<1>3. off < q.head
  BY <1>1, <1>2 DEF Owned
<1> QED BY <1>2, <1>3 DEF WrittenPage, Holds, Owned

(* A plan goes where a watched value is only to overwrite it in place.     *)
LEMMA PlanAvoids ==
  ASSUME NEW pg, PageInv(pg), NEW k \in Keys, NEW len \in Nat \ {0}, plan_insert(pg, k, len).fits,
         NEW t, NEW h \in Keys, NEW off, Owned(pg, t, h, off),
         ~(plan_insert(pg, k, len).inplace /\ plan_insert(pg, k, len).slot = t)
  PROVE  plan_insert(pg, k, len).off # off
<1> DEFINE pl == plan_insert(pg, k, len)
<1>1. \/ pl.off = pg.head
      \/ /\ pl.off = pg.slots[pl.slot].off /\ pg.slots[pl.slot].key # EMPTY
         /\ pg.slots[pl.slot].key \in Keys => pl.inplace
  BY PlanOffset
<1>2. pl.slot \in SlotIds
  BY PlanTypes
<1>3. pg.head \in 0 .. ArenaCap /\ off \in Nat /\ off < pg.head /\ ArenaCap \in Nat
  BY PageFields DEF PageInv, Owned
<1> HIDE DEF pl
<1>4. pl.slot \in SlotIds /\ pg.slots[pl.slot].key # EMPTY /\ pg.slots[pl.slot].off = off
        => pl.slot = t /\ pg.slots[pl.slot].key = h
  BY DEF Owned
<1>5. pl.off # off
  BY <1>1, <1>2, <1>3, <1>4 DEF pl
<1> QED BY <1>5 DEF pl

LEMMA PublishWatched ==
  ASSUME NEW pg, PageInv(pg), NEW pl, pl.slot \in SlotIds, NEW k, NEW n, NEW cls,
         NEW t, NEW h, NEW off, NEW len, pl.off # off, Holds(pg, h, off, len), Owned(pg, t, h, off)
  PROVE  LET q == publish_slot(pg, pl, k, n, cls)
         IN  Holds(q, h, off, len) /\ Owned(q, t, h, off)
<1> DEFINE q == publish_slot(pg, pl, k, n, cls)
<1>1. /\ q.head = pg.head /\ q.arena = pg.arena
      /\ \A i \in SlotIds \ {pl.slot} : q.slots[i] = pg.slots[i]
      /\ q.slots[pl.slot].off = pl.off
  BY PublishPoint DEF PageInv
<1> HIDE DEF q
<1>2. Holds(q, h, off, len) /\ Owned(q, t, h, off)
  BY <1>1 DEF Holds, Owned
<1> QED BY <1>2 DEF q

(* pop() marks a slot: its value_seq first, its key in a later step.       *)
LEMMA TombPoint ==
  ASSUME NEW pg \in PageType, NEW s \in SlotIds
  PROVE  LET q == [pg EXCEPT !.slots[s].key = TOMBSTONE]
         IN  /\ q.head = pg.head /\ q.arena = pg.arena /\ q.slots[s].key = TOMBSTONE
             /\ \A i \in SlotIds \ {s} : q.slots[i] = pg.slots[i]
             /\ q.slots[s].off = pg.slots[s].off /\ q.slots[s].seq = pg.slots[s].seq
<1>1. pg.slots \in [SlotIds -> Slot] /\ pg.slots[s] \in Slot
  BY PageFields
<1> DEFINE new == [pg.slots[s] EXCEPT !.key = TOMBSTONE]
           slots == [pg.slots EXCEPT ![s] = new]
           q == [pg EXCEPT !.slots[s].key = TOMBSTONE]
<1>2. q.slots = slots /\ q.head = pg.head /\ q.arena = pg.arena
  BY DEF PageType
<1>3. new.key = TOMBSTONE /\ new.off = pg.slots[s].off /\ new.seq = pg.slots[s].seq
  BY <1>1 DEF Slot
<1> HIDE DEF new, q
<1>4. \A i \in SlotIds : slots[i] = IF i = s THEN new ELSE pg.slots[i]
  BY <1>1
<1> HIDE DEF slots
<1> QED BY <1>2, <1>3, <1>4 DEF q

LEMMA TombWatched ==
  ASSUME NEW pg \in PageType, NEW s \in SlotIds, pg.slots[s].key # EMPTY, NEW t, NEW k, NEW off, NEW len,
         s # t, Holds(pg, k, off, len), Owned(pg, t, k, off)
  PROVE  LET q == [pg EXCEPT !.slots[s].key = TOMBSTONE]
         IN  Holds(q, k, off, len) /\ Owned(q, t, k, off)
<1> DEFINE q == [pg EXCEPT !.slots[s].key = TOMBSTONE]
<1>1. /\ q.head = pg.head /\ q.arena = pg.arena /\ \A i \in SlotIds \ {s} : q.slots[i] = pg.slots[i]
      /\ q.slots[s].off = pg.slots[s].off
  BY TombPoint
<1> HIDE DEF q
<1>2. pg.slots[s].off # off
  BY DEF Owned
<1>3. Holds(q, k, off, len) /\ Owned(q, t, k, off)
  BY <1>1, <1>2 DEF Holds, Owned
<1> QED BY <1>3 DEF q

LEMMA TombEntire ==
  ASSUME NEW pg \in PageType, NEW s \in SlotIds, AllEntire(pg)
  PROVE  AllEntire([pg EXCEPT !.slots[s].key = TOMBSTONE])
<1> DEFINE q == [pg EXCEPT !.slots[s].key = TOMBSTONE]
<1>1. /\ q.arena = pg.arena /\ \A i \in SlotIds \ {s} : q.slots[i] = pg.slots[i]
      /\ q.slots[s].key = TOMBSTONE
  BY TombPoint
<1> HIDE DEF q
<1>2. AllEntire(q)
  BY <1>1 DEF AllEntire, Live, Entire, Holds
<1> QED BY <1>2 DEF q

(* q is page pg with the value_seq of slot s moved on.                     *)
BumpedPage(pg, q, s) ==
  /\ q.arena = pg.arena /\ q.head = pg.head
  /\ \A i \in SlotIds : /\ q.slots[i].key = pg.slots[i].key /\ q.slots[i].off = pg.slots[i].off
                        /\ q.slots[i].len = pg.slots[i].len
                        /\ q.slots[i].seq = IF i = s THEN Inc(pg.slots[i].seq) ELSE pg.slots[i].seq

LEMMA PopBumps ==
  ASSUME NEW pg \in PageType, NEW s \in SlotIds
  PROVE  BumpedPage(pg, [pg EXCEPT !.slots[s].seq = Inc(@), !.count = IF @ = 0 THEN 0 ELSE @ - 1], s)
<1>1. pg.slots \in [SlotIds -> Slot] /\ pg.slots[s] \in Slot
  BY PageFields
<1> DEFINE new == [pg.slots[s] EXCEPT !.seq = Inc(@)]
           slots == [pg.slots EXCEPT ![s] = new]
           q == [pg EXCEPT !.slots[s].seq = Inc(@), !.count = IF @ = 0 THEN 0 ELSE @ - 1]
<1>2. q.slots = slots /\ q.head = pg.head /\ q.arena = pg.arena
  BY DEF PageType
<1>3. /\ new.key = pg.slots[s].key /\ new.off = pg.slots[s].off /\ new.len = pg.slots[s].len
      /\ new.seq = Inc(pg.slots[s].seq)
  BY <1>1 DEF Slot
<1> HIDE DEF new, q
<1>4. \A i \in SlotIds : slots[i] = IF i = s THEN new ELSE pg.slots[i]
  BY <1>1
<1> HIDE DEF slots
<1>5. BumpedPage(pg, q, s)
  BY <1>2, <1>3, <1>4 DEF BumpedPage
<1> QED BY <1>5 DEF q

LEMMA BumpedWatched ==
  ASSUME NEW pg, NEW q, NEW s, BumpedPage(pg, q, s), NEW t, NEW k, NEW off, NEW len
  PROVE  /\ Holds(pg, k, off, len) => Holds(q, k, off, len)
         /\ Owned(pg, t, k, off) => Owned(q, t, k, off)
BY DEF BumpedPage, Holds, Owned

LEMMA BumpedEntire ==
  ASSUME NEW pg, NEW q, NEW s, BumpedPage(pg, q, s), AllEntire(pg)  PROVE AllEntire(q)
BY DEF BumpedPage, AllEntire, Live, Entire, Holds

(* Entries stay entire, but for the one that is being written.             *)
EntireBut(pg, s) == \A i \in Live(pg) \ {s} : Entire(pg, i)

Copied(pg, q, pl, content) ==
  /\ \A a \in 0 .. ArenaCap - 1 : q.arena[a] = IF a = pl.off THEN content ELSE pg.arena[a]
  /\ \A i \in SlotIds : /\ q.slots[i].key = pg.slots[i].key /\ q.slots[i].off = pg.slots[i].off
                        /\ q.slots[i].len = pg.slots[i].len

LEMMA CopiedEntire ==
  ASSUME NEW pg, PageInv(pg), NEW q, PageInv(q), NEW pl, NEW content, Copied(pg, q, pl, content),
         NEW k, NEW len \in Nat \ {0}, PlanFits(q, pl, k, len), EntireBut(pg, pl.slot)
  PROVE  EntireBut(q, pl.slot)
<1> SUFFICES ASSUME NEW i \in Live(q) \ {pl.slot}  PROVE Entire(q, i)
  BY DEF EntireBut
<1>1. i \in SlotIds /\ q.slots[i].key # EMPTY
  BY DEF Live
<1>2. /\ q.slots[i].key = pg.slots[i].key /\ q.slots[i].off = pg.slots[i].off
      /\ q.slots[i].len = pg.slots[i].len
  BY <1>1 DEF Copied
<1>3. i \in Live(pg) \ {pl.slot}
  BY <1>2 DEF Live
<1>4. Entire(pg, i)
  BY <1>3 DEF EntireBut
<1>5. q.slots[i].off \in 0 .. ArenaCap - 1
  BY <1>1, EntryOffset
<1>6. q.slots[i].off # pl.off
  <2>1. /\ q.slots[i].off \in Nat /\ q.slots[i].len \in Nat \ {0} /\ q.slots[i].cap \in Nat
        /\ q.slots[i].len <= q.slots[i].cap
    BY <1>1, PageFields DEF PageInv, ArenaDisjoint
  <2>2. pl.off \in Nat /\ pl.cap \in Nat /\ len <= pl.cap /\ Apart(q.slots[i], pl)
    BY <1>1 DEF PlanFits
  <2> QED BY <2>1, <2>2 DEF Apart
<1>7. q.arena[q.slots[i].off] = pg.arena[q.slots[i].off]
  BY <1>5, <1>6 DEF Copied
<1> QED BY <1>2, <1>4, <1>7 DEF Entire, Holds

LEMMA PublishEntire ==
  ASSUME NEW pg \in PageType, NEW pl, pl.slot \in SlotIds, NEW k, NEW len, NEW cls,
         EntireBut(pg, pl.slot), pg.arena[pl.off] \in ValuesFor[k], Size[pg.arena[pl.off]] = len
  PROVE  AllEntire(publish_slot(pg, pl, k, len, cls))
<1> DEFINE q == publish_slot(pg, pl, k, len, cls)
<1>1. /\ q.arena = pg.arena /\ \A i \in SlotIds \ {pl.slot} : q.slots[i] = pg.slots[i]
      /\ q.slots[pl.slot].key = k /\ q.slots[pl.slot].off = pl.off /\ q.slots[pl.slot].len = len
  BY PublishPoint
<1> HIDE DEF q
<1>2. Entire(q, pl.slot)
  BY <1>1 DEF Entire, Holds
<1>3. ASSUME NEW i \in Live(q), i # pl.slot  PROVE Entire(q, i)
  <2>1. i \in Live(pg) \ {pl.slot} /\ q.slots[i] = pg.slots[i]
    BY <1>1, <1>3 DEF Live
  <2> QED BY <1>1, <2>1 DEF EntireBut, Entire, Holds
<1>4. AllEntire(q)
  BY <1>2, <1>3 DEF AllEntire
<1> QED BY <1>4 DEF q

(* commit_rotation() puts entire survivors into a page.                    *)
LEMMA InsertEntire ==
  ASSUME NEW pg, PageInv(pg), AllEntire(pg), NEW s \in EntireSurvivor
  PROVE  AllEntire(do_insert(pg, s))
<1> DEFINE pl == plan_insert(pg, s.key, s.len)
           bumped == IF pl.inplace THEN [pg EXCEPT !.slots[pl.slot].seq = @ + 2] ELSE pg
           c == copy_value(bumped, pl, s.content)
           q == publish_slot(c, pl, s.key, s.len, s.cls)
<1>1. do_insert(pg, s) = IF pl.fits THEN q ELSE pg
  BY DEF do_insert
<1>2. /\ s.key \in Keys /\ s.len \in Nat \ {0} /\ s.cls \in SlotClasses /\ s.content \in Contents
      /\ s.content \in ValuesFor[s.key] /\ Size[s.content] = s.len
  BY DEF Survivor, EntireSurvivor
<1>3. CASE pl.fits
  <2>1. /\ pg \in PageType /\ pl.slot \in SlotIds /\ pl.inplace \in BOOLEAN /\ pl.head \in 0 .. ArenaCap
        /\ pl.off \in 0 .. ArenaCap - 1
    BY <1>2, <1>3, PlanTypes DEF PageInv
  <2> HIDE DEF pl
  <2>2. pg.slots \in [SlotIds -> Slot] /\ pg.slots[pl.slot] \in Slot /\ pg.arena \in [0 .. ArenaCap - 1 -> Contents]
    BY <2>1, PageFields
  <2>3. pg.slots[pl.slot].seq + 2 \in Nat
    BY <2>2 DEF Slot
  <2>4. SameShape(pg, bumped) /\ bumped.count = pg.count /\ bumped.arena = pg.arena
    <3>1. CASE pl.inplace
      <4> DEFINE m == pg.slots[pl.slot].seq + 2
                 r == [pg EXCEPT !.slots[pl.slot].seq = m]
      <4> HIDE DEF m
      <4>1. SameShape(pg, r) /\ r.count = pg.count
        BY <2>1, <2>3, SeqBump DEF m
      <4>2. r.arena = pg.arena
        BY <2>1 DEF PageType
      <4>3. bumped = r
        BY <3>1 DEF m
      <4> QED BY <4>1, <4>2, <4>3
    <3>2. CASE ~pl.inplace
      BY <3>2, SameShapeSelf
    <3> QED BY <3>1, <3>2
  <2> HIDE DEF bumped
  <2>5. PageInv(bumped) /\ SameTable(pg, bumped)
    BY <2>4 DEF SameShape
  <2>6. PageInv(c) /\ PlanFits(c, pl, s.key, s.len)
    BY <1>2, <1>3, <2>4, CopyFits DEF pl
  <2>7. c.arena = [pg.arena EXCEPT ![pl.off] = s.content] /\ c.slots = bumped.slots
    BY <2>4, <2>5 DEF copy_value, PageInv, PageType
  <2> HIDE DEF c
  <2>8. Copied(pg, c, pl, s.content)
    BY <2>2, <2>5, <2>7 DEF Copied, SameTable
  <2>9. EntireBut(pg, pl.slot)
    BY DEF AllEntire, EntireBut
  <2>10. EntireBut(c, pl.slot)
    BY <1>2, <2>6, <2>8, <2>9, CopiedEntire
  <2>11. c.arena[pl.off] = s.content
    BY <2>1, <2>2, <2>7
  <2>12. AllEntire(q)
    BY <1>2, <2>1, <2>6, <2>10, <2>11, PublishEntire DEF PageInv
  <2> QED BY <1>1, <1>3, <2>12
<1>4. CASE ~pl.fits
  BY <1>1, <1>4
<1> QED BY <1>3, <1>4

LEMMA RefillEntire ==
  ASSUME NEW pg, PageInv(pg), AllEntire(pg), NEW f \in FilterType, NEW survivors \in Seq(EntireSurvivor)
  PROVE  AllEntire(Refill(pg, f, survivors).pg)
<1> DEFINE U == {q \in PageType : PageInv(q) /\ AllEntire(q)}
<1>1. pg \in U
  BY DEF PageInv
<1>2. ASSUME NEW x \in U, NEW s \in EntireSurvivor  PROVE do_insert(x, s) \in U
  <2>1. s \in Survivor
    BY DEF EntireSurvivor
  <2>2. PageInv(do_insert(x, s)) /\ AllEntire(do_insert(x, s))
    BY <2>1, InsertKeeps, InsertEntire
  <2> QED BY <2>2 DEF PageInv
<1>3. \A s \in EntireSurvivor : s.key \in Keys
  BY DEF EntireSurvivor, Survivor
<1>4. \A x \in U : AllEntire(x)
  OBVIOUS
<1> HIDE DEF U
<1>5. Refill(pg, f, survivors).pg \in U
  BY <1>1, <1>2, <1>3, RefillIn
<1> QED BY <1>4, <1>5

LEMMA SurvivorsEntire ==
  ASSUME NEW pg, PageInv(pg), AllEntire(pg), NEW from \in SlotIds, NEW to \in from .. SlotCount
  PROVE  Survivors(pg, from, to) \in Seq(EntireSurvivor)
<1>1. ASSUME NEW i \in Live(pg)  PROVE EntryOf(pg, i) \in EntireSurvivor
  <2>1. EntryOf(pg, i) \in Survivor /\ Entire(pg, i)
    BY EntrySurvives DEF AllEntire
  <2> QED BY <2>1 DEF EntireSurvivor, EntryOf, Entire, Holds
<1> QED BY <1>1, SurvivorsIn

-----------------------------------------------------------------------------
(* What one step does to what somebody is reading.  As long as the         *)
(* generation of a page is even and stays, a step moves a value_seq by one *)
(* or not at all, leaves a value that is watched under an unchanged        *)
(* value_seq, and does not write a page that is away from the writers.     *)

SeqStep(g) ==
  \A t \in SlotIds : \/ page'[g].slots[t].seq = page[g].slots[t].seq
                     \/ page'[g].slots[t].seq = Inc(page[g].slots[t].seq)
Watched(pg, t, k, off, len) == Holds(pg, k, off, len) /\ Owned(pg, t, k, off)
WatchStep(g) ==
  \A t \in SlotIds, k \in Keys : \A off, len :
    Watched(page[g], t, k, off, len) /\ Undisturbed(g, t, off) /\ page'[g].slots[t].seq = page[g].slots[t].seq
      => Watched(page'[g], t, k, off, len) /\ Undisturbed(g, t, off)'
AwayStep(g) == Away(g) => Away(g)' /\ KeptPage(page[g], page'[g])
Gentle ==
  \A g \in Pages :
    /\ gen'[g] = gen[g] \/ gen'[g] = Inc(gen[g])
    /\ ~Odd(gen[g]) /\ gen'[g] = gen[g] => SeqStep(g) /\ WatchStep(g) /\ AwayStep(g)

LEMMA KeptGentle ==
  ASSUME NEW g, KeptPage(page[g], page'[g]),
         Stage' \in {"copy", "publish"} /\ g = active_idx' =>
           Stage \in {"copy", "publish"} /\ g = active_idx /\ Plan'.off = Plan.off,
         Stage' = "pop_tomb" /\ g = Cursor' =>
           Stage = "pop_tomb" /\ g = Cursor /\ loc'[lock'].slot = loc[lock].slot
  PROVE  SeqStep(g) /\ WatchStep(g)
<1>1. SeqStep(g)
  BY DEF SeqStep, KeptPage
<1>2. ASSUME NEW t, NEW off, Undisturbed(g, t, off)  PROVE Undisturbed(g, t, off)'
  BY <1>2 DEF Undisturbed
<1>3. WatchStep(g)
  BY <1>2, KeptWatched DEF WatchStep, Watched
<1> QED BY <1>1, <1>3

(* The holder of the lock is where it was.                                 *)
SameWriter ==
  /\ lock' = lock /\ counter' = counter /\ gen' = gen
  /\ lock \in Procs => /\ pc'[lock] = pc[lock] /\ loc'[lock].plan = loc[lock].plan
                       /\ loc'[lock].i = loc[lock].i /\ loc'[lock].slot = loc[lock].slot
                       /\ loc'[lock].val = loc[lock].val

LEMMA SameWriterStage ==
  ASSUME SameWriter
  PROVE  /\ Stage' = Stage /\ Cursor' = Cursor /\ active_idx' = active_idx /\ retiring_idx' = retiring_idx
         /\ Stage # "none" => Plan' = Plan /\ loc'[lock'].slot = loc[lock].slot /\ loc'[lock'].val = loc[lock].val
BY DEF SameWriter, Stage, Cursor, active_idx, retiring_idx, Plan

LEMMA SameWriterGentle ==
  ASSUME SameWriter, \A g \in Pages : KeptPage(page[g], page'[g]), WholeInv, active_idx \in Pages
  PROVE  Gentle /\ WholeInv'
<1>1. /\ Stage' = Stage /\ Cursor' = Cursor /\ active_idx' = active_idx /\ retiring_idx' = retiring_idx
      /\ Stage # "none" => Plan' = Plan /\ loc'[lock'].slot = loc[lock].slot /\ loc'[lock'].val = loc[lock].val
  BY SameWriterStage
<1>2. ASSUME NEW g \in Pages  PROVE SeqStep(g) /\ WatchStep(g)
  BY <1>1, KeptGentle
<1>3. ASSUME NEW g \in Pages  PROVE AwayStep(g)
  BY <1>1 DEF AwayStep, Away
<1>4. Gentle
  BY <1>2, <1>3 DEF Gentle, SameWriter
<1>5. ASSUME NEW g \in Pages, NEW i \in Live(page'[g])
      PROVE  \/ Entire(page'[g], i)
             \/ Stage' \in {"copy", "publish"} /\ g = active_idx' /\ i = Plan'.slot
  <2>1. i \in Live(page[g]) /\ i \in SlotIds /\ (Entire(page[g], i) => Entire(page'[g], i))
    BY KeptLive DEF Live
  <2> QED BY <1>1, <2>1 DEF WholeInv
<1>6. Stage' = "publish" => page'[active_idx'].arena[Plan'.off] = loc'[lock'].val
  BY <1>1 DEF WholeInv, KeptPage
<1>7. WholeInv'
  BY <1>5, <1>6 DEF WholeInv
<1> QED BY <1>4, <1>7

LEMMA VisKeeps ==
  ASSUME NEW pg \in PageType, NEW s \in SlotIds  PROVE KeptPage(pg, [pg EXCEPT !.slots[s].vis = TRUE])
<1>1. pg.slots \in [SlotIds -> Slot] /\ pg.slots[s] \in Slot
  BY PageFields
<1> DEFINE new == [pg.slots[s] EXCEPT !.vis = TRUE]
           slots == [pg.slots EXCEPT ![s] = new]
           q == [pg EXCEPT !.slots[s].vis = TRUE]
<1>2. q.slots = slots /\ q.head = pg.head /\ q.arena = pg.arena
  BY DEF PageType
<1>3. /\ new.key = pg.slots[s].key /\ new.off = pg.slots[s].off /\ new.len = pg.slots[s].len
      /\ new.seq = pg.slots[s].seq
  BY <1>1, Zenon DEF Slot
<1> HIDE DEF new, q
<1>4. \A i \in SlotIds : slots[i] = IF i = s THEN new ELSE pg.slots[i]
  BY <1>1
<1> HIDE DEF slots
<1>5. KeptPage(pg, q)
  BY <1>2, <1>3, <1>4 DEF KeptPage
<1> QED BY <1>5 DEF q

LEMMA ReadKeepsPages ==
  ASSUME Shape, TableInv, NEW p \in Procs, ReadStep(p)  PROVE \A g \in Pages : KeptPage(page[g], page'[g])
<1>1. CASE page' = page
  BY <1>1, KeptSelf
<1>2. CASE SealedProbe(p) /\ page' # page
  <2> DEFINE h == SealedPage(p)
             s == do_probe(page[h], loc[p].key)
             q == [page[h] EXCEPT !.slots[s].vis = TRUE]
  <2>1. s # NoSlot /\ page' = [page EXCEPT ![h] = q] /\ pc[p] = "sealed_probe"
    BY <1>2 DEF SealedProbe, shared, On
  <2>2. loc[p].ai \in Pages /\ loc[p].i \in 1 .. NPages - 1 /\ loc[p].key \in Keys /\ NPages \in Nat
    BY <2>1, CacheAssumption DEF TableInv, LocalInv, Keyless
  <2>3. loc[p].i \in 1 .. NPages
    BY <2>2
  <2>4. h \in Pages
    BY <2>2, <2>3, SealedPageFacts
  <2>5. s \in SlotIds
    BY <2>1, <2>2, ProbeFacts
  <2>6. page[h] \in PageType /\ DOMAIN page = Pages
    BY <2>4 DEF TableInv, PageInv
  <2> HIDE DEF s, h
  <2>7. KeptPage(page[h], q)
    BY <2>5, <2>6, VisKeeps
  <2> HIDE DEF q
  <2> QED BY <2>1, <2>4, <2>6, <2>7, KeptSelf
<1>3. page' = page \/ SealedProbe(p)
  <2>1. SealedProbe(p) \/ ~SealedProbe(p)
    OBVIOUS
  <2> QED BY <2>1 DEF ReadStep, Lookup, FilterCheck, LookupLockTimeout, ProbeActive, ReadActive, VerifyActive,
             SealedGeneration, SealedRead, SealedVerify, SetLockTimeout, CheckFull, ScanStart, ChunkStart,
             ChunkRead, Return, shared
<1> QED BY <1>1, <1>2, <1>3

LEMMA ReadIsGentle ==
  ASSUME Holder, TableInv, WholeInv, NEW p \in Procs, ReadStep(p)  PROVE SameWriter /\ Gentle /\ WholeInv'
<1>1. Reads(p)
  BY ReadStepReads DEF Holder
<1>2. lock' = lock /\ counter' = counter /\ gen' = gen
  BY <1>1 DEF Reads, CanLock, Holder
<1>3. PICK to : Moves(p, to)
  BY <1>1 DEF Reads
<1>4. ASSUME lock \in Procs  PROVE lock # p
  BY <1>1 DEF Reads, Holder, WriterHoldsLock
<1>5. SameWriter
  BY <1>2, <1>3, <1>4 DEF SameWriter, Moves, Holder, Shape
<1>6. active_idx \in Pages
  BY IndexFacts DEF TableInv, RestType
<1>7. \A g \in Pages : KeptPage(page[g], page'[g])
  BY ReadKeepsPages DEF Holder
<1> QED BY <1>5, <1>6, <1>7, SameWriterGentle

LEMMA StartIsGentle ==
  ASSUME Holder, TableInv, WholeInv, NEW p \in Procs, NEW op, NEW k, NEW v, Start(p, op, k, v)
  PROVE  SameWriter /\ Gentle /\ WholeInv'
<1> DEFINE kv == IF op = "set" THEN {<<k, v>>} ELSE {}
           told(l) == [l EXCEPT !.old = @ \ kv, !.fresh = IF l.op = "get" /\ l.key = k THEN @ \cup kv ELSE @]
<1>1. /\ lock' = lock /\ counter' = counter /\ gen' = gen /\ page' = page /\ pc[p] = "idle"
      /\ \A q \in Procs : q # p => pc'[q] = pc[q] /\ loc'[q] = told(loc[q])
  BY DEF Start, shared, Holder, Shape
<1>2. ASSUME lock \in Procs  PROVE lock # p
  BY <1>1, <1>2 DEF Holder, WriterHoldsLock, Writing
<1>3. ASSUME NEW q \in Procs
      PROVE  LET l == told(loc[q]) IN l.plan = loc[q].plan /\ l.i = loc[q].i /\ l.slot = loc[q].slot /\ l.val = loc[q].val
  BY DEF Holder, Shape, Quiet
<1> HIDE DEF told
<1>4. SameWriter
  BY <1>1, <1>2, <1>3 DEF SameWriter
<1>5. active_idx \in Pages
  BY IndexFacts DEF TableInv, RestType
<1>6. \A g \in Pages : KeptPage(page[g], page'[g])
  BY <1>1, KeptSelf
<1> QED BY <1>4, <1>5, <1>6, SameWriterGentle

(* A step of the writer that leaves pages with an even generation as they  *)
(* are.                                                                    *)
Modest ==
  /\ \A g \in Pages : gen'[g] = gen[g] \/ gen'[g] = Inc(gen[g])
  /\ \A g \in Pages : Odd(gen[g]) \/ KeptPage(page[g], page'[g])
  /\ \A g \in Pages : AllEntire(page'[g])
  /\ Stage' \notin {"copy", "publish"}
  /\ Stage' = "pop_tomb" => gen'[Cursor'] # gen[Cursor']
  /\ \A g \in Pages : ~Odd(gen[g]) /\ gen'[g] = gen[g] /\ Away(g) => Away(g)'

LEMMA ModestGentle == ASSUME Modest  PROVE Gentle /\ WholeInv'
<1>1. ASSUME NEW g \in Pages, ~Odd(gen[g]), gen'[g] = gen[g]
      PROVE  SeqStep(g) /\ WatchStep(g) /\ AwayStep(g)
  <2>1. KeptPage(page[g], page'[g]) /\ (Away(g) => Away(g)') /\ Stage' \notin {"copy", "publish"}
    BY <1>1 DEF Modest
  <2>2. Stage' = "pop_tomb" => g # Cursor'
    BY <1>1 DEF Modest
  <2> QED BY <2>1, <2>2, KeptGentle DEF AwayStep
<1>2. Gentle
  BY <1>1 DEF Modest, Gentle
<1>3. WholeInv'
  BY DEF Modest, WholeInv, AllEntire
<1> QED BY <1>2, <1>3

LEMMA RestEntire ==
  ASSUME WholeInv, Stage \notin {"copy", "publish"}  PROVE \A g \in Pages : AllEntire(page[g])
BY DEF WholeInv, AllEntire

LEMMA HeldGoto ==
  ASSUME Holder, NEW p \in Procs, NEW to, NEW l, Goto(p, to, l), lock' = p
  PROVE  /\ Stage' = to /\ Cursor' = l.i /\ loc'[lock'] = l /\ Plan' = l.plan
BY DEF Goto, Holder, Shape, Stage, Cursor, Plan

Invalidating == {"inv_odd", "inv_zero", "inv_even", "inv_reset"}

LEMMA AwayStays ==
  ASSUME active_idx' = active_idx, Stage' \notin Invalidating \cup {"rot_advance"}, NEW g, Away(g)
  PROVE  Away(g)'
BY DEF Away, Invalidating

(* The lock is taken, or given back, and nothing else changes.             *)
LEMMA LockModest ==
  ASSUME WholeInv, page' = page, gen' = gen, counter' = counter, Stage \notin {"copy", "publish"},
         \/ Stage' \in {"none", "rot_odd", "place", "pop_page", "fingerprint"}
         \/ Stage' = "inv_odd" /\ Cursor' = 0
  PROVE  Modest
<1>1. \A g \in Pages : AllEntire(page'[g]) /\ KeptPage(page[g], page'[g])
  BY RestEntire, KeptSelf
<1>2. active_idx' = active_idx
  BY DEF active_idx
<1>3. ASSUME NEW g \in Pages, Away(g)  PROVE Away(g)'
  <2>1. CASE Stage' = "inv_odd" /\ Cursor' = 0
    BY <1>2, <1>3, <2>1 DEF Away
  <2>2. CASE Stage' \in {"none", "rot_odd", "place", "pop_page", "fingerprint"}
    BY <1>2, <1>3, <2>2, AwayStays DEF Invalidating
  <2> QED BY <2>1, <2>2
<1> QED BY <1>1, <1>3 DEF Modest

LEMMA LockIsModest ==
  ASSUME Holder, TableInv, WholeInv, NEW p \in Procs,
         \/ InsertLock(p) \/ PopLock(p) \/ InvalidateLock(p) \/ PlaceFails(p) \/ InsertFingerprint(p)
  PROVE  Modest
<1>1. CASE InsertLock(p)
  <2>1. \E l, to : Goto(p, to, l) /\ to \in {"rot_odd", "place"}
    BY <1>1 DEF InsertLock
  <2>2. page' = page /\ gen' = gen /\ counter' = counter /\ lock' = p /\ CanLock
    BY <1>1 DEF InsertLock, ring
  <2>3. Stage = "none" /\ Stage' \in {"rot_odd", "place"}
    BY <2>1, <2>2, Free, HeldGoto
  <2> QED BY <2>2, <2>3, LockModest
<1>2. CASE PopLock(p)
  <2>1. \E l : Goto(p, "pop_page", l)
    BY <1>2 DEF PopLock
  <2>2. page' = page /\ gen' = gen /\ counter' = counter /\ lock' = p /\ CanLock
    BY <1>2 DEF PopLock, ring
  <2>3. Stage = "none" /\ Stage' = "pop_page"
    BY <2>1, <2>2, Free, HeldGoto
  <2> QED BY <2>2, <2>3, LockModest
<1>3. CASE InvalidateLock(p)
  <2>1. Goto(p, "inv_odd", loc[p]) /\ pc[p] = "inv_lock"
    BY <1>3 DEF InvalidateLock, On
  <2>2. page' = page /\ gen' = gen /\ counter' = counter /\ lock' = p /\ CanLock
    BY <1>3 DEF InvalidateLock, ring
  <2>3. loc[p].i = 0
    BY <2>1 DEF TableInv, LocalInv
  <2>4. Stage = "none" /\ Stage' = "inv_odd" /\ Cursor' = 0
    BY <2>1, <2>2, <2>3, Free, HeldGoto
  <2> QED BY <2>2, <2>4, LockModest
<1>4. CASE PlaceFails(p) \/ InsertFingerprint(p)
  <2>1. page' = page /\ gen' = gen /\ counter' = counter /\ lock' = NoProc /\ pc[p] \in {"place", "fingerprint"}
    BY <1>4 DEF PlaceFails, InsertFingerprint, ring, On
  <2>2. Stage \in {"place", "fingerprint"} /\ Stage' = "none"
    BY <2>1, HeldBy, FreeNext DEF Writing
  <2> QED BY <2>1, <2>2, LockModest
<1> QED BY <1>1, <1>2, <1>3, <1>4

LEMMA BumpModest ==
  ASSUME WholeInv, RingType, NEW h \in Pages, gen' = [gen EXCEPT ![h] = Inc(@)],
         \A g \in Pages : KeptPage(page[g], page'[g]), Stage \notin {"copy", "publish"},
         Stage' \notin {"copy", "publish"}, Stage' = "pop_tomb" => Cursor' = h,
         \A g \in Pages \ {h} : Away(g) => Away(g)'
  PROVE  Modest
<1>1. gen \in [Pages -> 0 .. Wrap - 1] /\ gen[h] \in Nat
  BY WrapFacts DEF RingType
<1>2. gen'[h] = Inc(gen[h]) /\ \A g \in Pages \ {h} : gen'[g] = gen[g]
  BY <1>1
<1>3. gen'[h] # gen[h]
  BY <1>1, <1>2, IncIs
<1>4. \A g \in Pages : AllEntire(page'[g])
  BY RestEntire, KeptEntire
<1> QED BY <1>2, <1>3, <1>4 DEF Modest

LEMMA ClearKept ==
  ASSUME NEW pg \in PageType
  PROVE  KeptPage(pg, [pg EXCEPT !.slots = [i \in SlotIds |-> IF @[i].key # EMPTY
                                              THEN [@[i] EXCEPT !.vis = FALSE] ELSE @[i]]])
<1> DEFINE t == [i \in SlotIds |-> IF pg.slots[i].key # EMPTY
                                   THEN [pg.slots[i] EXCEPT !.vis = FALSE] ELSE pg.slots[i]]
           q == [pg EXCEPT !.slots = t]
<1>1. q.head = pg.head /\ q.arena = pg.arena /\ q.slots = t
  BY DEF PageType
<1>2. ASSUME NEW i \in SlotIds
      PROVE  /\ t[i].key = pg.slots[i].key /\ t[i].off = pg.slots[i].off
             /\ t[i].len = pg.slots[i].len /\ t[i].seq = pg.slots[i].seq
  <2>1. pg.slots[i] \in Slot
    BY PageFields
  <2>2. CASE pg.slots[i].key # EMPTY
    <3>1. t[i] = [pg.slots[i] EXCEPT !.vis = FALSE]
      BY <2>2
    <3> HIDE DEF t
    <3> QED BY <2>1, <3>1, Zenon DEF Slot
  <2>3. CASE pg.slots[i].key = EMPTY
    BY <2>1, <2>3
  <2> QED BY <2>2, <2>3
<1> HIDE DEF t, q
<1>3. KeptPage(pg, q)
  BY <1>1, <1>2 DEF KeptPage
<1> QED BY <1>3 DEF q, t

LEMMA RotateBumps ==
  ASSUME Holder, RingInv, TableInv, WholeInv, NEW p \in Procs, RotateOdd(p) \/ RotateEven(p)
  PROVE  Modest
<1>r. RingType /\ active_idx \in Pages /\ retiring_idx \in Pages /\ DOMAIN page = Pages
      /\ \A g \in Pages : page[g] \in PageType
  BY RingPages DEF RingInv, TableInv, PageInv
<1>1. CASE RotateOdd(p)
  <2>1. /\ pc[p] = "rot_odd" /\ Goto(p, "rot_zero", loc[p]) /\ lock' = lock /\ counter' = counter
        /\ gen' = [gen EXCEPT ![retiring_idx] = Inc(@)]
    BY <1>1 DEF RotateOdd, On
  <2>2. lock = p /\ Stage = "rot_odd"
    BY <2>1, HeldBy DEF Writing
  <2>3. Stage' = "rot_zero"
    BY <2>1, <2>2, HeldGoto
  <2>4. active_idx' = active_idx
    BY <2>1 DEF active_idx
  <2>5. ASSUME NEW g \in Pages  PROVE KeptPage(page[g], page'[g])
    <3> DEFINE a == active_idx
               pg == page[a]
               q == [pg EXCEPT !.slots = [i \in SlotIds |-> IF @[i].key # EMPTY
                                            THEN [@[i] EXCEPT !.vis = FALSE] ELSE @[i]]]
    <3>1. page' = [page EXCEPT ![a] = q]
      BY <1>1 DEF RotateOdd
    <3> HIDE DEF a
    <3>2. pg \in PageType /\ a \in Pages
      BY <1>r DEF a
    <3>3. KeptPage(pg, q)
      <4> HIDE DEF pg
      <4> QED BY <3>2, ClearKept
    <3> HIDE DEF q
    <3> QED BY <1>r, <3>1, <3>2, <3>3, KeptSelf
  <2>6. \A g \in Pages : Away(g) => Away(g)'
    BY <2>3, <2>4, AwayStays DEF Invalidating
  <2> QED BY <1>r, <2>1, <2>2, <2>3, <2>5, <2>6, BumpModest
<1>2. CASE RotateEven(p)
  <2>1. /\ pc[p] = "rot_even" /\ Goto(p, "rot_advance", loc[p]) /\ lock' = lock /\ counter' = counter
        /\ gen' = [gen EXCEPT ![retiring_idx] = Inc(@)] /\ page' = page
    BY <1>2 DEF RotateEven, On
  <2>2. lock = p /\ Stage = "rot_even"
    BY <2>1, HeldBy DEF Writing
  <2>3. Stage' = "rot_advance"
    BY <2>1, <2>2, HeldGoto
  <2>4. active_idx' = active_idx /\ retiring_idx' = retiring_idx
    BY <2>1 DEF active_idx, retiring_idx
  <2>5. \A g \in Pages \ {retiring_idx} : Away(g) => Away(g)'
    BY <2>3, <2>4 DEF Away
  <2>6. \A g \in Pages : KeptPage(page[g], page'[g])
    BY <2>1, KeptSelf
  <2> QED BY <1>r, <2>1, <2>2, <2>3, <2>5, <2>6, BumpModest
<1> QED BY <1>1, <1>2

LEMMA RemovalBumps ==
  ASSUME Holder, RingInv, TableInv, WholeInv, NEW p \in Procs, PopEven(p) \/ InvalidateOdd(p) \/ InvalidateEven(p)
  PROVE  Modest
<1> DEFINE h == loc[p].i
<1>1. /\ pc[p] \in {"pop_even", "inv_odd", "inv_even"} /\ lock' = lock /\ counter' = counter /\ page' = page
      /\ gen' = [gen EXCEPT ![h] = Inc(@)]
  BY DEF PopEven, InvalidateOdd, InvalidateEven, On
<1>2. lock = p /\ Stage = pc[p] /\ Cursor = h
  BY <1>1, HeldBy DEF Writing
<1>3. h \in Pages /\ RingType
  BY <1>1 DEF RingInv, CursorInv
<1>4. active_idx' = active_idx /\ \A g \in Pages : KeptPage(page[g], page'[g])
  BY <1>1, KeptSelf DEF active_idx
<1>5. CASE PopEven(p)
  <2>1. \E l : Goto(p, "pop_page", l)
    BY <1>5 DEF PopEven
  <2>2. Stage' = "pop_page" /\ Stage = "pop_even"
    BY <1>1, <1>2, <1>5, <2>1, HeldGoto DEF PopEven, On
  <2>3. \A g \in Pages : Away(g) => Away(g)'
    BY <1>4, <2>2, AwayStays DEF Invalidating
  <2> QED BY <1>1, <1>2, <1>3, <1>4, <2>2, <2>3, BumpModest
<1>6. CASE InvalidateOdd(p)
  <2>1. Goto(p, "inv_zero", loc[p]) /\ pc[p] = "inv_odd"
    BY <1>6 DEF InvalidateOdd, On
  <2>2. Stage' = "inv_zero" /\ Stage = "inv_odd"
    BY <1>1, <1>2, <2>1, HeldGoto
  <2>3. \A g \in Pages \ {h} : Away(g) => Away(g)'
    BY <1>2, <1>4, <2>2 DEF Away
  <2> QED BY <1>1, <1>2, <1>3, <1>4, <2>2, <2>3, BumpModest
<1>7. CASE InvalidateEven(p)
  <2>1. pc[p] = "inv_even" /\ \E l, to : Goto(p, to, l) /\ to \in {"inv_odd", "inv_reset"}
    BY <1>7 DEF InvalidateEven, On
  <2>2. Stage' \in {"inv_odd", "inv_reset"} /\ Stage = "inv_even"
    BY <1>1, <1>2, <2>1, HeldGoto
  <2>3. \A g \in Pages \ {h} : Away(g) => Away(g)'
    BY <1>4, <2>2 DEF Away
  <2> QED BY <1>1, <1>2, <1>3, <1>4, <2>2, <2>3, BumpModest
<1> QED BY <1>5, <1>6, <1>7

(* A page is rewritten only under an odd generation.                       *)
LEMMA RewriteModest ==
  ASSUME TableInv, WholeInv, NEW h \in Pages, NEW q, page' = [page EXCEPT ![h] = q], AllEntire(q),
         Odd(gen[h]), gen' = gen, Stage \notin {"copy", "publish"},
         Stage' \notin {"copy", "publish", "pop_tomb"}, \A g \in Pages : Away(g) => Away(g)'
  PROVE  Modest
<1>1. page'[h] = q /\ \A g \in Pages \ {h} : page'[g] = page[g]
  BY DEF TableInv
<1>2. \A g \in Pages : AllEntire(page'[g])
  BY <1>1, RestEntire
<1>3. \A g \in Pages : Odd(gen[g]) \/ KeptPage(page[g], page'[g])
  BY <1>1, KeptSelf
<1> QED BY <1>2, <1>3 DEF Modest

LEMMA BlankEntire == AllEntire(BlankPage)
BY BlankKeeps DEF AllEntire

LEMMA RewritesModest ==
  ASSUME Holder, RingInv, TableInv, WholeInv, SurvInv, NEW p \in Procs,
         RotateZero(p) \/ RotateFill(p) \/ InvalidateZero(p)
  PROVE  Modest
<1>r. /\ RingType /\ retiring_idx \in Pages /\ \A g \in Pages : PageInv(page[g]) /\ (Rewriting(g) => Odd(gen[g]))
      /\ filter \in FilterType
  BY RingPages DEF RingInv, TableInv, ParityInv, RestType
<1>1. CASE RotateZero(p)
  <2>1. /\ pc[p] = "rot_zero" /\ Goto(p, "rot_fill", loc[p]) /\ lock' = lock /\ counter' = counter
        /\ gen' = gen /\ page' = [page EXCEPT ![retiring_idx] = BlankPage]
    BY <1>1 DEF RotateZero, On, ring
  <2>2. lock = p /\ Stage = "rot_zero"
    BY <2>1, HeldBy DEF Writing
  <2>3. Stage' = "rot_fill" /\ active_idx' = active_idx
    BY <2>1, <2>2, HeldGoto DEF active_idx
  <2>4. \A g \in Pages : Away(g) => Away(g)'
    BY <2>3, AwayStays DEF Invalidating
  <2>5. Odd(gen[retiring_idx])
    BY <1>r, <2>2 DEF Rewriting
  <2> QED BY <1>r, <2>1, <2>2, <2>3, <2>4, <2>5, RewriteModest, BlankEntire
<1>2. CASE RotateFill(p)
  <2> DEFINE q == Refill(page[retiring_idx], filter, loc[p].surv).pg
             l == [loc[p] EXCEPT !.surv = <<>>]
  <2>1. /\ pc[p] = "rot_fill" /\ Goto(p, "rot_even", l) /\ lock' = lock /\ counter' = counter
        /\ gen' = gen /\ page' = [page EXCEPT ![retiring_idx] = q]
    BY <1>2 DEF RotateFill, On, ring
  <2>2. lock = p /\ Stage = "rot_fill"
    BY <2>1, HeldBy DEF Writing
  <2> HIDE DEF l
  <2>3. Stage' = "rot_even" /\ active_idx' = active_idx
    BY <2>1, <2>2, HeldGoto DEF active_idx
  <2>4. \A g \in Pages : Away(g) => Away(g)'
    BY <2>3, AwayStays DEF Invalidating
  <2>5. Odd(gen[retiring_idx])
    BY <1>r, <2>2 DEF Rewriting
  <2>6. loc[p].surv \in Seq(EntireSurvivor)
    BY <2>1 DEF SurvInv, SurvAt
  <2>7. AllEntire(page[retiring_idx])
    BY <1>r, <2>2, RestEntire
  <2>8. AllEntire(q)
    BY <1>r, <2>6, <2>7, RefillEntire
  <2> HIDE DEF q
  <2> QED BY <1>r, <2>1, <2>2, <2>3, <2>4, <2>5, <2>8, RewriteModest
<1>3. CASE InvalidateZero(p)
  <2>1. /\ pc[p] = "inv_zero" /\ Goto(p, "inv_even", loc[p]) /\ lock' = lock /\ counter' = counter
        /\ gen' = gen /\ page' = [page EXCEPT ![loc[p].i] = BlankPage]
    BY <1>3 DEF InvalidateZero, On
  <2>2. lock = p /\ Stage = "inv_zero" /\ Cursor = loc[p].i
    BY <2>1, HeldBy DEF Writing
  <2>3. Stage' = "inv_even" /\ active_idx' = active_idx
    BY <2>1, <2>2, HeldGoto DEF active_idx
  <2>4. \A g \in Pages : Away(g) => Away(g)'
    BY <2>2, <2>3 DEF Away
  <2>5. loc[p].i \in Pages /\ Odd(gen[loc[p].i])
    BY <1>r, <2>1, <2>2 DEF Rewriting, RingInv, CursorInv
  <2> QED BY <2>1, <2>2, <2>3, <2>4, <2>5, RewriteModest, BlankEntire
<1> QED BY <1>1, <1>2, <1>3

(* The ring moves to a page that is not away.                              *)
LEMMA TurnModest ==
  ASSUME Holder, RingInv, TableInv, WholeInv, NEW p \in Procs, RotateAdvance(p) \/ InvalidateReset(p)
  PROVE  Modest
<1>r. RingType /\ counter \in 0 .. CounterWrap - 1
  BY DEF RingInv, RingType
<1>1. /\ pc[p] \in {"rot_advance", "inv_reset"} /\ gen' = gen /\ page' = page
  BY DEF RotateAdvance, InvalidateReset, On
<1>2. lock = p /\ Stage = pc[p]
  BY <1>1, HeldBy DEF Writing
<1>3. \A g \in Pages : AllEntire(page'[g]) /\ KeptPage(page[g], page'[g])
  BY <1>1, <1>2, RestEntire, KeptSelf
<1>4. CASE RotateAdvance(p)
  <2>1. Goto(p, "place", loc[p]) /\ lock' = lock /\ counter' = (counter + 1) % CounterWrap /\ pc[p] = "rot_advance"
    BY <1>4 DEF RotateAdvance, On
  <2>2. Stage' = "place"
    BY <1>2, <2>1, HeldGoto
  <2>3. active_idx' = retiring_idx
    BY <1>r, <2>1, RingIndex DEF active_idx, retiring_idx
  <2>4. \A g \in Pages : Away(g) => Away(g)'
    BY <1>2, <2>1, <2>2, <2>3 DEF Away
  <2> QED BY <1>1, <1>3, <2>2, <2>4 DEF Modest
<1>5. CASE InvalidateReset(p)
  <2>1. lock' = NoProc /\ counter' = 0 /\ pc[p] = "inv_reset"
    BY <1>5 DEF InvalidateReset, On
  <2>2. Stage' = "none"
    BY <2>1, FreeNext
  <2>3. active_idx' = 0
    BY <2>1, SmallRemainder, CacheAssumption DEF active_idx
  <2>4. \A g \in Pages : Away(g) => Away(g)'
    BY <1>2, <2>1, <2>2, <2>3 DEF Away
  <2> QED BY <1>1, <1>3, <2>2, <2>4 DEF Modest
<1> QED BY <1>4, <1>5

(* pop() goes on to the next page, or opens a sealed one.                  *)
LEMMA PopPageModest ==
  ASSUME Holder, RingInv, TableInv, WholeInv, NEW p \in Procs, PopPage(p),
         \/ loc[p].i \notin Pages \/ loc[p].i # active_idx
         \/ do_probe(page[loc[p].i], loc[p].key) = NoSlot
  PROVE  Modest
<1>1. pc[p] = "pop_page" /\ lock = p /\ Stage = "pop_page" /\ NPages \in Nat /\ loc[p].i \in 0 .. NPages /\ RingType
  BY HeldBy, CacheAssumption DEF PopPage, On, Writing, RingInv, CursorInv
<1>2. CASE loc[p].i = NPages
  <2>1. lock' = NoProc /\ gen' = gen /\ page' = page /\ counter' = counter
    BY <1>1, <1>2 DEF PopPage, ring
  <2>2. Stage' = "none"
    BY <2>1, FreeNext
  <2> QED BY <1>1, <2>1, <2>2, LockModest
<1>3. CASE loc[p].i < NPages /\ do_probe(page[loc[p].i], loc[p].key) = NoSlot
  <2>1. lock' = lock /\ gen' = gen /\ page' = page /\ counter' = counter /\ \E l : Goto(p, "pop_page", l)
    BY <1>1, <1>3 DEF PopPage, shared
  <2>2. Stage' = "pop_page"
    BY <1>1, <2>1, HeldGoto
  <2> QED BY <1>1, <2>1, <2>2, LockModest
<1>4. CASE loc[p].i < NPages /\ do_probe(page[loc[p].i], loc[p].key) # NoSlot
  <2> DEFINE h == loc[p].i
             s == do_probe(page[h], loc[p].key)
             l == [loc[p] EXCEPT !.slot = s, !.res = TRUE]
  <2>1. h \in Pages
    BY <1>1, <1>4 DEF Pages
  <2>2. h # active_idx
    BY <1>4, <2>1
  <2>3. /\ Goto(p, "pop_tomb", l) /\ counter' = counter /\ lock' = lock
        /\ page' = page /\ gen' = [gen EXCEPT ![h] = Inc(@)]
    BY <1>4, <2>1, <2>2, PopEffect
  <2>4. l.i = h
    BY DEF Holder, Shape, Quiet
  <2> HIDE DEF l
  <2>5. Stage' = "pop_tomb" /\ Cursor' = h /\ active_idx' = active_idx
    BY <1>1, <2>3, <2>4, HeldGoto DEF active_idx
  <2>6. \A g \in Pages : KeptPage(page[g], page'[g]) /\ (Away(g) => Away(g)')
    BY <2>3, <2>5, KeptSelf, AwayStays DEF Invalidating
  <2> HIDE DEF h
  <2> QED BY <1>1, <2>1, <2>3, <2>5, <2>6, BumpModest
<1> QED BY <1>1, <1>2, <1>3, <1>4

(* The writes to the page that lookups are reading.                        *)
LEMMA ActiveGentle ==
  ASSUME TableInv, NEW h \in Pages, NEW q, page' = [page EXCEPT ![h] = q], gen' = gen, counter' = counter,
         h = active_idx \/ Odd(gen[h]), Stage' \notin Invalidating \cup {"rot_advance"},
         Stage' \in {"copy", "publish"} => h = active_idx, Stage' = "pop_tomb" => Cursor' = h,
         ~Odd(gen[h]) => SeqStep(h) /\ WatchStep(h)
  PROVE  Gentle
<1>1. page'[h] = q /\ (\A g \in Pages \ {h} : page'[g] = page[g]) /\ active_idx' = active_idx
  BY DEF TableInv, active_idx
<1>2. ASSUME NEW g \in Pages, g # h  PROVE KeptPage(page[g], page'[g]) /\ SeqStep(g) /\ WatchStep(g)
  <2>1. KeptPage(page[g], page'[g])
    BY <1>1, <1>2, KeptSelf
  <2> QED BY <1>1, <1>2, <2>1, KeptGentle
<1>3. ASSUME NEW g \in Pages, ~Odd(gen[g])  PROVE AwayStep(g)
  <2>1. CASE g = h
    BY <1>3, <2>1 DEF AwayStep, Away
  <2>2. CASE g # h
    BY <1>1, <1>2, <2>2, AwayStays DEF AwayStep
  <2> QED BY <2>1, <2>2
<1> QED BY <1>2, <1>3 DEF Gentle

LEMMA WholeWriting ==
  ASSUME TableInv, WholeInv, NEW q, page' = [page EXCEPT ![active_idx] = q], counter' = counter,
         Stage' \in {"copy", "publish"}, EntireBut(q, Plan'.slot),
         Stage' = "publish" => q.arena[Plan'.off] = loc'[lock'].val
  PROVE  WholeInv'
<1>1. active_idx \in Pages /\ active_idx' = active_idx
  BY IndexFacts DEF TableInv, RestType, active_idx
<1>2. page'[active_idx] = q /\ \A g \in Pages \ {active_idx} : page'[g] = page[g]
  BY <1>1 DEF TableInv
<1>3. ASSUME NEW g \in Pages, NEW i \in Live(page'[g])
      PROVE  Entire(page'[g], i) \/ (g = active_idx /\ i = Plan'.slot)
  <2>1. CASE g = active_idx
    BY <1>2, <1>3, <2>1 DEF EntireBut
  <2>2. CASE g # active_idx
    BY <1>2, <1>3, <2>2 DEF WholeInv
  <2> QED BY <2>1, <2>2
<1> QED BY <1>1, <1>2, <1>3 DEF WholeInv

LEMMA WholePage ==
  ASSUME TableInv, WholeInv, NEW h \in Pages, NEW q, page' = [page EXCEPT ![h] = q], AllEntire(q),
         Stage \in {"copy", "publish"} => h = active_idx, Stage' \notin {"copy", "publish"}
  PROVE  WholeInv'
<1>1. page'[h] = q /\ \A g \in Pages \ {h} : page'[g] = page[g]
  BY DEF TableInv
<1>2. ASSUME NEW g \in Pages, NEW i \in Live(page'[g])  PROVE Entire(page'[g], i)
  <2>1. CASE g = h
    BY <1>1, <1>2, <2>1 DEF AllEntire
  <2>2. CASE g # h
    BY <1>1, <1>2, <2>2 DEF WholeInv
  <2> QED BY <2>1, <2>2
<1> QED BY <1>2 DEF WholeInv

LEMMA SeqMoves ==
  ASSUME NEW pg \in PageType, NEW t \in SlotIds  PROVE Inc(pg.slots[t].seq) # pg.slots[t].seq
<1>1. pg.slots[t] \in Slot
  BY PageFields
<1>2. pg.slots[t].seq \in Nat
  BY <1>1 DEF Slot
<1> QED BY <1>2, IncIs

LEMMA PlaceGentle ==
  ASSUME Holder, RingInv, TableInv, WholeInv, NEW p \in Procs, Place(p)  PROVE Gentle /\ WholeInv'
<1> PICK a \in Pages : a = active_idx
  BY IndexFacts DEF TableInv, RestType
<1> DEFINE k == loc[p].key
           n == Size[loc[p].val]
           pg == page[a]
           pl == plan_insert(pg, k, n)
           q == copy_value(BumpSeq(pg, pl), pl, Torn)
           l == [loc[p] EXCEPT !.plan = pl]
<1>1. DOMAIN page = Pages /\ PageInv(pg) /\ pg \in PageType
  BY DEF TableInv, PageInv
<1>2. /\ pl.fits /\ page' = [page EXCEPT ![a] = q] /\ pc[p] = "place" /\ Goto(p, "copy", l)
      /\ lock' = lock /\ counter' = counter /\ gen' = gen
  BY DEF Place, On, ring
<1>3. k \in Keys /\ n \in Nat \ {0} /\ Torn \in Contents
  BY <1>2, Setter DEF Inserting
<1>4. lock = p /\ Stage = "place"
  BY <1>2, HeldBy DEF Writing
<1>5. l.plan = pl
  BY DEF Holder, Shape, Quiet
<1> HIDE DEF l
<1>6. Stage' = "copy" /\ Plan' = pl
  BY <1>2, <1>4, <1>5, HeldGoto
<1>7. /\ pl.slot \in SlotIds /\ pl.inplace \in BOOLEAN /\ pl.head \in 0 .. ArenaCap /\ pl.off \in 0 .. ArenaCap - 1
  BY <1>1, <1>2, <1>3, PlanTypes
<1>8. PageInv(q) /\ PlanFits(q, pl, k, n)
  <2>1. SameShape(pg, BumpSeq(pg, pl)) /\ BumpSeq(pg, pl).count = pg.count
    <3> HIDE DEF pl, pg
    <3> QED BY <1>1, <1>7, BumpKeeps
  <2> HIDE DEF pg, k, n
  <2> QED BY <1>1, <1>2, <1>3, <2>1, CopyFits
<1>9. WrittenPage(pg, q, pl, Torn)
  <2> HIDE DEF pl, pg
  <2> QED BY <1>1, <1>7, PlaceWrites
<1>10. pg.head <= pl.head
  <2>1. SameTable(pg, q) /\ q.head = pl.head
    <3>1. SameShape(pg, BumpSeq(pg, pl))
      <4> HIDE DEF pl, pg
      <4> QED BY <1>1, <1>7, BumpKeeps
    <3>2. PageInv(BumpSeq(pg, pl)) /\ SameTable(pg, BumpSeq(pg, pl))
      BY <3>1 DEF SameShape
    <3> DEFINE b == BumpSeq(pg, pl)
    <3> HIDE DEF pl, pg, b
    <3>3. q.slots = b.slots /\ q.head = pl.head
      BY <3>2 DEF copy_value, PageInv, PageType, b
    <3> QED BY <3>2, <3>3 DEF SameTable, b
  <2> HIDE DEF q, k, n, pg
  <2> QED BY <1>1, <1>2, <1>3, <2>1, PlanFitsPage
<1>11. page'[a] = q
  BY <1>1, <1>2
<1>12. SeqStep(a)
  <2> HIDE DEF q, pl
  <2> QED BY <1>9, <1>11 DEF SeqStep, WrittenPage
<1>13. ASSUME NEW t \in SlotIds, NEW h \in Keys, NEW off, NEW len, Watched(pg, t, h, off, len),
              q.slots[t].seq = pg.slots[t].seq
       PROVE  Watched(q, t, h, off, len) /\ Undisturbed(a, t, off)'
  <2>1. ~(pl.inplace /\ pl.slot = t)
    <3> HIDE DEF q, pl, pg
    <3> QED BY <1>1, <1>9, <1>13, SeqMoves DEF WrittenPage
  <2>2. Owned(pg, t, h, off) /\ Holds(pg, h, off, len)
    BY <1>13 DEF Watched
  <2>3. pl.off # off
    <3> HIDE DEF q, k, n, pg
    <3> QED BY <1>1, <1>2, <1>3, <2>1, <2>2, PlanAvoids
  <2> HIDE DEF q, pl, pg
  <2>4. pl.head \in Nat
    BY <1>7
  <2>5. Watched(q, t, h, off, len)
    BY <1>1, <1>9, <1>10, <2>2, <2>3, <2>4, WrittenWatched DEF Watched
  <2>6. Undisturbed(a, t, off)'
    BY <1>6, <2>3 DEF Undisturbed
  <2> QED BY <2>5, <2>6
<1>14. WatchStep(a)
  <2> HIDE DEF q, pl
  <2> QED BY <1>11, <1>13 DEF WatchStep
<1>15. EntireBut(q, pl.slot)
  <2>1. EntireBut(pg, pl.slot)
    BY <1>1, <1>4, RestEntire DEF AllEntire, EntireBut
  <2> HIDE DEF q, pl, pg, k, n
  <2>2. Copied(pg, q, pl, Torn)
    BY <1>9 DEF Copied, WrittenPage
  <2> QED BY <1>1, <1>3, <1>8, <2>1, <2>2, CopiedEntire
<1> HIDE DEF q, pl
<1>16. Gentle
  BY <1>1, <1>2, <1>6, <1>12, <1>14, ActiveGentle DEF Invalidating
<1>17. WholeInv'
  BY <1>2, <1>6, <1>15, WholeWriting
<1> QED BY <1>16, <1>17

LEMMA CopyGentle ==
  ASSUME Holder, RingInv, TableInv, WholeInv, NEW p \in Procs, Copy(p)  PROVE Gentle /\ WholeInv'
<1> PICK a \in Pages : a = active_idx
  BY IndexFacts DEF TableInv, RestType
<1> DEFINE k == loc[p].key
           v == loc[p].val
           n == Size[v]
           pg == page[a]
           pl == loc[p].plan
           q == BumpSeq(copy_value(pg, pl, v), pl)
<1>1. DOMAIN page = Pages /\ PageInv(pg) /\ pg \in PageType
  BY DEF TableInv, PageInv
<1>2. /\ page' = [page EXCEPT ![a] = q] /\ pc[p] = "copy" /\ Goto(p, "publish", loc[p])
      /\ lock' = lock /\ counter' = counter /\ gen' = gen /\ p \notin dead
  BY DEF Copy, On, ring
<1>3. k \in Keys /\ n \in Nat \ {0} /\ v \in Contents
  BY <1>2, Setter DEF Inserting
<1>4. lock = p /\ Stage = "copy" /\ Plan = pl
  BY <1>2, HeldBy DEF Writing, Plan
<1>5. Stage' = "publish" /\ Plan' = pl /\ loc'[lock'].val = v
  BY <1>2, <1>4, HeldGoto
<1>6. PlanFits(pg, pl, k, n)
  BY <1>2 DEF TableInv, HeldInv
<1> HIDE DEF k, v, n, pl
<1>7. pl.off \in 0 .. ArenaCap - 1 /\ pl.head \in 0 .. ArenaCap /\ pg.head <= pl.head /\ pl.slot \in SlotIds
  BY <1>1, <1>3, <1>6, PlannedOffset
<1>8. WrittenPage(pg, q, pl, v)
  <2> HIDE DEF pg
  <2> QED BY <1>1, <1>7, PlaceWrites
<1>9. page'[a] = q
  BY <1>1, <1>2
<1>10. PageInv(q) /\ PlanFits(q, pl, k, n)
  <2>1. PICK r : /\ PageInv(r) /\ page' = [page EXCEPT ![a] = r]
                 /\ PlanFits(r, pl, k, n)
    BY CopyEffect DEF pl, k, n, v
  <2> HIDE DEF q
  <2> QED BY <1>1, <1>9, <2>1
<1> HIDE DEF q
<1>11. SeqStep(a)
  BY <1>8, <1>9 DEF SeqStep, WrittenPage
<1>12. ASSUME NEW t \in SlotIds, NEW h \in Keys, NEW off, NEW len, Watched(pg, t, h, off, len),
              Undisturbed(a, t, off)
       PROVE  Watched(q, t, h, off, len) /\ Undisturbed(a, t, off)'
  <2>1. pl.off # off
    BY <1>4, <1>12 DEF Undisturbed
  <2>2. pl.head \in Nat
    BY <1>7
  <2>3. Watched(q, t, h, off, len)
    BY <1>1, <1>7, <1>8, <1>12, <2>1, <2>2, WrittenWatched DEF Watched
  <2>4. Undisturbed(a, t, off)'
    BY <1>5, <2>1 DEF Undisturbed
  <2> QED BY <2>3, <2>4
<1>13. WatchStep(a)
  BY <1>9, <1>12 DEF WatchStep
<1>14. EntireBut(q, pl.slot) /\ q.arena[pl.off] = v
  <2>1. EntireBut(pg, pl.slot)
    BY <1>1, <1>4 DEF WholeInv, EntireBut
  <2>2. Copied(pg, q, pl, v) /\ q.arena[pl.off] = v
    BY <1>7, <1>8 DEF Copied, WrittenPage
  <2> QED BY <1>1, <1>3, <1>10, <2>1, <2>2, CopiedEntire
<1>15. Gentle
  BY <1>1, <1>2, <1>5, <1>11, <1>13, ActiveGentle DEF Invalidating
<1>16. WholeInv'
  BY <1>2, <1>5, <1>14, WholeWriting
<1> QED BY <1>15, <1>16

LEMMA PublishGentle ==
  ASSUME Holder, RingInv, TableInv, WholeInv, SetInv, NEW p \in Procs, Publish(p)  PROVE Gentle /\ WholeInv'
<1> PICK a \in Pages : a = active_idx
  BY IndexFacts DEF TableInv, RestType
<1> DEFINE k == loc[p].key
           v == loc[p].val
           n == Size[v]
           cls == Class[v]
           pg == page[a]
           pl == loc[p].plan
           q == publish_slot(pg, pl, k, n, cls)
           l == [loc[p] EXCEPT !.plan = <<>>]
<1>1. DOMAIN page = Pages /\ PageInv(pg) /\ pg \in PageType
  BY DEF TableInv, PageInv
<1>2. /\ page' = [page EXCEPT ![a] = q] /\ pc[p] = "publish" /\ Goto(p, "fingerprint", l)
      /\ lock' = lock /\ counter' = counter /\ gen' = gen /\ p \notin dead
  BY DEF Publish, On, ring
<1>3. k \in Keys /\ n \in Nat \ {0} /\ loc[p].op = "set"
  BY <1>2, Setter DEF Inserting
<1>4. lock = p /\ Stage = "publish" /\ Plan = pl
  BY <1>2, HeldBy DEF Writing, Plan
<1> HIDE DEF l
<1>5. Stage' = "fingerprint"
  BY <1>2, <1>4, HeldGoto
<1>6. PlanFits(pg, pl, k, n)
  BY <1>2 DEF TableInv, HeldInv
<1>7. v \in ValuesFor[k] /\ pg.arena[pl.off] = v
  BY <1>2, <1>3, <1>4 DEF SetInv, SetAt, WholeInv
<1>8. EntireBut(pg, pl.slot)
  BY <1>1, <1>4 DEF WholeInv, EntireBut
<1> HIDE DEF k, v, cls, pl
<1>9. pl.slot \in SlotIds
  BY <1>6 DEF PlanFits
<1>10. page'[a] = q
  BY <1>1, <1>2
<1>11. SeqStep(a)
  <2> HIDE DEF q, pg
  <2>1. \A i \in SlotIds : q.slots[i].seq = pg.slots[i].seq
    BY <1>1, <1>9, PublishPoint DEF q
  <2> QED BY <1>10, <2>1 DEF SeqStep, pg
<1>12. ASSUME NEW t \in SlotIds, NEW h \in Keys, NEW off, NEW len, Watched(pg, t, h, off, len),
              Undisturbed(a, t, off)
       PROVE  Watched(q, t, h, off, len) /\ Undisturbed(a, t, off)'
  <2>1. pl.off # off
    BY <1>4, <1>12 DEF Undisturbed
  <2>2. Watched(q, t, h, off, len)
    BY <1>1, <1>9, <1>12, <2>1, PublishWatched DEF Watched
  <2>3. Undisturbed(a, t, off)'
    BY <1>5 DEF Undisturbed
  <2> QED BY <2>2, <2>3
<1>13. AllEntire(q)
  BY <1>1, <1>7, <1>8, <1>9, PublishEntire
<1> HIDE DEF q
<1>14. WatchStep(a)
  BY <1>10, <1>12 DEF WatchStep
<1>15. Gentle
  BY <1>1, <1>2, <1>5, <1>11, <1>14, ActiveGentle DEF Invalidating
<1>16. WholeInv'
  BY <1>1, <1>2, <1>5, <1>13, WholePage
<1> QED BY <1>15, <1>16

(* pop() in the active page: the value_seq, then the key.                  *)
LEMMA PopActiveGentle ==
  ASSUME Holder, RingInv, TableInv, WholeInv, NEW p \in Procs, PopPage(p),
         loc[p].i \in Pages, loc[p].i = active_idx, do_probe(page[loc[p].i], loc[p].key) # NoSlot
  PROVE  Gentle /\ WholeInv'
<1> PICK a \in Pages : a = active_idx
  OBVIOUS
<1> DEFINE pg == page[a]
           s == do_probe(pg, loc[p].key)
           q == [pg EXCEPT !.slots[s].seq = Inc(@), !.count = IF @ = 0 THEN 0 ELSE @ - 1]
           l == [loc[p] EXCEPT !.slot = s, !.res = TRUE]
<1>1. DOMAIN page = Pages /\ pg \in PageType
  BY DEF TableInv, PageInv
<1>2. pc[p] = "pop_page" /\ lock = p /\ Stage = "pop_page"
  BY HeldBy DEF PopPage, On, Writing
<1>3. Goto(p, "pop_tomb", l) /\ counter' = counter /\ lock' = lock /\ gen' = gen /\ s \in Live(pg)
  BY PopEffect
<1>4. l.i = a /\ l.slot = s
  BY DEF Holder, Shape, Quiet
<1> HIDE DEF l
<1>5. Stage' = "pop_tomb" /\ Cursor' = a /\ loc'[lock'].slot = s
  BY <1>2, <1>3, <1>4, HeldGoto
<1>6. page' = [page EXCEPT ![a] = q]
  <2>1. loc[p].i # NPages
    BY CacheAssumption DEF Pages
  <2>2. page' = [page EXCEPT ![a].slots[s].seq = Inc(@), ![a].count = IF @ = 0 THEN 0 ELSE @ - 1]
    BY <2>1 DEF PopPage
  <2> HIDE DEF s
  <2> QED BY <1>1, <2>2
<1>7. s \in SlotIds
  BY <1>3 DEF Live
<1>8. BumpedPage(pg, q, s)
  <2> HIDE DEF pg, s
  <2> QED BY <1>1, <1>7, PopBumps
<1> HIDE DEF q, s
<1>9. page'[a] = q
  BY <1>1, <1>6
<1>10. SeqStep(a)
  BY <1>8, <1>9 DEF SeqStep, BumpedPage
<1>11. ASSUME NEW t \in SlotIds, NEW h \in Keys, NEW off, NEW len, Watched(pg, t, h, off, len),
              q.slots[t].seq = pg.slots[t].seq
       PROVE  Watched(q, t, h, off, len) /\ Undisturbed(a, t, off)'
  <2>1. s # t
    <3> HIDE DEF pg
    <3> QED BY <1>1, <1>8, <1>11, SeqMoves DEF BumpedPage
  <2>2. Undisturbed(a, t, off)'
    BY <1>5, <2>1 DEF Undisturbed
  <2> QED BY <1>8, <1>11, <2>2, BumpedWatched DEF Watched
<1>12. WatchStep(a)
  BY <1>9, <1>11 DEF WatchStep
<1>13. AllEntire(q)
  BY <1>1, <1>2, <1>8, RestEntire, BumpedEntire
<1>14. Gentle
  BY <1>1, <1>3, <1>5, <1>6, <1>10, <1>12, ActiveGentle DEF Invalidating
<1>15. WholeInv'
  BY <1>1, <1>2, <1>5, <1>6, <1>13, WholePage
<1> QED BY <1>14, <1>15

LEMMA PopTombGentle ==
  ASSUME Holder, RingInv, TableInv, WholeInv, NEW p \in Procs, PopTomb(p)  PROVE Gentle /\ WholeInv'
<1> PICK h, s : h = loc[p].i /\ s = loc[p].slot
  OBVIOUS
<1> DEFINE pg == page[h]
           q == [pg EXCEPT !.slots[s].key = TOMBSTONE]
<1>1. /\ page' = [page EXCEPT ![h] = q] /\ pc[p] = "pop_tomb" /\ gen' = gen /\ counter' = counter /\ lock' = lock
      /\ \E l, to : Goto(p, to, l) /\ to \in {"pop_page", "pop_even"}
  BY DEF PopTomb, On, ring
<1>2. h \in Pages /\ s \in Live(pg) /\ DOMAIN page = Pages /\ pg \in PageType
  BY TombEffect DEF TableInv, PageInv
<1>3. s \in SlotIds /\ pg.slots[s].key # EMPTY
  BY <1>2 DEF Live
<1>4. lock = p /\ Stage = "pop_tomb" /\ Cursor = h
  BY <1>1, HeldBy DEF Writing
<1>5. Stage' \in {"pop_page", "pop_even"}
  BY <1>1, <1>4, HeldGoto
<1>6. h = active_idx \/ Odd(gen[h])
  BY <1>2, <1>4 DEF RingInv, ParityInv, Rewriting
<1>7. loc[lock].slot = s
  BY <1>4
<1>8. AllEntire(q)
  <2> HIDE DEF pg
  <2>1. AllEntire(pg)
    BY <1>2, <1>4, RestEntire DEF pg
  <2> QED BY <1>2, <1>3, <2>1, TombEntire
<1>9. page'[h] = q
  BY <1>1, <1>2
<1>10. SeqStep(h)
  <2>1. \A i \in SlotIds : q.slots[i].seq = pg.slots[i].seq
    <3> HIDE DEF pg, q
    <3> QED BY <1>2, <1>3, TombPoint DEF q
  <2> HIDE DEF q
  <2> QED BY <1>9, <2>1 DEF SeqStep
<1>11. ASSUME NEW t \in SlotIds, NEW k \in Keys, NEW off, NEW len, Watched(pg, t, k, off, len),
              Undisturbed(h, t, off)
       PROVE  Watched(q, t, k, off, len) /\ Undisturbed(h, t, off)'
  <2>1. s # t
    BY <1>4, <1>7, <1>11 DEF Undisturbed
  <2>2. Undisturbed(h, t, off)'
    BY <1>5 DEF Undisturbed
  <2>3. Watched(q, t, k, off, len)
    <3> HIDE DEF pg
    <3> QED BY <1>2, <1>3, <1>11, <2>1, TombWatched DEF Watched
  <2> QED BY <2>2, <2>3
<1> HIDE DEF q
<1>12. WatchStep(h)
  BY <1>9, <1>11 DEF WatchStep
<1>13. Gentle
  BY <1>1, <1>2, <1>5, <1>6, <1>10, <1>12, ActiveGentle DEF Invalidating
<1>14. WholeInv'
  BY <1>1, <1>2, <1>4, <1>5, <1>8, WholePage
<1> QED BY <1>13, <1>14

LEMMA WriteIsGentle ==
  ASSUME Holder, RingInv, TableInv, SetInv, WholeInv, SurvInv, NEW p \in Procs, WriteStep(p)
  PROVE  Gentle /\ WholeInv'
<1>1. CASE InsertLock(p) \/ PopLock(p) \/ InvalidateLock(p) \/ PlaceFails(p) \/ InsertFingerprint(p)
  BY <1>1, LockIsModest, ModestGentle
<1>2. CASE RotateOdd(p) \/ RotateEven(p) \/ PopEven(p) \/ InvalidateOdd(p) \/ InvalidateEven(p)
  BY <1>2, RotateBumps, RemovalBumps, ModestGentle
<1>3. CASE RotateZero(p) \/ RotateFill(p) \/ InvalidateZero(p)
  BY <1>3, RewritesModest, ModestGentle
<1>4. CASE RotateAdvance(p) \/ InvalidateReset(p)
  BY <1>4, TurnModest, ModestGentle
<1>5. CASE Place(p) \/ Copy(p) \/ Publish(p) \/ PopTomb(p)
  BY <1>5, PlaceGentle, CopyGentle, PublishGentle, PopTombGentle
<1>6. CASE PopPage(p)
  BY <1>6, PopPageModest, PopActiveGentle, ModestGentle
<1> QED BY <1>1, <1>2, <1>3, <1>4, <1>5, <1>6 DEF WriteStep, Pop, Invalidate

-----------------------------------------------------------------------------
(* The workers that do not take the step.                                  *)

HistoryType == gens \in [Procs -> Nat] /\ seqs \in [Procs -> Nat] /\ turns \in [Procs -> Nat]

LEMMA HistoryStep == ASSUME HistoryType, Noted  PROVE HistoryType'
BY DEF HistoryType, Noted

Stays(q) ==
  /\ pc'[q] = pc[q]
  /\ loc'[q].op = loc[q].op /\ loc'[q].key = loc[q].key /\ loc'[q].val = loc[q].val
  /\ loc'[q].ai = loc[q].ai /\ loc'[q].i = loc[q].i /\ loc'[q].slot = loc[q].slot
  /\ loc'[q].off = loc[q].off /\ loc'[q].len = loc[q].len /\ loc'[q].gen = loc[q].gen
  /\ loc'[q].seq = loc[q].seq /\ loc'[q].res = loc[q].res /\ loc'[q].rot = loc[q].rot
  /\ loc'[q].snap = loc[q].snap /\ loc'[q].surv = loc[q].surv /\ loc'[q].calm = loc[q].calm

(* A counter that is watched is counted.                                   *)
LEMMA Counted ==
  ASSUME Noted, NEW q \in Procs
  PROVE  /\ pc[q] \in Watching =>
              gens'[q] = IF gen'[WatchedPage(q)] = gen[WatchedPage(q)] THEN gens[q] ELSE gens[q] + 1
         /\ pc[q] \notin Watching => gens'[q] = 0
         /\ pc[q] \in {"read", "verify"} =>
              seqs'[q] = IF NextSlot(q).seq = WatchedSlot(q).seq THEN seqs[q] ELSE seqs[q] + 1
         /\ pc[q] \notin {"read", "verify"} => seqs'[q] = 0
         /\ pc[q] \in Scanning => turns'[q] = IF counter' = counter THEN turns[q] ELSE turns[q] + 1
         /\ pc[q] \notin Scanning => turns'[q] = 0
BY DEF Noted

LEMMA ActiveStays ==
  ASSUME HistoryType, RingType, TableInv, Noted, Gentle, NEW q \in Procs, Stays(q), ActiveInv(q)
  PROVE  ActiveInv(q)'
<1> SUFFICES ASSUME pc[q] \in {"read", "verify"}  PROVE ActiveInv(q)'
  BY DEF Stays, ActiveInv
<1> PICK g, t, k, off, len : /\ g = loc[q].ai /\ t = loc[q].slot /\ k = loc[q].key
                              /\ off = loc[q].off /\ len = loc[q].len
  OBVIOUS
<1>1. /\ g \in Pages /\ t \in SlotIds /\ loc[q].gen \in 0 .. Wrap - 1 /\ loc[q].seq \in Nat
      /\ Turned(loc[q].gen, gens[q], gen[g])
      /\ gens[q] = 0 =>
           /\ ~Odd(gen[g]) /\ Turned(loc[q].seq, seqs[q], page[g].slots[t].seq)
           /\ seqs[q] = 0 => /\ Watched(page[g], t, k, off, len) /\ Undisturbed(g, t, off)
                             /\ pc[q] = "verify" => loc[q].res \in ValuesFor[k]
  BY DEF ActiveInv, Watched
<1>2. k \in Keys
  BY DEF TableInv, LocalInv, Keyless
<1>3. /\ gens'[q] = IF gen'[g] = gen[g] THEN gens[q] ELSE gens[q] + 1
      /\ seqs'[q] = IF page'[g].slots[t].seq = page[g].slots[t].seq THEN seqs[q] ELSE seqs[q] + 1
  BY Counted DEF Watching, WatchedPage, NextSlot, WatchedSlot
<1>4. gens[q] \in Nat /\ seqs[q] \in Nat /\ gen[g] \in Nat /\ loc[q].gen \in Nat /\ page[g].slots[t].seq \in Nat
  <2>1. gens[q] \in Nat /\ seqs[q] \in Nat
    BY DEF HistoryType
  <2>2. gen[g] \in Nat /\ loc[q].gen \in Nat
    BY <1>1, WrapFacts DEF RingType
  <2>3. page[g].slots[t] \in Slot
    BY <1>1, PageFields DEF TableInv, PageInv
  <2> QED BY <2>1, <2>2, <2>3 DEF Slot
<1>5. gen'[g] = gen[g] \/ gen'[g] = Inc(gen[g])
  BY <1>1 DEF Gentle
<1>6. Turned(loc[q].gen, gens'[q], gen'[g])
  BY <1>1, <1>3, <1>4, <1>5, TurnedStep
<1>7. ASSUME gens'[q] = 0
      PROVE  /\ ~Odd(gen'[g]) /\ Turned(loc[q].seq, seqs'[q], page'[g].slots[t].seq)
             /\ seqs'[q] = 0 => /\ Watched(page'[g], t, k, off, len) /\ Undisturbed(g, t, off)'
                                /\ pc[q] = "verify" => loc[q].res \in ValuesFor[k]
  <2>1. gens[q] = 0 /\ gen'[g] = gen[g]
    BY <1>3, <1>4, <1>7
  <2>2. ~Odd(gen[g]) /\ SeqStep(g) /\ WatchStep(g)
    BY <1>1, <2>1 DEF Gentle
  <2>3. page'[g].slots[t].seq = page[g].slots[t].seq \/ page'[g].slots[t].seq = Inc(page[g].slots[t].seq)
    BY <1>1, <2>2 DEF SeqStep
  <2>4. Turned(loc[q].seq, seqs'[q], page'[g].slots[t].seq)
    BY <1>1, <1>3, <1>4, <2>1, <2>3, TurnedStep
  <2>5. ASSUME seqs'[q] = 0
        PROVE  /\ Watched(page'[g], t, k, off, len) /\ Undisturbed(g, t, off)'
               /\ pc[q] = "verify" => loc[q].res \in ValuesFor[k]
    <3>1. seqs[q] = 0 /\ page'[g].slots[t].seq = page[g].slots[t].seq
      BY <1>3, <1>4, <2>5
    <3>2. Watched(page[g], t, k, off, len) /\ Undisturbed(g, t, off)
      BY <1>1, <2>1, <3>1
    <3>3. Watched(page'[g], t, k, off, len) /\ Undisturbed(g, t, off)'
      BY <1>1, <1>2, <2>2, <3>1, <3>2 DEF WatchStep
    <3> QED BY <1>1, <2>1, <3>1, <3>3
  <2> QED BY <2>1, <2>2, <2>4, <2>5
<1> QED BY <1>1, <1>6, <1>7 DEF ActiveInv, Stays, Watched

LEMMA SealedStays ==
  ASSUME HistoryType, RingType, TableInv, Noted, Gentle, NEW q \in Procs, Stays(q), SealedInv(q)
  PROVE  SealedInv(q)'
<1> SUFFICES ASSUME pc[q] \in {"sealed_probe", "sealed_read", "sealed_verify"}  PROVE SealedInv(q)'
  BY DEF Stays, SealedInv
<1> PICK g : g = SealedPage(q)
  OBVIOUS
<1>1. /\ loc[q].gen \in 0 .. Wrap - 1 /\ Turned(loc[q].gen, gens[q], gen[g])
      /\ gens[q] = 0 /\ loc[q].calm =>
           /\ ~Odd(gen[g]) /\ Away(g)
           /\ pc[q] = "sealed_read" => Holds(page[g], loc[q].key, loc[q].off, loc[q].len)
           /\ pc[q] = "sealed_verify" /\ loc[q].op = "get" => loc[q].res \in ValuesFor[loc[q].key]
  BY DEF SealedInv
<1>2. g \in Pages
  <2>1. loc[q].ai \in Pages /\ loc[q].i \in 1 .. NPages - 1 /\ NPages \in Nat
    BY CacheAssumption DEF TableInv, LocalInv
  <2>2. loc[q].i \in 1 .. NPages
    BY <2>1
  <2> QED BY <2>1, <2>2, SealedPageFacts
<1>3. gens'[q] = IF gen'[g] = gen[g] THEN gens[q] ELSE gens[q] + 1
  BY Counted DEF Watching, WatchedPage
<1>4. gens[q] \in Nat /\ gen[g] \in Nat /\ loc[q].gen \in Nat
  BY <1>1, <1>2, WrapFacts DEF RingType, HistoryType
<1>5. SealedPage(q)' = g
  BY DEF SealedPage, Stays
<1>6. gen'[g] = gen[g] \/ gen'[g] = Inc(gen[g])
  BY <1>2 DEF Gentle
<1>7. Turned(loc[q].gen, gens'[q], gen'[g])
  BY <1>1, <1>3, <1>4, <1>6, TurnedStep
<1>8. ASSUME gens'[q] = 0, loc[q].calm
      PROVE  /\ ~Odd(gen'[g]) /\ Away(g)'
             /\ pc[q] = "sealed_read" => Holds(page'[g], loc[q].key, loc[q].off, loc[q].len)
             /\ pc[q] = "sealed_verify" /\ loc[q].op = "get" => loc[q].res \in ValuesFor[loc[q].key]
  <2>1. gens[q] = 0 /\ gen'[g] = gen[g]
    BY <1>3, <1>4, <1>8
  <2>2. ~Odd(gen[g]) /\ Away(g) /\ AwayStep(g)
    BY <1>1, <1>2, <1>8, <2>1 DEF Gentle
  <2>3. Away(g)' /\ KeptPage(page[g], page'[g])
    BY <2>2 DEF AwayStep
  <2>4. Holds(page[g], loc[q].key, loc[q].off, loc[q].len) => Holds(page'[g], loc[q].key, loc[q].off, loc[q].len)
    BY <2>3, KeptWatched
  <2> QED BY <1>1, <1>8, <2>1, <2>2, <2>3, <2>4
<1> QED BY <1>1, <1>5, <1>7, <1>8 DEF SealedInv, Stays

LEMMA SurvStays ==
  ASSUME HistoryType, Noted, NEW q \in Procs, Stays(q), SurvAt(q)  PROVE SurvAt(q)'
<1>1. ASSUME pc[q] \in Scanning, turns'[q] = 0  PROVE turns[q] = 0 /\ counter' = counter /\ retiring_idx' = retiring_idx
  <2>1. turns'[q] = IF counter' = counter THEN turns[q] ELSE turns[q] + 1
    BY <1>1, Counted
  <2>2. turns[q] \in Nat
    BY DEF HistoryType
  <2>3. turns[q] = 0 /\ counter' = counter
    BY <1>1, <2>1, <2>2
  <2> QED BY <2>3 DEF retiring_idx, active_idx
<1> QED BY <1>1 DEF SurvAt, Stays

LEMMA SetStays == ASSUME NEW q \in Procs, Stays(q), SetAt(q)  PROVE SetAt(q)'
BY DEF Stays, SetAt

-----------------------------------------------------------------------------
(* The writer goes on as what it is.                                       *)

Retains(p, l) == l.op = loc[p].op /\ l.key = loc[p].key /\ l.val = loc[p].val
WriterGoes(p) ==
  \/ pc'[p] \in {"idle", "done"}
  \/ pc'[p] \in Writing /\ pc[p] \notin {"idle", "done"} /\ Retains(p, loc'[p])

LEMMA GotoHere ==
  ASSUME Shape, NEW p \in Procs, NEW to, NEW l, Goto(p, to, l)
  PROVE  /\ pc'[p] = to /\ loc'[p] = l
         /\ \A q \in Procs \ {p} : pc'[q] = pc[q] /\ loc'[q] = loc[q]
BY DEF Goto, Shape

LEMMA FinishHere ==
  ASSUME Shape, NEW p \in Procs, GiveUp(p) \/ \E r : Finish(p, r)
  PROVE  /\ pc'[p] \in {"idle", "done"}
         /\ \A q \in Procs \ {p} : pc'[q] = pc[q] /\ loc'[q] = loc[q]
<1>1. \E to \in {"idle", "done"} : \E l : Goto(p, to, l)
  BY DEF GiveUp, Finish
<1> QED BY <1>1, GotoHere

LEMMA WriterMoves ==
  ASSUME Shape, NEW p \in Procs, WriteStep(p)
  PROVE  /\ WriterGoes(p)
         /\ \A q \in Procs \ {p} : pc'[q] = pc[q] /\ loc'[q] = loc[q]
<1>d. DOMAIN loc[p] = DOMAIN Quiet
  BY DEF Shape
<1>1. ASSUME NEW to \in Writing, NEW l, Goto(p, to, l), Retains(p, l), pc[p] \notin {"idle", "done"}
      PROVE  WriterGoes(p) /\ \A q \in Procs \ {p} : pc'[q] = pc[q] /\ loc'[q] = loc[q]
  BY <1>1, GotoHere DEF WriterGoes, Retains
<1>2. CASE GiveUp(p) \/ \E r : Finish(p, r)
  BY <1>2, FinishHere DEF WriterGoes
<1>3. CASE InsertLock(p)
  <2>1. \E to \in {"rot_odd", "place"} : \E l : Goto(p, to, l) /\ Retains(p, l)
    <3> DEFINE go == loc[p].rot /\ counter = loc[p].snap
               l == [loc[p] EXCEPT !.rot = FALSE, !.snap = 0, !.ai = 0, !.surv = IF go THEN @ ELSE <<>>]
    <3>1. Goto(p, IF go THEN "rot_odd" ELSE "place", l)
      BY <1>3 DEF InsertLock
    <3>2. Retains(p, l)
      BY <1>d DEF Retains, Quiet
    <3> HIDE DEF l, go
    <3> QED BY <3>1, <3>2
  <2> QED BY <1>1, <1>3, <2>1 DEF InsertLock, On, Writing
<1>4. CASE RotateOdd(p) \/ RotateZero(p) \/ RotateEven(p) \/ RotateAdvance(p)
  <2>1. pc[p] \notin {"idle", "done"} /\ \E to \in {"rot_zero", "rot_fill", "rot_advance", "place"} : Goto(p, to, loc[p])
    BY <1>4 DEF RotateOdd, RotateZero, RotateEven, RotateAdvance, On
  <2> QED BY <1>1, <2>1 DEF Writing, Retains
<1>5. CASE RotateFill(p) \/ Place(p) \/ Copy(p) \/ Publish(p)
  <2>1. \E to \in {"rot_even", "copy", "publish", "fingerprint"} : \E l : Goto(p, to, l) /\ Retains(p, l)
    BY <1>5, <1>d DEF RotateFill, Place, Copy, Publish, Retains, Quiet
  <2>2. pc[p] \notin {"idle", "done"}
    BY <1>5 DEF RotateFill, Place, Copy, Publish, On
  <2> QED BY <1>1, <2>1, <2>2 DEF Writing
<1>6. CASE PlaceFails(p) \/ InsertFingerprint(p) \/ InvalidateReset(p)
  BY <1>2, <1>6 DEF PlaceFails, InsertFingerprint, InvalidateReset
<1>7. CASE PopLock(p) \/ PopTomb(p) \/ PopEven(p)
  <2>1. \E to \in {"pop_page", "pop_even"} : \E l : Goto(p, to, l) /\ Retains(p, l)
    <3>1. CASE PopLock(p) \/ PopEven(p)
      BY <1>d, <3>1 DEF PopLock, PopEven, Retains, Quiet
    <3>2. CASE PopTomb(p)
      <4> DEFINE here == loc[p].i = active_idx
                 l == [loc[p] EXCEPT !.slot = 0, !.i = IF here THEN @ + 1 ELSE @]
      <4>1. Goto(p, IF here THEN "pop_page" ELSE "pop_even", l)
        BY <3>2 DEF PopTomb
      <4>2. Retains(p, l)
        BY <1>d DEF Retains, Quiet
      <4> HIDE DEF l, here
      <4> QED BY <4>1, <4>2
    <3> QED BY <1>7, <3>1, <3>2
  <2>2. pc[p] \notin {"idle", "done"}
    BY <1>7 DEF PopLock, PopTomb, PopEven, On
  <2> QED BY <1>1, <2>1, <2>2 DEF Writing
<1>8. CASE PopPage(p)
  <2>1. \/ \E r : Finish(p, r)
        \/ \E to \in {"pop_page", "pop_tomb"} : \E l : Goto(p, to, l) /\ Retains(p, l)
    <3> DEFINE s == do_probe(page[loc[p].i], loc[p].key)
               l == [loc[p] EXCEPT !.i = @ + 1]
               m == [loc[p] EXCEPT !.slot = s, !.res = TRUE]
    <3>1. Retains(p, l) /\ Retains(p, m)
      BY <1>d DEF Retains, Quiet
    <3>2. (\E r : Finish(p, r)) \/ Goto(p, "pop_page", l) \/ Goto(p, "pop_tomb", m)
      BY <1>8 DEF PopPage
    <3> HIDE DEF l, m
    <3> QED BY <3>1, <3>2
  <2>2. pc[p] \notin {"idle", "done"}
    BY <1>8 DEF PopPage, On
  <2> QED BY <1>1, <1>2, <2>1, <2>2 DEF Writing
<1>9. CASE InvalidateLock(p) \/ InvalidateOdd(p) \/ InvalidateZero(p) \/ InvalidateEven(p)
  <2>1. \E to \in {"inv_odd", "inv_zero", "inv_even", "inv_reset"} : \E l : Goto(p, to, l) /\ Retains(p, l)
    BY <1>9, <1>d DEF InvalidateLock, InvalidateOdd, InvalidateZero, InvalidateEven, Retains, Quiet
  <2>2. pc[p] \notin {"idle", "done"}
    BY <1>9 DEF InvalidateLock, InvalidateOdd, InvalidateZero, InvalidateEven, On
  <2> QED BY <1>1, <2>1, <2>2 DEF Writing
<1> QED BY <1>3, <1>4, <1>5, <1>6, <1>7, <1>8, <1>9 DEF WriteStep, Pop, Invalidate

Rotating == {"rot_odd", "rot_zero", "rot_fill"}

(* What a rotation puts back is what the scan of the retiring page found:  *)
(* nobody has rotated since.                                               *)
LEMMA WriterSurv ==
  ASSUME Shape, NoWrap, NEW p \in Procs, WriteStep(p), SurvAt(p), pc'[p] \in Rotating
  PROVE  loc'[p].surv \in Seq(EntireSurvivor)
<1>d. DOMAIN loc[p] = DOMAIN Quiet
  BY DEF Shape
<1>1. CASE InsertLock(p)
  <2> DEFINE go == loc[p].rot /\ counter = loc[p].snap
             l == [loc[p] EXCEPT !.rot = FALSE, !.snap = 0, !.ai = 0, !.surv = IF go THEN @ ELSE <<>>]
  <2>1. Goto(p, IF go THEN "rot_odd" ELSE "place", l) /\ pc[p] = "insert"
    BY <1>1 DEF InsertLock, On
  <2>2. go => l.surv = loc[p].surv
    BY <1>d DEF Quiet
  <2> HIDE DEF l
  <2>3. go /\ loc'[p] = l
    <3> HIDE DEF go
    <3> QED BY <2>1, GotoHere DEF Rotating
  <2>4. turns[p] = 0
    BY <2>1, <2>3 DEF NoWrap
  <2> QED BY <2>1, <2>2, <2>3, <2>4 DEF SurvAt, Scanning
<1>2. CASE RotateOdd(p) \/ RotateZero(p)
  <2>1. pc[p] \in Rotating /\ \E to : Goto(p, to, loc[p])
    BY <1>2 DEF RotateOdd, RotateZero, On, Rotating
  <2>2. loc'[p] = loc[p]
    BY <2>1, GotoHere
  <2> QED BY <2>1, <2>2 DEF SurvAt, Rotating
<1>3. CASE RotateFill(p) \/ RotateEven(p) \/ RotateAdvance(p) \/ Place(p) \/ Copy(p) \/ Publish(p)
  <2>1. \E to, l : Goto(p, to, l) /\ to \notin Rotating
    BY <1>3 DEF RotateFill, RotateEven, RotateAdvance, Place, Copy, Publish, Rotating
  <2> QED BY <2>1, GotoHere
<1>4. CASE PlaceFails(p) \/ InsertFingerprint(p) \/ InvalidateReset(p)
  BY <1>4, FinishHere DEF PlaceFails, InsertFingerprint, InvalidateReset, Rotating
<1>5. CASE PopLock(p) \/ PopPage(p) \/ PopTomb(p) \/ PopEven(p)
  <2>1. (\E r : Finish(p, r)) \/ \E to, l : Goto(p, to, l) /\ to \notin Rotating
    <3>1. CASE PopLock(p) \/ PopEven(p)
      BY <3>1 DEF PopLock, PopEven, Rotating
    <3>3. CASE PopPage(p)
      <4>1. (\E r : Finish(p, r)) \/ (\E l : Goto(p, "pop_page", l)) \/ \E l : Goto(p, "pop_tomb", l)
        BY <3>3 DEF PopPage
      <4> QED BY <4>1 DEF Rotating
    <3>2. CASE PopTomb(p)
      <4>1. \E l : Goto(p, IF loc[p].i = active_idx THEN "pop_page" ELSE "pop_even", l)
        BY <3>2 DEF PopTomb
      <4> QED BY <4>1 DEF Rotating
    <3> QED BY <1>5, <3>1, <3>2, <3>3
  <2> QED BY <2>1, GotoHere, FinishHere DEF Rotating
<1>6. CASE InvalidateLock(p) \/ InvalidateOdd(p) \/ InvalidateZero(p) \/ InvalidateEven(p)
  <2>1. \E to, l : Goto(p, to, l) /\ to \notin Rotating
    BY <1>6 DEF InvalidateLock, InvalidateOdd, InvalidateZero, InvalidateEven, Rotating
  <2> QED BY <2>1, GotoHere
<1> QED BY <1>1, <1>2, <1>3, <1>4, <1>5, <1>6 DEF WriteStep, Pop, Invalidate

LEMMA StaysPut == ASSUME NEW q, pc'[q] = pc[q], loc'[q] = loc[q]  PROVE Stays(q)
BY DEF Stays

LEMMA OthersKeep ==
  ASSUME HistoryType, RingType, TableInv, Noted, Gentle, SetInv, SurvInv, ReaderInv, NEW p \in Procs,
         \A q \in Procs \ {p} : Stays(q), SetAt(p)', SurvAt(p)', ActiveInv(p)', SealedInv(p)'
  PROVE  SetInv' /\ SurvInv' /\ ReaderInv'
<1>1. ASSUME NEW q \in Procs  PROVE SetAt(q)' /\ SurvAt(q)' /\ ActiveInv(q)' /\ SealedInv(q)'
  <2>1. CASE q = p
    BY <2>1
  <2>2. CASE q # p
    <3>1. Stays(q)
      BY <2>2
    <3>2. SetAt(q) /\ SurvAt(q) /\ ActiveInv(q) /\ SealedInv(q)
      BY DEF SetInv, SurvInv, ReaderInv
    <3> QED BY <3>1, <3>2, SetStays, SurvStays, ActiveStays, SealedStays
  <2> QED BY <2>1, <2>2
<1> QED BY <1>1 DEF SetInv, SurvInv, ReaderInv

LEMMA WriterKeeps ==
  ASSUME Shape, NoWrap, HistoryType, RingType, TableInv, Noted, Gentle, SetInv, SurvInv, ReaderInv,
         NEW p \in Procs, WriteStep(p)
  PROVE  SetInv' /\ SurvInv' /\ ReaderInv'
<1>1. WriterGoes(p) /\ \A q \in Procs \ {p} : Stays(q)
  BY WriterMoves, StaysPut
<1>2. pc'[p] \in Writing \cup {"idle", "done"}
  BY <1>1 DEF WriterGoes
<1>3. SetAt(p) /\ SurvAt(p)
  BY DEF SetInv, SurvInv
<1>4. SetAt(p)'
  BY <1>1, <1>3 DEF SetAt, WriterGoes, Retains
<1>5. SurvAt(p)'
  <2>1. pc'[p] \notin Scanning
    BY <1>2 DEF Writing, Scanning
  <2>2. pc'[p] \in Rotating => loc'[p].surv \in Seq(EntireSurvivor)
    BY <1>3, WriterSurv
  <2>3. pc'[p] # "check"
    BY <1>2 DEF Writing
  <2> QED BY <2>1, <2>2, <2>3 DEF SurvAt, Rotating, Scanning
<1>6. ActiveInv(p)' /\ SealedInv(p)'
  BY <1>2 DEF ActiveInv, SealedInv, Writing
<1> QED BY <1>1, <1>4, <1>5, <1>6, OthersKeep

-----------------------------------------------------------------------------
(* A reader goes on: what its call is about stays, and what it will check  *)
(* in the end holds of what it has seen.                                   *)

OwnInv(p) == SetAt(p) /\ SurvAt(p) /\ ActiveInv(p) /\ SealedInv(p)

Leaves(p) ==
  \/ pc'[p] \in {"idle", "done"}
  \/ /\ pc'[p] \in {"probe", "pop_lock", "sealed", "check"} /\ pc[p] \notin {"idle", "done"}
     /\ Retains(p, loc'[p])
     /\ pc'[p] = "check" => loc'[p].surv = <<>>

LEMMA LeavesKeeps == ASSUME NEW p \in Procs, Leaves(p), OwnInv(p)  PROVE OwnInv(p)'
<1>1. pc'[p] \in {"idle", "done", "probe", "pop_lock", "sealed", "check"}
  BY DEF Leaves
<1>2. SetAt(p)'
  BY DEF OwnInv, SetAt, Leaves, Retains
<1>3. SurvAt(p)'
  BY <1>1 DEF SurvAt, Scanning, Leaves
<1>4. ActiveInv(p)' /\ SealedInv(p)'
  BY <1>1 DEF ActiveInv, SealedInv
<1> QED BY <1>2, <1>3, <1>4 DEF OwnInv

LEMMA NotFoundLeaves ==
  ASSUME Shape, NEW p \in Procs, pc[p] \notin {"idle", "done"}, NotFound(p)  PROVE Leaves(p)
<1>1. CASE loc[p].op = "set"
  <2> DEFINE l == [Quiet EXCEPT !.op = "set", !.key = loc[p].key, !.val = loc[p].val, !.old = loc[p].old]
  <2>1. Goto(p, "check", l)
    BY <1>1 DEF NotFound
  <2>2. l.op = "set" /\ l.key = loc[p].key /\ l.val = loc[p].val /\ l.surv = <<>>
    BY DEF Quiet
  <2> HIDE DEF l
  <2> QED BY <1>1, <2>1, <2>2, GotoHere DEF Leaves, Retains
<1>2. CASE loc[p].op # "set"
  <2>1. Finish(p, Miss)
    BY <1>2 DEF NotFound
  <2> QED BY <2>1, FinishHere DEF Leaves
<1> QED BY <1>1, <1>2

LEMMA NextSealedLeaves ==
  ASSUME Shape, NEW p \in Procs, pc[p] \notin {"idle", "done"}, NextSealed(p)  PROVE Leaves(p)
<1> DEFINE l == [loc[p] EXCEPT !.i = @ + 1, !.gen = 0, !.slot = 0, !.calm = TRUE]
<1>1. Goto(p, "sealed", l)
  BY DEF NextSealed
<1>2. Retains(p, l)
  BY DEF Retains, Shape, Quiet
<1> HIDE DEF l
<1> QED BY <1>1, <1>2, GotoHere DEF Leaves, Retains

LEMMA ReturnsLeave ==
  ASSUME Shape, NEW p \in Procs,
         \/ FilterCheck(p) \/ LookupLockTimeout(p) \/ VerifyActive(p) \/ SealedVerify(p)
         \/ SetLockTimeout(p) \/ Return(p)
  PROVE  Leaves(p)
<1>1. CASE FilterCheck(p)
  <2>1. pc[p] = "filter"
    BY <1>1 DEF FilterCheck, On
  <2>2. NotFound(p) \/ \E to \in {"pop_lock", "probe"} : Goto(p, to, loc[p])
    BY <1>1 DEF FilterCheck
  <2>3. ASSUME NEW to \in {"pop_lock", "probe"}, Goto(p, to, loc[p])  PROVE Leaves(p)
    BY <2>1, <2>3, GotoHere DEF Leaves, Retains
  <2> QED BY <2>1, <2>2, <2>3, NotFoundLeaves
<1>2. CASE LookupLockTimeout(p)
  <2>1. pc[p] = "probe" /\ NotFound(p)
    BY <1>2 DEF LookupLockTimeout, On
  <2> QED BY <2>1, NotFoundLeaves
<1>3. CASE VerifyActive(p)
  <2>1. \E r : Finish(p, r)
    BY <1>3 DEF VerifyActive
  <2> QED BY <2>1, FinishHere DEF Leaves
<1>4. CASE SealedVerify(p)
  <2>1. pc[p] = "sealed_verify" /\ ((\E r : Finish(p, r)) \/ NextSealed(p) \/ NotFound(p))
    BY <1>4 DEF SealedVerify, On
  <2>2. CASE \E r : Finish(p, r)
    BY <2>2, FinishHere DEF Leaves
  <2> QED BY <2>1, <2>2, NextSealedLeaves, NotFoundLeaves
<1>5. CASE SetLockTimeout(p)
  BY <1>5, FinishHere DEF SetLockTimeout, Leaves
<1>6. CASE Return(p)
  <2>1. Goto(p, "idle", Quiet)
    BY <1>6 DEF Return
  <2> QED BY <2>1, GotoHere DEF Leaves
<1> QED BY <1>1, <1>2, <1>3, <1>4, <1>5, <1>6

(* The active page is at rest when it is probed: the entry that is found   *)
(* is whole, and its bytes are its own.                                    *)
LEMMA ProbeActiveKeeps ==
  ASSUME Holder, RingInv, TableInv, WholeInv, Noted, NEW p \in Procs, OwnInv(p), ProbeActive(p)
  PROVE  OwnInv(p)'
<1>d. Shape /\ DOMAIN loc[p] = DOMAIN Quiet
  BY DEF Holder, Shape
<1> PICK a, k, s : a = active_idx /\ k = loc[p].key /\ s = do_probe(page[active_idx], loc[p].key)
  OBVIOUS
<1> DEFINE slot == page[a].slots[s]
           l0 == [loc[p] EXCEPT !.ai = a, !.i = 1]
           l1 == [loc[p] EXCEPT !.ai = a, !.slot = s, !.off = slot.off, !.len = slot.len, !.gen = gen[a],
                                !.seq = slot.seq]
<1>1. pc[p] = "probe" /\ CanLock /\ lock' = NoProc /\ counter' = counter /\ gen' = gen /\ page' = page
  BY DEF ProbeActive, On, ring
<1>2. \/ Goto(p, "sealed", l0) \/ NotFound(p) \/ \E r : Finish(p, r)
      \/ s # NoSlot /\ loc[p].op = "get" /\ Goto(p, "read", l1)
  BY DEF ProbeActive
<1>3. CASE NotFound(p) \/ \E r : Finish(p, r)
  <2>1. Leaves(p)
    BY <1>1, <1>3, <1>d, NotFoundLeaves, FinishHere DEF Leaves
  <2> QED BY <2>1, LeavesKeeps
<1>4. CASE Goto(p, "sealed", l0)
  <2>1. Retains(p, l0)
    BY <1>d DEF Retains, Quiet
  <2> HIDE DEF l0
  <2>2. Leaves(p)
    BY <1>1, <1>4, <1>d, <2>1, GotoHere DEF Leaves, Retains
  <2> QED BY <2>2, LeavesKeeps
<1>5. CASE s # NoSlot /\ loc[p].op = "get" /\ Goto(p, "read", l1)
  <2>1. /\ l1.op = loc[p].op /\ l1.key = k /\ l1.ai = a /\ l1.slot = s /\ l1.off = slot.off
        /\ l1.len = slot.len /\ l1.gen = gen[a] /\ l1.seq = slot.seq
    BY <1>d DEF Quiet
  <2> HIDE DEF l1
  <2>2. pc'[p] = "read" /\ loc'[p] = l1
    BY <1>5, <1>d, GotoHere
  <2>3. Stage = "none" /\ Stage' = "none" /\ lock = NoProc
    BY <1>1, Free, FreeNext
  <2>4. k \in Keys /\ a \in Pages
    <3>1. LocalInv("probe", loc[p])
      BY <1>1 DEF TableInv
    <3> QED BY <3>1, RingPages DEF RingInv, LocalInv, Keyless
  <2>5. s \in SlotIds /\ slot.key = k /\ s \in Live(page[a])
    BY <1>5, <2>4, ProbeFacts
  <2>6. ~Odd(gen[a]) /\ gen[a] \in 0 .. Wrap - 1
    <3>1. ~Odd(gen[a])
      BY <2>3, <2>4, RingInvRests DEF RingAtRest, Holder
    <3> QED BY <2>4, <3>1 DEF RingInv, RingType
  <2>7. Holds(page[a], k, slot.off, slot.len)
    BY <2>3, <2>4, <2>5 DEF WholeInv, Entire
  <2>8. Owned(page[a], s, k, slot.off)
    <3>1. PageInv(page[a]) /\ slot.key # EMPTY
      BY <2>4, <2>5, PageAssumption DEF TableInv, Live
    <3> QED BY <2>5, <3>1, EntryOffset
  <2>9. slot.seq \in Nat
    <3>1. slot \in Slot
      BY <2>4, <2>5, PageFields DEF TableInv, PageInv
    <3> QED BY <3>1 DEF Slot
  <2>10. gens'[p] = 0 /\ seqs'[p] = 0
    BY <1>1, Counted DEF Watching
  <2>11. Undisturbed(a, s, slot.off)'
    BY <2>3 DEF Undisturbed
  <2> HIDE DEF slot
  <2>12. ActiveInv(p)'
    <3>1. Turned(gen[a], 0, gen[a]) /\ Turned(slot.seq, 0, slot.seq)
      BY DEF Turned
    <3> QED BY <1>1, <2>1, <2>2, <2>4, <2>5, <2>6, <2>7, <2>8, <2>9, <2>10, <2>11, <3>1 DEF ActiveInv, slot
  <2>13. SetAt(p)' /\ SurvAt(p)' /\ SealedInv(p)'
    BY <1>5, <2>1, <2>2 DEF SetAt, SurvAt, SealedInv, Scanning
  <2> QED BY <2>12, <2>13 DEF OwnInv
<1> QED BY <1>2, <1>3, <1>4, <1>5

(* A page that keeps its bytes while it is read yields them.               *)
LEMMA ReadsWhole ==
  ASSUME NEW g, NEW k \in Keys, NEW off, NEW len, Holds(page[g], k, off, len)
  PROVE  ReadArena(g, off, len) \in ValuesFor[k]
<1>1. page[g].arena[off] \in Values
  BY DEF Holds, Values
<1> QED BY <1>1 DEF ReadArena, Holds

LEMMA ReadActiveKeeps ==
  ASSUME Holder, TableInv, SameWriter, Noted, NEW p \in Procs, OwnInv(p), ReadActive(p)
  PROVE  OwnInv(p)'
<1>d. Shape /\ DOMAIN loc[p] = DOMAIN Quiet
  BY DEF Holder, Shape
<1> PICK g, t, k, off, len : /\ g = loc[p].ai /\ t = loc[p].slot /\ k = loc[p].key
                             /\ off = loc[p].off /\ len = loc[p].len
  OBVIOUS
<1> DEFINE l == [loc[p] EXCEPT !.res = ReadArena(g, off, len)]
<1>1. pc[p] = "read" /\ Goto(p, "verify", l) /\ gen' = gen /\ page' = page
  BY DEF ReadActive, On, shared
<1>2. /\ l.op = loc[p].op /\ l.key = k /\ l.val = loc[p].val /\ l.ai = g /\ l.slot = t /\ l.off = off
      /\ l.len = len /\ l.gen = loc[p].gen /\ l.seq = loc[p].seq /\ l.res = ReadArena(g, off, len)
  BY <1>d DEF Quiet
<1> HIDE DEF l
<1>3. pc'[p] = "verify" /\ loc'[p] = l
  BY <1>1, <1>d, GotoHere
<1>4. gens'[p] = gens[p] /\ seqs'[p] = seqs[p]
  BY <1>1, Counted DEF Watching, NextSlot, WatchedSlot
<1>5. k \in Keys
  <2>1. LocalInv("read", loc[p])
    BY <1>1 DEF TableInv
  <2> QED BY <2>1 DEF LocalInv, Keyless
<1>6. Undisturbed(g, t, off) => Undisturbed(g, t, off)'
  BY SameWriterStage DEF Undisturbed
<1>7. Holds(page[g], k, off, len) => ReadArena(g, off, len) \in ValuesFor[k]
  BY <1>5, ReadsWhole
<1>8. ActiveInv(p)'
  <2>1. /\ g \in Pages /\ t \in SlotIds /\ loc[p].gen \in 0 .. Wrap - 1 /\ loc[p].seq \in Nat
        /\ Turned(loc[p].gen, gens[p], gen[g])
        /\ gens[p] = 0 =>
             /\ ~Odd(gen[g]) /\ Turned(loc[p].seq, seqs[p], page[g].slots[t].seq)
             /\ seqs[p] = 0 => /\ Holds(page[g], k, off, len) /\ Owned(page[g], t, k, off)
                               /\ Undisturbed(g, t, off)
    BY <1>1 DEF OwnInv, ActiveInv
  <2> QED BY <1>1, <1>2, <1>3, <1>4, <1>6, <1>7, <2>1 DEF ActiveInv
<1>9. SetAt(p)' /\ SurvAt(p)' /\ SealedInv(p)'
  BY <1>1, <1>2, <1>3 DEF OwnInv, SetAt, SurvAt, SealedInv, Scanning
<1> QED BY <1>8, <1>9 DEF OwnInv

LEMMA SealedIsPage ==
  ASSUME TableInv, NEW p \in Procs,
         \/ pc[p] \in {"sealed_probe", "sealed_read", "sealed_verify"}
         \/ pc[p] = "sealed" /\ loc[p].i < NPages
  PROVE  SealedPage(p) \in Pages
<1>1. loc[p].ai \in Pages /\ loc[p].i \in 1 .. NPages /\ NPages \in Nat
  BY CacheAssumption DEF TableInv, LocalInv
<1> QED BY <1>1, SealedPageFacts

(* A page the reader found calm has no writer that will make it active.    *)
LEMMA CalmIsAway == ASSUME NEW g, Calm(g)  PROVE Away(g)
BY DEF Calm, Away, Stage

LEMMA AwayStill == ASSUME SameWriter, NEW g, Away(g)  PROVE Away(g)'
BY SameWriterStage DEF Away

LEMMA SealedGenerationKeeps ==
  ASSUME Holder, RingInv, TableInv, SameWriter, Noted, NEW p \in Procs, OwnInv(p), SealedGeneration(p)
  PROVE  OwnInv(p)'
<1>d. Shape /\ DOMAIN loc[p] = DOMAIN Quiet
  BY DEF Holder, Shape
<1> PICK g, calm : g = SealedPage(p) /\ calm = Calm(SealedPage(p))
  OBVIOUS
<1> DEFINE l == [loc[p] EXCEPT !.gen = gen[g], !.calm = calm]
<1>1. pc[p] = "sealed" /\ gen' = gen /\ page' = page
  BY DEF SealedGeneration, On, shared
<1>2. NotFound(p) \/ NextSealed(p) \/ (loc[p].i < NPages /\ ~Odd(gen[g]) /\ Goto(p, "sealed_probe", l))
  BY DEF SealedGeneration
<1>3. CASE NotFound(p) \/ NextSealed(p)
  <2>1. Leaves(p)
    BY <1>1, <1>3, <1>d, NotFoundLeaves, NextSealedLeaves
  <2> QED BY <2>1, LeavesKeeps
<1>4. CASE loc[p].i < NPages /\ ~Odd(gen[g]) /\ Goto(p, "sealed_probe", l)
  <2>1. /\ Retains(p, l) /\ l.ai = loc[p].ai /\ l.i = loc[p].i /\ l.gen = gen[g] /\ l.calm = calm
    BY <1>d DEF Retains, Quiet
  <2> HIDE DEF l
  <2>2. pc'[p] = "sealed_probe" /\ loc'[p] = l
    BY <1>4, <1>d, GotoHere
  <2>3. gens'[p] = 0
    BY <1>1, Counted DEF Watching
  <2>4. g \in Pages /\ gen[g] \in 0 .. Wrap - 1
    BY <1>1, <1>4, SealedIsPage DEF RingInv, RingType
  <2>5. calm => Away(g)'
    BY CalmIsAway, AwayStill
  <2>6. SealedPage(p)' = g
    BY <2>1, <2>2 DEF SealedPage
  <2>7. SealedInv(p)'
    <3>1. Turned(gen[g], 0, gen[g])
      BY DEF Turned
    <3> QED BY <1>1, <1>4, <2>1, <2>2, <2>3, <2>4, <2>5, <2>6, <3>1 DEF SealedInv
  <2>8. SetAt(p)' /\ SurvAt(p)' /\ ActiveInv(p)'
    BY <1>1, <2>1, <2>2 DEF OwnInv, SetAt, SurvAt, ActiveInv, Scanning, Retains
  <2> QED BY <2>7, <2>8 DEF OwnInv
<1> QED BY <1>2, <1>3, <1>4

(* What a step on the sealed path has to show of its page.                 *)
LEMMA SealedGoesOn ==
  ASSUME Holder, TableInv, SameWriter, Noted, NEW p \in Procs, OwnInv(p),
         pc[p] \in {"sealed_probe", "sealed_read"}, NEW to \in {"sealed_read", "sealed_verify"}, NEW l,
         Goto(p, to, l), Retains(p, l), l.ai = loc[p].ai, l.i = loc[p].i, l.gen = loc[p].gen,
         l.calm = loc[p].calm, NEW g, g = SealedPage(p),
         gens[p] = 0 /\ loc[p].calm =>
           /\ to = "sealed_read" => Holds(page'[g], l.key, l.off, l.len)
           /\ to = "sealed_verify" /\ l.op = "get" => l.res \in ValuesFor[l.key]
  PROVE  OwnInv(p)'
<1>1. pc'[p] = to /\ loc'[p] = l
  BY GotoHere DEF Holder
<1>2. gens'[p] = gens[p] /\ gen' = gen
  BY Counted DEF Watching, SameWriter
<1>3. /\ loc[p].gen \in 0 .. Wrap - 1 /\ Turned(loc[p].gen, gens[p], gen[g])
      /\ gens[p] = 0 /\ loc[p].calm => ~Odd(gen[g]) /\ Away(g)
  BY DEF OwnInv, SealedInv
<1>4. SealedPage(p)' = g
  BY <1>1 DEF SealedPage
<1>5. Away(g) => Away(g)'
  BY AwayStill
<1>6. SealedInv(p)'
  BY <1>1, <1>2, <1>3, <1>4, <1>5 DEF SealedInv
<1>7. SetAt(p)' /\ SurvAt(p)' /\ ActiveInv(p)'
  BY <1>1 DEF OwnInv, SetAt, SurvAt, ActiveInv, Scanning, Retains
<1> QED BY <1>6, <1>7 DEF OwnInv

LEMMA SealedProbeKeeps ==
  ASSUME Holder, RingInv, TableInv, WholeInv, SameWriter, Noted, NEW p \in Procs, OwnInv(p), SealedProbe(p)
  PROVE  OwnInv(p)'
<1>d. Shape /\ DOMAIN loc[p] = DOMAIN Quiet
  BY DEF Holder, Shape
<1> PICK g, s : g = SealedPage(p) /\ s = do_probe(page[SealedPage(p)], loc[p].key)
  OBVIOUS
<1> PICK slot, res : /\ slot = page[g].slots[s]
                     /\ res = (loc[p].op = "contains" \/ SameContent(slot, loc[p].val))
  OBVIOUS
<1> DEFINE l1 == [loc[p] EXCEPT !.off = slot.off, !.len = slot.len]
           l2 == [loc[p] EXCEPT !.res = res]
<1>1. pc[p] = "sealed_probe"
  BY DEF SealedProbe, On
<1>2. \/ NextSealed(p)
      \/ s # NoSlot /\ loc[p].op = "get" /\ Goto(p, "sealed_read", l1)
      \/ loc[p].op # "get" /\ Goto(p, "sealed_verify", l2)
  BY DEF SealedProbe
<1>3. CASE NextSealed(p)
  <2>1. Leaves(p)
    BY <1>1, <1>3, <1>d, NextSealedLeaves
  <2> QED BY <2>1, LeavesKeeps
<1>4. CASE loc[p].op # "get" /\ Goto(p, "sealed_verify", l2)
  <2>1. /\ Retains(p, l2) /\ l2.ai = loc[p].ai /\ l2.i = loc[p].i /\ l2.gen = loc[p].gen
        /\ l2.calm = loc[p].calm /\ l2.op # "get"
    BY <1>4, <1>d DEF Retains, Quiet
  <2> HIDE DEF l2
  <2> QED BY <1>1, <1>4, <2>1, SealedGoesOn
<1>5. CASE s # NoSlot /\ loc[p].op = "get" /\ Goto(p, "sealed_read", l1)
  <2>1. /\ Retains(p, l1) /\ l1.ai = loc[p].ai /\ l1.i = loc[p].i /\ l1.gen = loc[p].gen
        /\ l1.calm = loc[p].calm /\ l1.off = slot.off /\ l1.len = slot.len /\ l1.key = loc[p].key
    BY <1>d DEF Retains, Quiet
  <2> HIDE DEF l1
  <2>2. g \in Pages /\ loc[p].key \in Keys
    <3>1. LocalInv("sealed_probe", loc[p])
      BY <1>1 DEF TableInv
    <3> QED BY <1>1, <3>1, SealedIsPage DEF LocalInv, Keyless
  <2>3. s \in SlotIds /\ slot.key = loc[p].key /\ s \in Live(page[g])
    BY <1>5, <2>2, ProbeFacts
  <2>4. KeptPage(page[g], page'[g])
    BY <2>2, <1>d, ReadKeepsPages DEF ReadStep, Lookup
  <2>5. ASSUME gens[p] = 0, loc[p].calm  PROVE Holds(page'[g], l1.key, l1.off, l1.len)
    <3>1. g # active_idx
      BY <1>1, <2>5 DEF OwnInv, SealedInv, Away
    <3>2. Entire(page[g], s)
      BY <2>2, <2>3, <3>1 DEF WholeInv
    <3>3. Holds(page[g], l1.key, l1.off, l1.len)
      BY <2>1, <2>3, <3>2 DEF Entire
    <3> QED BY <2>4, <3>3, KeptWatched
  <2> QED BY <1>1, <1>5, <2>1, <2>5, SealedGoesOn
<1> QED BY <1>2, <1>3, <1>4, <1>5

LEMMA SealedReadKeeps ==
  ASSUME Holder, TableInv, SameWriter, Noted, NEW p \in Procs, OwnInv(p), SealedRead(p)
  PROVE  OwnInv(p)'
<1>d. Shape /\ DOMAIN loc[p] = DOMAIN Quiet
  BY DEF Holder, Shape
<1> PICK g, off, len : g = SealedPage(p) /\ off = loc[p].off /\ len = loc[p].len
  OBVIOUS
<1> DEFINE l == [loc[p] EXCEPT !.res = ReadArena(g, off, len)]
<1>1. pc[p] = "sealed_read" /\ Goto(p, "sealed_verify", l)
  BY DEF SealedRead, On
<1>2. /\ Retains(p, l) /\ l.ai = loc[p].ai /\ l.i = loc[p].i /\ l.gen = loc[p].gen /\ l.calm = loc[p].calm
      /\ l.res = ReadArena(g, off, len) /\ l.key = loc[p].key
  BY <1>d DEF Retains, Quiet
<1> HIDE DEF l
<1>3. loc[p].key \in Keys
  <2>1. LocalInv("sealed_read", loc[p])
    BY <1>1 DEF TableInv
  <2> QED BY <2>1 DEF LocalInv, Keyless
<1>4. ASSUME gens[p] = 0, loc[p].calm  PROVE l.res \in ValuesFor[l.key]
  <2>1. Holds(page[g], loc[p].key, off, len)
    BY <1>1, <1>4 DEF OwnInv, SealedInv
  <2> QED BY <1>2, <1>3, <2>1, ReadsWhole
<1> QED BY <1>1, <1>2, <1>4, SealedGoesOn

(* The scan of the page that is to retire: as long as the ring has not     *)
(* turned it is not the active one, so what it holds is whole.             *)
LEMMA ScanGoesOn ==
  ASSUME Shape, SameWriter, Noted, NEW p \in Procs, OwnInv(p), pc[p] \in {"scan", "chunk", "chunk_read"},
         NEW to \in {"chunk", "chunk_read", "insert"}, NEW l, Goto(p, to, l), Retains(p, l),
         l.rot = loc[p].rot, l.snap = loc[p].snap, l.ai = loc[p].ai,
         turns[p] = 0 => l.surv \in Seq(EntireSurvivor)
  PROVE  OwnInv(p)'
<1>1. pc'[p] = to /\ loc'[p] = l
  BY GotoHere
<1>2. turns'[p] = turns[p] /\ counter' = counter /\ retiring_idx' = retiring_idx
  BY Counted, SameWriterStage DEF Scanning, SameWriter
<1>3. loc[p].rot /\ (turns[p] = 0 => counter = loc[p].snap /\ loc[p].ai = retiring_idx)
  BY DEF OwnInv, SurvAt, Scanning
<1>4. SurvAt(p)'
  BY <1>1, <1>2, <1>3 DEF SurvAt, Scanning
<1>5. SetAt(p)' /\ ActiveInv(p)' /\ SealedInv(p)'
  BY <1>1 DEF OwnInv, SetAt, ActiveInv, SealedInv, Retains
<1> QED BY <1>4, <1>5 DEF OwnInv

LEMMA ScanFound ==
  ASSUME NEW p \in Procs, OwnInv(p), pc[p] \in {"scan", "chunk", "chunk_read"}, turns[p] = 0
  PROVE  loc[p].surv \in Seq(EntireSurvivor) /\ loc[p].ai = retiring_idx
BY DEF OwnInv, SurvAt, Scanning

LEMMA AfterChunkGoesOn ==
  ASSUME Shape, SameWriter, Noted, NEW p \in Procs, OwnInv(p), pc[p] \in {"scan", "chunk", "chunk_read"},
         NEW l, DOMAIN l = DOMAIN Quiet, Goto(p, AfterChunk(p, l).to, AfterChunk(p, l).l), Retains(p, l),
         l.rot = loc[p].rot, l.snap = loc[p].snap, l.ai = loc[p].ai,
         turns[p] = 0 => l.surv \in Seq(EntireSurvivor)
  PROVE  OwnInv(p)'
<1> DEFINE m == [l EXCEPT !.i = @ + CHUNK, !.att = 0, !.gen = 0]
           n == [l EXCEPT !.i = 0, !.att = 0, !.gen = 0]
<1>1. Goto(p, "chunk", m) \/ Goto(p, "insert", n)
  BY DEF AfterChunk
<1>2. m.op = l.op /\ m.key = l.key /\ m.val = l.val /\ m.rot = l.rot /\ m.snap = l.snap /\ m.ai = l.ai /\ m.surv = l.surv
  BY DEF Quiet
<1>3. n.op = l.op /\ n.key = l.key /\ n.val = l.val /\ n.rot = l.rot /\ n.snap = l.snap /\ n.ai = l.ai /\ n.surv = l.surv
  BY DEF Quiet
<1> HIDE DEF m, n
<1>4. Retains(p, m) /\ Retains(p, n)
  BY <1>2, <1>3 DEF Retains
<1>5. CASE Goto(p, "chunk", m)
  BY <1>2, <1>4, <1>5, ScanGoesOn
<1>6. CASE Goto(p, "insert", n)
  BY <1>3, <1>4, <1>6, ScanGoesOn
<1> QED BY <1>1, <1>5, <1>6

LEMMA CheckFullKeeps ==
  ASSUME Holder, SameWriter, Noted, NEW p \in Procs, OwnInv(p), CheckFull(p)  PROVE OwnInv(p)'
<1>d. Shape /\ DOMAIN loc[p] = DOMAIN Quiet
  BY DEF Holder, Shape
<1> PICK full : full = (page[active_idx].count >= GenMax)
  OBVIOUS
<1> DEFINE to == IF full THEN "scan" ELSE "insert"
           l == [loc[p] EXCEPT !.rot = full, !.ai = IF full THEN retiring_idx ELSE 0,
                               !.snap = IF full THEN counter ELSE 0]
<1>1. pc[p] = "check" /\ Goto(p, to, l) /\ counter' = counter
  BY DEF CheckFull, On, ring
<1>2. /\ Retains(p, l) /\ l.rot = full /\ l.ai = (IF full THEN retiring_idx ELSE 0)
      /\ l.snap = (IF full THEN counter ELSE 0) /\ l.surv = loc[p].surv
  BY <1>d DEF Retains, Quiet
<1> HIDE DEF l
<1>3. pc'[p] = to /\ loc'[p] = l
  BY <1>1, <1>d, GotoHere
<1>4. l.surv = <<>> /\ <<>> \in Seq(EntireSurvivor)
  BY <1>1, <1>2 DEF OwnInv, SurvAt
<1>5. retiring_idx' = retiring_idx
  BY <1>1 DEF retiring_idx, active_idx
<1>6. SurvAt(p)'
  BY <1>1, <1>2, <1>3, <1>4, <1>5 DEF SurvAt, Scanning
<1>7. SetAt(p)' /\ ActiveInv(p)' /\ SealedInv(p)'
  BY <1>1, <1>2, <1>3 DEF OwnInv, SetAt, ActiveInv, SealedInv, Retains
<1> QED BY <1>6, <1>7 DEF OwnInv

LEMMA ScanKeeps ==
  ASSUME Holder, SameWriter, Noted, NEW p \in Procs, OwnInv(p), ScanStart(p) \/ ChunkStart(p)
  PROVE  OwnInv(p)'
<1>d. Shape /\ DOMAIN loc[p] = DOMAIN Quiet /\ Retains(p, loc[p])
  BY DEF Holder, Shape, Retains
<1> PICK g : g = gen[loc[p].ai]
  OBVIOUS
<1> DEFINE l == [loc[p] EXCEPT !.gen = g]
<1>1. /\ pc[p] \in {"scan", "chunk", "chunk_read"}
      /\ \/ \E to \in {"insert", "chunk"} : Goto(p, to, loc[p])
         \/ Goto(p, AfterChunk(p, loc[p]).to, AfterChunk(p, loc[p]).l)
         \/ Goto(p, "chunk_read", l)
  BY DEF ScanStart, ChunkStart, On
<1>2. Retains(p, l) /\ l.rot = loc[p].rot /\ l.snap = loc[p].snap /\ l.ai = loc[p].ai /\ l.surv = loc[p].surv
  BY <1>d DEF Retains, Quiet
<1> HIDE DEF l
<1>3. turns[p] = 0 => loc[p].surv \in Seq(EntireSurvivor)
  BY <1>1, ScanFound
<1>4. CASE \E to \in {"insert", "chunk"} : Goto(p, to, loc[p])
  BY <1>1, <1>3, <1>4, <1>d, ScanGoesOn
<1>5. CASE Goto(p, AfterChunk(p, loc[p]).to, AfterChunk(p, loc[p]).l)
  BY <1>1, <1>3, <1>5, <1>d, AfterChunkGoesOn
<1>6. CASE Goto(p, "chunk_read", l)
  BY <1>1, <1>2, <1>3, <1>6, <1>d, ScanGoesOn
<1> QED BY <1>1, <1>4, <1>5, <1>6

LEMMA ChunkEnd ==
  ASSUME NEW i \in SlotIds
  PROVE  Min({i + CHUNK, SlotCount}) \in i .. SlotCount
<1> DEFINE T == {i + CHUNK, SlotCount}
<1>1. T \subseteq Nat /\ T # {} /\ i \in Nat /\ SlotCount \in Nat
  BY CacheAssumption, PageAssumption DEF SlotIds
<1>2. \A j \in T : j \in Nat /\ j >= i
  BY CacheAssumption, PageAssumption DEF SlotIds
<1>3. SlotCount \in T
  OBVIOUS
<1> HIDE DEF T
<1>4. Min(T) \in T /\ \A j \in T : Min(T) <= j
  BY <1>1, LeastMember
<1> QED BY <1>1, <1>2, <1>3, <1>4 DEF T

LEMMA ChunkReadKeeps ==
  ASSUME Holder, RingInv, TableInv, WholeInv, SameWriter, Noted, NEW p \in Procs, OwnInv(p), ChunkRead(p)
  PROVE  OwnInv(p)'
<1>d. Shape /\ DOMAIN loc[p] = DOMAIN Quiet /\ Retains(p, loc[p])
  BY DEF Holder, Shape, Retains
<1> DEFINE sv == Survivors(page[loc[p].ai], loc[p].i, Min({loc[p].i + CHUNK, SlotCount}))
           l == [loc[p] EXCEPT !.surv = @ \o sv]
           m == [loc[p] EXCEPT !.att = @ + 1, !.gen = 0]
<1>1. /\ pc[p] = "chunk_read"
      /\ \/ Goto(p, AfterChunk(p, l).to, AfterChunk(p, l).l)
         \/ Goto(p, AfterChunk(p, loc[p]).to, AfterChunk(p, loc[p]).l)
         \/ Goto(p, "chunk", m)
  BY DEF ChunkRead, On
<1>2. loc[p].i \in SlotIds
  <2>1. LocalInv("chunk_read", loc[p])
    BY <1>1 DEF TableInv
  <2> QED BY <2>1 DEF LocalInv
<1>3. ASSUME turns[p] = 0  PROVE sv \in Seq(EntireSurvivor) /\ loc[p].surv \in Seq(EntireSurvivor)
  <2>1. loc[p].surv \in Seq(EntireSurvivor) /\ loc[p].ai = retiring_idx
    BY <1>1, <1>3, ScanFound
  <2>2. loc[p].ai \in Pages /\ loc[p].ai # active_idx
    BY <2>1, RingPages DEF RingInv
  <2>3. AllEntire(page[loc[p].ai]) /\ PageInv(page[loc[p].ai])
    BY <2>2 DEF AllEntire, WholeInv, TableInv
  <2> QED BY <1>2, <2>1, <2>3, ChunkEnd, SurvivorsEntire
<1> HIDE DEF sv
<1>4. /\ DOMAIN l = DOMAIN Quiet /\ Retains(p, l) /\ l.rot = loc[p].rot /\ l.snap = loc[p].snap
      /\ l.ai = loc[p].ai /\ l.surv = loc[p].surv \o sv
  BY <1>d DEF Retains, Quiet
<1>5. Retains(p, m) /\ m.rot = loc[p].rot /\ m.snap = loc[p].snap /\ m.ai = loc[p].ai /\ m.surv = loc[p].surv
  BY <1>d DEF Retains, Quiet
<1> HIDE DEF l, m
<1>6. turns[p] = 0 => l.surv \in Seq(EntireSurvivor) /\ m.surv \in Seq(EntireSurvivor)
  BY <1>3, <1>4, <1>5
<1>7. CASE Goto(p, "chunk", m)
  BY <1>1, <1>5, <1>6, <1>7, <1>d, ScanGoesOn
<1>8. CASE Goto(p, AfterChunk(p, l).to, AfterChunk(p, l).l)
  BY <1>1, <1>4, <1>6, <1>8, <1>d, AfterChunkGoesOn
<1>9. CASE Goto(p, AfterChunk(p, loc[p]).to, AfterChunk(p, loc[p]).l)
  BY <1>1, <1>3, <1>9, <1>d, AfterChunkGoesOn
<1> QED BY <1>1, <1>7, <1>8, <1>9

LEMMA ReaderKeeps ==
  ASSUME Holder, RingInv, TableInv, WholeInv, HistoryType, Noted, SetInv, SurvInv, ReaderInv,
         NEW p \in Procs, ReadStep(p)
  PROVE  SetInv' /\ SurvInv' /\ ReaderInv'
<1>1. SameWriter /\ Gentle /\ Shape /\ RingType
  BY ReadIsGentle DEF Holder, RingInv
<1>2. OwnInv(p)
  BY DEF OwnInv, SetInv, SurvInv, ReaderInv
<1>3. ASSUME \/ FilterCheck(p) \/ LookupLockTimeout(p) \/ VerifyActive(p) \/ SealedVerify(p)
             \/ SetLockTimeout(p) \/ Return(p)
      PROVE  OwnInv(p)'
  BY <1>1, <1>2, <1>3, ReturnsLeave, LeavesKeeps
<1>4. OwnInv(p)'
  BY <1>1, <1>2, <1>3, ProbeActiveKeeps, ReadActiveKeeps, SealedGenerationKeeps, SealedProbeKeeps,
     SealedReadKeeps, CheckFullKeeps, ScanKeeps, ChunkReadKeeps DEF ReadStep, Lookup
<1>5. SetAt(p)' /\ SurvAt(p)' /\ ActiveInv(p)' /\ SealedInv(p)'
  BY <1>4 DEF OwnInv
<1>6. Reads(p)
  BY <1>1, ReadStepReads
<1>7. PICK to : Moves(p, to)
  BY <1>6 DEF Reads
<1>8. \A q \in Procs \ {p} : pc'[q] = pc[q] /\ loc'[q] = loc[q]
  BY <1>1, <1>7 DEF Moves, Shape
<1>9. \A q \in Procs \ {p} : Stays(q)
  BY <1>8, StaysPut
<1> QED BY <1>1, <1>5, <1>9, OthersKeep

-----------------------------------------------------------------------------
(* A call begins.                                                          *)

LEMMA StartKeeps ==
  ASSUME Holder, RingInv, TableInv, WholeInv, HistoryType, Noted, SetInv, SurvInv, ReaderInv,
         NEW p \in Procs, NEW op, NEW k, NEW v, Start(p, op, k, v), op = "set" => v \in ValuesFor[k]
  PROVE  SetInv' /\ SurvInv' /\ ReaderInv'
<1> DEFINE kv == IF op = "set" THEN {<<k, v>>} ELSE {}
           told(l) == [l EXCEPT !.old = @ \ kv, !.fresh = IF l.op = "get" /\ l.key = k THEN @ \cup kv ELSE @]
           mine == [Quiet EXCEPT !.op = op, !.key = k, !.val = v,
                                 !.fresh = IF op = "get" THEN {w \in valid : w[1] = k} ELSE {},
                                 !.old = IF op \in {"set", "pop", "invalidate"}
                                         THEN {w \in valid \ (InFlight \cup kv) : op = "invalidate" \/ w[1] = k}
                                         ELSE {}]
<1>1. /\ pc'[p] \in {"inv_lock", "filter"} /\ loc'[p] = mine
      /\ \A q \in Procs : q # p => pc'[q] = pc[q] /\ loc'[q] = told(loc[q])
  BY DEF Start, Holder, Shape
<1>2. mine.op = op /\ mine.key = k /\ mine.val = v
  BY DEF Quiet
<1> HIDE DEF mine
<1>3. ASSUME NEW q \in Procs \ {p}  PROVE Stays(q)
  <2>1. DOMAIN loc[q] = DOMAIN Quiet
    BY DEF Holder, Shape
  <2> DEFINE l == told(loc[q])
  <2>2. /\ l.op = loc[q].op /\ l.key = loc[q].key /\ l.val = loc[q].val /\ l.ai = loc[q].ai /\ l.i = loc[q].i
        /\ l.slot = loc[q].slot /\ l.off = loc[q].off /\ l.len = loc[q].len /\ l.gen = loc[q].gen
        /\ l.seq = loc[q].seq /\ l.res = loc[q].res /\ l.rot = loc[q].rot /\ l.snap = loc[q].snap
        /\ l.surv = loc[q].surv /\ l.calm = loc[q].calm
    BY <2>1 DEF Quiet
  <2>3. pc'[q] = pc[q] /\ loc'[q] = l
    BY <1>1
  <2> HIDE DEF l
  <2> QED BY <2>2, <2>3 DEF Stays
<1>4. SetAt(p)' /\ SurvAt(p)' /\ ActiveInv(p)' /\ SealedInv(p)'
  BY <1>1, <1>2 DEF SetAt, SurvAt, ActiveInv, SealedInv, Scanning
<1>5. Gentle /\ RingType
  BY StartIsGentle DEF RingInv
<1> QED BY <1>3, <1>4, <1>5, OthersKeep

-----------------------------------------------------------------------------
(* The inductive invariant.                                                *)

ReadInv ==
  /\ Shape /\ WriterHoldsLock /\ RingInv /\ TableInv
  /\ HistoryType /\ SetInv /\ WholeInv /\ SurvInv /\ ReaderInv

LEMMA ReadInit == ASSUME NoProc \notin Procs, Init, NothingNoted  PROVE ReadInv
<1>1. Shape /\ WriterHoldsLock /\ RingInv /\ TableInv
  BY LockInit, RingInit, TableInit
<1>2. HistoryType
  BY DEF NothingNoted, HistoryType
<1>3. \A p \in Procs : pc[p] = "idle"
  BY DEF Init
<1>4. SetInv /\ SurvInv /\ ReaderInv
  BY <1>3 DEF SetInv, SetAt, SurvInv, SurvAt, Scanning, ReaderInv, ActiveInv, SealedInv
<1>5. WholeInv
  <2>1. \A g \in Pages : Live(page[g]) = {}
    BY BlankKeeps DEF Init
  <2>2. Stage = "none"
    BY DEF Init, Stage
  <2> QED BY <2>1, <2>2 DEF WholeInv
<1> QED BY <1>1, <1>2, <1>4, <1>5 DEF ReadInv

LEMMA ReadIdle == ASSUME ReadInv, UNCHANGED <<vars, history>>  PROVE SetInv' /\ WholeInv' /\ SurvInv' /\ ReaderInv'
<1>1. /\ lock' = lock /\ counter' = counter /\ gen' = gen /\ page' = page /\ pc' = pc /\ loc' = loc
      /\ gens' = gens /\ seqs' = seqs /\ turns' = turns
  BY DEF vars, shared, history
<1>2. SetInv' /\ SurvInv'
  BY <1>1 DEF ReadInv, SetInv, SetAt, SurvInv, SurvAt, retiring_idx, active_idx
<1>3. WholeInv'
  BY <1>1 DEF ReadInv, WholeInv, Stage, active_idx, Plan
<1>4. ReaderInv'
  BY <1>1 DEF ReadInv, ReaderInv, ActiveInv, SealedInv, SealedPage, Undisturbed, Away, Stage, Cursor, Plan,
              active_idx, retiring_idx
<1> QED BY <1>2, <1>3, <1>4

LEMMA ReadNext ==
  ASSUME MaxCrashes = 0, NoProc \notin Procs, ReadInv, NoWrap, [Next /\ Noted]_<<vars, history>>  PROVE ReadInv'
<1>1. [Next]_vars
  BY DEF vars
<1>2. Shape' /\ WriterHoldsLock' /\ RingInv' /\ TableInv'
  BY <1>1, LockStep, RingStep, TableStep DEF ReadInv
<1>3. HistoryType'
  BY HistoryStep DEF ReadInv, HistoryType, history
<1>4. /\ Holder /\ RingInv /\ RingType /\ TableInv /\ WholeInv /\ HistoryType /\ SetInv /\ SurvInv /\ ReaderInv
      /\ dead = {} /\ Shape
  BY DEF ReadInv, RingInv, Holder
<1>5. CASE UNCHANGED <<vars, history>>
  BY <1>2, <1>3, <1>5, ReadIdle DEF ReadInv
<1>6. CASE Next /\ Noted
  <2>1. ASSUME NEW p \in Procs, Crash(p)  PROVE FALSE
    <3>1. Cardinality(dead) = 0
      BY <1>4, FS_EmptySet
    <3> QED BY <2>1, <3>1 DEF Crash
  <2>2. ASSUME NEW p \in Procs, ReadStep(p)  PROVE SetInv' /\ WholeInv' /\ SurvInv' /\ ReaderInv'
    BY <1>4, <1>6, <2>2, ReadIsGentle, ReaderKeeps
  <2>3. ASSUME NEW p \in Procs, WriteStep(p)  PROVE SetInv' /\ WholeInv' /\ SurvInv' /\ ReaderInv'
    BY <1>4, <1>6, <2>3, WriteIsGentle, WriterKeeps
  <2>4. ASSUME NEW p \in Procs, Call(p)  PROVE SetInv' /\ WholeInv' /\ SurvInv' /\ ReaderInv'
    <3>1. PICK op, k, v : Start(p, op, k, v) /\ (op = "set" => v \in ValuesFor[k])
      BY <2>4 DEF Call
    <3> QED BY <1>4, <1>6, <3>1, StartIsGentle, StartKeeps
  <2>5. SetInv' /\ WholeInv' /\ SurvInv' /\ ReaderInv'
    BY <1>6, <2>1, <2>2, <2>3, <2>4, StepSplit DEF Next
  <2> QED BY <1>2, <1>3, <2>5 DEF ReadInv
<1> QED BY <1>5, <1>6

LEMMA ActiveReadEnds == ASSUME ReadInv, NoWrap  PROVE ActiveReadIsWhole
<1> SUFFICES ASSUME NEW p \in Procs, pc[p] = "verify", gen[loc[p].ai] = loc[p].gen,
                    page[loc[p].ai].slots[loc[p].slot].seq = loc[p].seq
             PROVE  loc[p].res \in ValuesFor[loc[p].key]
  BY DEF ActiveReadIsWhole
<1>1. ActiveInv(p) /\ gens[p] \in Nat /\ seqs[p] \in Nat /\ gens[p] < Wrap /\ seqs[p] < Wrap
  BY DEF ReadInv, ReaderInv, HistoryType, NoWrap
<1>2. loc[p].gen \in Nat /\ loc[p].seq \in Nat /\ Turned(loc[p].gen, gens[p], loc[p].gen)
  BY <1>1, WrapFacts DEF ActiveInv
<1>3. gens[p] = 0
  BY <1>1, <1>2, TurnedSame
<1>4. Turned(loc[p].seq, seqs[p], loc[p].seq)
  BY <1>1, <1>3 DEF ActiveInv
<1>5. seqs[p] = 0
  BY <1>1, <1>2, <1>4, TurnedSame
<1> QED BY <1>1, <1>3, <1>5 DEF ActiveInv

LEMMA SealedReadEnds == ASSUME ReadInv, NoWrap  PROVE SealedReadIsWhole
<1> SUFFICES ASSUME NEW p \in Procs, pc[p] = "sealed_verify", loc[p].op = "get", loc[p].calm,
                    gen[SealedPage(p)] = loc[p].gen
             PROVE  loc[p].res \in ValuesFor[loc[p].key]
  BY DEF SealedReadIsWhole
<1>1. SealedInv(p) /\ gens[p] \in Nat /\ gens[p] < Wrap
  BY DEF ReadInv, ReaderInv, HistoryType, NoWrap
<1>2. loc[p].gen \in Nat /\ Turned(loc[p].gen, gens[p], loc[p].gen)
  BY <1>1, WrapFacts DEF SealedInv
<1>3. gens[p] = 0
  BY <1>1, <1>2, TurnedSame
<1> QED BY <1>1, <1>3 DEF SealedInv

(* get_with() on the active page, which it probes under the lock and reads *)
(* without it: a response that passes the generation and value_seq checks  *)
(* is one that some set() stored for the key, whole, whatever sets, pops,  *)
(* rotations and invalidations ran in between; for every number of         *)
(* workers, pages, slots and arena bytes, as long as no worker is killed   *)
(* and no counter comes round to a value that was noted.                   *)
THEOREM ActiveReadsAreWhole ==
  ASSUME MaxCrashes = 0  PROVE Recorded /\ []NoWrap => []ActiveReadIsWhole
<1>1. NoProc \notin Procs
  BY CacheAssumption
<1>2. Init /\ NothingNoted => ReadInv
  BY <1>1, ReadInit
<1>3. ReadInv /\ NoWrap /\ [Next /\ Noted]_<<vars, history>> => ReadInv'
  BY <1>1, ReadNext
<1>4. ReadInv /\ NoWrap => ActiveReadIsWhole
  BY ActiveReadEnds
<1> QED BY <1>2, <1>3, <1>4, PTL DEF Recorded

(* get_with() on a sealed page, which it probes and reads without the      *)
(* lock: if the page was sealed, and not about to be made active, when the *)
(* reader took its even generation, a response read under an unchanged     *)
(* generation is one that some set() stored for the key, whole, under the  *)
(* same premises.                                                          *)
THEOREM SealedReadsAreWhole ==
  ASSUME MaxCrashes = 0  PROVE Recorded /\ []NoWrap => []SealedReadIsWhole
<1>1. NoProc \notin Procs
  BY CacheAssumption
<1>2. Init /\ NothingNoted => ReadInv
  BY <1>1, ReadInit
<1>3. ReadInv /\ NoWrap /\ [Next /\ Noted]_<<vars, history>> => ReadInv'
  BY <1>1, ReadNext
<1>4. ReadInv /\ NoWrap => SealedReadIsWhole
  BY SealedReadEnds
<1> QED BY <1>2, <1>3, <1>4, PTL DEF Recorded
=============================================================================
