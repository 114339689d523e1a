------------------------------- MODULE GenCache -------------------------------
(***************************************************************************)
(* The cross-process generational cache of shared_cache/src/gen_cache.rs,  *)
(* called through lib.rs: N pages in a ring, one active and written under  *)
(* the spinlock, the others sealed and read without it; a cuckoo filter in *)
(* front of them; rotation in three phases of which the middle one runs    *)
(* without the lock.                                                       *)
(*                                                                         *)
(* Workers interleave at every point where another worker can see memory   *)
(* half way: what a worker does under the lock is split at its writes, and *)
(* a lock-free read is split at the loads its checks compare.  A section   *)
(* that only reads under the lock is one step.  Entries never expire, as   *)
(* api_worker.py opens the cache.                                          *)
(***************************************************************************)
EXTENDS PageTable, Cuckoo

CONSTANTS Procs,       \* worker processes
          NoProc,
          Script,      \* the operations each worker may call
          MaxCalls,    \* per worker, a bound on its calls, or Forever
          MaxCrashes,  \* bound on the workers that are killed
          NPages,      \* n_pages
          GenMax,      \* gen_maxsize: entries that make a page full
          CHUNK,       \* slots per chunk of the survivor scan
          MAX_RETRIES, \* attempts per chunk
          HashOf,      \* the hash of each key, as Cuckoo sees it
          ValuesFor,   \* the responses that may be set for each key
          Size,        \* units a serialized response takes
          Class,       \* body length and sampled body hash of a response
          Wrap,        \* generations and value_seqs count modulo Wrap,
          CounterWrap, \* the ring counter modulo CounterWrap
          Miss         \* a lookup's None

Pages == 0 .. NPages - 1
Forever == -1
Values == UNION {ValuesFor[k] : k \in Keys}

ASSUME CacheAssumption ==
  /\ NPages \in Nat /\ NPages >= 2
  /\ GenMax \in Nat \ {0} /\ CHUNK \in Nat \ {0} /\ MAX_RETRIES \in Nat \ {0}
  /\ Wrap \in Nat \ {0} /\ Wrap % 2 = 0
  /\ CounterWrap \in Nat \ {0} /\ CounterWrap % NPages = 0
  /\ NoProc \notin Procs /\ Miss \notin Values
  /\ \A v \in Values : Size[v] \in Nat \ {0}
  /\ \A v \in Values : Zero # v /\ Torn # v
  /\ \A k \in Keys : HashOf[k] \in [lo : Nat, hi : Nat]

VARIABLES lock,     \* the worker that holds the spinlock
          dead,     \* workers that were killed
          counter,  \* CoordHeader.counter
          filter,   \* the cuckoo filter's table
          gen,      \* each page's generation, odd while it is rewritten
          sealed,   \* each page's is_sealed
          page,     \* the pages: arena_head, entry_count, slots, arena
          pc, loc,  \* each worker's program counter and local variables
          calls,    \* calls each worker has made
          valid     \* history: the <<key, value>> pairs no completed set,
                    \* pop or invalidate has superseded

ring == <<counter, gen, sealed>>
shared == <<lock, counter, gen, sealed, filter, page>>
vars == <<shared, dead, pc, loc, calls, valid>>

Quiet == [op |-> "none", key |-> Miss, val |-> Miss, ai |-> 0, i |-> 0, slot |-> 0,
          off |-> 0, len |-> 0, gen |-> 0, seq |-> 0, res |-> Miss, rot |-> FALSE,
          snap |-> 0, att |-> 0, surv |-> <<>>, plan |-> <<>>, calm |-> TRUE, fresh |-> {}, old |-> {}]

active_idx == counter % NPages
retiring_idx == (active_idx + 1) % NPages
Odd(n) == n % 2 = 1
Inc(n) == (n + 1) % Wrap

(* What f sees of the arena: the response whose bytes start at off, if it  *)
(* is whole and as long as the reader believes.                            *)
ReadArena(g, off, len) ==
  LET content == page[g].arena[off]
  IN  IF content \in Values /\ Size[content] = len THEN content ELSE Torn

(* try_lock() as SpinLock models it: it takes a free lock, and that of a   *)
(* dead worker.  A section that only reads is one step, and leaves the     *)
(* lock released.                                                          *)
CanLock == lock \in dead \cup {NoProc}

On(p, step) == p \notin dead /\ pc[p] = step

(* p moves on, with its locals replaced as given.                          *)
Goto(p, to, l) ==
  /\ pc' = [pc EXCEPT ![p] = to]
  /\ loc' = [loc EXCEPT ![p] = l]
  /\ UNCHANGED <<dead, calls>>

(* The call of p returns r.  A completed set, pop or invalidate supersedes *)
(* what was valid when it began; one that gave up supersedes nothing.      *)
Finish(p, r) ==
  /\ Goto(p, "done", [Quiet EXCEPT !.op = loc[p].op, !.key = loc[p].key, !.val = loc[p].val,
                                  !.res = r, !.fresh = loc[p].fresh])
  /\ valid' = valid \ loc[p].old
GiveUp(p) ==
  /\ Goto(p, "idle", Quiet)
  /\ UNCHANGED valid

Init ==
  /\ lock = NoProc
  /\ dead = {}
  /\ counter = 0
  /\ filter = emptyFilter
  /\ gen = [g \in Pages |-> 0]
  /\ sealed = [g \in Pages |-> g # 0]
  /\ page = [g \in Pages |-> BlankPage]
  /\ pc = [p \in Procs |-> "idle"]
  /\ loc = [p \in Procs |-> Quiet]
  /\ calls = [p \in Procs |-> 0]
  /\ valid = {}

-----------------------------------------------------------------------------
(* Calls.  `old' is what a completed update will have superseded, `fresh'  *)
(* what a get may return; a set that begins meanwhile is concurrent with   *)
(* both.                                                                   *)

InFlight == {<<loc[q].key, loc[q].val>> :
               q \in {r \in Procs \ dead : loc[r].op = "set" /\ pc[r] # "done"}}

Start(p, op, k, v) ==
  LET kv     == IF op = "set" THEN {<<k, v>>} ELSE {}
      superseded == {w \in valid \ (InFlight \cup kv) : op = "invalidate" \/ w[1] = k}
      mine   == [Quiet EXCEPT !.op = op, !.key = k, !.val = v,
                              !.fresh = IF op = "get" THEN {w \in valid : w[1] = k} ELSE {},
                              !.old = IF op \in {"set", "pop", "invalidate"}
                                      THEN superseded ELSE {}]
      told(l) == [l EXCEPT !.old = @ \ kv,
                           !.fresh = IF l.op = "get" /\ l.key = k THEN @ \cup kv ELSE @]
  IN  /\ p \notin dead
      /\ pc[p] = "idle"
      /\ MaxCalls[p] = Forever \/ calls[p] < MaxCalls[p]
      /\ op \in Script[p]
      /\ pc' = [pc EXCEPT ![p] = IF op = "invalidate" THEN "inv_lock" ELSE "filter"]
      /\ loc' = [q \in Procs |-> IF q = p THEN mine ELSE told(loc[q])]
      /\ calls' = IF MaxCalls[p] = Forever THEN calls ELSE [calls EXCEPT ![p] = @ + 1]
      /\ valid' = valid \cup kv
      /\ UNCHANGED <<shared, dead>>

Call(p) ==
  \/ \E k \in Keys : \/ \E op \in {"get", "contains", "pop"} : Start(p, op, k, Miss)
                     \/ \E v \in ValuesFor[k] : Start(p, "set", k, v)
  \/ Start(p, "invalidate", Miss, Miss)

Return(p) ==
  /\ On(p, "done")
  /\ Goto(p, "idle", Quiet)
  /\ UNCHANGED <<shared, valid>>

Crash(p) ==
  /\ p \notin dead /\ pc[p] # "idle"
  /\ Cardinality(dead) < MaxCrashes
  /\ dead' = dead \cup {p}
  /\ UNCHANGED <<shared, pc, loc, calls, valid>>

-----------------------------------------------------------------------------
(* The lookups: get_with(), contains() and the fast_check() that set()     *)
(* makes first.  A fast_check() that fails goes on to the set itself.      *)

NotFound(p) ==
  IF loc[p].op = "set"
  THEN /\ Goto(p, "check", [Quiet EXCEPT !.op = "set", !.key = loc[p].key,
                                              !.val = loc[p].val, !.old = loc[p].old])
       /\ UNCHANGED valid
  ELSE Finish(p, Miss)

(* fast_check(): the stored response is taken for identical to v when its  *)
(* body has the same length and the same sampled hash.                     *)
SameContentAlways(slot, v) == TRUE   \* mutant of SameContent

SameContent(slot, v) == slot.cls = Class[v]

FilterCheck(p) ==
  /\ On(p, "filter")
  /\ UNCHANGED shared
  /\ IF lookup(filter, HashOf[loc[p].key])
     THEN /\ Goto(p, IF loc[p].op = "pop" THEN "pop_lock" ELSE "probe", loc[p])
          /\ UNCHANGED valid
     ELSE NotFound(p)

LookupLockTimeout(p) ==
  /\ On(p, "probe")
  /\ ~CanLock
  /\ NotFound(p)
  /\ UNCHANGED shared

ProbeActive(p) ==
  LET k == loc[p].key
      s == do_probe(page[active_idx], k)
      slot == page[active_idx].slots[s]
  IN  /\ On(p, "probe")
      /\ CanLock
      /\ lock' = NoProc
      /\ UNCHANGED <<ring, filter, page>>
      /\ \/ /\ s = NoSlot
            /\ Goto(p, "sealed", [loc[p] EXCEPT !.ai = active_idx, !.i = 1])
            /\ UNCHANGED valid
         \/ /\ s # NoSlot /\ loc[p].op = "get"
            /\ Goto(p, "read",
                    [loc[p] EXCEPT !.ai = active_idx, !.slot = s, !.off = slot.off,
                                   !.len = slot.len, !.gen = gen[active_idx],
                                   !.seq = slot.seq])
            /\ UNCHANGED valid
         \/ /\ s # NoSlot /\ loc[p].op = "contains"
            /\ Finish(p, TRUE)
         \/ /\ s # NoSlot /\ loc[p].op = "set" /\ SameContent(slot, loc[p].val)
            /\ Finish(p, "unchanged")
         \/ /\ s # NoSlot /\ loc[p].op = "set" /\ ~SameContent(slot, loc[p].val)
            /\ NotFound(p)

ReadActive(p) ==
  /\ On(p, "read")
  /\ Goto(p, "verify",
          [loc[p] EXCEPT !.res = ReadArena(loc[p].ai, loc[p].off, loc[p].len)])
  /\ UNCHANGED <<shared, valid>>

VerifyActive(p) ==
  LET g == loc[p].ai
      same == gen[g] = loc[p].gen /\ page[g].slots[loc[p].slot].seq = loc[p].seq
  IN  /\ On(p, "verify")
      /\ Finish(p, IF same THEN loc[p].res ELSE Miss)
      /\ UNCHANGED shared

(* Sealed pages, newest first, counted back from the active index that was *)
(* read under the lock.                                                    *)
SealedPage(p) == (loc[p].ai + NPages - loc[p].i) % NPages

NextSealed(p) ==
  /\ Goto(p, "sealed", [loc[p] EXCEPT !.i = @ + 1, !.gen = 0, !.slot = 0, !.calm = TRUE])
  /\ UNCHANGED valid

(* History: page g is sealed, and no rotation and no invalidate is about   *)
(* to make it active.  A lookup that walks the ring from an index it read  *)
(* earlier may be looking at a page that is not.                           *)
Calm(g) ==
  /\ g # active_idx
  /\ \A q \in Procs : /\ pc[q] = "rot_advance" => g # retiring_idx
                      /\ pc[q] \in {"inv_odd", "inv_zero", "inv_even", "inv_reset"} => g # 0

(* Mutant of SealedGeneration: the reader waits for an even generation.    *)
SealedGenerationWaits(p) ==
  LET g == SealedPage(p)
  IN  /\ On(p, "sealed")
      /\ UNCHANGED shared
      /\ \/ /\ loc[p].i = NPages
            /\ NotFound(p)
         \/ /\ loc[p].i < NPages /\ ~Odd(gen[g])
            /\ Goto(p, "sealed_probe", [loc[p] EXCEPT !.gen = gen[g]])
            /\ UNCHANGED valid

SealedGeneration(p) ==
  LET g == SealedPage(p)
  IN  /\ On(p, "sealed")
      /\ UNCHANGED shared
      /\ \/ /\ loc[p].i = NPages
            /\ NotFound(p)
         \/ /\ loc[p].i < NPages /\ Odd(gen[g])
            /\ NextSealed(p)
         \/ /\ loc[p].i < NPages /\ ~Odd(gen[g])
            /\ Goto(p, "sealed_probe", [loc[p] EXCEPT !.gen = gen[g], !.calm = Calm(g)])
            /\ UNCHANGED valid

SealedProbe(p) ==
  LET g == SealedPage(p)
      s == do_probe(page[g], loc[p].key)
      slot == page[g].slots[s]
  IN  /\ On(p, "sealed_probe")
      /\ \/ /\ s = NoSlot
            /\ NextSealed(p)
            /\ UNCHANGED shared
         \/ /\ s # NoSlot /\ loc[p].op = "get"
            /\ Goto(p, "sealed_read",
                    [loc[p] EXCEPT !.off = slot.off, !.len = slot.len])
            /\ page' = [page EXCEPT ![g].slots[s].vis = TRUE]
            /\ UNCHANGED <<lock, ring, filter, valid>>
         \/ /\ s # NoSlot /\ loc[p].op # "get"
            /\ Goto(p, "sealed_verify",
                    [loc[p] EXCEPT !.res = 
                                   loc[p].op = "contains" \/ SameContent(slot, loc[p].val)])
            /\ UNCHANGED <<shared, valid>>

SealedRead(p) ==
  /\ On(p, "sealed_read")
  /\ Goto(p, "sealed_verify",
          [loc[p] EXCEPT !.res = ReadArena(SealedPage(p), loc[p].off, loc[p].len)])
  /\ UNCHANGED <<shared, valid>>

SealedVerify(p) ==
  LET same == gen[SealedPage(p)] = loc[p].gen
  IN  /\ On(p, "sealed_verify")
      /\ UNCHANGED shared
      /\ \/ /\ same /\ (loc[p].op = "set" => loc[p].res)
            /\ Finish(p, loc[p].res)
         \/ /\ ~same /\ loc[p].op = "contains"
            /\ NextSealed(p)
         \/ /\ \/ ~same /\ loc[p].op # "contains"
               \/ same /\ loc[p].op = "set" /\ ~loc[p].res
            /\ NotFound(p)

Lookup(p) ==
  \/ FilterCheck(p) \/ LookupLockTimeout(p) \/ ProbeActive(p)
  \/ ReadActive(p) \/ VerifyActive(p)
  \/ SealedGeneration(p) \/ SealedProbe(p) \/ SealedRead(p) \/ SealedVerify(p)
-----------------------------------------------------------------------------
(* set(), phase 1: is the active page full?                                *)

SetLockTimeout(p) ==
  /\ ~CanLock
  /\ \E step \in {"check", "insert", "pop_lock", "inv_lock"} : On(p, step)
  /\ GiveUp(p)
  /\ UNCHANGED shared

(* Mutant of CheckFull: the entries of a page are compared with the size   *)
(* of the whole cache.                                                     *)
CheckFullOfCache(p) ==
  LET full == page[active_idx].count >= NPages * GenMax
  IN  /\ On(p, "check")
      /\ CanLock
      /\ Goto(p, IF full THEN "scan" ELSE "insert",
              [loc[p] EXCEPT !.rot = full, !.ai = IF full THEN retiring_idx ELSE 0,
                             !.snap = IF full THEN counter ELSE 0])
      /\ lock' = NoProc
      /\ UNCHANGED <<ring, filter, page, valid>>

CheckFull(p) ==
  LET full == page[active_idx].count >= GenMax
  IN  /\ On(p, "check")
      /\ CanLock
      /\ Goto(p, IF full THEN "scan" ELSE "insert",
              [loc[p] EXCEPT !.rot = full, !.ai = IF full THEN retiring_idx ELSE 0,
                             !.snap = IF full THEN counter ELSE 0])
      /\ lock' = NoProc
      /\ UNCHANGED <<ring, filter, page, valid>>

(* Phase 2, without the lock: scan_survivors() of the page that was to     *)
(* retire, ai, chunk by chunk; i is where the next chunk starts.           *)
ScanStart(p) ==
  /\ On(p, "scan")
  /\ Goto(p, IF Odd(gen[loc[p].ai]) THEN "insert" ELSE "chunk", loc[p])
  /\ UNCHANGED <<shared, valid>>

AfterChunk(p, l) == IF l.i + CHUNK < SlotCount
                    THEN [to |-> "chunk", l |-> [l EXCEPT !.i = @ + CHUNK, !.att = 0, !.gen = 0]]
                    ELSE [to |-> "insert", l |-> [l EXCEPT !.i = 0, !.att = 0, !.gen = 0]]

ChunkStart(p) ==
  LET g == gen[loc[p].ai]
      skip == AfterChunk(p, loc[p])
  IN  /\ On(p, "chunk")
      /\ IF Odd(g) THEN Goto(p, skip.to, skip.l)
         ELSE Goto(p, "chunk_read", [loc[p] EXCEPT !.gen = g])
      /\ UNCHANGED <<shared, valid>>

Survivors(pg, from, to) ==
  LET kept(i) == pg.slots[i].key \notin {EMPTY, TOMBSTONE} /\ pg.slots[i].vis
      entry(i) == [key |-> pg.slots[i].key, len |-> pg.slots[i].len,
                   cls |-> pg.slots[i].cls, content |-> pg.arena[pg.slots[i].off]]
      found[n \in 0 .. to - from] ==
        IF n = 0 THEN <<>>
        ELSE IF kept(from + n - 1) THEN Append(found[n - 1], entry(from + n - 1))
        ELSE found[n - 1]
  IN  found[to - from]

ChunkRead(p) ==
  LET pg == page[loc[p].ai]
      end == Min({loc[p].i + CHUNK, SlotCount})
      stable == gen[loc[p].ai] = loc[p].gen
      again == [to |-> "chunk", l |-> [loc[p] EXCEPT !.att = @ + 1, !.gen = 0]]
      next == IF stable
              THEN AfterChunk(p, [loc[p] EXCEPT !.surv = @ \o Survivors(pg, loc[p].i, end)])
              ELSE IF loc[p].att + 1 < MAX_RETRIES THEN again ELSE AfterChunk(p, loc[p])
  IN  /\ On(p, "chunk_read")
      /\ Goto(p, next.to, next.l)
      /\ UNCHANGED <<shared, valid>>

(* Mutant of InsertLock: a try_lock() that failed is not noticed.          *)
InsertLockBlind(p) ==
  /\ On(p, "insert")
  /\ lock' = p
  /\ Goto(p, "place", [loc[p] EXCEPT !.rot = FALSE, !.snap = 0, !.ai = 0, !.surv = <<>>])
  /\ UNCHANGED <<ring, filter, page, valid>>

(* Phase 3, under the lock: rotate if nobody has since phase 1, insert.    *)
InsertLock(p) ==
  /\ On(p, "insert")
  /\ CanLock
  /\ lock' = p
  /\ Goto(p, IF loc[p].rot /\ counter = loc[p].snap THEN "rot_odd" ELSE "place",
          [loc[p] EXCEPT !.rot = FALSE, !.snap = 0, !.ai = 0,
                         !.surv = IF loc[p].rot /\ counter = loc[p].snap THEN @ ELSE <<>>])
  /\ UNCHANGED <<ring, filter, page, valid>>

(* Mutant of RotateOdd: the page is rewritten under its even generation.   *)
RotateOddForgotten(p) ==
  /\ On(p, "rot_odd")
  /\ Goto(p, "rot_zero", loc[p])
  /\ sealed' = [sealed EXCEPT ![active_idx] = TRUE]
  /\ UNCHANGED <<lock, counter, gen, filter, page, valid>>

(* commit_rotation(): the retiring page turns odd, the active one is       *)
(* sealed with its visited bits cleared.                                   *)
RotateOdd(p) ==
  LET clear(slots) == [i \in SlotIds |-> IF slots[i].key # EMPTY
                                         THEN [slots[i] EXCEPT !.vis = FALSE] ELSE slots[i]]
  IN  /\ On(p, "rot_odd")
      /\ Goto(p, "rot_zero", loc[p])
      /\ gen' = [gen EXCEPT ![retiring_idx] = Inc(@)]
      /\ sealed' = [sealed EXCEPT ![active_idx] = TRUE]
      /\ page' = [page EXCEPT ![active_idx].slots = clear(@)]
      /\ UNCHANGED <<lock, counter, filter, valid>>

RotateZero(p) ==
  /\ On(p, "rot_zero")
  /\ Goto(p, "rot_fill", loc[p])
  /\ page' = [page EXCEPT ![retiring_idx] = BlankPage]
  /\ UNCHANGED <<lock, ring, filter, valid>>

(* Survivors go into the blank page; one that does not fit leaves the      *)
(* filter.                                                                 *)
Refill(pg, f, survivors) ==
  LET add(c, s) == [pg |-> do_insert(c.pg, s),
                    f |-> IF plan_insert(c.pg, s.key, s.len).fits THEN c.f
                          ELSE delete(c.f, HashOf[s.key])]
      after[n \in 0 .. Len(survivors)] ==
        IF n = 0 THEN [pg |-> pg, f |-> f] ELSE add(after[n - 1], survivors[n])
  IN  after[Len(survivors)]

RotateFill(p) ==
  LET done == Refill(page[retiring_idx], filter, loc[p].surv)
  IN  /\ On(p, "rot_fill")
      /\ Goto(p, "rot_even", [loc[p] EXCEPT !.surv = <<>>])
      /\ page' = [page EXCEPT ![retiring_idx] = done.pg]
      /\ filter' = done.f
      /\ UNCHANGED <<lock, ring, valid>>

(* Mutant of RotateEven: the page is left marked as being rewritten.       *)
RotateEvenForgotten(p) ==
  /\ On(p, "rot_even")
  /\ Goto(p, "rot_advance", loc[p])
  /\ UNCHANGED <<shared, valid>>

RotateEven(p) ==
  /\ On(p, "rot_even")
  /\ Goto(p, "rot_advance", loc[p])
  /\ gen' = [gen EXCEPT ![retiring_idx] = Inc(@)]
  /\ UNCHANGED <<lock, counter, sealed, filter, page, valid>>

RotateAdvance(p) ==
  /\ On(p, "rot_advance")
  /\ Goto(p, "place", loc[p])
  /\ sealed' = [sealed EXCEPT ![retiring_idx] = FALSE]
  /\ counter' = (counter + 1) % CounterWrap
  /\ UNCHANGED <<lock, gen, filter, page, valid>>

(* do_insert() into the active page.  An in-place overwrite is bracketed   *)
(* by two increments of value_seq; until the copy is complete a reader of  *)
(* those bytes sees them torn.                                             *)
PlaceFails(p) ==
  /\ On(p, "place")
  /\ ~plan_insert(page[active_idx], loc[p].key, Size[loc[p].val]).fits
  /\ lock' = NoProc
  /\ GiveUp(p)
  /\ UNCHANGED <<ring, filter, page>>

(* Mutant of BumpSeq: the overwrite is not bracketed.                      *)
NoBump(pg, pl) == pg

BumpSeq(pg, pl) == IF pl.inplace THEN [pg EXCEPT !.slots[pl.slot].seq = Inc(@)] ELSE pg

Place(p) ==
  LET pl == plan_insert(page[active_idx], loc[p].key, Size[loc[p].val])
  IN  /\ On(p, "place")
      /\ pl.fits
      /\ Goto(p, "copy", [loc[p] EXCEPT !.plan = pl])
      /\ page' = [page EXCEPT ![active_idx] = copy_value(BumpSeq(@, pl), pl, Torn)]
      /\ UNCHANGED <<lock, ring, filter, valid>>

Copy(p) ==
  LET pl == loc[p].plan
  IN  /\ On(p, "copy")
      /\ Goto(p, "publish", loc[p])
      /\ page' = [page EXCEPT ![active_idx] = BumpSeq(copy_value(@, pl, loc[p].val), pl)]
      /\ UNCHANGED <<lock, ring, filter, valid>>

Publish(p) ==
  /\ On(p, "publish")
  /\ Goto(p, "fingerprint", [loc[p] EXCEPT !.plan = <<>>])
  /\ page' = [page EXCEPT ![active_idx] =
                publish_slot(@, loc[p].plan, loc[p].key, Size[loc[p].val], Class[loc[p].val])]
  /\ UNCHANGED <<lock, ring, filter, valid>>

(* Mutant of InsertFingerprint: the entry is not entered in the filter.    *)
InsertFingerprintForgotten(p) ==
  /\ On(p, "fingerprint")
  /\ lock' = NoProc
  /\ Finish(p, "stored")
  /\ UNCHANGED <<ring, filter, page>>

InsertFingerprint(p) ==
  /\ On(p, "fingerprint")
  /\ filter' = insert(filter, HashOf[loc[p].key])
  /\ lock' = NoProc
  /\ Finish(p, "stored")
  /\ UNCHANGED <<ring, page>>

Set(p) ==
  \/ SetLockTimeout(p) \/ CheckFull(p) \/ ScanStart(p) \/ ChunkStart(p) \/ ChunkRead(p)
  \/ InsertLock(p) \/ RotateOdd(p) \/ RotateZero(p) \/ RotateFill(p) \/ RotateEven(p)
  \/ RotateAdvance(p) \/ PlaceFails(p) \/ Place(p) \/ Copy(p) \/ Publish(p)
  \/ InsertFingerprint(p)

-----------------------------------------------------------------------------
(* pop(): every page in turn, under the lock.                              *)

PopLock(p) ==
  /\ On(p, "pop_lock")
  /\ CanLock
  /\ lock' = p
  /\ Goto(p, "pop_page", [loc[p] EXCEPT !.res = FALSE])
  /\ UNCHANGED <<ring, filter, page, valid>>

PopPage(p) ==
  LET g == loc[p].i
      s == do_probe(page[g], loc[p].key)
  IN  /\ On(p, "pop_page")
      /\ \/ /\ g = NPages
            /\ lock' = NoProc
            /\ Finish(p, loc[p].res)
            /\ UNCHANGED <<ring, filter, page>>
         \/ /\ g < NPages /\ s = NoSlot
            /\ Goto(p, "pop_page", [loc[p] EXCEPT !.i = @ + 1])
            /\ UNCHANGED <<shared, valid>>
         \/ /\ g < NPages /\ s # NoSlot
            /\ Goto(p, "pop_tomb", [loc[p] EXCEPT !.slot = s, !.res = TRUE])
            /\ IF g = active_idx
               THEN /\ page' = [page EXCEPT ![g].slots[s].seq = Inc(@),
                                            ![g].count = IF @ = 0 THEN 0 ELSE @ - 1]
                    /\ filter' = delete(filter, HashOf[loc[p].key])
                    /\ UNCHANGED gen
               ELSE /\ gen' = [gen EXCEPT ![g] = Inc(@)]
                    /\ UNCHANGED <<filter, page>>
            /\ UNCHANGED <<lock, counter, sealed, valid>>

(* Mutant of PopTomb: the slot is freed rather than marked.                *)
PopTombEmpties(p) ==
  LET g == loc[p].i
  IN  /\ On(p, "pop_tomb")
      /\ Goto(p, IF g = active_idx THEN "pop_page" ELSE "pop_even",
              [loc[p] EXCEPT !.slot = 0, !.i = IF g = active_idx THEN @ + 1 ELSE @])
      /\ page' = [page EXCEPT ![g].slots[loc[p].slot].key = EMPTY]
      /\ UNCHANGED <<lock, ring, filter, valid>>

PopTomb(p) ==
  LET g == loc[p].i
  IN  /\ On(p, "pop_tomb")
      /\ Goto(p, IF g = active_idx THEN "pop_page" ELSE "pop_even",
              [loc[p] EXCEPT !.slot = 0, !.i = IF g = active_idx THEN @ + 1 ELSE @])
      /\ page' = [page EXCEPT ![g].slots[loc[p].slot].key = TOMBSTONE]
      /\ UNCHANGED <<lock, ring, filter, valid>>

PopEven(p) ==
  /\ On(p, "pop_even")
  /\ Goto(p, "pop_page", [loc[p] EXCEPT !.i = @ + 1])
  /\ gen' = [gen EXCEPT ![loc[p].i] = Inc(@)]
  /\ UNCHANGED <<lock, counter, sealed, filter, page, valid>>

Pop(p) == PopLock(p) \/ PopPage(p) \/ PopTomb(p) \/ PopEven(p)

-----------------------------------------------------------------------------
(* invalidate()                                                            *)

InvalidateLock(p) ==
  /\ On(p, "inv_lock")
  /\ CanLock
  /\ lock' = p
  /\ filter' = emptyFilter
  /\ Goto(p, "inv_odd", loc[p])
  /\ UNCHANGED <<ring, page, valid>>

InvalidateOdd(p) ==
  /\ On(p, "inv_odd")
  /\ Goto(p, "inv_zero", loc[p])
  /\ gen' = [gen EXCEPT ![loc[p].i] = Inc(@)]
  /\ UNCHANGED <<lock, counter, sealed, filter, page, valid>>

InvalidateZero(p) ==
  /\ On(p, "inv_zero")
  /\ Goto(p, "inv_even", loc[p])
  /\ page' = [page EXCEPT ![loc[p].i] = BlankPage]
  /\ sealed' = [sealed EXCEPT ![loc[p].i] = loc[p].i # 0]
  /\ UNCHANGED <<lock, counter, gen, filter, valid>>

InvalidateEven(p) ==
  /\ On(p, "inv_even")
  /\ Goto(p, IF loc[p].i + 1 < NPages THEN "inv_odd" ELSE "inv_reset",
          [loc[p] EXCEPT !.i = @ + 1])
  /\ gen' = [gen EXCEPT ![loc[p].i] = Inc(@)]
  /\ UNCHANGED <<lock, counter, sealed, filter, page, valid>>

InvalidateReset(p) ==
  /\ On(p, "inv_reset")
  /\ counter' = 0
  /\ lock' = NoProc
  /\ Finish(p, "flushed")
  /\ UNCHANGED <<gen, sealed, filter, page>>

Invalidate(p) ==
  \/ InvalidateLock(p) \/ InvalidateOdd(p) \/ InvalidateZero(p)
  \/ InvalidateEven(p) \/ InvalidateReset(p)

-----------------------------------------------------------------------------

Step(p) == Lookup(p) \/ Set(p) \/ Pop(p) \/ Invalidate(p) \/ Return(p)

Next == \E p \in Procs : Call(p) \/ Step(p) \/ Crash(p)

Spec == Init /\ [][Next]_vars
-----------------------------------------------------------------------------

Labels == {"done", "idle", "filter", "probe", "read", "verify", "sealed", "sealed_probe",
           "sealed_read", "sealed_verify", "check", "scan", "chunk", "chunk_read", "insert",
           "rot_odd", "rot_zero", "rot_fill", "rot_even", "rot_advance", "place", "copy",
           "publish", "fingerprint", "pop_lock", "pop_page", "pop_tomb", "pop_even",
           "inv_lock", "inv_odd", "inv_zero", "inv_even", "inv_reset"}

TypeOK ==
  /\ lock \in Procs \cup {NoProc}
  /\ dead \subseteq Procs
  /\ counter \in Nat
  /\ filter \in [Buckets -> [SlotIdx -> Nat]]
  /\ gen \in [Pages -> 0 .. Wrap - 1]
  /\ sealed \in [Pages -> BOOLEAN]
  /\ DOMAIN page = Pages
  /\ \A g \in Pages :
       /\ page[g].count \in Nat /\ page[g].head \in 0 .. ArenaCap
       /\ \A i \in SlotIds : page[g].slots[i].key \in Keys \cup {EMPTY, TOMBSTONE}
       /\ \A a \in 0 .. ArenaCap - 1 : page[g].arena[a] \in Values \cup {Zero, Torn}
  /\ pc \in [Procs -> Labels]

(* The workers that write shared memory.                                   *)
Writing == {"rot_odd", "rot_zero", "rot_fill", "rot_even", "rot_advance", "place", "copy",
            "publish", "fingerprint", "pop_page", "pop_tomb", "pop_even",
            "inv_odd", "inv_zero", "inv_even", "inv_reset"}

(* Only the holder of the spinlock is in the middle of a change to the     *)
(* pages, the filter or the counter.                                       *)
WriterHoldsLock == \A p \in Procs \ dead : pc[p] \in Writing <=> lock = p

(* What makes WriterHoldsLock inductive: no call under way has lost its    *)
(* locals, and the lock belongs to nobody or to a worker.                  *)
Shape ==
  /\ DOMAIN pc = Procs /\ DOMAIN loc = Procs
  /\ \A p \in Procs : DOMAIN loc[p] = DOMAIN Quiet
  /\ lock \in Procs \cup {NoProc}
  /\ dead \subseteq Procs

(* Whenever nobody holds the lock the ring is at rest: every generation is *)
(* even, and exactly the page the counter names is unsealed.               *)
RingAtRest ==
  lock = NoProc => \A g \in Pages : ~Odd(gen[g]) /\ (sealed[g] <=> g # active_idx)

(* Where the holder of the lock is, and the page its loop is at.           *)
Stage == IF lock \in Procs THEN pc[lock] ELSE "none"
Cursor == IF lock \in Procs THEN loc[lock].i ELSE 0

(* The page that the holder of the lock has marked odd.                    *)
Rewriting(g) ==
  \/ Stage \in {"rot_zero", "rot_fill", "rot_even"} /\ g = retiring_idx
  \/ Stage \in {"pop_even", "inv_zero", "inv_even"} /\ g = Cursor
  \/ Stage = "pop_tomb" /\ g = Cursor /\ g # active_idx

(* The cursor with which pop() and invalidate() go through the pages.      *)
CursorInv ==
  \A p \in Procs :
    /\ pc[p] \in {"filter", "pop_lock", "inv_lock"} => loc[p].i = 0
    /\ pc[p] = "pop_page" => loc[p].i \in 0 .. NPages
    /\ pc[p] \in {"pop_tomb", "pop_even", "inv_odd", "inv_zero", "inv_even"}
         => loc[p].i \in Pages

(* A generation is odd exactly while the holder of the lock rewrites that  *)
(* page: the bumps come in pairs, on every path.                           *)
ParityInv == \A g \in Pages : Odd(gen[g]) <=> Rewriting(g)

(* The seals, as a rotation and an invalidate move them: while invalidate  *)
(* runs, the pages before Reset are as they will be when it ends.          *)
Reset == CASE Stage \in {"inv_odd", "inv_zero"} -> Cursor
           [] Stage = "inv_even" -> Cursor + 1
           [] Stage = "inv_reset" -> NPages
           [] OTHER -> 0

SealInv ==
  \A g \in Pages :
    /\ Stage \in {"rot_zero", "rot_fill", "rot_even", "rot_advance"} => sealed[g]
    /\ g < Reset => (sealed[g] <=> g # 0)
    /\ Stage \notin {"rot_zero", "rot_fill", "rot_even", "rot_advance", "inv_odd",
                     "inv_zero", "inv_even", "inv_reset"}
         => (sealed[g] <=> g # active_idx)

RingType ==
  /\ counter \in 0 .. CounterWrap - 1
  /\ gen \in [Pages -> 0 .. Wrap - 1]
  /\ sealed \in [Pages -> BOOLEAN]

(* Why the ring comes to rest: generations, seals and cursors at every     *)
(* step of every writer, as long as no worker is killed.                   *)
RingInv == dead = {} /\ RingType /\ CursorInv /\ ParityInv /\ SealInv

(* The table of every page keeps its shape through inserts, tombstones and *)
(* their reuse: no key twice, every entry within reach of its probe, no    *)
(* two entries sharing arena bytes.                                        *)
PagesWellFormed ==
  \A g \in Pages : NoDuplicateKey(page[g]) /\ Reachable(page[g]) /\ ArenaDisjoint(page[g])

(* A change that is cut short is contained: nobody but the holder of the   *)
(* lock is in the middle of one, and pages keep their shape.               *)
CutsAreContained == TypeOK /\ WriterHoldsLock /\ PagesWellFormed

(* entry_count, which decides when to rotate, is the number of entries of  *)
(* the active page; in sealed pages pop() leaves it too high, never low.   *)
CountsEntries ==
  lock = NoProc =>
    /\ page[active_idx].count = Cardinality(Live(page[active_idx]))
    /\ \A g \in Pages : page[g].count >= Cardinality(Live(page[g]))

(* The tables are in order: shape and counts.                              *)
PagesInOrder == PagesWellFormed /\ CountsEntries

(* get_with(): "the generation/value_seq checks after f returns detect any *)
(* concurrent write".  On the active-page path a response that passes both *)
(* checks is one that was set for the key, whole.                          *)
ActiveReadIsWhole ==
  \A p \in Procs :
    /\ pc[p] = "verify"
    /\ gen[loc[p].ai] = loc[p].gen
    /\ page[loc[p].ai].slots[loc[p].slot].seq = loc[p].seq
    => loc[p].res \in ValuesFor[loc[p].key]

(* The sealed pages' seqlock: if the page was sealed, and not about to be  *)
(* made active, when the reader took its even generation, then a response  *)
(* read under an unchanged generation is one that was set for the key,     *)
(* whole, whatever rotations, pops and invalidations came in between.      *)
SealedReadIsWhole ==
  \A p \in Procs :
    /\ pc[p] = "sealed_verify" /\ loc[p].op = "get" /\ loc[p].calm
    /\ gen[SealedPage(p)] = loc[p].gen
    => loc[p].res \in ValuesFor[loc[p].key]

(* A get returns a miss or a response that some set() stored for that very *)
(* key: never torn bytes, never another key's response.  get_with()        *)
(* promises it: "The generation/value_seq checks after `f` returns detect  *)
(* any concurrent write and discard the result."                           *)
Integrity ==
  \A p \in Procs :
    pc[p] = "done" /\ loc[p].op = "get" => loc[p].res \in ValuesFor[loc[p].key] \cup {Miss}

(* A get never returns a response that a later set, pop or invalidate had  *)
(* superseded before the get began.                                        *)
Freshness ==
  \A p \in Procs :
    pc[p] = "done" /\ loc[p].op = "get"
      => loc[p].res = Miss \/ <<loc[p].key, loc[p].res>> \in loc[p].fresh

(* Every entry that is in a page can be found: the filter in front of the  *)
(* pages knows it.                                                         *)
EntriesPassFilter ==
  lock = NoProc =>
    \A g \in Pages : \A i \in Live(page[g]) : lookup(filter, HashOf[page[g].slots[i].key])

(* pop() promises to "remove all copies of `key` from every page": a get   *)
(* that begins after it returned, with no set of the key since, misses.    *)
PopIsFinal ==
  \A p \in Procs : pc[p] = "done" /\ loc[p].op = "get" /\ loc[p].fresh = {}
                    => loc[p].res = Miss

(* pop() says that the fingerprint it leaves for a sealed copy "is cleared *)
(* on the next rotation": after a rotation the filter knows only keys that *)
(* some page holds.                                                        *)
RotationClearsFilter ==
  [][counter' = (counter + 1) % CounterWrap =>
       \A k \in Keys : lookup(filter', HashOf[k])
                       => \E g \in Pages : do_probe(page'[g], k) # NoSlot]_vars

(* invalidate(): "page is stable (zeroed and reset); generation always     *)
(* lands on even".                                                         *)
InvalidateLandsEven ==
  \A p \in Procs \ dead : pc[p] = "inv_reset" => \A g \in Pages : ~Odd(gen[g])

(* fast_check() returns true "if `key` is already cached with identical    *)
(* content": when set() returns without storing, a page holds the caller's *)
(* response.                                                               *)
SkippedSetIsCached ==
  \A p \in Procs :
    pc[p] = "done" /\ loc[p].op = "set" /\ loc[p].res = "unchanged" =>
      \E g \in Pages : LET s == do_probe(page[g], loc[p].key)
                       IN  s # NoSlot /\ page[g].arena[page[g].slots[s].off] = loc[p].val

-----------------------------------------------------------------------------
(* Each worker keeps running: a call that is under way takes its next step *)
(* unless the worker is killed.  Whether it is called again is not assumed.*)
Fairness == \A p \in Procs : WF_vars(Step(p))

FairSpec == Spec /\ Fairness

(* Every call returns, whatever the other workers do and wherever they are *)
(* killed: nobody waits for a lock for ever, nor for a page that is marked *)
(* as being rewritten.                                                     *)
CallsReturn == \A p \in Procs : pc[p] # "idle" ~> pc[p] = "idle" \/ p \in dead

(* README: "When the active page fills, rotation occurs."  Pages always    *)
(* find room for what is set, by rotating: a key that is set again and     *)
(* again is in the cache again and again.                                  *)
SetsTakeEffect ==
  \A p \in Procs, k \in Keys :
    []<>(pc[p] = "place" /\ loc[p].key = k)
      => []<>(\E g \in Pages : do_probe(page[g], k) # NoSlot)
=============================================================================
