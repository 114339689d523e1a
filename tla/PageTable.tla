------------------------------ MODULE PageTable ------------------------------
(***************************************************************************)
(* One page of the generational cache (shared_cache/src/gen_cache.rs): its *)
(* header, its open-addressing slot table and its bump arena, with the     *)
(* probe and the insert as operators on a page.                            *)
(*                                                                         *)
(* A slot keeps the key it holds where the code keeps a hash and an offset *)
(* to the key bytes (equal hash and equal bytes is equal key).  Arena      *)
(* space is counted in units; the bytes of a value are the content of the  *)
(* unit its allocation starts at.                                          *)
(***************************************************************************)
EXTENDS Integers, FiniteSetsExt, SequencesExt

CONSTANTS Keys,        \* cache keys
          Home,        \* the slot each key's hash starts probing at
          SlotCount,   \* slot_count_per_page
          ArenaCap,    \* units in the arena of a page
          KeyUnits,    \* units the key bytes of an entry take
          EMPTY, TOMBSTONE,   \* the two special values of RawSlot.key_hash
          Zero, Torn   \* arena content: zeroed, half written

SlotIds == 0 .. SlotCount - 1
NoSlot == SlotCount

ASSUME PageAssumption ==
  /\ SlotCount \in Nat \ {0}
  /\ ArenaCap \in Nat
  /\ KeyUnits \in Nat
  /\ \A k \in Keys : Home[k] \in SlotIds
  /\ EMPTY \notin Keys /\ TOMBSTONE \notin Keys /\ EMPTY # TOMBSTONE

BlankSlot == [key |-> EMPTY, off |-> 0, len |-> 0, cap |-> 0, cls |-> 0,
              vis |-> FALSE, seq |-> 0]

(* A page with its data zeroed and arena_head and entry_count reset; the   *)
(* generation and the seal of its header are not part of the record.       *)
BlankPage == [head |-> 0, count |-> 0, slots |-> [i \in SlotIds |-> BlankSlot],
              arena |-> [a \in 0 .. ArenaCap - 1 |-> Zero]]

-----------------------------------------------------------------------------
(* The j-th slot of a key's probe sequence.                                *)
At(k, j) == (Home[k] + j) % SlotCount

(* How far a probe for k goes: to k itself or to the first EMPTY slot,     *)
(* past tombstones and other keys; SlotCount when it comes full circle.    *)
FirstStop(pg, k) ==
  LET stops == {j \in SlotIds : pg.slots[At(k, j)].key \in {EMPTY, k}}
  IN  IF stops = {} THEN SlotCount ELSE Min(stops)

do_probe(pg, k) ==
  LET j == FirstStop(pg, k)
  IN  IF j < SlotCount /\ pg.slots[At(k, j)].key = k THEN At(k, j) ELSE NoSlot

Live(pg) == {i \in SlotIds : pg.slots[i].key \notin {EMPTY, TOMBSTONE}}

(* Mutant of plan_insert: a tombstone met first is taken before the rest   *)
(* of the probe sequence has been searched for the key.                    *)
plan_insert_greedy(pg, k, len) ==
  LET stops == {j \in SlotIds : pg.slots[At(k, j)].key \in {EMPTY, TOMBSTONE, k}}
      i     == IF stops = {} THEN NoSlot ELSE At(k, Min(stops))
      old   == IF i = NoSlot THEN BlankSlot ELSE pg.slots[i]
      reuse == old.key # EMPTY /\ len <= old.cap
      need  == (IF reuse THEN 0 ELSE len) + (IF old.key = k THEN 0 ELSE KeyUnits)
  IN  [slot |-> i, fits |-> i # NoSlot /\ pg.head + need <= ArenaCap,
       fresh |-> old.key # k, inplace |-> old.key = k /\ reuse,
       off |-> IF reuse THEN old.off ELSE pg.head,
       cap |-> IF reuse THEN old.cap ELSE len,
       head |-> pg.head + need]

(* Mutant of plan_insert: the arena's end is not looked at.                *)
plan_insert_unbounded(pg, k, len) ==
  LET stop   == FirstStop(pg, k)
      i      == IF stop < SlotCount THEN At(k, stop) ELSE NoSlot
      old    == IF i = NoSlot THEN BlankSlot ELSE pg.slots[i]
      exists == old.key = k
      reuse  == old.key # EMPTY /\ len <= old.cap
      need   == (IF reuse THEN 0 ELSE len) + (IF exists THEN 0 ELSE KeyUnits)
  IN  [slot |-> i, fits |-> i # NoSlot, fresh |-> ~exists, inplace |-> exists /\ reuse,
       off |-> IF reuse THEN old.off ELSE pg.head,
       cap |-> IF reuse THEN old.cap ELSE len, head |-> pg.head + need]

(* The decisions of do_insert() before it writes: which slot, which arena  *)
(* range, how far the bump pointer moves, and whether all of it fits.  An  *)
(* existing entry or a tombstone lends its value allocation when the new   *)
(* value fits; key bytes are allocated for all but an existing entry.      *)
plan_insert(pg, k, len) ==
  LET stop   == FirstStop(pg, k)
      tombs  == {j \in 0 .. stop - 1 : pg.slots[At(k, j)].key = TOMBSTONE}
      exists == stop < SlotCount /\ pg.slots[At(k, stop)].key = k
      i      == IF ~exists /\ tombs # {} THEN At(k, Min(tombs))
                ELSE IF stop < SlotCount THEN At(k, stop) ELSE NoSlot
      old    == IF i = NoSlot THEN BlankSlot ELSE pg.slots[i]
      reuse  == old.key # EMPTY /\ len <= old.cap
      need   == (IF reuse THEN 0 ELSE len) + (IF exists THEN 0 ELSE KeyUnits)
  IN  [slot |-> i, fits |-> i # NoSlot /\ pg.head + need <= ArenaCap,
       fresh |-> ~exists, inplace |-> exists /\ reuse,
       off |-> IF reuse THEN old.off ELSE pg.head,
       cap |-> IF reuse THEN old.cap ELSE len,
       head |-> pg.head + need]

(* The arena bytes of the planned range, then the fields of the slot with  *)
(* the key last.                                                           *)
copy_value(pg, pl, content) == [pg EXCEPT !.head = pl.head, !.arena[pl.off] = content]

(* Mutant of publish_slot: an overwrite is counted as a new entry.         *)
publish_slot_recounts(pg, pl, k, len, cls) ==
  [pg EXCEPT !.slots[pl.slot] = [@ EXCEPT !.key = k, !.off = pl.off, !.len = len,
                                          !.cap = pl.cap, !.cls = cls, !.vis = FALSE],
             !.count = @ + 1]

publish_slot(pg, pl, k, len, cls) ==
  [pg EXCEPT !.slots[pl.slot] = [@ EXCEPT !.key = k, !.off = pl.off, !.len = len,
                                          !.cap = pl.cap, !.cls = cls, !.vis = FALSE],
             !.count = IF pl.fresh THEN @ + 1 ELSE @]

(* do_insert() on a page nobody else can see, as commit_rotation() uses it *)
(* for the survivor s.                                                     *)
do_insert(pg, s) ==
  LET pl == plan_insert(pg, s.key, s.len)
      bumped == IF pl.inplace THEN [pg EXCEPT !.slots[pl.slot].seq = @ + 2] ELSE pg
  IN  IF pl.fits
      THEN publish_slot(copy_value(bumped, pl, s.content), pl, s.key, s.len, s.cls)
      ELSE pg

-----------------------------------------------------------------------------
(* The invariants of one page.                                             *)

(* No key sits in two slots of a page.                                     *)
NoDuplicateKey(pg) ==
  \A i, j \in Live(pg) : pg.slots[i].key = pg.slots[j].key => i = j

(* Every entry is found by the probe that looks for it: no EMPTY slot lies *)
(* between a key's home and the slot that holds it.                        *)
Reachable(pg) == \A i \in Live(pg) : do_probe(pg, pg.slots[i].key) = i

(* The value allocations of two entries, or of an entry and a tombstone    *)
(* that may lend its own, do not overlap, and lie below the bump pointer.  *)
ArenaDisjoint(pg) ==
  LET used == {i \in SlotIds : pg.slots[i].key # EMPTY}
  IN  /\ \A i \in used : pg.slots[i].off + pg.slots[i].cap <= pg.head
                         /\ pg.slots[i].len <= pg.slots[i].cap
      /\ \A i, j \in used : i # j =>
           \/ pg.slots[i].off + pg.slots[i].cap <= pg.slots[j].off
           \/ pg.slots[j].off + pg.slots[j].cap <= pg.slots[i].off
      /\ pg.head <= ArenaCap
=============================================================================
