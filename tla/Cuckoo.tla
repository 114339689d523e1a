-------------------------------- MODULE Cuckoo --------------------------------
(***************************************************************************)
(* The cuckoo filter of shared_cache/src/cuckoo.rs as operators on its     *)
(* table, a function from buckets to SLOTS fingerprints (0 = empty).  A    *)
(* hash is the two parts the code uses: its low bits, which give the       *)
(* bucket, and bits 32-47, which give the fingerprint.                     *)
(***************************************************************************)
EXTENDS Integers, FiniteSetsExt

CONSTANTS BucketCount,  \* bucket_count, a power of two
          SLOTS,        \* fingerprints per bucket
          MAX_KICKS,    \* relocations before insert() gives up
          XorBits(_, _)     \* bitwise exclusive or of two bucket numbers

Buckets == 0 .. BucketCount - 1
SlotIdx == 0 .. SLOTS - 1

ASSUME CuckooAssumption ==
  /\ BucketCount \in Nat \ {0}
  /\ SLOTS \in Nat \ {0}
  /\ MAX_KICKS \in Nat

(* What XOR with the same mask does to a number of a power-of-two range.   *)
ASSUME XorAssumption ==
  \A b, m \in Buckets : XorBits(b, m) \in Buckets /\ XorBits(XorBits(b, m), m) = b

idx(h) == h.lo % BucketCount

(* 0 is the empty sentinel, so it is mapped to 1.                          *)
fingerprint(h) == IF h.hi = 0 THEN 1 ELSE h.hi

(* (fp * 0x5bd1e995 + 0xe6546b64) mod 2^32, then masked: for a bucket      *)
(* count that divides 2^16 only the low 16 bits of the addend matter.      *)
mask(fp) == (fp * (1540483477 % BucketCount) + 27492) % BucketCount

altNotReversible(b, fp) == (b + mask(fp)) % BucketCount   \* mutant of alt
alt(b, fp) == XorBits(b, mask(fp))

bucket_has(f, b, fp) == \E s \in SlotIdx : f[b][s] = fp
has_empty_slot(f, b) == bucket_has(f, b, 0)
put(f, b, fp) ==
  LET s == Min({t \in SlotIdx : f[b][t] = 0}) IN [f EXCEPT ![b][s] = fp]

lookup(f, h) ==
  LET fp == fingerprint(h)
  IN  bucket_has(f, idx(h), fp) \/ bucket_has(f, alt(idx(h), fp), fp)

(* One round of the kick loop: fp takes the place of a resident, which     *)
(* moves to its other bucket when there is room, or is carried on.         *)
kick(c, k) ==
  LET s      == k % SLOTS
      kicked == c.f[c.b][s]
      f      == [c.f EXCEPT ![c.b][s] = c.fp]
      b      == alt(c.b, kicked)
  IN  IF has_empty_slot(f, b)
      THEN [f |-> put(f, b, kicked), fp |-> 0, b |-> b]
      ELSE [f |-> f, fp |-> kicked, b |-> b]

(* The table after n rounds; a carried fingerprint of 0 means it is home.  *)
kicks(f, h) ==
  LET after[n \in 0 .. MAX_KICKS] ==
        IF n = 0 THEN [f |-> f, fp |-> fingerprint(h), b |-> idx(h)]
        ELSE LET c == after[n - 1] IN IF c.fp = 0 THEN c ELSE kick(c, n - 1)
  IN  after[MAX_KICKS]

roomFor(f, h) ==
  {b \in {idx(h), alt(idx(h), fingerprint(h))} : has_empty_slot(f, b)}

(* Mutant of insert: gives up where the code starts to kick, after it has  *)
(* stored the fingerprint over a resident.                                 *)
insertOverwrites(f, h) ==
  LET fp == fingerprint(h)
  IN  IF idx(h) \in roomFor(f, h) THEN put(f, idx(h), fp)
      ELSE IF roomFor(f, h) # {} THEN put(f, alt(idx(h), fp), fp)
      ELSE [f EXCEPT ![idx(h)][0] = fp]

insert(f, h) ==
  LET fp == fingerprint(h)
  IN  IF idx(h) \in roomFor(f, h) THEN put(f, idx(h), fp)
      ELSE IF roomFor(f, h) # {} THEN put(f, alt(idx(h), fp), fp)
      ELSE kicks(f, h).f

(* The fingerprint that falls out of the table when insert() is overfull,  *)
(* 0 when there is none.                                                   *)
spilled(f, h) == IF roomFor(f, h) = {} THEN kicks(f, h).fp ELSE 0

(* Mutant of delete: clears the fingerprint wherever it is found.          *)
deleteAll(f, h) ==
  [b \in Buckets |-> [s \in SlotIdx |->
     IF b \in {idx(h), alt(idx(h), fingerprint(h))} /\ f[b][s] = fingerprint(h)
     THEN 0 ELSE f[b][s]]]

delete(f, h) ==
  LET fp == fingerprint(h)
      i1 == idx(h)
      i2 == alt(i1, fp)
      b  == IF bucket_has(f, i1, fp) THEN i1 ELSE i2
  IN  IF bucket_has(f, b, fp)
      THEN [f EXCEPT ![b][Min({s \in SlotIdx : f[b][s] = fp})] = 0]
      ELSE f

emptyFilter == [b \in Buckets |-> [s \in SlotIdx |-> 0]]
=============================================================================
