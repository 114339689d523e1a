----------------------------- MODULE CuckooFilter -----------------------------
(***************************************************************************)
(* The filter in use: keys are inserted by set(), deleted by pop() and by  *)
(* a rotation that has no room for a survivor, and the table is zeroed by  *)
(* invalidate().  The cache deletes a key at most as often as it inserted  *)
(* it; `owed' counts, for each key, the copies still to be found.          *)
(***************************************************************************)
EXTENDS Cuckoo

CONSTANTS HashedKeys,   \* the hashes of the keys in play
          MaxCopies     \* bound on the copies of one key

(* A hash is cut into two non-negative integers, as cuckoo.rs does with an *)
(* unsigned one.                                                           *)
ASSUME FilterAssumption ==
  /\ IsFiniteSet(HashedKeys)
  /\ HashedKeys \subseteq [lo : Nat, hi : Nat]
  /\ MaxCopies \in Nat

VARIABLES filter,   \* the table
          owed,     \* per key, insertions not yet undone
          spills    \* fingerprints that fell out of an overfull table

vars == <<filter, owed, spills>>

Init ==
  /\ filter = emptyFilter
  /\ owed = [h \in HashedKeys |-> 0]
  /\ spills = {}

Insert(h) ==
  /\ owed[h] < MaxCopies
  /\ filter' = insert(filter, h)
  /\ owed' = [owed EXCEPT ![h] = @ + 1]
  /\ spills' = spills \cup ({spilled(filter, h)} \ {0})

(* Mutant of Delete: a key is deleted that was never inserted.             *)
DeleteUnguarded(h) ==
  /\ owed[h] > -1
  /\ filter' = delete(filter, h)
  /\ owed' = [owed EXCEPT ![h] = @ - 1]
  /\ UNCHANGED spills

Delete(h) ==
  /\ owed[h] > 0
  /\ filter' = delete(filter, h)
  /\ owed' = [owed EXCEPT ![h] = @ - 1]
  /\ UNCHANGED spills

Clear ==
  /\ filter' = emptyFilter
  /\ owed' = [h \in HashedKeys |-> 0]
  /\ spills' = {}

Next == Clear \/ \E h \in HashedKeys : Insert(h) \/ Delete(h)

Spec == Init /\ [][Next]_vars
-----------------------------------------------------------------------------

TypeOK ==
  /\ filter \in [Buckets -> [SlotIdx -> Nat]]
  /\ owed \in [HashedKeys -> Nat]
  /\ spills \subseteq Nat \ {0}

(* Keys that the filter cannot tell apart: same fingerprint, same pair.    *)
pair(h) == {idx(h), alt(idx(h), fingerprint(h))}
SameClass(g, h) == fingerprint(g) = fingerprint(h) /\ pair(g) = pair(h)

Copies(h) ==
  Cardinality({bs \in pair(h) \X SlotIdx : filter[bs[1]][bs[2]] = fingerprint(h)})
OwedToClass(h) ==
  Cardinality({gn \in HashedKeys \X (1 .. MaxCopies) :
                 SameClass(gn[1], h) /\ gn[2] <= owed[gn[1]]})

(* Until the table overflows, the copies of a fingerprint in its two       *)
(* buckets are exactly the insertions of its keys that no deletion has     *)
(* undone: kicks lose nothing, and deleting one key of a class never takes *)
(* more than that key put in.                                              *)
CopiesConserved == spills = {} => \A h \in HashedKeys : Copies(h) = OwedToClass(h)

(* lookup(): "No false negatives", which even deletions of colliding keys  *)
(* do not break while the table has not overflowed.                        *)
NoFalseNegatives ==
  spills = {} => \A h \in HashedKeys : owed[h] > 0 => lookup(filter, h)

(* The filter keeps what it owes, and so finds it.                         *)
FilterSound == TypeOK /\ CopiesConserved /\ NoFalseNegatives

(* insert() when overfull: "results in false misses for that key": no key  *)
(* other than the one being inserted stops being found.                    *)
OnlyTheInsertedKeyIsDropped ==
  [][\A h \in HashedKeys :
       Insert(h) => \A g \in HashedKeys :
                      ~SameClass(g, h) /\ lookup(filter, g) => lookup(filter', g)]_vars
=============================================================================
