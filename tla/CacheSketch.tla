----------------------------- MODULE CacheSketch -----------------------------
(***************************************************************************)
(* shared_cache/sketch.py: the Python sketch of the generational cache.    *)
(* Threads share a ring of pages of which one is active; set() scans the   *)
(* page that will retire without the lock, get() reads sealed pages        *)
(* without it.  The values are left out: the properties are about keys.    *)
(***************************************************************************)
EXTENDS Naturals, FiniteSets

CONSTANTS SketchThreads, SketchKeys,
          n_pages,         \* len(self.pages), 2 unless the caller says otherwise
          gen_maxsize,     \* maxsize // n_pages
          FilterRoom,      \* the copies of fingerprints the filter takes before one is lost
          MaxCalls,        \* bound: calls of get() and set()
          MaxRotations     \* bound: of the counter

ASSUME AtLeastTwoPages == n_pages \in Nat \ {0, 1}

VARIABLES pages,      \* slot -> [entries, visited, is_sealed]
          counter, filter, calls, thread, swaps, known

SketchVars == <<pages, counter, filter, calls, thread, swaps, known>>

Slots == 0 .. n_pages - 1
EmptyPage(is_sealed) == [entries |-> {}, visited |-> {}, is_sealed |-> is_sealed]
Waiting == [pc |-> "idle"]

SketchInit ==
  /\ pages = [i \in Slots |-> EmptyPage(i # 0)]
  /\ counter = 0
  /\ filter = [keys |-> {}, copies |-> 0]
  /\ calls = 0
  /\ thread = [t \in SketchThreads |-> Waiting]
  /\ swaps = 0                                   \* history: pages retired so far
  /\ known = [k \in SketchKeys |-> [set |-> FALSE]]    \* history: the last completed set() of a key

active == counter % n_pages
oldestNext == (counter + 2) % n_pages   \* mutant: counted from the new counter
oldest == (counter + 1) % n_pages
SealedButNewest(c, i) == (c + 2 * n_pages - i - 1) % n_pages   \* mutant: the range starts at 2
Sealed(c, i) == (c + n_pages - i) % n_pages     \* the i-th of self.sealed, newest first

(* A page that is read marks the entry it returns.                         *)
Hit(page, k) == [page EXCEPT !.visited = @ \cup {k}]
Seal(page) == [page EXCEPT !.is_sealed = TRUE, !.visited = {}]
Insert(page, k) == [page EXCEPT !.entries = @ \cup {k}, !.visited = @ \ {k}]
Survivors(page) == page.entries \cap page.visited

(* The lock is held by the thread that is in the middle of a rotation.     *)
Locked == \E t \in SketchThreads : thread[t].pc = "swapped"

(***************************************************************************)
(* get(): the filter, which may take another key's fingerprint for this    *)
(* one's, the active page under the lock, and the sealed ones              *)
(***************************************************************************)
GetFilter(t) ==
  /\ thread[t] = Waiting /\ calls < MaxCalls
  /\ calls' = calls + 1
  /\ \E k \in SketchKeys :
       \E pc \in IF k \in filter.keys THEN {"active"} ELSE {"active", "missed"} :
         thread' = [thread EXCEPT ![t] = [pc |-> pc, k |-> k, was |-> known[k]]]
  /\ UNCHANGED <<pages, counter, filter, swaps, known>>

GetActive(t) ==
  /\ thread[t].pc = "active" /\ ~Locked
  /\ LET k == thread[t].k
     IN IF k \in pages[active].entries
        THEN /\ pages' = [pages EXCEPT ![active] = Hit(@, k)]
             /\ thread' = [thread EXCEPT ![t] = Waiting]
        ELSE /\ thread' = [thread EXCEPT ![t].pc = "ring"]
             /\ UNCHANGED pages
  /\ UNCHANGED <<counter, filter, calls, swaps, known>>

(* self.sealed: the counter is read, and then the list of the pages        *)
(* that are in its slots.                                                  *)
GetRing(t) ==
  /\ thread[t].pc = "ring"
  /\ thread' = [thread EXCEPT ![t] = [pc |-> "sealed", k |-> @.k, was |-> @.was, c |-> counter]]
  /\ UNCHANGED <<pages, counter, filter, calls, swaps, known>>

GetSealed(t) ==
  /\ thread[t].pc = "sealed"
  /\ LET k == thread[t].k
         hits == {i \in 1 .. n_pages - 1 : k \in pages[Sealed(thread[t].c, i)].entries}
     IN IF hits = {} THEN thread' = [thread EXCEPT ![t] = [pc |-> "missed", k |-> k, was |-> @.was]] /\ UNCHANGED pages
        ELSE /\ pages' = [pages EXCEPT ![Sealed(thread[t].c, CHOOSE i \in hits : \A j \in hits : i <= j)] = Hit(@, k)]
             /\ thread' = [thread EXCEPT ![t] = Waiting]
  /\ UNCHANGED <<counter, filter, calls, swaps, known>>

GetReturns(t) ==
  /\ thread[t].pc = "missed"
  /\ thread' = [thread EXCEPT ![t] = Waiting]
  /\ UNCHANGED <<pages, counter, filter, calls, swaps, known>>

(***************************************************************************)
(* set(): three steps                                                      *)
(***************************************************************************)
Full(page) == Cardinality(page.entries) >= gen_maxsize

SetSnapshot(t) ==
  /\ thread[t] = Waiting /\ calls < MaxCalls /\ ~Locked
  /\ calls' = calls + 1
  /\ \E k \in SketchKeys :
       thread' = [thread EXCEPT ![t] =
         IF Full(pages[active]) THEN [pc |-> "scan", k |-> k, gen |-> counter]
         ELSE [pc |-> "commit", k |-> k, gen |-> counter, full |-> FALSE, new_page |-> EmptyPage(FALSE)]]
  /\ UNCHANGED <<pages, counter, filter, swaps, known>>

(* The page object that was oldest is still readable once it has left the  *)
(* ring, but what is made of it then is not used.                          *)
SetScan(t) ==
  /\ thread[t].pc = "scan"
  /\ LET retiring == pages[(thread[t].gen + 1) % n_pages]
     IN thread' = [thread EXCEPT ![t] = [pc |-> "commit", k |-> @.k, gen |-> @.gen, full |-> TRUE,
                     new_page |-> [EmptyPage(FALSE) EXCEPT !.entries = Survivors(retiring)]]]
  /\ UNCHANGED <<pages, counter, filter, calls, swaps, known>>

(* Every insert is one more fingerprint, also of a key that has one.  The  *)
(* last one kicked out of a full filter is lost, and may be anyone's.      *)
FilterInsert(k) ==
  LET all == filter.keys \cup {k}
  IN IF filter.copies < FilterRoom THEN {[keys |-> all, copies |-> filter.copies + 1]}
     ELSE {[filter EXCEPT !.keys = all \ lost] : lost \in {{}} \cup {{x} : x \in all}}
SetEntry(t, c) ==
  /\ pages' = [pages EXCEPT ![c % n_pages] = Insert(@, thread[t].k)]
  /\ filter' \in FilterInsert(thread[t].k)
  /\ thread' = [thread EXCEPT ![t] = Waiting]
  /\ known' = [x \in SketchKeys |-> IF x = thread[t].k THEN [set |-> TRUE, at |-> swaps, kept |-> x \in filter'.keys]
                                    ELSE IF known[x].set THEN [known[x] EXCEPT !.kept = x \in filter'.keys]
                                    ELSE known[x]]

RotationDue(t) == thread[t].full /\ counter = thread[t].gen

(* _commit_rotation() puts the new page in place, and then moves the       *)
(* counter: in between a get() without the lock still reads the old one.   *)
SetCommit(t) ==
  /\ thread[t].pc = "commit" /\ ~Locked
  /\ \/ ~RotationDue(t) /\ SetEntry(t, counter) /\ UNCHANGED <<counter, swaps>>
     \/ /\ RotationDue(t) /\ counter < MaxRotations
        /\ pages' = [pages EXCEPT ![active] = Seal(@), ![oldest] = thread[t].new_page]
        /\ thread' = [thread EXCEPT ![t].pc = "swapped"]
        /\ swaps' = swaps + 1
        /\ UNCHANGED <<counter, filter, known>>
  /\ UNCHANGED calls

SetInserts(t) ==
  /\ thread[t].pc = "swapped"
  /\ counter' = counter + 1
  /\ SetEntry(t, counter + 1)
  /\ UNCHANGED <<calls, swaps>>

SketchStep(t) ==
  \/ GetFilter(t) \/ GetActive(t) \/ GetRing(t) \/ GetSealed(t) \/ GetReturns(t)
  \/ SetSnapshot(t) \/ SetScan(t) \/ SetCommit(t) \/ SetInserts(t)
SketchNext == \E t \in SketchThreads : SketchStep(t)

(***************************************************************************)
(* Properties                                                              *)
(***************************************************************************)
(* "pages[counter % n] is always the active (unsealed) page; all others    *)
(* are sealed": while no rotation is half done, so that no set() meets the *)
(* RuntimeError of a sealed page and no scan the one of an open page.      *)
OneOpenPage == ~Locked => \A i \in Slots : pages[i].is_sealed <=> i # active

(* An entry is found for as long as its page is in the ring: get() misses  *)
(* a key only if it was not set before the call, was dropped by a full     *)
(* filter, or all the pages there were at the time have been retired.      *)
NoFalseMiss ==
  \A t \in SketchThreads : thread[t].pc = "missed" /\ thread[t].was.set /\ thread[t].was.kept =>
    swaps - thread[t].was.at >= n_pages

(* The ring is in order between rotations, and readers beside them lose    *)
(* nothing.                                                                *)
SketchSound == OneOpenPage /\ NoFalseMiss
=============================================================================
