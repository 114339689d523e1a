------------------------------ MODULE ToolsProofs ------------------------------
(***************************************************************************)
(* What is proved of the programs around the server: the load client loses *)
(* no result and its sampler draws sound queries, the sketch of the cache  *)
(* loses no entry, the monitor tells no untruth, and the programs that     *)
(* copy and fetch leave nothing behind, for every size of batch, corpus,   *)
(* ring, repository, bucket and listing.                                   *)
(***************************************************************************)
EXTENDS Tools, FiniteSetTheorems, WellFoundedInduction, TLAPS

(* The tools share nothing: a step is one of the program, or none.         *)
LEMMA OneToolSteps ==
  ASSUME [Next]_vars
  PROVE  /\ RunnerNext \/ UNCHANGED RunnerVars
         /\ SketchNext \/ UNCHANGED SketchVars
         /\ CiNext \/ UNCHANGED CiVars
BY DEF Next, vars, Images, Load, Monitoring, Sketching, Fetching

-----------------------------------------------------------------------------
(* Counting round a ring.                                                  *)

LEMMA Remainder ==
  ASSUME NEW n \in Nat \ {0}, NEW c \in Nat
  PROVE  c % n \in 0 .. n - 1 /\ \E q \in Nat : c = n * q + (c % n)
<1>1. c % n \in 0 .. n - 1 /\ c \div n \in Nat /\ c = n * (c \div n) + (c % n)
  BY Z3
<1> QED BY <1>1

(* A remainder is known by its multiple.                                   *)
LEMMA RemainderIs ==
  ASSUME NEW n \in Nat \ {0}, NEW c \in Nat, NEW q \in Nat, NEW r \in 0 .. n - 1,
         c = n * q + r
  PROVE  c % n = r
<1>1. PICK p \in Nat : c = n * p + (c % n)
  BY Remainder
<1>2. c % n \in 0 .. n - 1
  BY Remainder
<1> DEFINE m == c % n
<1>3. c = n * p + m /\ m \in 0 .. n - 1
  BY <1>1, <1>2
<1> HIDE DEF m
<1>4. n * (p - q) = r - m
  BY <1>3
<1>5. p - q >= 1 => n * (p - q) >= n
  BY Z3
<1>6. p - q <= -1 => n * (p - q) <= -n
  BY Z3
<1>7. p - q = 0
  BY <1>3, <1>4, <1>5, <1>6
<1> QED BY <1>3, <1>7 DEF m

LEMMA RemainderNext ==
  ASSUME NEW n \in Nat \ {0}, NEW c \in Nat
  PROVE  (c + 1) % n = IF (c % n) + 1 = n THEN 0 ELSE (c % n) + 1
<1>1. PICK q \in Nat : c = n * q + (c % n)
  BY Remainder
<1>2. c % n \in 0 .. n - 1
  BY Remainder
<1> DEFINE m == c % n
<1>3. c = n * q + m /\ m \in 0 .. n - 1
  BY <1>1, <1>2
<1> HIDE DEF m
<1>4. CASE m + 1 = n
  <2>1. c + 1 = n * (q + 1) + 0
    BY <1>3, <1>4, Z3
  <2>2. q + 1 \in Nat /\ 0 \in 0 .. n - 1 /\ c + 1 \in Nat
    OBVIOUS
  <2>3. (c + 1) % n = 0
    BY <2>1, <2>2, RemainderIs
  <2> QED BY <1>4, <2>3 DEF m
<1>5. CASE m + 1 # n
  <2>1. c + 1 = n * q + (m + 1) /\ m + 1 \in 0 .. n - 1 /\ c + 1 \in Nat
    BY <1>3, <1>5
  <2>2. (c + 1) % n = m + 1
    BY <2>1, RemainderIs
  <2> QED BY <1>5, <2>2 DEF m
<1> QED BY <1>4, <1>5

(* Two numbers less than n apart do not fall into one slot, and n makes a  *)
(* round.                                                                  *)
LEMMA SlotsApart ==
  ASSUME NEW n \in Nat \ {0}, NEW a \in Nat, NEW s \in Nat, a < s, s < a + n
  PROVE  a % n # s % n
<1>1. PICK p \in Nat, q \in Nat : a = n * p + (a % n) /\ s = n * q + (s % n)
  BY Remainder
<1> DEFINE m == a % n
<1> SUFFICES ASSUME s % n = m  PROVE FALSE
  BY DEF m
<1>2. a = n * p + m /\ s = n * q + m /\ m \in 0 .. n - 1
  BY <1>1, Remainder
<1> HIDE DEF m
<1>3. n * (q - p) = s - a
  BY <1>2
<1>4. (q - p >= 1 => n * (q - p) >= n) /\ (q - p <= 0 => n * (q - p) <= 0)
  BY Z3
<1> QED BY <1>3, <1>4

LEMMA SlotsRound ==
  ASSUME NEW n \in Nat \ {0}, NEW a \in Nat  PROVE (a + n) % n = a % n
<1>1. PICK p \in Nat : a = n * p + (a % n)
  BY Remainder
<1> DEFINE m == a % n
<1>2. a = n * p + m /\ m \in 0 .. n - 1
  BY <1>1, Remainder
<1> HIDE DEF m
<1>3. a + n = n * (p + 1) + m /\ p + 1 \in Nat /\ a + n \in Nat
  BY <1>2, Z3
<1> QED BY <1>2, <1>3, RemainderIs DEF m

-----------------------------------------------------------------------------
(* The sketch of the cache.  The slot of the page that takes entries is    *)
(* that of the number of swaps, also between a swap and the counter.  An   *)
(* entry that was set stays in the slot it was put in until the ring has   *)
(* gone round; a get() that has not found it in the active page has the    *)
(* slot still before it.                                                   *)

PageType == [entries : SUBSET SketchKeys, visited : SUBSET SketchKeys, is_sealed : BOOLEAN]
Memory == [set : {TRUE}, at : Nat, kept : BOOLEAN] \cup {[set |-> FALSE]}
Getting == [pc : {"active", "ring", "missed"}, k : SketchKeys, was : Memory]
Walking == [pc : {"sealed"}, k : SketchKeys, was : Memory, c : Nat]
Scanning == [pc : {"scan"}, k : SketchKeys, gen : Nat]
Committing == [pc : {"commit", "swapped"}, k : SketchKeys, gen : Nat, full : BOOLEAN,
               new_page : {page \in PageType : ~page.is_sealed}]

SketchType ==
  /\ pages \in [Slots -> PageType] /\ counter \in Nat /\ swaps \in Nat
  /\ known \in [SketchKeys -> Memory]
  /\ thread \in [SketchThreads -> Getting \cup Walking \cup Scanning \cup Committing \cup {Waiting}]

OneRotates ==
  /\ \A t, u \in SketchThreads : thread[t].pc = "swapped" /\ thread[u].pc = "swapped" => t = u
  /\ swaps = IF Locked THEN counter + 1 ELSE counter
SwapsOpen == \A i \in Slots : pages[i].is_sealed <=> i # swaps % n_pages

Findable(k, at) == at <= swaps /\ (swaps < at + n_pages => k \in pages[at % n_pages].entries)
KnownFindable ==
  \A k \in SketchKeys : known[k].set =>
    Findable(k, known[k].at) /\ (known[k].kept <=> k \in filter.keys)
Reader(t) ==
  thread[t].pc \in {"active", "ring", "sealed", "missed"} /\ thread[t].was.set =>
    /\ Findable(thread[t].k, thread[t].was.at)
    /\ thread[t].pc = "ring" => thread[t].was.at < counter
    /\ thread[t].pc = "sealed" => thread[t].was.at < thread[t].c /\ thread[t].c <= counter
    /\ thread[t].pc = "missed" /\ thread[t].was.kept => thread[t].was.at + n_pages <= swaps

SketchInv ==
  /\ SketchType /\ OneRotates /\ SwapsOpen /\ KnownFindable
  /\ \A t \in SketchThreads : Reader(t)

LEMMA LeastMember ==
  ASSUME NEW S, S \subseteq Nat, S # {}  PROVE \E m \in S : \A j \in S : m <= j
<1>1. PICK m \in S : \A j \in S : ~(<<j, m>> \in OpToRel(<, Nat))
  BY NatLessThanWellFounded, WFMin
<1>2. \A j \in S : ~(j < m)
  BY <1>1 DEF OpToRel
<1> QED BY <1>2

LEMMA RingSlots ==
  ASSUME NEW c \in Nat
  PROVE  /\ c % n_pages \in Slots /\ (c + 1) % n_pages \in Slots
         /\ c % n_pages # (c + 1) % n_pages /\ n_pages \in Nat \ {0}
<1>1. n_pages \in Nat \ {0} /\ n_pages > 1 /\ c + 1 \in Nat
  BY AtLeastTwoPages
<1>2. c < c + 1 /\ c + 1 < c + n_pages
  BY <1>1
<1> QED BY <1>1, <1>2, Remainder, SlotsApart DEF Slots

LEMMA MemoryFields ==
  ASSUME NEW m \in Memory
  PROVE  m.set \in BOOLEAN /\ (m.set => m.at \in Nat /\ m.kept \in BOOLEAN)
<1>1. CASE m \in [set : {TRUE}, at : Nat, kept : BOOLEAN]
  BY <1>1
<1>2. CASE m = [set |-> FALSE]
  <2>1. m.set = FALSE
    BY <1>2
  <2> QED BY <2>1
<1> QED BY <1>1, <1>2 DEF Memory

ThreadStates == Getting \cup Walking \cup Scanning \cup Committing \cup {Waiting}

LEMMA StateFields ==
  ASSUME NEW x \in ThreadStates
  PROVE  /\ x.pc \in {"active", "ring", "missed"} => x \in Getting
         /\ x.pc = "sealed" => x \in Walking
         /\ x.pc = "scan" => x \in Scanning
         /\ x.pc \in {"commit", "swapped"} => x \in Committing
         /\ x.pc \in {"active", "ring", "missed", "sealed"} =>
              x.k \in SketchKeys /\ x.was \in Memory
BY DEF ThreadStates, Getting, Walking, Scanning, Committing, Waiting

LEMMA ThreadFields ==
  ASSUME SketchType, NEW t \in SketchThreads
  PROVE  /\ thread[t] \in ThreadStates
         /\ thread[t].pc \in {"active", "ring", "missed"} => thread[t] \in Getting
         /\ thread[t].pc = "sealed" => thread[t] \in Walking
         /\ thread[t].pc = "scan" => thread[t] \in Scanning
         /\ thread[t].pc \in {"commit", "swapped"} => thread[t] \in Committing
         /\ thread[t].pc \in {"active", "ring", "missed", "sealed"} =>
              thread[t].k \in SketchKeys /\ thread[t].was \in Memory
<1>1. thread[t] \in ThreadStates
  BY DEF SketchType, ThreadStates
<1> QED BY <1>1, StateFields

(* Pages keep their entries, except that a swap replaces the slot it       *)
(* counts.                                                                 *)
RingForward ==
  /\ counter' >= counter /\ swaps' \in {swaps, swaps + 1}
  /\ \A i \in Slots : swaps' = swaps \/ i # swaps' % n_pages =>
                        pages[i].entries \subseteq pages'[i].entries

LEMMA FindableStays ==
  ASSUME SketchType, SketchType', RingForward, NEW k, NEW at \in Nat, Findable(k, at)
  PROVE  Findable(k, at)'
<1>1. swaps \in Nat /\ swaps' \in Nat /\ n_pages \in Nat \ {0} /\ at % n_pages \in Slots
  BY RingSlots DEF SketchType
<1>2. at <= swaps /\ at <= swaps' /\ swaps <= swaps'
  BY <1>1 DEF Findable, RingForward
<1>3. ASSUME swaps' < at + n_pages  PROVE k \in pages'[at % n_pages].entries
  <2>1. k \in pages[at % n_pages].entries
    BY <1>1, <1>2, <1>3 DEF Findable
  <2>2. CASE swaps' = swaps
    BY <1>1, <2>1, <2>2 DEF RingForward
  <2>3. CASE swaps' = swaps + 1
    <3>1. at < swaps'
      BY <1>1, <1>2, <2>3
    <3>2. at % n_pages # swaps' % n_pages
      BY <1>1, <1>3, <3>1, SlotsApart
    <3> QED BY <1>1, <2>1, <3>2 DEF RingForward
  <2> QED BY <2>2, <2>3 DEF RingForward
<1> QED BY <1>2, <1>3 DEF Findable

LEMMA ReaderStays ==
  ASSUME SketchType, SketchType', RingForward, NEW t \in SketchThreads, Reader(t),
         thread'[t] = thread[t]
  PROVE  Reader(t)'
<1> SUFFICES ASSUME thread[t].pc \in {"active", "ring", "sealed", "missed"},
                    thread[t].was.set
             PROVE  Reader(t)'
  BY DEF Reader
<1>1. thread[t].k \in SketchKeys /\ thread[t].was \in Memory /\ thread[t].was.at \in Nat
  BY ThreadFields, MemoryFields
<1>2. Findable(thread[t].k, thread[t].was.at)'
  BY <1>1, FindableStays DEF Reader
<1>3. counter \in Nat /\ counter' \in Nat /\ swaps \in Nat /\ swaps' \in Nat
      /\ n_pages \in Nat /\ counter <= counter' /\ swaps <= swaps'
  BY AtLeastTwoPages DEF SketchType, RingForward
<1>4. thread[t].pc = "sealed" => thread[t].c \in Nat
  BY ThreadFields DEF Walking
<1> QED BY <1>1, <1>2, <1>3, <1>4 DEF Reader

(* A step of t that leaves the others alone.                               *)
LEMMA OthersStay ==
  ASSUME SketchInv, SketchType', RingForward, NEW t \in SketchThreads,
         \A u \in SketchThreads \ {t} : thread'[u] = thread[u], Reader(t)',
         OneRotates', SwapsOpen', KnownFindable'
  PROVE  SketchInv'
<1>1. ASSUME NEW u \in SketchThreads \ {t}  PROVE Reader(u)'
  BY <1>1, ReaderStays DEF SketchInv
<1> QED BY <1>1 DEF SketchInv

(* get(), and set() before it commits: no more than a mark on an entry.    *)
Marked == \/ UNCHANGED pages
          \/ \E i \in Slots, k \in SketchKeys : pages' = [pages EXCEPT ![i] = Hit(@, k)]
Goes(t, x) ==
  /\ Marked /\ thread' = [thread EXCEPT ![t] = x]
  /\ UNCHANGED <<counter, filter, swaps, known>>

LEMMA MarkedKeeps ==
  ASSUME SketchType, Marked
  PROVE  /\ pages' \in [Slots -> PageType]
         /\ \A i \in Slots : /\ pages'[i].entries = pages[i].entries
                             /\ pages'[i].is_sealed = pages[i].is_sealed
<1>1. pages \in [Slots -> PageType]
  BY DEF SketchType
<1>2. CASE UNCHANGED pages
  BY <1>1, <1>2
<1>3. ASSUME NEW i \in Slots, NEW k \in SketchKeys, pages' = [pages EXCEPT ![i] = Hit(@, k)]
      PROVE  /\ pages' \in [Slots -> PageType]
             /\ \A j \in Slots : /\ pages'[j].entries = pages[j].entries
                                 /\ pages'[j].is_sealed = pages[j].is_sealed
  <2>1. /\ Hit(pages[i], k) \in PageType /\ Hit(pages[i], k).entries = pages[i].entries
        /\ Hit(pages[i], k).is_sealed = pages[i].is_sealed
    BY <1>1 DEF Hit, PageType
  <2>2. pages' = [pages EXCEPT ![i] = Hit(pages[i], k)]
    BY <1>3
  <2> QED BY <1>1, <2>1, <2>2
<1> QED BY <1>2, <1>3 DEF Marked

LEMMA CalmStep ==
  ASSUME SketchInv, NEW t \in SketchThreads, NEW x \in ThreadStates, Goes(t, x),
         x.pc # "swapped", thread[t].pc # "swapped",
         x.pc \in {"active", "ring", "sealed", "missed"} /\ x.was.set =>
           /\ Findable(x.k, x.was.at)
           /\ x.pc = "ring" => x.was.at < counter
           /\ x.pc = "sealed" => x.was.at < x.c /\ x.c <= counter
           /\ x.pc = "missed" /\ x.was.kept => x.was.at + n_pages <= swaps
  PROVE  SketchInv'
<1>a. SketchType /\ thread \in [SketchThreads -> ThreadStates]
  BY DEF SketchInv, SketchType, ThreadStates
<1>1. /\ thread'[t] = x /\ \A u \in SketchThreads \ {t} : thread'[u] = thread[u]
      /\ thread' \in [SketchThreads -> ThreadStates]
  BY <1>a DEF Goes
<1>2. /\ pages' \in [Slots -> PageType]
      /\ \A i \in Slots : /\ pages'[i].entries = pages[i].entries
                          /\ pages'[i].is_sealed = pages[i].is_sealed
  BY <1>a, MarkedKeeps DEF Goes
<1>3. SketchType'
  BY <1>a, <1>1, <1>2 DEF SketchType, Goes, ThreadStates
<1>4. RingForward
  BY <1>2, <1>a DEF RingForward, Goes, SketchType
<1>5. \A u \in SketchThreads : thread'[u].pc = "swapped" <=> thread[u].pc = "swapped"
  BY <1>1
<1>6. Locked' <=> Locked
  BY <1>5 DEF Locked
<1>7. OneRotates'
  BY <1>5, <1>6 DEF SketchInv, OneRotates, Goes
<1>8. SwapsOpen'
  BY <1>2 DEF SketchInv, SwapsOpen, Goes
<1>9. \A k \in SketchKeys, at \in Nat : Findable(k, at) => Findable(k, at)'
  BY <1>a, <1>3, <1>4, FindableStays
<1>10. KnownFindable'
  <2> SUFFICES ASSUME NEW k \in SketchKeys, known[k].set
               PROVE  Findable(k, known[k].at)' /\ (known[k].kept <=> k \in filter.keys)
    BY DEF KnownFindable, Goes
  <2>1. known[k].at \in Nat
    BY <1>a, MemoryFields DEF SketchType
  <2>2. \A at \in Nat : at = known[k].at => Findable(k, at)
    BY DEF SketchInv, KnownFindable
  <2>3. ASSUME NEW at \in Nat, at = known[k].at  PROVE Findable(k, at)'
    BY <1>9, <2>2, <2>3
  <2>4. Findable(k, known[k].at)'
    BY <2>1, <2>3 DEF Findable, Goes
  <2> QED BY <2>4 DEF SketchInv, KnownFindable
<1>11. Reader(t)'
  <2> SUFFICES ASSUME x.pc \in {"active", "ring", "sealed", "missed"}, x.was.set
               PROVE  Reader(t)'
    BY <1>1 DEF Reader
  <2>1. x.k \in SketchKeys /\ x.was \in Memory
    BY StateFields
  <2>2. x.was.at \in Nat
    BY <2>1, MemoryFields
  <2>3. Findable(x.k, x.was.at)'
    BY <1>9, <2>1, <2>2
  <2> QED BY <1>1, <2>3 DEF Reader, Goes
<1> QED BY <1>1, <1>3, <1>4, <1>7, <1>8, <1>10, <1>11, OthersStay

LEMMA GetKeeps ==
  ASSUME SketchInv, NEW t \in SketchThreads,
         GetFilter(t) \/ GetActive(t) \/ GetRing(t) \/ GetSealed(t) \/ GetReturns(t)
  PROVE  SketchInv'
<1>a. /\ SketchType /\ OneRotates /\ Reader(t) /\ pages \in [Slots -> PageType]
      /\ known \in [SketchKeys -> Memory] /\ counter \in Nat /\ swaps \in Nat
      /\ thread \in [SketchThreads -> ThreadStates]
  BY DEF SketchInv, SketchType, ThreadStates
<1>b. Waiting \in ThreadStates /\ Waiting.pc = "idle"
  BY DEF ThreadStates, Waiting
<1>c. n_pages \in Nat \ {0} /\ n_pages > 1
  BY AtLeastTwoPages
<1>d. ASSUME Marked, thread' = [thread EXCEPT ![t] = Waiting], thread[t].pc # "swapped",
             UNCHANGED <<counter, filter, swaps, known>>
      PROVE  SketchInv'
  BY <1>b, <1>d, CalmStep DEF Goes
<1>1. CASE GetFilter(t)
  <2>1. PICK k \in SketchKeys : \E pc \in IF k \in filter.keys THEN {"active"}
                                           ELSE {"active", "missed"} :
                                  thread' = [thread EXCEPT ![t] = [pc |-> pc, k |-> k,
                                                                   was |-> known[k]]]
    BY <1>1 DEF GetFilter
  <2>2. PICK pc \in {"active", "missed"} :
               /\ thread' = [thread EXCEPT ![t] = [pc |-> pc, k |-> k, was |-> known[k]]]
               /\ pc = "missed" => k \notin filter.keys
    BY <2>1
  <2> DEFINE x == [pc |-> pc, k |-> k, was |-> known[k]]
  <2>3. x \in ThreadStates /\ x.pc = pc /\ x.k = k /\ x.was = known[k]
    BY <1>a DEF ThreadStates, Getting
  <2>4. Goes(t, x)
    BY <1>1, <2>2 DEF Goes, Marked, GetFilter
  <2>5. known[k].set => Findable(k, known[k].at) /\ (known[k].kept <=> k \in filter.keys)
    BY DEF SketchInv, KnownFindable
  <2>6. thread[t].pc # "swapped"
    BY <1>1, <1>b DEF GetFilter
  <2> HIDE DEF x
  <2>7. x.pc \in {"active", "missed"} /\ x.pc # "swapped"
    BY <2>3
  <2>8. x.was.set => Findable(x.k, x.was.at) /\ (x.pc = "missed" => ~x.was.kept)
    BY <2>2, <2>3, <2>5
  <2> QED BY <2>3, <2>4, <2>6, <2>7, <2>8, CalmStep
<1>2. CASE GetActive(t)
  <2>1. thread[t] \in Getting /\ thread[t].pc = "active" /\ swaps = counter
    BY <1>a, <1>2, ThreadFields DEF GetActive, OneRotates
  <2>2. thread[t].k \in SketchKeys /\ active \in Slots /\ thread[t].was \in Memory
    BY <1>a, <2>1, RingSlots DEF Getting, active
  <2>3. CASE thread[t].k \in pages[active].entries
    <3>1. Marked
      BY <1>2, <2>2, <2>3 DEF GetActive, Marked
    <3> QED BY <1>d, <1>2, <2>1, <2>3, <3>1 DEF GetActive
  <2>4. CASE thread[t].k \notin pages[active].entries
    <3> DEFINE x == [thread[t] EXCEPT !.pc = "ring"]
    <3>1. x \in Getting /\ x.pc = "ring" /\ x.k = thread[t].k /\ x.was = thread[t].was
      BY <2>1 DEF Getting
    <3>2. Goes(t, x)
      BY <1>a, <1>2, <2>4 DEF Goes, Marked, GetActive
    <3> HIDE DEF x
    <3>3. ASSUME x.was.set  PROVE Findable(x.k, x.was.at) /\ x.was.at < counter
      <4>1. Findable(x.k, x.was.at) /\ x.was.at \in Nat
        BY <1>a, <2>1, <2>2, <3>1, <3>3, MemoryFields DEF Reader
      <4>2. x.was.at # swaps
        BY <1>a, <1>c, <2>1, <2>4, <3>1, <4>1 DEF Findable, active
      <4> QED BY <1>a, <2>1, <4>1, <4>2 DEF Findable
    <3> QED BY <2>1, <3>1, <3>2, <3>3, CalmStep DEF ThreadStates
  <2> QED BY <2>3, <2>4
<1>3. CASE GetRing(t)
  <2>1. thread[t] \in Getting /\ thread[t].pc = "ring"
    BY <1>a, <1>3, ThreadFields DEF GetRing
  <2> DEFINE x == [pc |-> "sealed", k |-> thread[t].k, was |-> thread[t].was, c |-> counter]
  <2>2. x \in Walking /\ x.pc = "sealed" /\ x.k = thread[t].k /\ x.was = thread[t].was
        /\ x.c = counter
    BY <1>a, <2>1 DEF Getting, Walking
  <2>3. Goes(t, x)
    BY <1>a, <1>3 DEF Goes, Marked, GetRing
  <2> HIDE DEF x
  <2>4. x.was.set => Findable(x.k, x.was.at) /\ x.was.at < x.c /\ x.c <= counter
    BY <1>a, <2>1, <2>2 DEF Reader
  <2> QED BY <2>1, <2>2, <2>3, <2>4, CalmStep DEF ThreadStates
<1>4. CASE GetSealed(t)
  <2>1. thread[t] \in Walking /\ thread[t].pc = "sealed"
    BY <1>a, <1>4, ThreadFields DEF GetSealed
  <2>2. thread[t].k \in SketchKeys /\ thread[t].was \in Memory /\ thread[t].c \in Nat
    BY <2>1 DEF Walking
  <2> DEFINE k == thread[t].k
             c == thread[t].c
             hits == {i \in 1 .. n_pages - 1 : k \in pages[Sealed(c, i)].entries}
  <2>3. CASE hits # {}
    <3> DEFINE i == CHOOSE i \in hits : \A j \in hits : i <= j
    <3>1. pages' = [pages EXCEPT ![Sealed(c, i)] = Hit(@, k)]
      BY <1>4, <2>3 DEF GetSealed
    <3>2. i \in hits
      <4>1. \E j \in hits : TRUE
        BY <2>3
      <4>2. hits \subseteq Nat
        BY <1>c
      <4>3. PICK m \in hits : \A j \in hits : m <= j
        BY <4>1, <4>2, LeastMember
      <4> QED BY <4>3
    <3>3. Sealed(c, i) \in Slots
      <4>1. i \in 1 .. n_pages - 1
        BY <3>2
      <4>2. c + n_pages - i \in Nat
        BY <1>c, <2>2, <4>1
      <4> QED BY <1>c, <4>2, Remainder DEF Sealed, Slots
    <3>4. Marked
      BY <2>2, <3>1, <3>3 DEF Marked
    <3> QED BY <1>d, <1>4, <2>1, <2>3, <3>4 DEF GetSealed
  <2>4. CASE hits = {}
    <3> DEFINE x == [pc |-> "missed", k |-> thread[t].k, was |-> thread[t].was]
    <3>1. x \in Getting /\ x.pc = "missed" /\ x.k = k /\ x.was = thread[t].was
      BY <2>2 DEF Getting
    <3>2. Goes(t, x)
      BY <1>a, <1>4, <2>4 DEF Goes, Marked, GetSealed
    <3> HIDE DEF x
    <3>3. ASSUME x.was.set  PROVE Findable(x.k, x.was.at) /\ x.was.at + n_pages <= swaps
      <4> DEFINE at == x.was.at
      <4>1. Findable(k, at) /\ at \in Nat /\ at < c /\ c <= counter /\ c \in Nat
        BY <1>a, <2>1, <2>2, <3>1, <3>3, MemoryFields DEF Reader
      <4>2. counter <= swaps
        BY <1>a DEF OneRotates
      <4>3. ASSUME swaps < at + n_pages  PROVE FALSE
        <5>1. c - at \in 1 .. n_pages - 1
          BY <1>a, <1>c, <4>1, <4>2, <4>3
        <5>2. c + n_pages - (c - at) = at + n_pages
          BY <1>c, <4>1
        <5>3. Sealed(c, c - at) = at % n_pages
          BY <1>c, <4>1, <5>2, SlotsRound DEF Sealed
        <5>4. k \in pages[Sealed(c, c - at)].entries
          BY <4>1, <4>3, <5>3 DEF Findable
        <5> QED BY <2>4, <5>1, <5>4
      <4> QED BY <1>a, <1>c, <3>1, <4>1, <4>3
    <3> QED BY <2>1, <3>1, <3>2, <3>3, CalmStep DEF ThreadStates
  <2> QED BY <2>3, <2>4
<1>5. CASE GetReturns(t)
  BY <1>d, <1>5 DEF GetReturns, Marked
<1> QED BY <1>1, <1>2, <1>3, <1>4, <1>5

LEMMA SetBeginsKeeps ==
  ASSUME SketchInv, NEW t \in SketchThreads, SetSnapshot(t) \/ SetScan(t)  PROVE SketchInv'
<1>a. /\ SketchType /\ pages \in [Slots -> PageType] /\ counter \in Nat
      /\ thread \in [SketchThreads -> ThreadStates]
  BY DEF SketchInv, SketchType, ThreadStates
<1>b. EmptyPage(FALSE) \in PageType /\ ~EmptyPage(FALSE).is_sealed
  BY DEF EmptyPage, PageType
<1>1. CASE SetSnapshot(t)
  <2>1. PICK k \in SketchKeys :
          thread' = [thread EXCEPT ![t] =
            IF Full(pages[active]) THEN [pc |-> "scan", k |-> k, gen |-> counter]
            ELSE [pc |-> "commit", k |-> k, gen |-> counter, full |-> FALSE,
                  new_page |-> EmptyPage(FALSE)]]
    BY <1>1 DEF SetSnapshot
  <2> DEFINE y == [pc |-> "scan", k |-> k, gen |-> counter]
             z == [pc |-> "commit", k |-> k, gen |-> counter, full |-> FALSE,
                   new_page |-> EmptyPage(FALSE)]
  <2>2. y \in Scanning /\ y.pc = "scan"
    BY <1>a DEF Scanning
  <2>3. z \in Committing /\ z.pc = "commit"
    BY <1>a, <1>b DEF Committing
  <2>4. thread[t].pc # "swapped"
    BY <1>1 DEF SetSnapshot, Waiting
  <2>5. Goes(t, y) \/ Goes(t, z)
    BY <1>1, <2>1 DEF Goes, Marked, SetSnapshot
  <2> HIDE DEF y, z
  <2> QED BY <2>2, <2>3, <2>4, <2>5, CalmStep DEF ThreadStates
<1>2. CASE SetScan(t)
  <2>1. thread[t] \in Scanning /\ thread[t].pc = "scan"
    BY <1>a, <1>2, ThreadFields DEF SetScan
  <2>2. thread[t].gen \in Nat /\ thread[t].k \in SketchKeys
    BY <2>1 DEF Scanning
  <2> DEFINE retiring == pages[(thread[t].gen + 1) % n_pages]
             fresh == [EmptyPage(FALSE) EXCEPT !.entries = Survivors(retiring)]
             x == [pc |-> "commit", k |-> thread[t].k, gen |-> thread[t].gen, full |-> TRUE,
                   new_page |-> fresh]
  <2>3. retiring \in PageType
    BY <1>a, <2>2, RingSlots
  <2>4. Survivors(retiring) \subseteq SketchKeys
    BY <2>3 DEF Survivors, PageType
  <2>5. fresh \in PageType /\ ~fresh.is_sealed
    BY <1>b, <2>4 DEF PageType
  <2>6. Goes(t, x)
    BY <1>a, <1>2 DEF Goes, Marked, SetScan
  <2>7. x \in Committing /\ x.pc = "commit"
    <3> HIDE DEF fresh
    <3> QED BY <2>2, <2>5 DEF Committing
  <2> HIDE DEF x
  <2> QED BY <2>1, <2>6, <2>7, CalmStep DEF ThreadStates
<1> QED BY <1>1, <1>2

(* An entry goes to the slot of the number of swaps.                       *)
LEMMA EntryKeeps ==
  ASSUME SketchInv, NEW t \in SketchThreads, thread[t] \in Committing, SetEntry(t, swaps),
         swaps' = swaps, counter' \in Nat, counter' >= counter, OneRotates'
  PROVE  SketchInv'
<1> DEFINE key == thread[t].k
           slot == swaps % n_pages
<1>a. /\ SketchType /\ pages \in [Slots -> PageType] /\ swaps \in Nat
      /\ known \in [SketchKeys -> Memory] /\ thread \in [SketchThreads -> ThreadStates]
      /\ key \in SketchKeys /\ slot \in Slots /\ n_pages \in Nat \ {0}
  BY RingSlots DEF SketchInv, SketchType, ThreadStates, Committing
<1>1. /\ Insert(pages[slot], key) \in PageType
      /\ Insert(pages[slot], key).entries = pages[slot].entries \cup {key}
      /\ Insert(pages[slot], key).is_sealed = pages[slot].is_sealed
  BY <1>a DEF Insert, PageType
<1>2. pages' = [pages EXCEPT ![slot] = Insert(pages[slot], key)]
  BY DEF SetEntry
<1>3. /\ pages' \in [Slots -> PageType] /\ key \in pages'[slot].entries
      /\ \A i \in Slots : /\ pages[i].entries \subseteq pages'[i].entries
                          /\ pages'[i].is_sealed = pages[i].is_sealed
  BY <1>a, <1>1, <1>2
<1>4. ASSUME NEW x \in SketchKeys
      PROVE  /\ known'[x] \in Memory
             /\ x = key => known'[x].at = swaps /\ (known'[x].kept <=> x \in filter'.keys)
             /\ x # key => /\ known'[x].set = known[x].set
                           /\ known[x].set => /\ known'[x].at = known[x].at
                                              /\ known'[x].kept <=> x \in filter'.keys
  <2>1. known'[x] = IF x = key THEN [set |-> TRUE, at |-> swaps, kept |-> x \in filter'.keys]
                    ELSE IF known[x].set THEN [known[x] EXCEPT !.kept = x \in filter'.keys]
                    ELSE known[x]
    BY DEF SetEntry
  <2>2. (x \in filter'.keys) \in BOOLEAN
    OBVIOUS
  <2> DEFINE b == x \in filter'.keys
  <2>3. b \in BOOLEAN /\ (b <=> x \in filter'.keys)
    OBVIOUS
  <2>4. known'[x] = IF x = key THEN [set |-> TRUE, at |-> swaps, kept |-> b]
                    ELSE IF known[x].set THEN [known[x] EXCEPT !.kept = b]
                    ELSE known[x]
    BY <2>1
  <2> HIDE DEF b
  <2>5. CASE x = key
    BY <1>a, <2>3, <2>4, <2>5 DEF Memory
  <2>6. CASE x # key /\ known[x].set
    <3>1. known[x] \in [set : {TRUE}, at : Nat, kept : BOOLEAN]
      <4>1. known[x] \in Memory
        BY <1>a
      <4>2. CASE known[x] = [set |-> FALSE]
        <5>1. known[x].set = FALSE
          BY <4>2
        <5> QED BY <2>6, <5>1
      <4> QED BY <4>1, <4>2 DEF Memory
    <3>2. known'[x] = [known[x] EXCEPT !.kept = b]
      BY <2>4, <2>6
    <3>3. /\ known'[x] \in [set : {TRUE}, at : Nat, kept : BOOLEAN]
          /\ known'[x].set = known[x].set /\ known'[x].at = known[x].at /\ known'[x].kept = b
      BY <2>3, <3>1, <3>2
    <3> QED BY <2>3, <2>6, <3>3 DEF Memory
  <2>7. CASE x # key /\ ~known[x].set
    BY <1>a, <2>4, <2>7
  <2> QED BY <2>5, <2>6, <2>7
<1>5. known' \in [SketchKeys -> Memory]
  BY <1>4 DEF SetEntry
<1>6. /\ thread'[t] = Waiting /\ \A u \in SketchThreads \ {t} : thread'[u] = thread[u]
      /\ thread' \in [SketchThreads -> ThreadStates]
  BY <1>a DEF SetEntry, ThreadStates
<1>7. SketchType'
  BY <1>a, <1>3, <1>5, <1>6 DEF SketchType, ThreadStates
<1>8. RingForward
  BY <1>3 DEF RingForward
<1>9. SwapsOpen'
  BY <1>3 DEF SketchInv, SwapsOpen
<1>10. KnownFindable'
  <2> SUFFICES ASSUME NEW x \in SketchKeys, known'[x].set
               PROVE  Findable(x, known[x].at)' /\ (known'[x].kept <=> x \in filter'.keys)
    BY DEF KnownFindable
  <2>1. CASE x = key
    <3>1. known'[x].at = swaps
      BY <1>4, <2>1
    <3> QED BY <1>a, <1>3, <1>4, <2>1, <3>1 DEF Findable
  <2>2. CASE x # key
    <3>1. known[x].set /\ known'[x].at = known[x].at /\ known[x].at \in Nat
      BY <1>a, <1>4, <2>2, MemoryFields
    <3>2. ASSUME NEW at \in Nat, at = known[x].at  PROVE Findable(x, at)'
      BY <1>a, <1>7, <1>8, <3>1, <3>2, FindableStays DEF SketchInv, KnownFindable
    <3>3. Findable(x, known[x].at)'
      BY <3>1, <3>2 DEF Findable
    <3> QED BY <1>4, <2>2, <3>1, <3>3
  <2> QED BY <2>1, <2>2
<1>11. Reader(t)'
  <2>1. thread'[t].pc = "idle"
    BY <1>6 DEF Waiting
  <2> QED BY <2>1 DEF Reader
<1> QED BY <1>6, <1>7, <1>8, <1>9, <1>10, <1>11, OthersStay

(* A rotation seals the page of the last swap and opens the next slot.     *)
LEMMA SwapKeeps ==
  ASSUME SketchInv, NEW t \in SketchThreads, thread[t] \in Committing, ~Locked,
         pages' = [pages EXCEPT ![active] = Seal(@), ![oldest] = thread[t].new_page],
         thread' = [thread EXCEPT ![t].pc = "swapped"], swaps' = swaps + 1,
         UNCHANGED <<counter, filter, known>>
  PROVE  SketchInv'
<1>a. /\ SketchType /\ pages \in [Slots -> PageType] /\ swaps \in Nat /\ counter \in Nat
      /\ known \in [SketchKeys -> Memory] /\ thread \in [SketchThreads -> ThreadStates]
      /\ swaps = counter /\ n_pages \in Nat \ {0}
  BY RingSlots DEF SketchInv, SketchType, ThreadStates, OneRotates
<1>b. active \in Slots /\ oldest \in Slots /\ active # oldest
      /\ active = swaps % n_pages /\ oldest = swaps' % n_pages
  BY <1>a, RingSlots DEF active, oldest
<1>1. /\ Seal(pages[active]) \in PageType /\ Seal(pages[active]).is_sealed
      /\ Seal(pages[active]).entries = pages[active].entries
  BY <1>a, <1>b DEF Seal, PageType
<1>2. thread[t].new_page \in PageType /\ ~thread[t].new_page.is_sealed
  BY DEF Committing
<1>3. /\ pages' \in [Slots -> PageType]
      /\ pages'[oldest] = thread[t].new_page
      /\ pages'[active] = Seal(pages[active])
      /\ \A i \in Slots \ {active, oldest} : pages'[i] = pages[i]
  BY <1>a, <1>b, <1>1, <1>2
<1>4. [thread[t] EXCEPT !.pc = "swapped"] \in Committing
      /\ [thread[t] EXCEPT !.pc = "swapped"].pc = "swapped"
  BY DEF Committing
<1>5. /\ thread'[t] = [thread[t] EXCEPT !.pc = "swapped"]
      /\ \A u \in SketchThreads \ {t} : thread'[u] = thread[u]
      /\ thread' \in [SketchThreads -> ThreadStates]
  BY <1>a, <1>4 DEF ThreadStates
<1>6. SketchType'
  BY <1>a, <1>3, <1>5 DEF SketchType, ThreadStates
<1>7. RingForward
  BY <1>a, <1>b, <1>1, <1>3 DEF RingForward
<1>8. OneRotates'
  <2>1. \A u \in SketchThreads : thread'[u].pc = "swapped" <=> u = t
    BY <1>4, <1>5 DEF Locked
  <2>2. Locked'
    BY <2>1 DEF Locked
  <2> QED BY <1>a, <2>1, <2>2 DEF OneRotates
<1>9. SwapsOpen'
  <2> SUFFICES ASSUME NEW i \in Slots  PROVE pages'[i].is_sealed <=> i # swaps' % n_pages
    BY DEF SwapsOpen
  <2>1. pages[i].is_sealed <=> i # active
    BY <1>b DEF SketchInv, SwapsOpen
  <2> QED BY <1>b, <1>1, <1>2, <1>3, <2>1
<1>10. KnownFindable'
  <2> SUFFICES ASSUME NEW x \in SketchKeys, known[x].set
               PROVE  Findable(x, known[x].at)' /\ (known[x].kept <=> x \in filter.keys)
    BY DEF KnownFindable
  <2>1. known[x].at \in Nat
    BY <1>a, MemoryFields
  <2>2. ASSUME NEW at \in Nat, at = known[x].at  PROVE Findable(x, at)'
    BY <1>a, <1>6, <1>7, <2>1, <2>2, FindableStays DEF SketchInv, KnownFindable
  <2>3. Findable(x, known[x].at)'
    BY <2>1, <2>2 DEF Findable
  <2> QED BY <2>3 DEF SketchInv, KnownFindable
<1>11. Reader(t)'
  BY <1>4, <1>5 DEF Reader
<1> QED BY <1>5, <1>6, <1>7, <1>8, <1>9, <1>10, <1>11, OthersStay

LEMMA SetEndsKeeps ==
  ASSUME SketchInv, NEW t \in SketchThreads, SetCommit(t) \/ SetInserts(t)  PROVE SketchInv'
<1>a. /\ SketchType /\ OneRotates /\ swaps \in Nat /\ counter \in Nat
      /\ thread \in [SketchThreads -> ThreadStates]
  BY DEF SketchInv, SketchType, ThreadStates
<1>b. ASSUME NEW c, SetEntry(t, c)
      PROVE  /\ thread'[t].pc = "idle"
             /\ \A u \in SketchThreads \ {t} : thread'[u] = thread[u]
  BY <1>a, <1>b DEF SetEntry, Waiting
<1>1. CASE SetCommit(t)
  <2>1. thread[t].pc = "commit" /\ ~Locked /\ thread[t] \in Committing
    BY <1>a, <1>1, ThreadFields DEF SetCommit
  <2>2. CASE SetEntry(t, counter) /\ UNCHANGED <<counter, swaps>>
    <3>1. swaps = counter
      BY <1>a, <2>1 DEF OneRotates
    <3>2. ~Locked'
      BY <1>b, <2>1, <2>2 DEF Locked
    <3>3. OneRotates'
      BY <2>2, <3>1, <3>2 DEF OneRotates, Locked
    <3> QED BY <1>a, <2>1, <2>2, <3>1, <3>3, EntryKeeps
  <2>3. CASE ~(SetEntry(t, counter) /\ UNCHANGED <<counter, swaps>>)
    BY <1>1, <2>1, <2>3, SwapKeeps DEF SetCommit
  <2> QED BY <2>2, <2>3
<1>2. CASE SetInserts(t)
  <2>1. thread[t].pc = "swapped" /\ thread[t] \in Committing
    BY <1>a, <1>2, ThreadFields DEF SetInserts
  <2>2. swaps = counter + 1 /\ \A u \in SketchThreads \ {t} : thread[u].pc # "swapped"
    BY <1>a, <2>1 DEF OneRotates, Locked
  <2>3. counter' = counter + 1 /\ SetEntry(t, swaps) /\ swaps' = swaps
    BY <1>2, <2>2 DEF SetInserts
  <2>4. ~Locked'
    BY <1>b, <2>2, <2>3 DEF Locked
  <2>5. OneRotates'
    BY <2>2, <2>3, <2>4 DEF OneRotates, Locked
  <2> QED BY <1>a, <2>1, <2>3, <2>5, EntryKeeps
<1> QED BY <1>1, <1>2

LEMMA SketchStarts == SketchInit => SketchInv
<1> SUFFICES ASSUME SketchInit  PROVE SketchInv
  OBVIOUS
<1>a. n_pages \in Nat \ {0, 1} /\ 0 \in Slots
  BY AtLeastTwoPages DEF Slots
<1>1. \A b \in BOOLEAN : EmptyPage(b) \in PageType /\ EmptyPage(b).is_sealed = b
  BY DEF EmptyPage, PageType
<1>2. \A i \in Slots : pages[i] = EmptyPage(i # 0)
  BY DEF SketchInit
<1>3. pages \in [Slots -> PageType] /\ \A i \in Slots : pages[i].is_sealed <=> i # 0
  <2>1. \A i \in Slots : (i # 0) \in BOOLEAN
    OBVIOUS
  <2>2. \A i \in Slots : EmptyPage(i # 0) \in PageType /\ EmptyPage(i # 0).is_sealed = (i # 0)
    BY <1>1, <2>1
  <2> QED BY <1>2, <2>2 DEF SketchInit
<1>4. Waiting \in ThreadStates /\ Waiting.pc = "idle" /\ [set |-> FALSE] \in Memory
      /\ ~[set |-> FALSE].set
  BY DEF ThreadStates, Waiting, Memory
<1>5. SketchType
  BY <1>3, <1>4 DEF SketchInit, SketchType, ThreadStates
<1>6. \A t \in SketchThreads : thread[t].pc = "idle"
  BY <1>4 DEF SketchInit
<1>7. OneRotates
  BY <1>6 DEF SketchInit, OneRotates, Locked
<1>8. 0 % n_pages = 0
  <2>1. 0 = n_pages * 0 + 0 /\ 0 \in 0 .. n_pages - 1
    BY <1>a
  <2> QED BY <1>a, <2>1, RemainderIs
<1>9. SwapsOpen
  BY <1>3, <1>8 DEF SketchInit, SwapsOpen
<1>10. KnownFindable
  BY <1>4 DEF SketchInit, KnownFindable
<1> QED BY <1>5, <1>6, <1>7, <1>9, <1>10 DEF SketchInv, Reader

LEMMA SketchKeeps == SketchInv /\ [Next]_vars => SketchInv'
<1> SUFFICES ASSUME SketchInv, [Next]_vars  PROVE SketchInv'
  OBVIOUS
<1>1. CASE UNCHANGED SketchVars
  BY <1>1 DEF SketchVars, SketchInv, SketchType, OneRotates, Locked, SwapsOpen, KnownFindable,
              Reader, Findable
<1>2. CASE SketchNext
  <2>1. PICK t \in SketchThreads : SketchStep(t)
    BY <1>2 DEF SketchNext
  <2> QED BY <2>1, GetKeeps, SetBeginsKeeps, SetEndsKeeps DEF SketchStep
<1> QED BY <1>1, <1>2, OneToolSteps

(* Between rotations one page of the sketch is open, the counter's; and    *)
(* get() misses a key that was set and is in the filter only once the ring *)
(* has gone round, though it walks the sealed pages without the lock while *)
(* rotations go on: for every size of the ring and any number of threads.  *)
THEOREM SketchIsSound == Spec => []SketchSound
<1>1. SketchInv => SketchSound
  <2> SUFFICES ASSUME SketchInv  PROVE OneOpenPage /\ NoFalseMiss
    BY DEF SketchSound
  <2>1. OneOpenPage
    BY DEF SketchInv, SwapsOpen, OneRotates, OneOpenPage, active
  <2>2. NoFalseMiss
    <3> SUFFICES ASSUME NEW t \in SketchThreads, thread[t].pc = "missed", thread[t].was.set,
                        thread[t].was.kept
                 PROVE  swaps - thread[t].was.at >= n_pages
      BY DEF NoFalseMiss
    <3>1. thread[t].was.at \in Nat /\ swaps \in Nat /\ n_pages \in Nat
      BY ThreadFields, MemoryFields, AtLeastTwoPages DEF SketchInv, SketchType
    <3>2. thread[t].was.at + n_pages <= swaps
      BY DEF SketchInv, Reader
    <3> QED BY <3>1, <3>2
  <2> QED BY <2>1, <2>2
<1>2. Init => SketchInv
  BY SketchStarts DEF Init
<1> QED BY <1>1, <1>2, SketchKeeps, PTL DEF Spec

-----------------------------------------------------------------------------
(* The load client.  The results of the current batch are newer than every *)
(* report, except between a report and the reset of its batch, when they   *)
(* are the last report's.                                                  *)

Result == [n : Nat, success : BOOLEAN]
RunnerType ==
  /\ results \in Seq(Result) /\ reports \in Seq(Seq(Result))
  /\ query_count \in Nat /\ succeeded \subseteq Nat
  /\ runner \in {"sample", "count", "report", "reset", "died", "stopped"}

Working == runner \in {"sample", "count", "report", "reset"}
Ran == IF runner = "count" THEN query_count + 1 ELSE query_count
Before == Ran - Len(results)
HasSuccess(rs) == \E i \in DOMAIN rs : rs[i].success

BatchFills ==
  Len(results) = CASE runner = "sample" -> query_count % batch_size
                   [] runner = "count" -> (query_count % batch_size) + 1
                   [] OTHER -> batch_size
ResultsAreNew ==
  /\ runner \in {"report", "reset"} => query_count % batch_size = 0
  /\ \A j \in DOMAIN results : Before < results[j].n /\ results[j].n <= Ran
Older(i) == \A j \in DOMAIN reports[i] : reports[i][j].n <= Before
ReportsAreOld ==
  IF runner = "reset" /\ HasSuccess(results)
  THEN /\ reports # <<>> /\ reports[Len(reports)] = results
       /\ \A i \in DOMAIN reports : i # Len(reports) => Older(i)
  ELSE \A i \in DOMAIN reports : Older(i)
ReportsInOrder ==
  \A i, j \in DOMAIN reports : i < j =>
    \A a \in DOMAIN reports[i], b \in DOMAIN reports[j] : reports[i][a].n < reports[j][b].n
ReportsAreFull == \A i \in DOMAIN reports : Len(reports[i]) = batch_size
NoneForgotten ==
  \A m \in succeeded :
    \/ InReport(m) # {}
    \/ \E j \in DOMAIN results : results[j].n = m /\ results[j].success

RunnerInv ==
  /\ RunnerType
  /\ Working => BatchFills /\ ResultsAreNew /\ ReportsAreOld /\ NoneForgotten
  /\ runner # "stopped" => ReportsInOrder /\ ReportsAreFull
  /\ runner = "stopped" => EveryQueryReported

LEMMA AppendFacts ==
  ASSUME NEW S, NEW s \in Seq(S), NEW e \in S
  PROVE  /\ Append(s, e) \in Seq(S) /\ Len(Append(s, e)) = Len(s) + 1 /\ Len(s) \in Nat
         /\ DOMAIN s = 1 .. Len(s) /\ DOMAIN Append(s, e) = 1 .. Len(s) + 1
         /\ \A i \in 1 .. Len(s) : Append(s, e)[i] = s[i]
         /\ Append(s, e)[Len(s) + 1] = e
OBVIOUS

LEMMA RunnerNumbers ==
  ASSUME RunnerType
  PROVE  /\ Len(results) \in Nat /\ DOMAIN results = 1 .. Len(results)
         /\ Len(reports) \in Nat /\ DOMAIN reports = 1 .. Len(reports)
         /\ Ran \in Nat /\ Before \in Int
         /\ \A j \in DOMAIN results : results[j].n \in Nat
         /\ \A i \in DOMAIN reports : \A j \in DOMAIN reports[i] : reports[i][j].n \in Nat
<1>1. /\ results \in Seq(Result) /\ reports \in Seq(Seq(Result)) /\ query_count \in Nat
  BY DEF RunnerType
<1>2. /\ Len(results) \in Nat /\ DOMAIN results = 1 .. Len(results)
      /\ Len(reports) \in Nat /\ DOMAIN reports = 1 .. Len(reports)
      /\ Ran \in Nat /\ Before \in Int
  BY <1>1 DEF Ran, Before
<1>3. \A j \in DOMAIN results : results[j].n \in Nat
  <2>1. \A j \in DOMAIN results : results[j] \in Result
    BY <1>1
  <2> QED BY <2>1 DEF Result
<1>4. ASSUME NEW i \in DOMAIN reports, NEW j \in DOMAIN reports[i]
      PROVE  reports[i][j].n \in Nat
  <2>1. reports[i] \in Seq(Result)
    BY <1>1
  <2>2. reports[i][j] \in Result
    BY <2>1
  <2> QED BY <2>2 DEF Result
<1> QED BY <1>2, <1>3, <1>4

(* What the reports look like after a batch was reported: the same, or one *)
(* more.                                                                   *)
LEMMA ReportFacts ==
  ASSUME RunnerType
  PROVE  IF HasSuccess(results)
         THEN /\ Report(results) \in Seq(Seq(Result))
              /\ Len(Report(results)) = Len(reports) + 1
              /\ DOMAIN Report(results) = 1 .. Len(reports) + 1
              /\ \A i \in DOMAIN reports : Report(results)[i] = reports[i]
              /\ Report(results)[Len(reports) + 1] = results
         ELSE Report(results) = reports
BY AppendFacts DEF RunnerType, Report, HasSuccess

LEMMA ResultKeeps ==
  ASSUME RunnerInv, runner = "sample", runner' = "count", UNCHANGED <<query_count, reports>>,
         NEW success \in BOOLEAN,
         results' = Append(results, [n |-> query_count + 1, success |-> success]),
         succeeded' = IF success THEN succeeded \cup {query_count + 1} ELSE succeeded
  PROVE  RunnerInv'
<1>a. /\ RunnerType /\ BatchFills /\ ResultsAreNew /\ ReportsAreOld /\ NoneForgotten
      /\ ReportsInOrder /\ ReportsAreFull
  BY DEF RunnerInv, Working
<1>b. /\ query_count \in Nat /\ results \in Seq(Result) /\ batch_size \in Nat \ {0}
      /\ query_count + 1 \in Nat
  BY <1>a, BatchAssumption DEF RunnerType
<1> DEFINE r == [n |-> query_count + 1, success |-> success]
           L == Len(results)
<1>c. r \in Result /\ r.n = query_count + 1 /\ r.success = success
  BY <1>b DEF Result
<1> HIDE DEF r
<1>d. results' = Append(results, r)
  BY DEF r
<1>1. /\ results' \in Seq(Result) /\ Len(results') = L + 1 /\ L \in Nat
      /\ DOMAIN results = 1 .. L /\ DOMAIN results' = 1 .. L + 1
      /\ \A j \in 1 .. L : results'[j] = results[j]
      /\ results'[L + 1] = r
  BY <1>b, <1>c, <1>d, AppendFacts
<1>2. RunnerType'
  BY <1>a, <1>b, <1>1 DEF RunnerType
<1>3. Before' = Before /\ Ran' = query_count + 1 /\ Ran = query_count /\ Before = query_count - L
  BY <1>b, <1>1 DEF Before, Ran
<1>4. BatchFills'
  BY <1>a, <1>1 DEF BatchFills
<1>5. \A j \in DOMAIN results' : Before' < results'[j].n /\ results'[j].n <= Ran'
  <2> SUFFICES ASSUME NEW j \in 1 .. L + 1
               PROVE  Before' < results'[j].n /\ results'[j].n <= Ran'
    BY <1>1
  <2>1. CASE j \in 1 .. L
    <3>1. Before < results[j].n /\ results[j].n <= Ran /\ results[j].n \in Nat
      BY <1>a, <1>1, <2>1, RunnerNumbers DEF ResultsAreNew
    <3> QED BY <1>b, <1>1, <1>3, <2>1, <3>1
  <2>2. CASE j = L + 1
    BY <1>b, <1>c, <1>1, <1>3, <2>2
  <2> QED BY <1>1, <2>1, <2>2
<1>6. ReportsAreOld' /\ ReportsInOrder' /\ ReportsAreFull'
  BY <1>a, <1>3 DEF ReportsAreOld, Older, ReportsInOrder, ReportsAreFull
<1>7. NoneForgotten'
  <2> SUFFICES ASSUME NEW m \in succeeded'
               PROVE  \/ InReport(m)' # {}
                      \/ \E j \in DOMAIN results' : results'[j].n = m /\ results'[j].success
    BY DEF NoneForgotten
  <2>1. CASE m \in succeeded
    <3>1. CASE InReport(m) # {}
      BY <3>1 DEF InReport
    <3>2. ASSUME NEW j \in DOMAIN results, results[j].n = m, results[j].success
          PROVE  \E i \in DOMAIN results' : results'[i].n = m /\ results'[i].success
      BY <1>1, <3>2
    <3> QED BY <1>a, <2>1, <3>1, <3>2 DEF NoneForgotten
  <2>2. CASE m = query_count + 1 /\ success
    BY <1>c, <1>1, <2>2
  <2> QED BY <2>1, <2>2
<1>8. ResultsAreNew'
  BY <1>5 DEF ResultsAreNew
<1> QED BY <1>2, <1>4, <1>6, <1>7, <1>8 DEF RunnerInv, Working

LEMMA CountKeeps ==
  ASSUME RunnerInv, CountQuery  PROVE RunnerInv'
<1>a. /\ RunnerType /\ BatchFills /\ ResultsAreNew /\ ReportsAreOld /\ NoneForgotten
      /\ ReportsInOrder /\ ReportsAreFull /\ runner = "count"
  BY DEF RunnerInv, Working, CountQuery
<1>b. /\ query_count \in Nat /\ batch_size \in Nat \ {0} /\ query_count + 1 \in Nat
      /\ query_count' = query_count + 1 /\ UNCHANGED <<results, reports, succeeded>>
      /\ runner' \in {"report", "sample"}
  BY <1>a, BatchAssumption DEF RunnerType, CountQuery
<1>1. RunnerType'
  BY <1>a, <1>b DEF RunnerType
<1>2. Ran' = Ran /\ Before' = Before
  BY <1>a, <1>b DEF Ran, Before
<1>3. Len(results) = (query_count % batch_size) + 1
  BY <1>a DEF BatchFills
<1>4. /\ (query_count + 1) % batch_size =
           IF (query_count % batch_size) + 1 = batch_size THEN 0 ELSE (query_count % batch_size) + 1
      /\ query_count % batch_size \in 0 .. batch_size - 1
  BY <1>b, Remainder, RemainderNext
<1>5. runner' = IF (query_count + 1) % batch_size = 0 THEN "report" ELSE "sample"
  BY DEF CountQuery
<1>6. BatchFills' /\ (runner' \in {"report", "reset"} => query_count' % batch_size = 0)
  <2> DEFINE m == query_count % batch_size
             k == (query_count + 1) % batch_size
  <2>1. /\ m \in 0 .. batch_size - 1 /\ k = IF m + 1 = batch_size THEN 0 ELSE m + 1
        /\ Len(results) = m + 1 /\ runner' = IF k = 0 THEN "report" ELSE "sample"
        /\ query_count' % batch_size = k /\ Len(results') = Len(results)
    BY <1>b, <1>3, <1>4, <1>5
  <2> HIDE DEF m, k
  <2>2. CASE k = 0
    <3>1. runner' = "report" /\ Len(results') = batch_size
      BY <1>b, <2>1, <2>2
    <3> QED BY <2>1, <2>2, <3>1 DEF BatchFills
  <2>3. CASE k # 0
    <3>1. runner' = "sample" /\ Len(results') = k
      BY <1>b, <2>1, <2>3
    <3> QED BY <2>1, <3>1 DEF BatchFills
  <2> QED BY <2>2, <2>3
<1>7. ResultsAreNew'
  BY <1>a, <1>b, <1>2, <1>6 DEF ResultsAreNew
<1>8. ReportsAreOld' /\ ReportsInOrder' /\ ReportsAreFull' /\ NoneForgotten'
  BY <1>a, <1>b, <1>2
     DEF ReportsAreOld, Older, ReportsInOrder, ReportsAreFull, NoneForgotten, InReport
<1> QED BY <1>b, <1>1, <1>6, <1>7, <1>8 DEF RunnerInv, Working

(* A report of the batch comes after all the others, and is in order with  *)
(* them.                                                                   *)
LEMMA PrintKeeps ==
  ASSUME RunnerInv, PrintStatistics  PROVE RunnerInv'
<1>a. /\ RunnerType /\ BatchFills /\ ResultsAreNew /\ ReportsAreOld /\ NoneForgotten
      /\ ReportsInOrder /\ ReportsAreFull /\ runner = "report"
  BY DEF RunnerInv, Working, PrintStatistics
<1>b. /\ reports' = Report(results) /\ runner' = "reset"
      /\ UNCHANGED <<results, query_count, succeeded>>
  BY DEF PrintStatistics
<1>c. Ran' = Ran /\ Before' = Before
  BY <1>a, <1>b DEF Ran, Before
<1>d. /\ Len(reports) \in Nat /\ DOMAIN reports = 1 .. Len(reports)
      /\ \A i \in DOMAIN reports : Older(i)
  BY <1>a, RunnerNumbers DEF ReportsAreOld
<1>e. BatchFills' /\ ResultsAreNew'
  BY <1>a, <1>b, <1>c DEF BatchFills, ResultsAreNew
<1>1. CASE HasSuccess(results)
  <2>1. /\ reports' \in Seq(Seq(Result)) /\ Len(reports') = Len(reports) + 1
        /\ DOMAIN reports' = 1 .. Len(reports) + 1
        /\ \A i \in DOMAIN reports : reports'[i] = reports[i]
        /\ reports'[Len(reports) + 1] = results
    BY <1>a, <1>b, <1>1, ReportFacts
  <2>2. RunnerType'
    BY <1>a, <1>b, <2>1 DEF RunnerType
  <2>3. ReportsAreOld'
    <3>1. reports' # <<>> /\ reports'[Len(reports')] = results'
      BY <1>b, <1>d, <2>1
    <3>2. ASSUME NEW i \in DOMAIN reports', i # Len(reports')  PROVE Older(i)'
      <4>1. i \in DOMAIN reports
        BY <1>d, <2>1, <3>2
      <4> QED BY <1>c, <1>d, <2>1, <4>1 DEF Older
    <3> QED BY <1>b, <1>1, <3>1, <3>2 DEF ReportsAreOld, HasSuccess
  <2>4. ReportsInOrder'
    <3> SUFFICES ASSUME NEW i \in DOMAIN reports', NEW j \in DOMAIN reports', i < j,
                        NEW a \in DOMAIN reports'[i], NEW b \in DOMAIN reports'[j]
                 PROVE  reports'[i][a].n < reports'[j][b].n
      BY DEF ReportsInOrder
    <3>1. i \in DOMAIN reports /\ reports'[i] = reports[i]
      BY <1>d, <2>1
    <3>2. CASE j \in DOMAIN reports
      BY <1>a, <2>1, <3>1, <3>2 DEF ReportsInOrder
    <3>3. CASE j \notin DOMAIN reports
      <4>1. reports'[j] = results
        BY <1>d, <2>1, <3>3
      <4>2. reports[i][a].n <= Before /\ Before < results[b].n
        BY <1>a, <1>d, <3>1, <4>1 DEF Older, ResultsAreNew
      <4>3. reports[i][a].n \in Nat /\ results[b].n \in Nat /\ Before \in Int
        BY <1>a, <3>1, <4>1, RunnerNumbers
      <4> QED BY <3>1, <4>1, <4>2, <4>3
    <3> QED BY <3>2, <3>3
  <2>5. ReportsAreFull'
    <3> SUFFICES ASSUME NEW i \in DOMAIN reports'  PROVE Len(reports'[i]) = batch_size
      BY DEF ReportsAreFull
    <3>1. CASE i \in DOMAIN reports
      BY <1>a, <2>1, <3>1 DEF ReportsAreFull
    <3>2. CASE i \notin DOMAIN reports
      <4>1. reports'[i] = results
        BY <1>d, <2>1, <3>2
      <4> QED BY <1>a, <4>1 DEF BatchFills
    <3> QED BY <3>1, <3>2
  <2>6. NoneForgotten'
    <3>1. \A m : InReport(m) \subseteq InReport(m)'
      BY <1>d, <2>1 DEF InReport
    <3> QED BY <1>a, <1>b, <3>1 DEF NoneForgotten
  <2> QED BY <1>b, <1>e, <2>2, <2>3, <2>4, <2>5, <2>6 DEF RunnerInv, Working
<1>2. CASE ~HasSuccess(results)
  <2>1. UNCHANGED reports
    BY <1>a, <1>b, <1>2, ReportFacts
  <2>2. RunnerType'
    BY <1>a, <1>b, <2>1 DEF RunnerType
  <2>3. ReportsAreOld' /\ ReportsInOrder' /\ ReportsAreFull' /\ NoneForgotten'
    BY <1>a, <1>b, <1>c, <1>2, <2>1
       DEF ReportsAreOld, Older, ReportsInOrder, ReportsAreFull, NoneForgotten, InReport,
           HasSuccess
  <2> QED BY <1>b, <1>e, <2>2, <2>3 DEF RunnerInv, Working
<1> QED BY <1>1, <1>2

LEMMA ResetKeeps ==
  ASSUME RunnerInv, ResetResults  PROVE RunnerInv'
<1>a. /\ RunnerType /\ BatchFills /\ ResultsAreNew /\ ReportsAreOld /\ NoneForgotten
      /\ ReportsInOrder /\ ReportsAreFull /\ runner = "reset"
  BY DEF RunnerInv, Working, ResetResults
<1>b. /\ results' = <<>> /\ runner' = "sample"
      /\ UNCHANGED <<reports, query_count, succeeded>>
  BY DEF ResetResults
<1>c. /\ Ran = query_count /\ Ran' = query_count /\ query_count \in Nat
      /\ Len(results') = 0 /\ Before' = query_count /\ Before <= query_count
      /\ DOMAIN results' = {} /\ Before \in Int
  BY <1>a, <1>b, RunnerNumbers DEF Ran, Before, RunnerType
<1>1. RunnerType'
  BY <1>a, <1>b DEF RunnerType
<1>2. BatchFills' /\ ResultsAreNew'
  BY <1>a, <1>b, <1>c DEF BatchFills, ResultsAreNew
<1>3. ReportsAreOld'
  <2> SUFFICES ASSUME NEW i \in DOMAIN reports, NEW j \in DOMAIN reports[i]
               PROVE  reports[i][j].n <= query_count
    BY <1>b, <1>c DEF ReportsAreOld, Older
  <2>1. reports[i][j].n \in Nat
    BY <1>a, RunnerNumbers
  <2>2. CASE Older(i)
    BY <1>c, <2>1, <2>2 DEF Older
  <2>3. CASE reports[i] = results
    BY <1>a, <1>c, <2>3 DEF ResultsAreNew
  <2> QED BY <1>a, <2>2, <2>3 DEF ReportsAreOld
<1>4. NoneForgotten'
  <2> SUFFICES ASSUME NEW m \in succeeded  PROVE InReport(m)' # {}
    BY <1>b DEF NoneForgotten
  <2>1. InReport(m)' = InReport(m)
    BY <1>b DEF InReport
  <2>2. ASSUME NEW j \in DOMAIN results, results[j].n = m, results[j].success
        PROVE  InReport(m) # {}
    <3>1. reports # <<>> /\ reports[Len(reports)] = results
      BY <1>a, <2>2 DEF ReportsAreOld, HasSuccess
    <3>2. Len(reports) \in DOMAIN reports
      BY <1>a, <3>1 DEF RunnerType
    <3> QED BY <2>2, <3>1, <3>2 DEF InReport
  <2> QED BY <1>a, <2>1, <2>2 DEF NoneForgotten
<1>5. ReportsInOrder' /\ ReportsAreFull'
  BY <1>a, <1>b DEF ReportsInOrder, ReportsAreFull
<1> QED BY <1>b, <1>1, <1>2, <1>3, <1>4, <1>5 DEF RunnerInv, Working

(* The last report: it repeats the one before it when the batch had not    *)
(* been reset yet, and is the first of its results otherwise.              *)
LEMMA InterruptKeeps ==
  ASSUME RunnerInv, Interrupt  PROVE RunnerInv'
<1>a. /\ RunnerType /\ BatchFills /\ ResultsAreNew /\ ReportsAreOld /\ NoneForgotten
      /\ ReportsInOrder /\ ReportsAreFull
  BY DEF RunnerInv, RunnerType, Working, Interrupt
<1>b. /\ reports' = Report(results) /\ runner' = "stopped"
      /\ UNCHANGED <<results, query_count, succeeded>>
  BY DEF Interrupt, LastReport
<1>d. /\ Len(reports) \in Nat /\ DOMAIN reports = 1 .. Len(reports)
      /\ \A i \in DOMAIN reports : Older(i) \/ reports[i] = results
  BY <1>a, RunnerNumbers DEF ReportsAreOld
<1>s. \A i \in DOMAIN reports : reports'[i] = reports[i] /\ i \in DOMAIN reports'
  <2>1. CASE HasSuccess(results)
    BY <1>a, <1>b, <1>d, <2>1, ReportFacts
  <2>2. CASE ~HasSuccess(results)
    BY <1>a, <1>b, <2>2, ReportFacts
  <2> QED BY <2>1, <2>2
<1>n. \A j \in DOMAIN reports' : j \in DOMAIN reports \/
          (j = Len(reports') /\ j = Len(reports) + 1 /\ reports'[j] = results /\ HasSuccess(results))
  <2>1. CASE HasSuccess(results)
    BY <1>a, <1>b, <1>d, <2>1, ReportFacts
  <2>2. CASE ~HasSuccess(results)
    BY <1>a, <1>b, <2>2, ReportFacts
  <2> QED BY <2>1, <2>2
<1>1. RunnerType'
  <2>1. reports' \in Seq(Seq(Result))
    BY <1>a, <1>b, ReportFacts DEF RunnerType
  <2> QED BY <1>a, <1>b, <2>1 DEF RunnerType
<1>2. ASSUME NEW m \in succeeded'  PROVE InReport(m)' # {}
  <2>1. CASE InReport(m) # {}
    BY <1>s, <2>1 DEF InReport
  <2>2. ASSUME NEW j \in DOMAIN results, results[j].n = m, results[j].success
        PROVE  InReport(m)' # {}
    <3>1. HasSuccess(results)
      BY <2>2 DEF HasSuccess
    <3>2. Len(reports) + 1 \in DOMAIN reports' /\ reports'[Len(reports) + 1] = results
      BY <1>a, <1>b, <1>d, <3>1, ReportFacts
    <3> QED BY <2>2, <3>2 DEF InReport
  <2> QED BY <1>a, <1>b, <2>1, <2>2 DEF NoneForgotten
<1>3. ASSUME NEW i \in DOMAIN reports', NEW j \in DOMAIN reports', i < j,
             NEW m, i \in InReport(m)', j \in InReport(m)'
      PROVE  j = Len(reports') /\ reports'[i] = reports'[j]
  <2>1. PICK a \in DOMAIN reports'[i] : reports'[i][a].n = m
    BY <1>3 DEF InReport
  <2>2. PICK b \in DOMAIN reports'[j] : reports'[j][b].n = m
    BY <1>3 DEF InReport
  <2>3. i \in DOMAIN reports /\ reports'[i] = reports[i]
    <3>1. CASE j \in DOMAIN reports
      <4>1. i # Len(reports) + 1
        BY <1>3, <1>d, <3>1
      <4> QED BY <1>n, <1>s, <4>1
    <3>2. CASE j = Len(reports) + 1
      BY <1>3, <1>d, <1>n, <1>s, <3>2
    <3> QED BY <1>n, <3>1, <3>2
  <2>4. CASE j \in DOMAIN reports
    <3>1. reports[i][a].n < reports[j][b].n
      BY <1>3, <1>a, <1>s, <2>1, <2>2, <2>3, <2>4 DEF ReportsInOrder
    <3>2. reports[i][a].n \in Nat /\ reports[i][a].n = reports[j][b].n
      BY <1>a, <1>s, <2>1, <2>2, <2>3, <2>4, RunnerNumbers
    <3> QED BY <3>1, <3>2
  <2>5. CASE j \notin DOMAIN reports
    <3>1. j = Len(reports') /\ reports'[j] = results
      BY <1>n, <2>5
    <3>2. ~Older(i)
      <4>1. /\ Before < results[b].n /\ results[b].n = m /\ reports[i][a].n = m
            /\ results[b].n \in Nat /\ Before \in Int
        BY <1>a, <2>1, <2>2, <2>3, <3>1, RunnerNumbers DEF ResultsAreNew
      <4> QED BY <2>1, <2>3, <4>1 DEF Older
    <3> QED BY <1>d, <2>3, <3>1, <3>2
  <2> QED BY <2>4, <2>5
<1>4. ASSUME NEW i \in DOMAIN reports'
      PROVE  Len(reports'[i]) = batch_size \/ i = Len(reports')
  BY <1>a, <1>n, <1>s DEF ReportsAreFull
<1>5. EveryQueryReported'
  BY <1>b, <1>2, <1>3, <1>4 DEF EveryQueryReported
<1> QED BY <1>b, <1>1, <1>5 DEF RunnerInv, Working

LEMMA RunnerStays ==
  ASSUME RunnerInv, UNCHANGED Runner  PROVE RunnerInv'
<1>1. /\ results' = results /\ query_count' = query_count /\ reports' = reports
      /\ runner' = runner /\ succeeded' = succeeded
  BY DEF Runner
<1>2. RunnerType' = RunnerType /\ Working' = Working /\ BatchFills' = BatchFills
  BY <1>1 DEF RunnerType, Working, BatchFills
<1>3. Before' = Before /\ Ran' = Ran
  BY <1>1 DEF Before, Ran
<1>4. ResultsAreNew' = ResultsAreNew /\ ReportsAreOld' = ReportsAreOld
  BY <1>1, <1>3 DEF ResultsAreNew, ReportsAreOld, Older, HasSuccess
<1>5. NoneForgotten' = NoneForgotten /\ EveryQueryReported' = EveryQueryReported
  BY <1>1 DEF NoneForgotten, EveryQueryReported, InReport
<1>6. ReportsInOrder' = ReportsInOrder /\ ReportsAreFull' = ReportsAreFull
  BY <1>1 DEF ReportsInOrder, ReportsAreFull
<1> QED BY <1>1, <1>2, <1>4, <1>5, <1>6 DEF RunnerInv

LEMMA DeathKeeps ==
  ASSUME RunnerInv, runner = "sample", runner' = "died",
         UNCHANGED <<results, query_count, reports, succeeded>>
  PROVE  RunnerInv'
BY DEF RunnerInv, RunnerType, Working, ReportsInOrder, ReportsAreFull

LEMMA RunnerStarts == RunnerInit => RunnerInv
<1> SUFFICES ASSUME RunnerInit  PROVE RunnerInv
  OBVIOUS
<1>1. /\ results = <<>> /\ reports = <<>> /\ query_count = 0 /\ runner = "sample" /\ succeeded = {}
      /\ DOMAIN results = {} /\ DOMAIN reports = {} /\ Len(results) = 0
  BY DEF RunnerInit
<1>2. 0 % batch_size = 0
  BY BatchAssumption, RemainderIs
<1>3. RunnerType
  BY <1>1 DEF RunnerType
<1>4. BatchFills
  BY <1>1, <1>2 DEF BatchFills
<1> QED BY <1>1, <1>3, <1>4
        DEF RunnerInv, Working, ResultsAreNew, ReportsAreOld, NoneForgotten, ReportsInOrder, ReportsAreFull

LEMMA RunnerKeeps == RunnerInv /\ [Next]_vars => RunnerInv'
<1> SUFFICES ASSUME RunnerInv, [Next]_vars  PROVE RunnerInv'
  OBVIOUS
<1>1. CASE UNCHANGED RunnerVars
  <2>1. UNCHANGED Runner
    BY <1>1 DEF RunnerVars, Runner
  <2> QED BY <2>1, RunnerStays
<1>2. CASE Sample
  BY <1>2, RunnerStays DEF Sample
<1>3. CASE RunQuery
  BY <1>3, ResultKeeps, DeathKeeps DEF RunQuery
<1>4. CASE CountQuery \/ PrintStatistics \/ ResetResults \/ Interrupt
  BY <1>4, CountKeeps, PrintKeeps, ResetKeeps, InterruptKeeps
<1> QED BY <1>1, <1>2, <1>3, <1>4, OneToolSteps DEF RunnerNext

(* Whenever it is interrupted, the load client has reported every query    *)
(* that was answered, and none twice but in a last report that repeats the *)
(* one before it: for every size of the batch and any number of queries.   *)
THEOREM EveryAnswerIsReported == Spec => []EveryQueryReported
<1>1. RunnerInv => EveryQueryReported
  <2> SUFFICES ASSUME RunnerInv, runner # "stopped"  PROVE EveryQueryReported
    BY DEF RunnerInv
  <2>1. RunnerType /\ ReportsInOrder /\ ReportsAreFull
    BY DEF RunnerInv
  <2>2. ASSUME NEW i \in DOMAIN reports, NEW j \in DOMAIN reports, i < j, NEW m,
               i \in InReport(m), j \in InReport(m)
        PROVE  FALSE
    <3>1. PICK a \in DOMAIN reports[i] : reports[i][a].n = m
      BY <2>2 DEF InReport
    <3>2. PICK b \in DOMAIN reports[j] : reports[j][b].n = m
      BY <2>2 DEF InReport
    <3>3. reports[i][a].n < reports[j][b].n /\ reports[i][a].n \in Nat
      BY <2>1, <2>2, RunnerNumbers DEF ReportsInOrder
    <3> QED BY <3>1, <3>2, <3>3
  <2> QED BY <2>1, <2>2 DEF EveryQueryReported, ReportsAreFull
<1>2. Init => RunnerInv
  BY RunnerStarts DEF Init
<1> QED BY <1>1, <1>2, RunnerKeeps, PTL DEF Spec

-----------------------------------------------------------------------------
(* The monitor.  What a pass has found failed has failed, whatever happens *)
(* meanwhile; a pass that nothing has disturbed knows of every failure     *)
(* among the workflows it has asked about.  Each issue that is open, or is *)
(* about to be, has a monitor of its own that opens it.                    *)

Pass == [pc : {"off", "commit", "workflows", "runs", "existing", "create", "assign"}, mode : Modes,
         sha : Nat, next : Nat, failed : SUBSET ToSet(Workflows), undisturbed : BOOLEAN,
         output : [has_failed : BOOLEAN, sha : Nat]]
Run == [sha : Nat, conclusion : {"null", "success", "failure"}]
CiType ==
  /\ head \in Nat /\ runs \in [ToSet(Workflows) -> Run]
  /\ issues \in Seq([sha : Nat, open : BOOLEAN, assigned : BOOLEAN])
  /\ monitor \in [Monitors -> Pass]

RunsNoted == \A w \in ToSet(Workflows) : runs[w].conclusion = "failure" => <<w, runs[w].sha>> \in failures
Failed(sha) == \E f \in failures : f[1] # OwnWorkflow /\ f[2] = sha
AskedAbout(x) == {Workflows[i] : i \in 1 .. x.next - 1}
FailedNow == {w \in ToSet(Workflows) \ {OwnWorkflow} : runs[w] = [sha |-> head, conclusion |-> "failure"]}

TellsFailures(x) ==
  /\ \A w \in x.failed : w # OwnWorkflow /\ <<w, x.sha>> \in failures
  /\ x.output.has_failed => Failed(x.output.sha)
  /\ x.pc \in {"existing", "create"} => Failed(x.sha)
  /\ x.pc \in {"off", "commit", "workflows"} => x.failed = {} /\ x.next = 1
  /\ x.pc = "runs" => x.next \in 1 .. Len(Workflows) + 1
KnowsFailures(x) ==
  x.undisturbed =>
    /\ x.pc \in {"workflows", "runs"} => x.sha = head
    /\ x.pc = "runs" => x.failed = FailedNow \cap AskedAbout(x)

Creators == {m \in Monitors : monitor[m].pc = "create"}
IssuesPaired == Cardinality(OpenIssues) + Cardinality(Creators) <= Cardinality(Monitors)

CiInv ==
  /\ CiType /\ RunsNoted /\ IssuesNameFailures /\ IssuesPaired
  /\ \A m \in Monitors : TellsFailures(monitor[m]) /\ KnowsFailures(monitor[m])

LEMMA IssueSets ==
  ASSUME CiType
  PROVE  /\ DOMAIN issues = 1 .. Len(issues) /\ Len(issues) \in Nat /\ OpenIssues \subseteq 1 .. Len(issues)
         /\ IsFiniteSet(OpenIssues) /\ Cardinality(OpenIssues) \in Nat
         /\ \A S \in SUBSET Monitors : /\ IsFiniteSet(S) /\ Cardinality(S) \in Nat
                                       /\ Cardinality(S) <= Cardinality(Monitors)
         /\ Cardinality(Monitors) \in Nat
         /\ OpenIssues # {} => Existing \in OpenIssues
<1>1. /\ DOMAIN issues = 1 .. Len(issues) /\ Len(issues) \in Nat /\ OpenIssues \subseteq 1 .. Len(issues)
  BY DEF CiType, OpenIssues
<1>2. IsFiniteSet(OpenIssues) /\ Cardinality(OpenIssues) \in Nat
  <2>1. IsFiniteSet(1 .. Len(issues))
    BY <1>1, FS_Interval
  <2>2. IsFiniteSet(OpenIssues)
    BY <1>1, <2>1, FS_Subset
  <2> QED BY <2>2, FS_CardinalityType
<1>3. \A S \in SUBSET Monitors : /\ IsFiniteSet(S) /\ Cardinality(S) \in Nat
                                 /\ Cardinality(S) <= Cardinality(Monitors)
  BY MonitorsAssumption, FS_Subset, FS_CardinalityType
<1>4. ASSUME OpenIssues # {}  PROVE Existing \in OpenIssues
  <2> DEFINE D == {d \in Nat : Len(issues) - d \in OpenIssues}
  <2>1. D # {}
    <3>1. PICK n : n \in OpenIssues
      BY <1>4
    <3>2. n \in Nat /\ Len(issues) - n \in Nat /\ Len(issues) - (Len(issues) - n) = n
      BY <1>1, <3>1
    <3> QED BY <3>1, <3>2
  <2>2. PICK d \in D : \A e \in D : d <= e
    <3> HIDE DEF D
    <3>1. D \subseteq Nat
      BY DEF D
    <3> QED BY <2>1, <3>1, LeastMember
  <2>3. ASSUME NEW o \in OpenIssues  PROVE o <= Len(issues) - d
    <3>1. o \in Nat /\ Len(issues) - o \in Nat /\ Len(issues) - (Len(issues) - o) = o
      BY <1>1, <2>3
    <3>2. d <= Len(issues) - o
      BY <2>2, <3>1
    <3> QED BY <1>1, <2>2, <3>1, <3>2
  <2>4. Len(issues) - d \in OpenIssues
    BY <2>2
  <2> QED BY <1>4, <2>3, <2>4 DEF Existing
<1> QED BY <1>1, <1>2, <1>3, <1>4, MonitorsAssumption, FS_CardinalityType

(* One monitor goes on, and GitHub and the issues are as they were.        *)
LEMMA PassStep ==
  ASSUME CiInv, NEW m \in Monitors, NEW x \in Pass, monitor' = [monitor EXCEPT ![m] = x],
         UNCHANGED <<Server, issues>>, TellsFailures(x), KnowsFailures(x),
         x.pc = "create" => OpenIssues = {}
  PROVE  CiInv'
<1>1. /\ CiType /\ RunsNoted /\ IssuesNameFailures /\ IssuesPaired
      /\ \A q \in Monitors : TellsFailures(monitor[q]) /\ KnowsFailures(monitor[q])
      /\ UNCHANGED <<head, runs, failures, issues>>
  BY DEF CiInv, Server
<1>2. /\ monitor' \in [Monitors -> Pass] /\ monitor'[m] = x
      /\ \A q \in Monitors : q # m => monitor'[q] = monitor[q]
  BY <1>1 DEF CiType
<1>3. CiType' /\ RunsNoted' /\ IssuesNameFailures'
  BY <1>1, <1>2 DEF CiType, RunsNoted, IssuesNameFailures
<1>4. ASSUME NEW q \in Monitors  PROVE (TellsFailures(monitor[q]) /\ KnowsFailures(monitor[q]))'
  <2> DEFINE y == monitor'[q]
  <2>1. TellsFailures(y) /\ KnowsFailures(y)
    BY <1>1, <1>2
  <2> QED BY <1>1, <2>1 DEF TellsFailures, KnowsFailures, Failed, AskedAbout, FailedNow
<1>5. IssuesPaired'
  <2>1. OpenIssues' = OpenIssues
    BY <1>1 DEF OpenIssues
  <2>2. Creators \subseteq Monitors /\ Creators' \subseteq Monitors
    BY DEF Creators
  <2>3. CASE x.pc = "create"
    <3>1. Cardinality(OpenIssues) = 0
      BY <2>3, FS_EmptySet
    <3> QED BY <1>1, <2>1, <2>2, <3>1, IssueSets DEF IssuesPaired
  <2>4. CASE x.pc # "create"
    <3>1. Creators' \subseteq Creators
      BY <1>2, <2>4 DEF Creators
    <3>2. Cardinality(Creators') <= Cardinality(Creators)
      BY <1>1, <2>2, <3>1, IssueSets, FS_Subset
    <3> QED BY <1>1, <2>1, <2>2, <3>2, IssueSets DEF IssuesPaired
  <2> QED BY <2>3, <2>4
<1> QED BY <1>3, <1>4, <1>5 DEF CiInv

(* The same when the monitor stops and the issues have changed.            *)
LEMMA OffIsFine ==
  ASSUME CiInv, NEW m \in Monitors
  PROVE  /\ monitor[m] \in Pass /\ Off(m) \in Pass /\ Off(m).pc = "off"
         /\ TellsFailures(monitor[m]) /\ KnowsFailures(monitor[m])
         /\ TellsFailures(Off(m)) /\ KnowsFailures(Off(m)) /\ Off(m).output = monitor[m].output
<1>1. monitor[m] \in Pass /\ TellsFailures(monitor[m]) /\ KnowsFailures(monitor[m])
  BY DEF CiInv, CiType
<1>2. Off(m) \in Pass /\ Off(m).pc = "off" /\ Off(m).output = monitor[m].output /\ Off(m).failed = {}
      /\ Off(m).next = 1
  BY <1>1 DEF Off, Pass, Modes
<1> QED BY <1>1, <1>2 DEF TellsFailures, KnowsFailures

LEMMA LeaveKeeps ==
  ASSUME CiInv, NEW m \in Monitors, Leave(m), UNCHANGED <<Server, issues>>  PROVE CiInv'
BY OffIsFine, PassStep DEF Leave

LEMMA StartKeeps ==
  ASSUME CiInv, NEW m \in Monitors, Start(m)  PROVE CiInv'
<1>1. /\ monitor[m] \in Pass /\ TellsFailures(monitor[m]) /\ KnowsFailures(monitor[m])
      /\ monitor[m].pc = "off" /\ UNCHANGED <<Server, issues>>
  BY OffIsFine DEF Start
<1>2. PICK how \in Modes :
        LET begun == [monitor EXCEPT ![m].mode = how]
            output == monitor[m].output
        IN monitor' = IF how # "create_issue" THEN [begun EXCEPT ![m].pc = "commit"]
                      ELSE IF output.has_failed THEN [begun EXCEPT ![m].pc = "existing", ![m].sha = output.sha]
                      ELSE monitor
  BY DEF Start
<1> DEFINE p == monitor[m]
           c == [p EXCEPT !.mode = how, !.pc = "commit"]
           e == [p EXCEPT !.mode = how, !.pc = "existing", !.sha = p.output.sha]
<1>3. monitor \in [Monitors -> Pass]
  BY DEF CiInv, CiType
<1>4. CASE how # "create_issue"
  <2>1. monitor' = [monitor EXCEPT ![m] = c]
    BY <1>2, <1>3, <1>4
  <2>2. c \in Pass /\ c.pc = "commit" /\ c.failed = p.failed /\ c.output = p.output /\ c.next = p.next
        /\ c.sha = p.sha /\ p.failed = {} /\ p.next = 1
    BY <1>1 DEF Pass, TellsFailures
  <2> HIDE DEF c
  <2>3. TellsFailures(c) /\ KnowsFailures(c)
    BY <1>1, <2>2 DEF TellsFailures, KnowsFailures
  <2> QED BY <1>1, <2>1, <2>2, <2>3, PassStep
<1>5. CASE how = "create_issue" /\ p.output.has_failed
  <2>1. monitor' = [monitor EXCEPT ![m] = e]
    BY <1>2, <1>3, <1>5
  <2>2. e \in Pass /\ e.pc = "existing" /\ e.failed = p.failed /\ e.output = p.output
        /\ e.sha = p.output.sha /\ p.failed = {}
    BY <1>1 DEF Pass, TellsFailures
  <2> HIDE DEF e
  <2>3. TellsFailures(e) /\ KnowsFailures(e)
    BY <1>1, <1>5, <2>2 DEF TellsFailures, KnowsFailures
  <2> QED BY <1>1, <2>1, <2>2, <2>3, PassStep
<1>6. CASE how = "create_issue" /\ ~p.output.has_failed
  <2>1. monitor' = [monitor EXCEPT ![m] = p]
    BY <1>2, <1>3, <1>6
  <2> QED BY <1>1, <2>1, PassStep
<1> QED BY <1>4, <1>5, <1>6

LEMMA CommitKeeps ==
  ASSUME CiInv, NEW m \in Monitors, GetMainBranchCommit(m)  PROVE CiInv'
<1>1. /\ monitor[m] \in Pass /\ TellsFailures(monitor[m]) /\ KnowsFailures(monitor[m])
      /\ monitor[m].pc = "commit" /\ UNCHANGED <<Server, issues>>
  BY OffIsFine DEF GetMainBranchCommit
<1>2. monitor \in [Monitors -> Pass] /\ head \in Nat
  BY DEF CiInv, CiType
<1>3. CASE monitor' = [monitor EXCEPT ![m].pc = "workflows", ![m].sha = head]
  <2> DEFINE p == monitor[m]
             x == [p EXCEPT !.pc = "workflows", !.sha = head]
  <2>1. monitor' = [monitor EXCEPT ![m] = x]
    BY <1>2, <1>3
  <2>2. x \in Pass /\ x.pc = "workflows" /\ x.failed = p.failed /\ x.output = p.output /\ x.next = p.next
        /\ x.sha = head /\ p.failed = {} /\ p.next = 1
    BY <1>1, <1>2 DEF Pass, TellsFailures
  <2> HIDE DEF x
  <2>3. TellsFailures(x) /\ KnowsFailures(x)
    BY <1>1, <2>2 DEF TellsFailures, KnowsFailures
  <2> QED BY <1>1, <2>1, <2>2, <2>3, PassStep
<1> QED BY <1>1, <1>3, LeaveKeeps DEF GetMainBranchCommit

LEMMA WorkflowsKeep ==
  ASSUME CiInv, NEW m \in Monitors, GetRepositoryWorkflows(m)  PROVE CiInv'
<1>1. /\ monitor[m] \in Pass /\ TellsFailures(monitor[m]) /\ KnowsFailures(monitor[m])
      /\ monitor[m].pc = "workflows" /\ UNCHANGED <<Server, issues>>
  BY OffIsFine DEF GetRepositoryWorkflows
<1>2. monitor \in [Monitors -> Pass] /\ Len(Workflows) \in Nat
  BY WorkflowsAssumption DEF CiInv, CiType
<1>3. CASE Goto(m, "runs")
  <2> DEFINE p == monitor[m]
             x == [p EXCEPT !.pc = "runs"]
  <2>1. monitor' = [monitor EXCEPT ![m] = x]
    BY <1>2, <1>3 DEF Goto
  <2>2. x \in Pass /\ x.pc = "runs" /\ x.failed = p.failed /\ x.output = p.output /\ x.next = p.next
        /\ x.sha = p.sha /\ p.failed = {} /\ p.next = 1 /\ x.undisturbed = p.undisturbed
    BY <1>1, <1>2 DEF Pass, TellsFailures
  <2> HIDE DEF x
  <2>3. AskedAbout(x) = {} /\ x.next \in 1 .. Len(Workflows) + 1
    BY <1>2, <2>2 DEF AskedAbout
  <2>4. TellsFailures(x) /\ KnowsFailures(x)
    BY <1>1, <2>2, <2>3 DEF TellsFailures, KnowsFailures
  <2> QED BY <1>1, <2>1, <2>2, <2>4, PassStep
<1> QED BY <1>1, <1>3, LeaveKeeps DEF GetRepositoryWorkflows

(* The next workflow: it is found failed exactly when it has failed for    *)
(* the commit of the pass.                                                 *)
LEMMA RunsKeep ==
  ASSUME CiInv, NEW m \in Monitors, CheckWorkflowRuns(m)  PROVE CiInv'
<1> DEFINE p == monitor[m]
           w == Workflows[p.next]
           found == w # OwnWorkflow /\ HasFailed(w, p.sha)
           failed == IF found THEN p.failed \cup {w} ELSE p.failed
           x == [p EXCEPT !.next = p.next + 1, !.failed = failed]
           y == [p EXCEPT !.next = p.next + 1, !.undisturbed = FALSE]
<1>1. /\ p \in Pass /\ TellsFailures(p) /\ KnowsFailures(p)
      /\ p.pc = "runs" /\ p.next <= Len(Workflows) /\ UNCHANGED <<Server, issues>>
  BY OffIsFine DEF CheckWorkflowRuns
<1>n. p.next \in 1 .. Len(Workflows)
  <2>1. p.next \in 1 .. Len(Workflows) + 1 /\ Len(Workflows) \in Nat
    BY <1>1, WorkflowsAssumption DEF TellsFailures
  <2> QED BY <1>1, <2>1
<1>2. /\ monitor \in [Monitors -> Pass] /\ Len(Workflows) \in Nat /\ p.next \in Nat
      /\ head \in Nat /\ runs \in [ToSet(Workflows) -> Run] /\ RunsNoted
  BY <1>1, WorkflowsAssumption DEF CiInv, CiType, Pass
<1>3. monitor' = [monitor EXCEPT ![m] = x] \/ monitor' = [monitor EXCEPT ![m] = y]
  <2> DEFINE past == [monitor EXCEPT ![m].next = @ + 1]
  <2>1. \/ monitor' = IF found THEN [past EXCEPT ![m].failed = @ \cup {w}] ELSE past
        \/ monitor' = [past EXCEPT ![m].undisturbed = FALSE]
    BY DEF CheckWorkflowRuns
  <2> HIDE DEF w, found
  <2>2. [past EXCEPT ![m].undisturbed = FALSE] = [monitor EXCEPT ![m] = y]
    BY <1>1, <1>2 DEF Pass
  <2>3. ASSUME found  PROVE [past EXCEPT ![m].failed = @ \cup {w}] = [monitor EXCEPT ![m] = x]
    BY <1>1, <1>2, <2>3 DEF Pass
  <2>4. ASSUME ~found  PROVE past = [monitor EXCEPT ![m] = x]
    BY <1>1, <1>2, <2>4 DEF Pass
  <2> QED BY <2>1, <2>2, <2>3, <2>4
<1>4. CASE monitor' = [monitor EXCEPT ![m] = y]
  <2>1. /\ y \in Pass /\ y.pc = "runs" /\ y.failed = p.failed /\ y.output = p.output
        /\ y.sha = p.sha /\ y.undisturbed = FALSE /\ y.next = p.next + 1
    <3>1. p.next + 1 \in Nat
      BY <1>2
    <3> QED BY <1>1, <3>1, Zenon DEF Pass
  <2> HIDE DEF y
  <2>2. TellsFailures(y) /\ KnowsFailures(y)
    <3>1. y.next \in 1 .. Len(Workflows) + 1
      BY <1>n, <1>2, <2>1
    <3> QED BY <1>1, <2>1, <3>1 DEF TellsFailures, KnowsFailures
  <2> QED BY <1>1, <1>4, <2>1, <2>2, PassStep
<1>5. CASE monitor' = [monitor EXCEPT ![m] = x]
  <2>2. w \in ToSet(Workflows)
    BY <1>n, WorkflowsAssumption DEF ToSet
  <2> HIDE DEF w
  <2>1. x.pc = "runs" /\ x.failed = (IF found THEN p.failed \cup {w} ELSE p.failed) /\ x.output = p.output
        /\ x.sha = p.sha /\ x.undisturbed = p.undisturbed /\ x.next = p.next + 1
    BY <1>1, <1>2 DEF Pass
  <2>3. x \in Pass
    <3>1. p.next + 1 \in Nat /\ failed \in SUBSET ToSet(Workflows)
      BY <1>1, <1>2, <2>2 DEF Pass
    <3> HIDE DEF failed
    <3> QED BY <1>1, <3>1, Zenon DEF Pass
  <2> HIDE DEF x
  <2>4. found <=> (w # OwnWorkflow /\ runs[w] = [sha |-> p.sha, conclusion |-> "failure"])
    BY <1>2, <2>2 DEF HasFailed, LatestRun, Run
  <2>5. TellsFailures(x)
    <3>1. x.next \in 1 .. Len(Workflows) + 1
      BY <1>n, <1>2, <2>1
    <3> QED BY <1>1, <1>2, <2>1, <2>2, <3>1 DEF TellsFailures, RunsNoted, HasFailed, LatestRun
  <2>6. KnowsFailures(x)
    <3> SUFFICES ASSUME p.undisturbed
                 PROVE  x.sha = head /\ x.failed = FailedNow \cap AskedAbout(x)
      BY <2>1 DEF KnowsFailures
    <3>1. p.sha = head /\ p.failed = FailedNow \cap AskedAbout(p)
      BY <1>1 DEF KnowsFailures
    <3>2. AskedAbout(x) = AskedAbout(p) \cup {w}
      BY <1>n, <2>1 DEF AskedAbout, w
    <3>3. found <=> w \in FailedNow
      BY <2>2, <2>4, <3>1 DEF FailedNow
    <3> QED BY <1>1, <1>2, <2>1, <3>1, <3>2, <3>3
  <2> QED BY <1>1, <1>5, <2>1, <2>3, <2>5, <2>6, PassStep
<1> QED BY <1>3, <1>4, <1>5

LEMMA OutputsKeep ==
  ASSUME CiInv, NEW m \in Monitors, SetOutputs(m)  PROVE CiInv'
<1> DEFINE p == monitor[m]
           has_failed == p.failed # {}
           output == [has_failed |-> has_failed, sha |-> p.sha]
           x == [p EXCEPT !.output = output, !.pc = "existing"]
           y == [Off(m) EXCEPT !.output = output]
<1>1. /\ p \in Pass /\ Off(m) \in Pass /\ Off(m).pc = "off"
      /\ TellsFailures(p) /\ TellsFailures(Off(m)) /\ KnowsFailures(Off(m))
      /\ p.pc = "runs" /\ UNCHANGED <<Server, issues>>
  BY OffIsFine DEF SetOutputs
<1>2. monitor \in [Monitors -> Pass] /\ p.sha \in Nat
  BY <1>1 DEF CiInv, CiType, Pass
<1>3. /\ output \in [has_failed : BOOLEAN, sha : Nat] /\ output.has_failed = has_failed
      /\ output.sha = p.sha
  BY <1>2
<1>4. has_failed => Failed(p.sha)
  <2> SUFFICES ASSUME NEW w \in p.failed  PROVE Failed(p.sha)
    OBVIOUS
  <2>1. w # OwnWorkflow /\ <<w, p.sha>> \in failures
    BY <1>1 DEF TellsFailures
  <2> QED BY <2>1 DEF Failed
<1>5. monitor' = (IF has_failed /\ p.mode = "check_and_create_issue"
                  THEN [monitor EXCEPT ![m].output = output, ![m].pc = "existing"]
                  ELSE [monitor EXCEPT ![m] = y])
  BY DEF SetOutputs
<1> HIDE DEF has_failed, output
<1>6. CASE has_failed /\ p.mode = "check_and_create_issue"
  <2>1. monitor' = [monitor EXCEPT ![m] = x]
    BY <1>2, <1>5, <1>6
  <2>2. /\ x \in Pass /\ x.pc = "existing" /\ x.failed = p.failed /\ x.output = output
        /\ x.sha = p.sha
    BY <1>1, <1>3 DEF Pass
  <2> HIDE DEF x
  <2>3. TellsFailures(x) /\ KnowsFailures(x)
    BY <1>1, <1>3, <1>4, <1>6, <2>2 DEF TellsFailures, KnowsFailures
  <2> QED BY <1>1, <2>1, <2>2, <2>3, PassStep
<1>7. CASE ~(has_failed /\ p.mode = "check_and_create_issue")
  <2>1. monitor' = [monitor EXCEPT ![m] = y]
    BY <1>5, <1>7
  <2>2. /\ y \in Pass /\ y.pc = "off" /\ y.failed = Off(m).failed /\ y.output = output
        /\ y.sha = Off(m).sha /\ y.next = Off(m).next
    BY <1>1, <1>3 DEF Pass
  <2> HIDE DEF y
  <2>3. TellsFailures(y) /\ KnowsFailures(y)
    BY <1>1, <1>3, <1>4, <2>2 DEF TellsFailures, KnowsFailures
  <2> QED BY <1>1, <2>1, <2>2, <2>3, PassStep
<1> QED BY <1>6, <1>7

(* A monitor sets out to create an issue only when it saw none open.       *)
LEMMA ExistingKeeps ==
  ASSUME CiInv, NEW m \in Monitors, CheckExistingIssues(m)  PROVE CiInv'
<1> DEFINE p == monitor[m]
           x == [p EXCEPT !.pc = CreateIfNone(Existing), !.next = Existing]
<1>1. /\ p \in Pass /\ TellsFailures(p) /\ KnowsFailures(p)
      /\ p.pc = "existing" /\ UNCHANGED <<Server, issues>>
  BY OffIsFine DEF CheckExistingIssues
<1>2. monitor \in [Monitors -> Pass] /\ CiType
  BY DEF CiInv, CiType
<1>3. CASE monitor' = [monitor EXCEPT ![m].pc = CreateIfNone(Existing), ![m].next = Existing]
  <2>1. /\ Existing \in Nat /\ CreateIfNone(Existing) \in {"create", "assign"}
        /\ CreateIfNone(Existing) = "create" => OpenIssues = {}
    <3>1. CASE OpenIssues = {}
      BY <3>1 DEF Existing, CreateIfNone
    <3>2. CASE OpenIssues # {}
      <4>1. Existing \in 1 .. Len(issues)
        BY <1>2, <3>2, IssueSets
      <4>2. Existing \in Nat /\ Existing # 0
        BY <1>2, <4>1, IssueSets
      <4> QED BY <4>2 DEF CreateIfNone
    <3> QED BY <3>1, <3>2
  <2>2. monitor' = [monitor EXCEPT ![m] = x]
    BY <1>2, <1>3
  <2>3. /\ x \in Pass /\ x.pc = CreateIfNone(Existing) /\ x.failed = p.failed /\ x.output = p.output
        /\ x.sha = p.sha
    BY <1>1, <2>1 DEF Pass
  <2> HIDE DEF x
  <2>4. TellsFailures(x) /\ KnowsFailures(x)
    BY <1>1, <2>1, <2>3 DEF TellsFailures, KnowsFailures
  <2> QED BY <1>1, <2>1, <2>2, <2>3, <2>4, PassStep
<1> QED BY <1>1, <1>3, LeaveKeeps DEF CheckExistingIssues

(* Issues are written and GitHub's runs are as they were: the monitors'    *)
(* part of the invariant, for a monitor that goes to x.                    *)
LEMMA IssueStep ==
  ASSUME CiInv, NEW m \in Monitors, NEW x \in Pass, monitor' = [monitor EXCEPT ![m] = x],
         UNCHANGED Server, issues' \in Seq([sha : Nat, open : BOOLEAN, assigned : BOOLEAN]),
         TellsFailures(x), KnowsFailures(x), IssuesNameFailures', IssuesPaired'
  PROVE  CiInv'
<1>1. /\ CiType /\ RunsNoted /\ UNCHANGED <<head, runs, failures>>
      /\ \A q \in Monitors : TellsFailures(monitor[q]) /\ KnowsFailures(monitor[q])
  BY DEF CiInv, Server
<1>2. /\ monitor' \in [Monitors -> Pass] /\ monitor'[m] = x
      /\ \A q \in Monitors : q # m => monitor'[q] = monitor[q]
  BY <1>1 DEF CiType
<1>3. CiType' /\ RunsNoted'
  BY <1>1, <1>2 DEF CiType, RunsNoted
<1>4. ASSUME NEW q \in Monitors  PROVE (TellsFailures(monitor[q]) /\ KnowsFailures(monitor[q]))'
  <2> DEFINE y == monitor'[q]
  <2>1. TellsFailures(y) /\ KnowsFailures(y)
    BY <1>1, <1>2
  <2> QED BY <1>1, <2>1 DEF TellsFailures, KnowsFailures, Failed, AskedAbout, FailedNow
<1> QED BY <1>3, <1>4 DEF CiInv

LEMMA CreateKeeps ==
  ASSUME CiInv, NEW m \in Monitors, CreateIssue(m)  PROVE CiInv'
<1> DEFINE p == monitor[m]
           n == Len(issues) + 1
           new == NewIssue(p.sha)
           x == [p EXCEPT !.pc = "assign", !.next = n]
           I == [sha : Nat, open : BOOLEAN, assigned : BOOLEAN]
<1>1. /\ p \in Pass /\ TellsFailures(p) /\ Off(m) \in Pass /\ TellsFailures(Off(m))
      /\ KnowsFailures(Off(m)) /\ Off(m).pc # "create"
      /\ p.pc = "create" /\ UNCHANGED Server
  BY OffIsFine DEF CreateIssue
<1>2. /\ monitor \in [Monitors -> Pass] /\ CiType /\ IssuesPaired /\ IssuesNameFailures
      /\ issues \in Seq(I) /\ p.sha \in Nat
  BY <1>1 DEF CiInv, CiType, Pass
<1>3. CASE Leave(m) /\ UNCHANGED issues
  BY <1>1, <1>3, LeaveKeeps
<1>4. CASE /\ issues' = Append(issues, new)
           /\ monitor' = [monitor EXCEPT ![m].pc = "assign", ![m].next = Len(issues')] \/ Leave(m)
  <2>1. new \in I /\ new.sha = p.sha /\ new.open = TRUE
    BY <1>2 DEF NewIssue
  <2> HIDE DEF new, I
  <2>2. /\ issues' \in Seq(I) /\ Len(issues') = n /\ Len(issues) \in Nat
        /\ DOMAIN issues = 1 .. Len(issues) /\ DOMAIN issues' = 1 .. n
        /\ \A i \in 1 .. Len(issues) : issues'[i] = issues[i]
        /\ issues'[n] = new
    BY <1>2, <1>4, <2>1, AppendFacts
  <2>3. IssuesNameFailures'
    <3> SUFFICES ASSUME NEW i \in DOMAIN issues'
                 PROVE  \E f \in failures : f[1] # OwnWorkflow /\ f[2] = issues'[i].sha
      BY <1>1 DEF IssuesNameFailures, Server
    <3>1. CASE i \in DOMAIN issues
      BY <1>2, <2>2, <3>1 DEF IssuesNameFailures
    <3>2. CASE i = n
      <4>1. Failed(p.sha)
        BY <1>1 DEF TellsFailures
      <4> QED BY <2>1, <2>2, <3>2, <4>1 DEF Failed
    <3> QED BY <2>2, <3>1, <3>2
  <2>4. OpenIssues' = OpenIssues \cup {n} /\ n \notin OpenIssues
    BY <2>1, <2>2 DEF OpenIssues
  <2>5. Cardinality(OpenIssues') = Cardinality(OpenIssues) + 1
    BY <1>2, <2>4, IssueSets, FS_AddElement
  <2>6. ASSUME NEW y \in Pass, y.pc # "create", monitor' = [monitor EXCEPT ![m] = y]
        PROVE  IssuesPaired'
    <3>1. Creators' = Creators \ {m} /\ m \in Creators /\ Creators \in SUBSET Monitors
      BY <1>1, <1>2, <2>6 DEF Creators
    <3>2. Cardinality(Creators') = Cardinality(Creators) - 1 /\ Cardinality(Creators) \in Nat
      BY <1>2, <3>1, IssueSets, FS_RemoveElement
    <3> QED BY <1>2, <2>5, <3>2, IssueSets DEF IssuesPaired
  <2>7. CASE Leave(m)
    BY <1>1, <2>2, <2>3, <2>6, <2>7, IssueStep DEF Leave, I
  <2>8. CASE monitor' = [monitor EXCEPT ![m].pc = "assign", ![m].next = Len(issues')]
    <3>1. monitor' = [monitor EXCEPT ![m] = x]
      BY <1>2, <2>2, <2>8
    <3>2. /\ x \in Pass /\ x.pc = "assign" /\ x.failed = p.failed /\ x.output = p.output
          /\ x.sha = p.sha
      <4>1. n \in Nat
        BY <2>2
      <4> HIDE DEF n
      <4> QED BY <1>1, <4>1 DEF Pass
    <3> HIDE DEF x
    <3>3. TellsFailures(x) /\ KnowsFailures(x)
      BY <1>1, <3>2 DEF TellsFailures, KnowsFailures
    <3> QED BY <1>1, <2>2, <2>3, <2>6, <3>1, <3>2, <3>3, IssueStep DEF I
  <2> QED BY <1>4, <2>7, <2>8
<1> QED BY <1>3, <1>4 DEF CreateIssue

(* An issue that is assigned or closed stays the same issue.               *)
LEMMA IssuesRewritten ==
  ASSUME CiType, IssuesNameFailures, IssuesPaired, UNCHANGED failures, Creators' \subseteq Creators, NEW n,
         issues' = [issues EXCEPT ![n].assigned = TRUE] \/ issues' = [issues EXCEPT ![n].open = FALSE] \/ issues' = issues
  PROVE  /\ issues' \in Seq([sha : Nat, open : BOOLEAN, assigned : BOOLEAN])
         /\ IssuesNameFailures' /\ IssuesPaired'
<1> DEFINE I == [sha : Nat, open : BOOLEAN, assigned : BOOLEAN]
<1>1. issues \in Seq(I) /\ DOMAIN issues = 1 .. Len(issues) /\ Len(issues) \in Nat
  BY DEF CiType
<1>2. /\ DOMAIN issues' = DOMAIN issues
      /\ \A i \in DOMAIN issues : issues'[i] \in I /\ issues'[i].sha = issues[i].sha
                                  /\ (issues'[i].open => issues[i].open)
  <2>0. \A i \in DOMAIN issues : issues[i] \in I
    <3> HIDE DEF I
    <3> QED BY <1>1
  <2>1. CASE issues' = [issues EXCEPT ![n].assigned = TRUE]
    BY <2>0, <2>1
  <2>2. CASE issues' = [issues EXCEPT ![n].open = FALSE]
    BY <2>0, <2>2
  <2>3. CASE issues' = issues
    BY <2>0, <2>3
  <2> QED BY <2>1, <2>2, <2>3
<1>3. issues' \in Seq(I)
  <2> HIDE DEF I
  <2>1. issues' \in [1 .. Len(issues) -> I]
    <3>1. issues' = [i \in DOMAIN issues |-> issues'[i]]
      BY <1>1
    <3> QED BY <1>1, <1>2, <3>1
  <2> QED BY <1>1, <2>1
<1>4. IssuesNameFailures'
  BY <1>2 DEF IssuesNameFailures
<1>5. OpenIssues' \subseteq OpenIssues
  BY <1>2 DEF OpenIssues
<1>6. Creators \in SUBSET Monitors /\ Creators' \in SUBSET Monitors
  BY DEF Creators
<1>7. /\ Cardinality(OpenIssues') <= Cardinality(OpenIssues) /\ Cardinality(OpenIssues') \in Nat
      /\ Cardinality(Creators') <= Cardinality(Creators)
  BY <1>5, <1>6, IssueSets, FS_Subset, FS_CardinalityType
<1> QED BY <1>3, <1>4, <1>6, <1>7, IssueSets DEF IssuesPaired

LEMMA AssignKeeps ==
  ASSUME CiInv, NEW m \in Monitors, AssignIssue(m)  PROVE CiInv'
<1>1. /\ monitor[m].pc = "assign" /\ UNCHANGED Server /\ UNCHANGED failures
      /\ monitor' = [monitor EXCEPT ![m] = Off(m)]
      /\ CiType /\ IssuesNameFailures /\ IssuesPaired /\ monitor \in [Monitors -> Pass]
  BY DEF AssignIssue, Server, Leave, CiInv, CiType
<1>2. Off(m) \in Pass /\ TellsFailures(Off(m)) /\ KnowsFailures(Off(m)) /\ Off(m).pc = "off"
  BY OffIsFine
<1>3. Creators' \subseteq Creators
  <2> DEFINE x == Off(m)
  <2> HIDE DEF x
  <2>1. monitor' = [monitor EXCEPT ![m] = x] /\ x.pc = "off"
    BY <1>1, <1>2 DEF x
  <2> QED BY <1>1, <2>1 DEF Creators
<1>4. issues' = [issues EXCEPT ![monitor[m].next].assigned = TRUE] \/ issues' = issues
  BY DEF AssignIssue, AssignViaGraphql
<1> QED BY <1>1, <1>2, <1>3, <1>4, IssuesRewritten, IssueStep

LEMMA CloseKeeps ==
  ASSUME CiInv, NEW n, CloseIssue(n)  PROVE CiInv'
<1>1. /\ UNCHANGED <<head, runs, failures, monitor>> /\ issues' = [issues EXCEPT ![n].open = FALSE]
      /\ CiType /\ IssuesNameFailures /\ IssuesPaired /\ RunsNoted
  BY DEF CloseIssue, Server, CiInv
<1>2. Creators' \subseteq Creators
  BY <1>1 DEF Creators
<1>3. /\ issues' \in Seq([sha : Nat, open : BOOLEAN, assigned : BOOLEAN])
      /\ IssuesNameFailures' /\ IssuesPaired'
  BY <1>1, <1>2, IssuesRewritten
<1>4. CiType' /\ RunsNoted'
  BY <1>1, <1>3 DEF CiType, RunsNoted
<1>5. ASSUME NEW q \in Monitors  PROVE (TellsFailures(monitor[q]) /\ KnowsFailures(monitor[q]))'
  BY <1>1 DEF CiInv, TellsFailures, KnowsFailures, Failed, AskedAbout, FailedNow
<1> QED BY <1>3, <1>4, <1>5 DEF CiInv

(* The branch or a run moves on: every pass that is under way is disturbed *)
(* and what it has found failed is still so.                               *)
LEMMA DisturbKeeps ==
  ASSUME CiInv, Disturb, head' \in Nat, runs' \in [ToSet(Workflows) -> Run], RunsNoted',
         failures \subseteq failures', UNCHANGED issues
  PROVE  CiInv'
<1>1. /\ CiType /\ IssuesNameFailures /\ IssuesPaired /\ monitor \in [Monitors -> Pass]
      /\ monitor' = [m \in Monitors |-> [monitor[m] EXCEPT !.undisturbed = @ /\ monitor[m].pc = "off"]]
  BY DEF CiInv, CiType, Disturb
<1>2. ASSUME NEW m \in Monitors
      PROVE  /\ monitor'[m] \in Pass /\ monitor'[m].pc = monitor[m].pc
             /\ TellsFailures(monitor[m])' /\ KnowsFailures(monitor[m])'
  <2> DEFINE p == monitor[m]
             u == p.undisturbed /\ p.pc = "off"
             x == [p EXCEPT !.undisturbed = u]
  <2>1. monitor'[m] = x
    BY <1>1
  <2>2. p \in Pass /\ TellsFailures(p)
    BY <1>1 DEF CiInv
  <2>3. u \in BOOLEAN /\ (u => p.pc = "off")
    OBVIOUS
  <2> HIDE DEF u
  <2>4. /\ x \in Pass /\ x.pc = p.pc /\ x.failed = p.failed /\ x.output = p.output /\ x.sha = p.sha
        /\ x.next = p.next /\ x.undisturbed = u
    BY <2>2, <2>3, Zenon DEF Pass
  <2> HIDE DEF x
  <2>5. /\ \A w \in x.failed : w # OwnWorkflow /\ <<w, x.sha>> \in failures'
        /\ x.output.has_failed => \E f \in failures' : f[1] # OwnWorkflow /\ f[2] = x.output.sha
        /\ x.pc \in {"existing", "create"} => \E f \in failures' : f[1] # OwnWorkflow /\ f[2] = x.sha
        /\ x.pc \in {"off", "commit", "workflows"} => x.failed = {} /\ x.next = 1
        /\ x.pc = "runs" => x.next \in 1 .. Len(Workflows) + 1
    BY <2>1, <2>2, <2>4 DEF TellsFailures, Failed
  <2>6. TellsFailures(monitor[m])'
    BY <2>1, <2>5 DEF TellsFailures, Failed
  <2>7. KnowsFailures(monitor[m])'
    BY <2>1, <2>3, <2>4 DEF KnowsFailures
  <2> QED BY <2>1, <2>4, <2>6, <2>7
<1>3. monitor' \in [Monitors -> Pass]
  BY <1>1, <1>2
<1>4. CiType'
  BY <1>1, <1>3 DEF CiType
<1>5. IssuesNameFailures'
  BY <1>1 DEF IssuesNameFailures
<1>6. OpenIssues' = OpenIssues /\ Creators' = Creators
  BY <1>2 DEF OpenIssues, Creators
<1>7. IssuesPaired'
  BY <1>1, <1>6 DEF IssuesPaired
<1> QED BY <1>2, <1>4, <1>5, <1>7 DEF CiInv

LEMMA ServerKeeps ==
  ASSUME CiInv, Push \/ \E w \in ToSet(Workflows) : StartRun(w) \/ FinishRun(w)  PROVE CiInv'
<1>1. head \in Nat /\ runs \in [ToSet(Workflows) -> Run] /\ RunsNoted
  BY DEF CiInv, CiType
<1>2. CASE Push
  <2>1. head' \in Nat /\ UNCHANGED <<runs, failures, issues>> /\ Disturb
    BY <1>1, <1>2 DEF Push
  <2> QED BY <1>1, <2>1, DisturbKeeps DEF RunsNoted
<1>3. ASSUME NEW w \in ToSet(Workflows), StartRun(w)  PROVE CiInv'
  <2>1. /\ UNCHANGED <<head, failures, issues>> /\ Disturb
        /\ runs' = [runs EXCEPT ![w] = [sha |-> head, conclusion |-> "null"]]
    BY <1>3 DEF StartRun
  <2>2. runs' \in [ToSet(Workflows) -> Run]
    BY <1>1, <2>1 DEF Run
  <2>3. RunsNoted'
    BY <1>1, <2>1 DEF RunsNoted
  <2> QED BY <1>1, <2>1, <2>2, <2>3, DisturbKeeps
<1>4. ASSUME NEW w \in ToSet(Workflows), FinishRun(w)  PROVE CiInv'
  <2>1. PICK c \in {"success", "failure"} :
          /\ runs' = [runs EXCEPT ![w].conclusion = c]
          /\ failures' = IF c = "failure" THEN failures \cup {<<w, runs[w].sha>>} ELSE failures
    BY <1>4 DEF FinishRun
  <2>2. UNCHANGED <<head, issues>> /\ Disturb /\ failures \subseteq failures'
    BY <1>4, <2>1 DEF FinishRun
  <2>3. /\ runs' \in [ToSet(Workflows) -> Run] /\ runs'[w].sha = runs[w].sha /\ runs'[w].conclusion = c
        /\ \A v \in ToSet(Workflows) : v # w => runs'[v] = runs[v]
    BY <1>1, <2>1 DEF Run
  <2>4. RunsNoted'
    BY <1>1, <2>1, <2>2, <2>3 DEF RunsNoted
  <2> QED BY <1>1, <2>2, <2>3, <2>4, DisturbKeeps
<1> QED BY <1>2, <1>3, <1>4

LEMMA CiStarts == CiInit => CiInv
<1> SUFFICES ASSUME CiInit  PROVE CiInv
  OBVIOUS
<1> DEFINE x == [pc |-> "off", mode |-> "check_only", sha |-> 0, next |-> 1, failed |-> {},
                 undisturbed |-> TRUE, output |-> NoOutput]
<1>1. /\ x \in Pass /\ x.pc = "off" /\ x.failed = {} /\ x.next = 1 /\ x.output.has_failed = FALSE
  BY DEF Pass, NoOutput, Modes
<1>2. monitor = [m \in Monitors |-> x] /\ issues = <<>>
  BY DEF CiInit
<1> HIDE DEF x
<1>3. TellsFailures(x) /\ KnowsFailures(x)
  BY <1>1 DEF TellsFailures, KnowsFailures
<1>4. CiType /\ RunsNoted /\ IssuesNameFailures
  <2>1. head \in Nat /\ runs \in [ToSet(Workflows) -> Run] /\ RunsNoted
    BY DEF CiInit, RunsNoted, Run
  <2>2. monitor \in [Monitors -> Pass]
    BY <1>1, <1>2
  <2>3. issues \in Seq([sha : Nat, open : BOOLEAN, assigned : BOOLEAN]) /\ DOMAIN issues = {}
    BY <1>2
  <2> QED BY <2>1, <2>2, <2>3 DEF CiType, IssuesNameFailures
<1>5. IssuesPaired
  <2>1. OpenIssues = {} /\ Creators = {}
    BY <1>1, <1>2 DEF OpenIssues, Creators
  <2> QED BY <1>4, <2>1, FS_EmptySet, IssueSets DEF IssuesPaired
<1> QED BY <1>2, <1>3, <1>4, <1>5 DEF CiInv

LEMMA CiKeeps == CiInv /\ [Next]_vars => CiInv'
<1> SUFFICES ASSUME CiInv, [Next]_vars  PROVE CiInv'
  OBVIOUS
<1>1. CASE UNCHANGED CiVars
  BY <1>1 DEF CiVars, CiInv, CiType, RunsNoted, IssuesNameFailures, IssuesPaired, OpenIssues, Creators,
              TellsFailures, KnowsFailures, Failed, AskedAbout, FailedNow
<1>2. CASE CiNext
  <2>1. ASSUME NEW m \in Monitors, MonitorStep(m)  PROVE CiInv'
    BY <2>1, StartKeeps, CommitKeeps, WorkflowsKeep, RunsKeep, OutputsKeep, ExistingKeeps, CreateKeeps,
       AssignKeeps DEF MonitorStep
  <2> QED BY <1>2, <2>1, ServerKeeps, CloseKeeps DEF CiNext
<1> QED BY <1>1, <1>2, OneToolSteps

(* A pass ends its checks in SetOutputs() only, and by then it has asked   *)
(* about every workflow.                                                   *)
PassIsRight ==
  \A m \in Monitors : monitor[m].pc = "runs" /\ monitor'[m].pc # "runs" /\ monitor[m].undisturbed =>
    (monitor'[m].output.has_failed <=>
       \E w \in ToSet(Workflows) \ {OwnWorkflow} : runs[w] = [sha |-> head, conclusion |-> "failure"])
LEMMA OutputsAreRight == CiInv /\ [Next]_vars => [PassIsRight]_CiVars
<1> SUFFICES ASSUME CiInv, CiNext, NEW m \in Monitors, monitor[m].pc = "runs", monitor'[m].pc # "runs",
                    monitor[m].undisturbed
             PROVE  monitor'[m].output.has_failed <=> FailedNow # {}
  BY OneToolSteps DEF PassIsRight, FailedNow
<1>1. /\ monitor \in [Monitors -> Pass] /\ monitor[m] \in Pass /\ CiType
      /\ TellsFailures(monitor[m]) /\ KnowsFailures(monitor[m])
  BY DEF CiInv, CiType
<1>2. SetOutputs(m)
  <2>1. ASSUME NEW q \in Monitors, MonitorStep(q), q # m  PROVE monitor'[m] = monitor[m]
    BY <1>1, <2>1 DEF MonitorStep, Start, GetMainBranchCommit, GetRepositoryWorkflows, CheckWorkflowRuns,
         SetOutputs, CheckExistingIssues, CreateIssue, AssignIssue, Leave, Goto
  <2>2. ASSUME MonitorStep(m)  PROVE SetOutputs(m)
    <3>1. ~Start(m) /\ ~GetMainBranchCommit(m) /\ ~GetRepositoryWorkflows(m) /\ ~CheckExistingIssues(m)
          /\ ~CreateIssue(m) /\ ~AssignIssue(m)
      BY DEF Start, GetMainBranchCommit, GetRepositoryWorkflows, CheckExistingIssues, CreateIssue, AssignIssue
    <3>2. ~CheckWorkflowRuns(m)
      BY <1>1 DEF CheckWorkflowRuns, Pass
    <3> QED BY <2>2, <3>1, <3>2 DEF MonitorStep
  <2>3. ASSUME Disturb \/ UNCHANGED monitor  PROVE monitor'[m].pc = monitor[m].pc
    BY <1>1, <2>3 DEF Disturb, Pass
  <2> QED BY <2>1, <2>2, <2>3 DEF CiNext, Push, StartRun, FinishRun, CloseIssue
<1>3. monitor'[m].output.has_failed <=> monitor[m].failed # {}
  <2> DEFINE has_failed == monitor[m].failed # {}
             output == [has_failed |-> has_failed, sha |-> monitor[m].sha]
  <2>1. has_failed \in BOOLEAN /\ output.has_failed = has_failed
    OBVIOUS
  <2>2. \/ monitor' = [monitor EXCEPT ![m].output = output, ![m].pc = "existing"]
        \/ monitor' = [monitor EXCEPT ![m] = [Off(m) EXCEPT !.output = output]]
    BY <1>2 DEF SetOutputs
  <2> HIDE DEF output
  <2>3. monitor'[m].output = output
    <3>1. Off(m) \in Pass
      BY OffIsFine
    <3> QED BY <1>1, <2>2, <3>1 DEF Pass
  <2> QED BY <2>1, <2>3
<1>4. AskedAbout(monitor[m]) = ToSet(Workflows)
  <2>1. /\ monitor[m].next > Len(Workflows) /\ monitor[m].next \in 1 .. Len(Workflows) + 1
        /\ Len(Workflows) \in Nat /\ DOMAIN Workflows = 1 .. Len(Workflows)
    BY <1>1, <1>2, WorkflowsAssumption DEF SetOutputs, TellsFailures
  <2>2. monitor[m].next - 1 = Len(Workflows)
    BY <2>1
  <2> QED BY <2>1, <2>2 DEF AskedAbout, ToSet
<1>5. monitor[m].failed = FailedNow
  BY <1>1, <1>4 DEF KnowsFailures, FailedNow
<1> QED BY <1>3, <1>5

(* What the monitor tells is so, for any number of workflows and monitors: *)
(* its issues name commits that failed, no more are open than there are    *)
(* monitors, and the outputs of a pass that nothing disturbed are those of *)
(* the branch.                                                             *)
THEOREM MonitorTellsTheTruth == Spec => MonitorIsRight
<1>1. CiInv => IssuesNameFailures /\ OpenIssuesBounded
  <2> SUFFICES ASSUME CiInv  PROVE Cardinality(OpenIssues) <= Cardinality(Monitors)
    BY DEF CiInv, OpenIssuesBounded
  <2>1. CiType /\ IssuesPaired /\ Creators \in SUBSET Monitors
    BY DEF CiInv, Creators
  <2> QED BY <2>1, IssueSets DEF IssuesPaired
<1>2. Init => CiInv
  BY CiStarts DEF Init
<1>3. Spec => [](IssuesNameFailures /\ OpenIssuesBounded)
  BY <1>1, <1>2, CiKeeps, PTL DEF Spec
<1>4. Spec => [][PassIsRight]_CiVars
  BY <1>2, CiKeeps, OutputsAreRight, PTL DEF Spec
<1> QED BY <1>3, <1>4, PTL DEF MonitorIsRight, QuietPassIsRight, PassIsRight
-----------------------------------------------------------------------------
(* The query sampler.  The extremes of a finite set of numbers.            *)

LEMMA GreatestNumber ==
  ASSUME NEW S, S \subseteq Int, IsFiniteSet(S), S # {}
  PROVE  \E m \in S : \A x \in S : x <= m
<1> DEFINE above(x) == {y \in S : y > x}
           sizes == {Cardinality(above(x)) : x \in S}
<1>1. \A x \in S : IsFiniteSet(above(x)) /\ Cardinality(above(x)) \in Nat
  BY FS_Subset, FS_CardinalityType
<1>2. PICK m \in S : \A x \in S : Cardinality(above(m)) <= Cardinality(above(x))
  <2>1. sizes \subseteq Nat /\ sizes # {}
    BY <1>1
  <2>2. PICK n \in sizes : \A j \in sizes : n <= j
    BY <2>1, LeastMember
  <2> QED BY <2>2
<1>3. ASSUME NEW x \in S, x > m  PROVE FALSE
  <2>1. above(x) \subseteq above(m) /\ above(x) # above(m)
    <3>1. x \in above(m) /\ x \notin above(x)
      BY <1>3
    <3>2. \A y \in S : y > x => y > m
      BY <1>3
    <3> QED BY <3>1, <3>2
  <2>2. Cardinality(above(x)) < Cardinality(above(m))
    BY <1>1, <2>1, FS_Subset
  <2> QED BY <1>1, <1>2, <2>2
<1> QED BY <1>3

LEMMA LeastNumber ==
  ASSUME NEW S, S \subseteq Int, IsFiniteSet(S), S # {}
  PROVE  \E m \in S : \A x \in S : m <= x
<1> DEFINE T == {0 - x : x \in S}
           opposite == [x \in S |-> 0 - x]
<1>1. T \subseteq Int /\ T # {} /\ IsFiniteSet(T)
  <2>1. opposite \in Surjection(S, T)
    BY DEF Surjection
  <2>2. IsFiniteSet(T)
    BY <2>1, FS_Surjection
  <2>3. T \subseteq Int
    OBVIOUS
  <2>4. T # {}
    OBVIOUS
  <2> QED BY <2>2, <2>3, <2>4
<1>2. PICK t \in T : \A y \in T : y <= t
  BY <1>1, GreatestNumber
<1>3. PICK m \in S : t = 0 - m
  BY <1>2
<1>4. ASSUME NEW x \in S  PROVE m <= x
  BY <1>2, <1>3
<1> QED BY <1>4

(* What KthSmallest() is for.                                              *)
IsKth(k, number, v) ==
  /\ v \in {number[i] : i \in DOMAIN number}
  /\ Cardinality({i \in DOMAIN number : number[i] < v}) < k
  /\ k <= Cardinality({i \in DOMAIN number : number[i] <= v})

LEMMA SomeKth ==
  ASSUME NEW number, IsFiniteSet(DOMAIN number), \A i \in DOMAIN number : number[i] \in Int,
         NEW k \in 1 .. Cardinality(DOMAIN number)
  PROVE  \E v : IsKth(k, number, v)
<1> DEFINE D == DOMAIN number
           R == {number[i] : i \in D}
           upto(v) == {i \in D : number[i] <= v}
           below(v) == {i \in D : number[i] < v}
           V == {v \in R : k <= Cardinality(upto(v))}
<1>1. \A v : /\ IsFiniteSet(upto(v)) /\ Cardinality(upto(v)) \in Nat
             /\ IsFiniteSet(below(v)) /\ Cardinality(below(v)) \in Nat
  BY FS_Subset, FS_CardinalityType
<1>2. R \subseteq Int /\ IsFiniteSet(R) /\ Cardinality(D) \in Nat
  <2>1. [i \in D |-> number[i]] \in Surjection(D, R)
    BY DEF Surjection
  <2> QED BY <2>1, FS_Surjection, FS_CardinalityType
<1>3. R # {}
  <2>1. D # {}
    BY <1>2, FS_EmptySet
  <2> QED BY <2>1
<1>4. V # {}
  <2>1. PICK m \in R : \A x \in R : x <= m
    BY <1>2, <1>3, GreatestNumber
  <2>2. upto(m) = D
    BY <2>1
  <2> QED BY <1>2, <2>1, <2>2
<1>5. PICK v \in V : \A x \in V : v <= x
  <2>1. V \subseteq Int /\ IsFiniteSet(V)
    BY <1>2, FS_Subset
  <2> QED BY <1>4, <2>1, LeastNumber
<1>6. ASSUME k <= Cardinality(below(v))  PROVE FALSE
  <2> DEFINE W == {x \in R : x < v}
  <2>1. below(v) # {}
    BY <1>6, FS_EmptySet
  <2>2. W # {} /\ W \subseteq Int /\ IsFiniteSet(W)
    BY <1>2, <2>1, FS_Subset
  <2>3. PICK w \in W : \A x \in W : x <= w
    BY <2>2, GreatestNumber
  <2>4. below(v) = upto(w)
    <3>1. ASSUME NEW i \in D, number[i] < v  PROVE number[i] <= w
      BY <2>3, <3>1
    <3>2. ASSUME NEW i \in D, number[i] <= w  PROVE number[i] < v
      BY <1>2, <1>5, <2>3, <3>2
    <3> QED BY <3>1, <3>2
  <2>5. w \in V
    BY <1>6, <2>3, <2>4
  <2> QED BY <1>2, <1>5, <2>3, <2>5
<1>7. Cardinality(below(v)) < k
  <2>1. Cardinality(below(v)) \in Nat /\ ~(k <= Cardinality(below(v)))
    BY <1>1, <1>6
  <2> HIDE DEF below
  <2>2. k \in Int
    BY <1>2
  <2> QED BY <2>1, <2>2
<1> QED BY <1>5, <1>7 DEF IsKth

LEMMA KthIs ==
  ASSUME NEW number, IsFiniteSet(DOMAIN number), \A i \in DOMAIN number : number[i] \in Int,
         NEW k \in 1 .. Cardinality(DOMAIN number)
  PROVE  IsKth(k, number, KthSmallest(k, number)) /\ KthSmallest(k, number) \in Int
<1>1. PICK v : IsKth(k, number, v)
  BY SomeKth
<1>2. IsKth(k, number, KthSmallest(k, number))
  BY <1>1 DEF IsKth, KthSmallest
<1> QED BY <1>2 DEF IsKth

(* A later place has no smaller value.                                     *)
LEMMA KthAscend ==
  ASSUME NEW number, IsFiniteSet(DOMAIN number), \A i \in DOMAIN number : number[i] \in Int,
         NEW j \in 1 .. Cardinality(DOMAIN number), NEW k \in 1 .. Cardinality(DOMAIN number), j <= k
  PROVE  KthSmallest(j, number) <= KthSmallest(k, number)
<1> DEFINE v == KthSmallest(j, number)
           w == KthSmallest(k, number)
           A == {i \in DOMAIN number : number[i] <= w}
           B == {i \in DOMAIN number : number[i] < v}
<1>1. Cardinality(B) < j /\ k <= Cardinality(A) /\ v \in Int /\ w \in Int
  BY KthIs DEF IsKth
<1>2. IsFiniteSet(B) /\ Cardinality(B) \in Nat /\ Cardinality(A) \in Nat
  BY FS_Subset, FS_CardinalityType
<1> HIDE DEF v, w
<1>3. w < v => A \subseteq B
  BY <1>1
<1>4. w < v => Cardinality(A) <= Cardinality(B)
  BY <1>2, <1>3, FS_Subset
<1>5. ~(w < v)
  BY <1>1, <1>2, <1>4
<1> QED BY <1>1, <1>5 DEF v, w

-----------------------------------------------------------------------------
(* Thresholds: the quantiles and their rendering keep the order.           *)

LEMMA ExtremesOfTwo ==
  ASSUME NEW a \in Int, NEW b \in Int
  PROVE  /\ Min({a, b}) = IF a <= b THEN a ELSE b
         /\ Max({a, b}) = IF a >= b THEN a ELSE b
BY DEF Min, Max

LEMMA Division ==
  ASSUME NEW n \in Nat \ {0}, NEW a \in Int
  PROVE  a \div n \in Int /\ n * (a \div n) <= a /\ a < n * (a \div n) + n
BY Z3

LEMMA MultiplesOrder ==
  ASSUME NEW n \in Nat, NEW a \in Int, NEW b \in Int, a <= b
  PROVE  n * a \in Int /\ n * b \in Int /\ n * a <= n * b
<1>1. n * (b - a) >= 0 /\ n * (b - a) = n * b - n * a
  BY Z3
<1> QED BY <1>1

LEMMA DivisionOrder ==
  ASSUME NEW n \in Nat \ {0}, NEW a \in Int, NEW b \in Int, a <= b
  PROVE  a \div n <= b \div n
<1> DEFINE x == a \div n
           y == b \div n
<1>1. x \in Int /\ y \in Int /\ n * x <= a /\ b < n * y + n
  BY Division
<1> HIDE DEF x, y
<1>2. y + 1 <= x => n * (y + 1) <= n * x
  BY <1>1, MultiplesOrder
<1>3. n * (y + 1) = n * y + n /\ n * y \in Int /\ n * x \in Int
  BY <1>1, Z3
<1>4. ~(y + 1 <= x)
  BY <1>1, <1>2, <1>3
<1> QED BY <1>1, <1>4 DEF x, y

LEMMA DivisionBelow ==
  ASSUME NEW n \in Nat \ {0}, NEW a \in Int, NEW m \in Int
  PROVE  /\ 0 <= a => 0 <= a \div n
         /\ a < n * m => a \div n < m
<1> DEFINE x == a \div n
<1>1. x \in Int /\ n * x <= a /\ a < n * x + n
  BY Division
<1> HIDE DEF x
<1>2. n * x \in Int /\ n * m \in Int
  BY <1>1
<1>3. m <= x => n * m <= n * x
  BY <1>1, MultiplesOrder
<1>4. x <= 0 - 1 => n * x <= n * (0 - 1)
  BY <1>1, MultiplesOrder
<1>5. n * (0 - 1) = 0 - n
  OBVIOUS
<1> QED BY <1>1, <1>2, <1>3, <1>4, <1>5 DEF x

Ascending(values) ==
  /\ values \in Seq(Int) /\ Len(values) >= 1
  /\ \A i, j \in DOMAIN values : i <= j => values[i] <= values[j]

(* The two ways of quantile(): by position, and between two deciles.       *)
ByPosition(values, p) == values[1 + Min({(p * Len(values)) \div Steps, Len(values) - 1})] * Steps
Between(values, p) ==
  LET span == Len(values) - 1
      lo == Min({(p * span) \div Steps, span - 1})
  IN values[lo + 1] * Steps + (values[lo + 2] - values[lo + 1]) * (p * span - lo * Steps)
Least(values) == values[1] * Steps
Most(values) == values[Len(values)] * Steps

LEMMA StepsAreMany == Steps \in Nat \ {0} /\ Steps \in Nat
BY SamplerAssumption

LEMMA ScaledOrder ==
  ASSUME NEW a \in Int, NEW b \in Int, a <= b  PROVE a * Steps <= b * Steps /\ a * Steps \in Int /\ b * Steps \in Int
<1>1. Steps * a <= Steps * b /\ Steps * a \in Int /\ Steps * b \in Int
  BY StepsAreMany, MultiplesOrder
<1>2. a * Steps = Steps * a /\ b * Steps = Steps * b
  BY StepsAreMany
<1> QED BY <1>1, <1>2

LEMMA ScaledBelow ==
  ASSUME NEW n \in Nat \ {0}, NEW p \in 0 .. Steps - 1
  PROVE  p * n \in Nat /\ p * n < Steps * n
<1>1. n * p < n * Steps
  <2>1. n * (p + 1) <= n * Steps /\ n * (p + 1) \in Int /\ n * Steps \in Int
    BY StepsAreMany, MultiplesOrder
  <2>2. n * (p + 1) = n * p + n /\ n * p \in Int
    BY StepsAreMany, Z3
  <2> QED BY <2>1, <2>2
<1>2. 0 <= n * p /\ n * p \in Int
  <2>1. n * 0 <= n * p /\ n * p \in Int
    BY StepsAreMany, MultiplesOrder
  <2> QED BY <2>1
<1>3. p * n = n * p /\ n * Steps = Steps * n
  BY StepsAreMany, Z3
<1> QED BY <1>1, <1>2, <1>3

LEMMA PlaceOrder ==
  ASSUME NEW n \in Nat \ {0}, NEW p \in 0 .. Steps - 1, NEW q \in 0 .. Steps - 1, p <= q
  PROVE  /\ (p * n) \div Steps \in 0 .. n - 1 /\ (q * n) \div Steps \in 0 .. n - 1
         /\ (p * n) \div Steps <= (q * n) \div Steps /\ p * n \in Nat /\ q * n \in Nat /\ p * n <= q * n
<1>1. p * n \in Nat /\ q * n \in Nat /\ p * n < Steps * n /\ q * n < Steps * n
  BY ScaledBelow
<1>2. p * n <= q * n
  <2>1. n * p <= n * q
    BY StepsAreMany, MultiplesOrder
  <2>2. p * n = n * p /\ q * n = n * q
    BY StepsAreMany, Z3
  <2> QED BY <2>1, <2>2
<1>3. (p * n) \div Steps \in Int /\ (q * n) \div Steps \in Int
  BY <1>1, Division, StepsAreMany
<1>4. /\ 0 <= (p * n) \div Steps /\ (p * n) \div Steps < n
      /\ 0 <= (q * n) \div Steps /\ (q * n) \div Steps < n
  BY <1>1, DivisionBelow, StepsAreMany
<1>5. (p * n) \div Steps <= (q * n) \div Steps
  BY <1>1, <1>2, DivisionOrder, StepsAreMany
<1> QED BY <1>1, <1>2, <1>3, <1>4, <1>5

LEMMA PositionOrder ==
  ASSUME NEW values, Ascending(values), NEW p \in 0 .. Steps - 1, NEW q \in 0 .. Steps - 1, p <= q
  PROVE  /\ ByPosition(values, p) \in Int /\ ByPosition(values, q) \in Int
         /\ Least(values) \in Int /\ Most(values) \in Int
         /\ Least(values) <= ByPosition(values, p)
         /\ ByPosition(values, p) <= ByPosition(values, q)
         /\ ByPosition(values, q) <= Most(values)
<1> DEFINE n == Len(values)
           i == (p * n) \div Steps
           j == (q * n) \div Steps
<1>1. n \in Nat \ {0} /\ DOMAIN values = 1 .. n /\ \A k \in 1 .. n : values[k] \in Int
  BY DEF Ascending
<1> HIDE DEF n
<1>2. i \in 0 .. n - 1 /\ j \in 0 .. n - 1 /\ i <= j
  BY <1>1, PlaceOrder
<1> HIDE DEF i, j
<1>3. Min({i, n - 1}) = i /\ Min({j, n - 1}) = j
  BY <1>1, <1>2, ExtremesOfTwo
<1>4. ByPosition(values, p) = values[1 + i] * Steps /\ ByPosition(values, q) = values[1 + j] * Steps
  BY <1>3 DEF ByPosition, n, i, j
<1>5. /\ 1 \in 1 .. n /\ 1 + i \in 1 .. n /\ 1 + j \in 1 .. n /\ n \in 1 .. n
      /\ 1 <= 1 + i /\ 1 + i <= 1 + j /\ 1 + j <= n
  BY <1>1, <1>2
<1>6. values[1] <= values[1 + i] /\ values[1 + i] <= values[1 + j] /\ values[1 + j] <= values[n]
  BY <1>1, <1>5 DEF Ascending
<1> QED BY <1>1, <1>4, <1>5, <1>6, ScaledOrder DEF Least, Most, n

(* Between two neighbours, at r of Steps.                                  *)
LEMMA BetweenNeighbours ==
  ASSUME NEW a \in Int, NEW b \in Int, a <= b, NEW r \in 0 .. Steps, NEW t \in 0 .. Steps, r <= t
  PROVE  /\ a * Steps + (b - a) * r \in Int /\ a * Steps + (b - a) * t \in Int
         /\ a * Steps <= a * Steps + (b - a) * r
         /\ a * Steps + (b - a) * r <= a * Steps + (b - a) * t
         /\ a * Steps + (b - a) * t <= b * Steps
<1> DEFINE d == b - a
<1>1. d \in Nat /\ b = a + d
  OBVIOUS
<1>2. d * 0 <= d * r /\ d * r <= d * t /\ d * t <= d * Steps /\ d * r \in Int /\ d * t \in Int /\ d * Steps \in Int
  BY <1>1, StepsAreMany, MultiplesOrder
<1>3. b * Steps = a * Steps + d * Steps /\ a * Steps \in Int
  <2> HIDE DEF d
  <2> QED BY <1>1, StepsAreMany, Z3
<1>4. d * 0 = 0
  BY <1>1
<1> HIDE DEF d
<1>5. /\ a * Steps + d * r \in Int /\ a * Steps + d * t \in Int
      /\ a * Steps <= a * Steps + d * r
      /\ a * Steps + d * r <= a * Steps + d * t
      /\ a * Steps + d * t <= b * Steps
  BY <1>2, <1>3, <1>4
<1> QED BY <1>5 DEF d

LEMMA BetweenOrder ==
  ASSUME NEW values, Ascending(values), Len(values) >= 2,
         NEW p \in 0 .. Steps - 1, NEW q \in 0 .. Steps - 1, p <= q
  PROVE  /\ Between(values, p) \in Int /\ Between(values, q) \in Int
         /\ Least(values) \in Int /\ Most(values) \in Int
         /\ Least(values) <= Between(values, p)
         /\ Between(values, p) <= Between(values, q)
         /\ Between(values, q) <= Most(values)
<1> DEFINE n == Len(values) - 1
           i == (p * n) \div Steps
           j == (q * n) \div Steps
           r == p * n - i * Steps
           t == q * n - j * Steps
<1>1. /\ n \in Nat \ {0} /\ DOMAIN values = 1 .. n + 1 /\ Len(values) = n + 1
      /\ \A k \in 1 .. n + 1 : values[k] \in Int
  BY DEF Ascending
<1> HIDE DEF n
<1>2. i \in 0 .. n - 1 /\ j \in 0 .. n - 1 /\ i <= j /\ p * n \in Nat /\ q * n \in Nat /\ p * n <= q * n
  BY <1>1, PlaceOrder
<1>3. r \in 0 .. Steps /\ t \in 0 .. Steps /\ (i = j => r <= t)
  <2>1. /\ Steps * i <= p * n /\ p * n < Steps * i + Steps
        /\ Steps * j <= q * n /\ q * n < Steps * j + Steps
    <3>1. \A a \in Nat : Steps * (a \div Steps) <= a /\ a < Steps * (a \div Steps) + Steps
      BY StepsAreMany, Division
    <3> QED BY <1>2, <3>1, Zenon
  <2> DEFINE x == p * n
             y == q * n
  <2>2. x \in Nat /\ y \in Nat /\ x <= y
    BY <1>2
  <2> HIDE DEF i, j, x, y
  <2>3. /\ i * Steps = Steps * i /\ j * Steps = Steps * j /\ Steps * i \in Int /\ Steps * j \in Int
    BY <1>2, StepsAreMany, Z3
  <2>4. /\ Steps * i <= x /\ x < Steps * i + Steps
        /\ Steps * j <= y /\ y < Steps * j + Steps
    BY <2>1 DEF x, y
  <2>5. x - i * Steps \in 0 .. Steps /\ y - j * Steps \in 0 .. Steps /\ (i = j => x - i * Steps <= y - j * Steps)
    BY <2>2, <2>3, <2>4, StepsAreMany
  <2> QED BY <2>5 DEF x, y
<1> HIDE DEF i, j
<1>4. Min({i, n - 1}) = i /\ Min({j, n - 1}) = j
  BY <1>1, <1>2, ExtremesOfTwo
<1> DEFINE at(k, z) == values[k + 1] * Steps + (values[k + 2] - values[k + 1]) * z
<1>5. Between(values, p) = at(i, r) /\ Between(values, q) = at(j, t)
  BY <1>4 DEF Between, n, i, j
<1> HIDE DEF r, t
<1>6. /\ \A k, m \in 1 .. n + 1 : k <= m => values[k] <= values[m]
      /\ 1 \in 1 .. n + 1 /\ n + 1 \in 1 .. n + 1
      /\ i + 1 \in 1 .. n + 1 /\ i + 2 \in 1 .. n + 1 /\ j + 1 \in 1 .. n + 1 /\ j + 2 \in 1 .. n + 1
  BY <1>1, <1>2 DEF Ascending
<1>7. /\ values[1] <= values[i + 1] /\ values[i + 1] <= values[i + 2]
      /\ values[j + 1] <= values[j + 2] /\ values[j + 2] <= values[n + 1]
      /\ i # j => values[i + 2] <= values[j + 1]
  BY <1>2, <1>6
<1>8. /\ values[1] \in Int /\ values[n + 1] \in Int /\ values[i + 1] \in Int /\ values[i + 2] \in Int
      /\ values[j + 1] \in Int /\ values[j + 2] \in Int
  BY <1>1, <1>6
<1>9. /\ at(i, r) \in Int /\ values[i + 1] * Steps <= at(i, r) /\ at(i, r) <= values[i + 2] * Steps
  <2>1. r <= r /\ r \in 0 .. Steps
    BY <1>3, StepsAreMany
  <2> DEFINE a == values[i + 1]
             b == values[i + 2]
  <2>2. a \in Int /\ b \in Int /\ a <= b
    BY <1>7, <1>8
  <2> HIDE DEF a, b
  <2>3. /\ a * Steps + (b - a) * r \in Int
        /\ a * Steps <= a * Steps + (b - a) * r
        /\ a * Steps + (b - a) * r <= b * Steps
    BY <2>1, <2>2, BetweenNeighbours
  <2> QED BY <2>3 DEF a, b
<1>10. /\ at(j, t) \in Int /\ values[j + 1] * Steps <= at(j, t) /\ at(j, t) <= values[j + 2] * Steps
  <2>1. t <= t /\ t \in 0 .. Steps
    BY <1>3, StepsAreMany
  <2> DEFINE a == values[j + 1]
             b == values[j + 2]
  <2>2. a \in Int /\ b \in Int /\ a <= b
    BY <1>7, <1>8
  <2> HIDE DEF a, b
  <2>3. /\ a * Steps + (b - a) * t \in Int
        /\ a * Steps <= a * Steps + (b - a) * t
        /\ a * Steps + (b - a) * t <= b * Steps
    BY <2>1, <2>2, BetweenNeighbours
  <2> QED BY <2>3 DEF a, b
<1>11. CASE i = j
  <2>1. at(i, r) <= at(j, t)
    BY <1>3, <1>7, <1>8, <1>11, BetweenNeighbours
  <2>2. /\ values[1] * Steps \in Int /\ values[n + 1] * Steps \in Int
        /\ values[i + 1] * Steps \in Int /\ values[j + 2] * Steps \in Int
        /\ values[1] * Steps <= values[i + 1] * Steps
        /\ values[j + 2] * Steps <= values[n + 1] * Steps
    BY <1>7, <1>8, ScaledOrder
  <2> HIDE DEF at
  <2> QED BY <1>1, <1>5, <1>9, <1>10, <2>1, <2>2 DEF Least, Most
<1>12. CASE i # j
  <2>1. /\ values[1] * Steps \in Int /\ values[n + 1] * Steps \in Int
        /\ values[i + 1] * Steps \in Int /\ values[j + 2] * Steps \in Int
        /\ values[i + 2] * Steps \in Int /\ values[j + 1] * Steps \in Int
        /\ values[1] * Steps <= values[i + 1] * Steps
        /\ values[i + 2] * Steps <= values[j + 1] * Steps
        /\ values[j + 2] * Steps <= values[n + 1] * Steps
    BY <1>7, <1>8, <1>12, ScaledOrder
  <2> HIDE DEF at
  <2>2. at(i, r) <= at(j, t)
    BY <1>9, <1>10, <2>1
  <2>3. values[1] * Steps <= at(i, r) /\ at(j, t) <= values[n + 1] * Steps
    BY <1>9, <1>10, <2>1
  <2> QED BY <1>1, <1>5, <1>9, <1>10, <2>1, <2>2, <2>3 DEF Least, Most
<1> QED BY <1>11, <1>12

LEMMA TruncOrder ==
  ASSUME NEW x \in Int, NEW y \in Int, x <= y
  PROVE  Trunc(x) \in Int /\ Trunc(y) \in Int /\ Trunc(x) <= Trunc(y)
<1>1. /\ x \div Steps \in Int /\ y \div Steps \in Int /\ (-x) \div Steps \in Int /\ (-y) \div Steps \in Int
  BY StepsAreMany, Division
<1>2. CASE x >= 0
  BY <1>1, <1>2, StepsAreMany, DivisionOrder DEF Trunc
<1>3. CASE x < 0 /\ y >= 0
  <2>1. 0 <= y \div Steps /\ 0 <= (-x) \div Steps
    BY <1>3, StepsAreMany, DivisionBelow
  <2> QED BY <1>1, <1>3, <2>1 DEF Trunc
<1>4. CASE y < 0
  <2>1. (-y) \div Steps <= (-x) \div Steps
    BY <1>4, StepsAreMany, DivisionOrder
  <2> QED BY <1>1, <1>4, <2>1 DEF Trunc
<1> QED BY <1>2, <1>3, <1>4

(* Whatever the kind of the family, a greater value is not rendered less.  *)
LEMMA RenderOrder ==
  ASSUME NEW f, NEW x \in Int, NEW y \in Int, x <= y, NEW as_year \in BOOLEAN
  PROVE  /\ Render(f, x, as_year) \in Int /\ Render(f, y, as_year) \in Int
         /\ Render(f, x, as_year) <= Render(f, y, as_year)
<1> DEFINE half == Steps \div 2
<1>1. half \in Int
  BY StepsAreMany
<1> HIDE DEF half
<1>2. /\ (x + half) \div Steps \in Int /\ (y + half) \div Steps \in Int
      /\ (x + half) \div Steps <= (y + half) \div Steps
  BY <1>1, StepsAreMany, Division, DivisionOrder
<1>3. Trunc(x) \in Int /\ Trunc(y) \in Int /\ Trunc(x) <= Trunc(y)
  BY TruncOrder
<1>4. /\ Trunc(x) \div YearLength \in Int /\ Trunc(y) \div YearLength \in Int
      /\ Trunc(x) \div YearLength <= Trunc(y) \div YearLength
  BY <1>3, Division, DivisionOrder DEF YearLength
<1>5. /\ Max({0, Trunc(x)}) \in Int /\ Max({0, Trunc(y)}) \in Int
      /\ Max({0, Trunc(x)}) <= Max({0, Trunc(y)})
  <2> DEFINE a == Trunc(x)
             b == Trunc(y)
  <2>1. a \in Int /\ b \in Int /\ a <= b
    BY <1>3
  <2> HIDE DEF a, b
  <2>2. /\ Max({0, a}) = (IF 0 >= a THEN 0 ELSE a) /\ Max({0, b}) = (IF 0 >= b THEN 0 ELSE b)
    BY <2>1, ExtremesOfTwo
  <2>3. Max({0, a}) \in Int /\ Max({0, b}) \in Int /\ Max({0, a}) <= Max({0, b})
    BY <2>1, <2>2
  <2> QED BY <2>3 DEF a, b
<1>6. CASE NumericColumns[f].render = "money"
  BY <1>2, <1>6 DEF Render, half
<1>7. CASE NumericColumns[f].render = "date"
  BY <1>3, <1>4, <1>7 DEF Render
<1>8. CASE NumericColumns[f].render \notin {"money", "date"}
  BY <1>5, <1>8 DEF Render
<1> QED BY <1>6, <1>7, <1>8

(* The values of a column are in ascending order.                          *)
LEMMA SortedAscends ==
  ASSUME NEW c \in Corpora, NEW f \in DOMAIN NumericColumns,
         Sorted(c, NumericColumns[f].column) # <<>>
  PROVE  /\ Ascending(Sorted(c, NumericColumns[f].column))
         /\ c = <<>> => Len(Sorted(c, NumericColumns[f].column)) >= 2
<1> DEFINE column == NumericColumns[f].column
           number == Numbers(c, column)
           D == DOMAIN number
           K == Cardinality(D)
           values == Sorted(c, column)
<1>1. CASE c = <<>>
  <2>1. values = FallbackDeciles[column]
    BY <1>1 DEF Sorted
  <2>2. /\ values \in Seq(Int) /\ Len(values) >= 2
        /\ \A i, j \in DOMAIN values : i <= j => values[i] <= values[j]
    BY <2>1, SamplerAssumption
  <2> HIDE DEF values
  <2>3. Len(values) >= 1
    BY <2>2
  <2> QED BY <2>2, <2>3 DEF Ascending, values
<1>2. CASE c # <<>>
  <2>1. DOMAIN c = 1 .. Len(c) /\ Len(c) \in Nat /\ IsFiniteSet(DOMAIN c)
    <3>1. c \in Seq(ToSet(c))
      BY SamplerAssumption
    <3>2. DOMAIN c = 1 .. Len(c) /\ Len(c) \in Nat
      BY <3>1
    <3> QED BY <3>2, FS_Interval
  <2>2. \A i \in DOMAIN c : c[i].numbers[column] \in Seq(Int)
    BY SamplerAssumption
  <2>3. /\ D = {j \in DOMAIN c : c[j].numbers[column] # <<>>}
        /\ \A i \in D : number[i] = c[i].numbers[column][1]
    BY DEF Numbers
  <2>4. \A i \in D : number[i] \in Int
    <3> TAKE i \in D
    <3>1. c[i].numbers[column] \in Seq(Int) /\ c[i].numbers[column] # <<>>
      BY <2>2, <2>3
    <3>2. c[i].numbers[column][1] \in Int
      <4> DEFINE s == c[i].numbers[column]
      <4>1. s \in Seq(Int) /\ s # <<>>
        BY <3>1
      <4> HIDE DEF s
      <4>2. s[1] \in Int
        BY <4>1
      <4> QED BY <4>2 DEF s
    <3> QED BY <2>3, <3>2
  <2>5. IsFiniteSet(D) /\ K \in Nat
    BY <2>1, <2>3, FS_Subset, FS_CardinalityType
  <2>6. values = [k \in 1 .. K |-> KthSmallest(k, number)]
    BY <1>2 DEF Sorted
  <2> HIDE DEF number, D, values
  <2>7. \A k \in 1 .. K : KthSmallest(k, number) \in Int
    BY <2>4, <2>5, KthIs DEF D
  <2>8. \A j, k \in 1 .. K : j <= k => KthSmallest(j, number) <= KthSmallest(k, number)
    BY <2>4, <2>5, KthAscend DEF D
  <2> HIDE DEF K
  <2>9. values \in Seq(Int) /\ Len(values) = K /\ DOMAIN values = 1 .. K
    BY <2>5, <2>6, <2>7
  <2>10. values # <<>>
    BY DEF values
  <2>11. K >= 1
    BY <2>5, <2>9, <2>10
  <2>12. \A i, j \in DOMAIN values : i <= j => values[i] <= values[j]
    BY <2>6, <2>8, <2>9
  <2>13. Ascending(values)
    BY <2>9, <2>11, <2>12 DEF Ascending
  <2> QED BY <1>2, <2>13 DEF values
<1> QED BY <1>1, <1>2

LEMMA QuantileOrder ==
  ASSUME NEW c \in Corpora, NEW f \in DOMAIN NumericColumns,
         Sorted(c, NumericColumns[f].column) # <<>>,
         NEW p \in 0 .. Steps - 1, NEW q \in 0 .. Steps - 1, p <= q
  PROVE  LET column == NumericColumns[f].column
             values == Sorted(c, column)
         IN /\ Quantile(c, column, p) \in Int /\ Quantile(c, column, q) \in Int
            /\ Least(values) \in Int /\ Most(values) \in Int
            /\ Least(values) <= Quantile(c, column, p)
            /\ Quantile(c, column, p) <= Quantile(c, column, q)
            /\ Quantile(c, column, q) <= Most(values)
<1> DEFINE column == NumericColumns[f].column
           values == Sorted(c, column)
<1>1. Ascending(values) /\ (c = <<>> => Len(values) >= 2)
  BY SortedAscends
<1>2. \A r : Quantile(c, column, r) = IF c # <<>> THEN ByPosition(values, r) ELSE Between(values, r)
  BY DEF Quantile, ByPosition, Between
<1> HIDE DEF values, column
<1>3. CASE c # <<>>
  BY <1>1, <1>2, <1>3, PositionOrder DEF values, column
<1>4. CASE c = <<>>
  BY <1>1, <1>2, <1>4, BetweenOrder DEF values, column
<1> QED BY <1>3, <1>4

(* One predicate is sound: RangesAreSound, of one.                         *)
RangeIsSound(c, x) ==
  LET values == Sorted(c, NumericColumns[x.family].column)
      least == Render(x.family, values[1] * Steps, x.year)
      most == Render(x.family, values[Len(values)] * Steps, x.year)
  IN x.family \in DOMAIN NumericColumns =>
       IF "lo" \in DOMAIN x THEN least <= x.lo /\ x.lo <= x.hi /\ x.hi <= most
       ELSE least <= x.at /\ x.at <= most

LEMMA NumericSound ==
  ASSUME NEW c \in Corpora, NEW f \in DOMAIN NumericColumns, NEW sh,
         Sorted(c, NumericColumns[f].column) # <<>>, NEW x \in NumericPredicates(c, f, sh)
  PROVE  x.family = f /\ RangeIsSound(c, x)
<1> DEFINE column == NumericColumns[f].column
           values == Sorted(c, column)
           at(p, y) == Threshold(c, f, p, y)
<1>1. x \in TwoSided(c, f) \/ x \in OneSided(c, f)
  BY DEF NumericPredicates
<1>2. AsYear(f) \subseteq BOOLEAN
  BY DEF AsYear
<1>3. ASSUME NEW p \in Draws, NEW q \in Draws, p <= q, NEW y \in BOOLEAN
      PROVE  /\ Render(f, values[1] * Steps, y) <= at(p, y) /\ at(p, y) <= at(q, y)
             /\ at(q, y) <= Render(f, values[Len(values)] * Steps, y)
  <2>1. /\ Quantile(c, column, p) \in Int /\ Quantile(c, column, q) \in Int
        /\ Least(values) \in Int /\ Most(values) \in Int
        /\ Least(values) <= Quantile(c, column, p)
        /\ Quantile(c, column, p) <= Quantile(c, column, q)
        /\ Quantile(c, column, q) <= Most(values)
    BY <1>3, QuantileOrder DEF Draws
  <2> HIDE DEF values
  <2> QED BY <2>1, RenderOrder DEF Least, Most, Threshold
<1>4. CASE x \in OneSided(c, f)
  <2>1. PICK p \in Draws, y \in AsYear(f) : x = [family |-> f, year |-> y, at |-> at(p, y)]
    BY <1>4 DEF OneSided
  <2>2. /\ Render(f, values[1] * Steps, y) <= at(p, y)
        /\ at(p, y) <= Render(f, values[Len(values)] * Steps, y)
    <3>1. p <= p
      BY StepsAreMany DEF Draws
    <3> QED BY <1>2, <1>3, <3>1
  <2> HIDE DEF at, values, column
  <2>3. x.family = f /\ x.year = y /\ x.at = at(p, y) /\ "lo" \notin DOMAIN x
    BY <2>1
  <2> QED BY <2>2, <2>3 DEF RangeIsSound, values, column
<1>5. CASE x \in TwoSided(c, f)
  <2>1. PICK p \in Draws, q \in Draws, y \in AsYear(f) :
          x = [family |-> f, year |-> y, lo |-> at(Bounds(p, q)[1], y), hi |-> at(Bounds(p, q)[2], y)]
    BY <1>5 DEF TwoSided
  <2>2. Bounds(p, q)[1] \in Draws /\ Bounds(p, q)[2] \in Draws /\ Bounds(p, q)[1] <= Bounds(p, q)[2]
    BY ExtremesOfTwo, StepsAreMany DEF Bounds, Draws
  <2>3. /\ Render(f, values[1] * Steps, y) <= at(Bounds(p, q)[1], y)
        /\ at(Bounds(p, q)[1], y) <= at(Bounds(p, q)[2], y)
        /\ at(Bounds(p, q)[2], y) <= Render(f, values[Len(values)] * Steps, y)
    BY <1>2, <1>3, <2>2
  <2> HIDE DEF at, values, column
  <2>4. /\ x.family = f /\ x.year = y /\ "lo" \in DOMAIN x
        /\ x.lo = at(Bounds(p, q)[1], y) /\ x.hi = at(Bounds(p, q)[2], y)
    BY <2>1
  <2> QED BY <2>3, <2>4 DEF RangeIsSound, values, column
<1> QED BY <1>1, <1>4, <1>5

-----------------------------------------------------------------------------
(* Modes only weigh: every value of a vocabulary has a positive weight.    *)

LEMMA RowsAreCounted ==
  ASSUME NEW c \in Corpora, NEW family, NEW word  PROVE CountedRows(c, family, word) \in Nat
<1>1. c \in Seq(ToSet(c))
  BY SamplerAssumption
<1>2. DOMAIN c = 1 .. Len(c) /\ Len(c) \in Nat
  BY <1>1
<1>3. IsFiniteSet(DOMAIN c)
  BY <1>2, FS_Interval
<1> QED BY <1>3, FS_Subset, FS_CardinalityType DEF CountedRows

LEMMA AllValuesPossible ==
  ASSUME NEW c \in Corpora, NEW family, NEW vocab, NEW m
  PROVE  Possible(VocabWeights(c, family, vocab, m)) = vocab
<1> DEFINE weight(w) == IF c = <<>> THEN 1 ELSE Max({1, CountedRows(c, family, w)})
<1>1. \A w \in vocab : weight(w) > 0
  <2> TAKE w \in vocab
  <2>1. CountedRows(c, family, w) \in Nat
    BY RowsAreCounted
  <2>2. \A n \in Nat : Max({1, n}) > 0
    <3> TAKE n \in Nat
    <3>1. Max({1, n}) = IF 1 >= n THEN 1 ELSE n
      BY ExtremesOfTwo
    <3> QED BY <3>1
  <2> QED BY <2>1, <2>2
<1> HIDE DEF weight
<1>2. VocabWeights(c, family, vocab, m) = IF m = "realistic" THEN [w \in vocab |-> weight(w)] ELSE [w \in vocab |-> 1]
  BY DEF VocabWeights, Weights, weight
<1> QED BY <1>1, <1>2 DEF Possible

LEMMA ModesAgree == ASSUME corpus \in Corpora  PROVE ModesReachTheSame
<1>1. \A f, m : VocabChoices(corpus, f, m) = {vocab : vocab \in VocabOf(corpus, f)}
  BY AllValuesPossible DEF VocabChoices
<1>2. \A m : Possible(Weights(FamilyTable(corpus), m)) = Families \ MissingNumeric(corpus)
  BY DEF Possible, Weights, FamilyTable
<1> QED BY <1>1, <1>2 DEF ModesReachTheSame

-----------------------------------------------------------------------------
(* Queries.                                                                *)

AllPredicates == UNION {Predicates(corpus, f, mode, shape) : f \in Pool}
FreeForm == {"flat", "regex"}

QueryInv ==
  /\ query = [pc |-> query.pc, structure |-> query.structure, arity |-> query.arity,
              drawn |-> query.drawn, tries |-> query.tries, parts |-> query.parts]
  /\ query.drawn \in Seq(Pool) /\ query.parts \in Seq(AllPredicates)
  /\ \A i, j \in DOMAIN query.drawn : query.drawn[i] = query.drawn[j] => i = j
  /\ query.structure \notin FreeForm => query.arity \in Nat /\ Len(query.drawn) <= query.arity
  /\ Len(query.parts) <= Len(query.drawn)
  /\ \A i \in DOMAIN query.parts : query.parts[i] \in Predicates(corpus, query.drawn[i], mode, shape)
  /\ query.pc = "draw" => query.parts = <<>>
  /\ query.pc = "parts" /\ query.structure \notin FreeForm => query.arity = Len(query.drawn)

SamplerInv ==
  /\ corpus \in Corpora
  /\ query.pc \in {"none", "draw", "parts"}
  /\ query.pc # "none" => QueryInv

LEMMA PoolHasValues ==
  ASSUME NEW f \in Pool, f \in DOMAIN NumericColumns
  PROVE  Sorted(corpus, NumericColumns[f].column) # <<>>
<1>1. f \in DOMAIN FamilyTable(corpus)
  BY DEF Pool, Narrow
<1> QED BY <1>1 DEF FamilyTable, MissingNumeric

LEMMA PredicateOf ==
  ASSUME corpus \in Corpora, NEW f \in Pool, NEW x \in Predicates(corpus, f, mode, shape)
  PROVE  x.family = f /\ RangeIsSound(corpus, x)
<1>1. CASE f \in StaticFamilies
  <2>1. x = [family |-> f]
    BY <1>1 DEF Predicates
  <2>2. x.family = f /\ f \notin DOMAIN NumericColumns
    BY <1>1, <2>1, SamplerAssumption
  <2> QED BY <2>2 DEF RangeIsSound
<1>2. CASE f \notin StaticFamilies /\ f \in DOMAIN NumericColumns
  <2>1. x \in NumericPredicates(corpus, f, shape)
    BY <1>2 DEF Predicates
  <2> QED BY <1>2, <2>1, PoolHasValues, NumericSound
<1>3. CASE f \notin StaticFamilies /\ f \notin DOMAIN NumericColumns
  <2>1. PICK w : x = [family |-> f, word |-> w]
    BY <1>3 DEF Predicates
  <2>2. x.family = f
    BY <2>1
  <2> QED BY <1>3, <2>2 DEF RangeIsSound
<1> QED BY <1>1, <1>2, <1>3

LEMMA ReadyIsSound == ASSUME SamplerInv  PROVE SamplerSound
<1>1. corpus \in Corpora
  BY DEF SamplerInv
<1>2. ModesReachTheSame
  BY <1>1, ModesAgree
<1>3. ASSUME QueryIsReady
      PROVE  /\ query.structure \notin FreeForm => Len(query.parts) = query.arity
             /\ DOMAIN query.parts = DOMAIN query.drawn
             /\ \A i \in DOMAIN query.parts :
                  /\ query.parts[i].family = query.drawn[i] /\ query.drawn[i] \in Pool
                  /\ RangeIsSound(corpus, query.parts[i])
             /\ \A i, j \in DOMAIN query.drawn : query.drawn[i] = query.drawn[j] => i = j
  <2>1. QueryInv /\ query.pc = "parts" /\ Len(query.parts) = Len(query.drawn)
    BY <1>3 DEF SamplerInv, QueryIsReady
  <2>2. /\ query.drawn \in Seq(Pool) /\ query.parts \in Seq(AllPredicates)
        /\ \A i, j \in DOMAIN query.drawn : query.drawn[i] = query.drawn[j] => i = j
        /\ query.structure \notin FreeForm => query.arity = Len(query.drawn)
        /\ \A i \in DOMAIN query.parts : query.parts[i] \in Predicates(corpus, query.drawn[i], mode, shape)
    BY <2>1 DEF QueryInv
  <2>3. /\ DOMAIN query.parts = DOMAIN query.drawn /\ \A i \in DOMAIN query.drawn : query.drawn[i] \in Pool
    BY <2>1, <2>2
  <2>4. \A i \in DOMAIN query.parts : query.parts[i].family = query.drawn[i] /\ RangeIsSound(corpus, query.parts[i])
    BY <1>1, <2>2, <2>3, PredicateOf
  <2> QED BY <2>1, <2>2, <2>3, <2>4
<1>4. QueriesFillTheirTemplate
  <2> SUFFICES ASSUME QueryIsReady
               PROVE  /\ query.structure \notin {"flat", "regex"} => Len(query.parts) = query.arity
                      /\ IsInjective([i \in DOMAIN query.parts |-> query.parts[i].family])
                      /\ {query.parts[i].family : i \in DOMAIN query.parts} \subseteq Pool
    BY DEF QueriesFillTheirTemplate
  <2>1. query.structure \notin {"flat", "regex"} => Len(query.parts) = query.arity
    BY <1>3 DEF FreeForm
  <2>2. IsInjective([i \in DOMAIN query.parts |-> query.parts[i].family])
    BY <1>3 DEF IsInjective
  <2>3. {query.parts[i].family : i \in DOMAIN query.parts} \subseteq Pool
    BY <1>3
  <2> QED BY <2>1, <2>2, <2>3
<1>5. RangesAreSound
  <2> SUFFICES ASSUME QueryIsReady, NEW i \in DOMAIN query.parts
               PROVE  RangeIsSound(corpus, query.parts[i])
    BY DEF RangesAreSound, RangeIsSound
  <2> QED BY <1>3
<1> QED BY <1>2, <1>4, <1>5 DEF SamplerSound

LEMMA ChooseKeeps == ASSUME SamplerInv, ChooseStructure  PROVE SamplerInv'
<1>1. UNCHANGED <<corpus, mode, shape>> /\ corpus \in Corpora
  BY DEF ChooseStructure, SamplerInv
<1>2. PICK structure, arity : Begin(structure, arity) /\ (structure \notin FreeForm => arity \in Nat)
  <2>1. \A s \in DOMAIN Narrow(Structures, shape.structures) : Structures[s] \in Nat
    BY SamplerAssumption DEF Narrow
  <2> QED BY <2>1 DEF ChooseStructure, FreeForm
<1>3. query' = [pc |-> "draw", structure |-> structure, arity |-> arity, drawn |-> <<>>, tries |-> 0, parts |-> <<>>]
  BY <1>2 DEF Begin
<1>4. /\ query'.pc = "draw" /\ query'.structure = structure /\ query'.arity = arity
      /\ query'.drawn = <<>> /\ query'.tries = 0 /\ query'.parts = <<>>
  BY <1>3
<1>5. QueryInv'
  BY <1>2, <1>3, <1>4 DEF QueryInv
<1> QED BY <1>1, <1>4, <1>5 DEF SamplerInv

LEMMA SettingStays ==
  ASSUME UNCHANGED <<corpus, mode, shape>>
  PROVE  Pool' = Pool /\ AllPredicates' = AllPredicates
BY DEF Pool, AllPredicates

LEMMA DrawKeeps == ASSUME SamplerInv, DrawFamily  PROVE SamplerInv'
<1>1. UNCHANGED <<corpus, mode, shape>> /\ corpus \in Corpora /\ query.pc = "draw" /\ QueryInv /\ MoreToDraw
  BY DEF DrawFamily, SamplerInv
<1>2. PICK f \in Possible(Weights(Narrow(FamilyTable(corpus), shape.families), mode)) :
        query' = [query EXCEPT !.tries = @ + 1, !.drawn = Accept(f)]
  BY DEF DrawFamily
<1>3. f \in Pool
  <2>1. DOMAIN Weights(Narrow(FamilyTable(corpus), shape.families), mode) = Pool
    BY DEF Weights, Pool
  <2> QED BY <2>1 DEF Possible
<1>4. /\ query'.pc = "draw" /\ query'.structure = query.structure /\ query'.arity = query.arity
      /\ query'.drawn = Accept(f) /\ query'.parts = <<>> /\ query.parts = <<>>
      /\ query' = [pc |-> query'.pc, structure |-> query'.structure, arity |-> query'.arity,
                   drawn |-> query'.drawn, tries |-> query'.tries, parts |-> query'.parts]
  BY <1>1, <1>2 DEF QueryInv
<1> DEFINE d == query.drawn
           e == Accept(f)
<1>5. /\ d \in Seq(Pool) /\ \A i, j \in DOMAIN d : d[i] = d[j] => i = j
      /\ query.structure \notin FreeForm => query.arity \in Nat /\ Len(d) <= query.arity
  BY <1>1 DEF QueryInv
<1>6. Len(d) # query.arity /\ (e = d \/ (e = Append(d, f) /\ \A i \in DOMAIN d : d[i] # f))
  BY <1>1 DEF MoreToDraw, Accept, ToSet
<1> HIDE DEF d, e
<1>7. CASE e = d
  BY <1>1, <1>4, <1>5, <1>7, SettingStays DEF QueryInv, SamplerInv, e
<1>8. CASE e = Append(d, f) /\ \A i \in DOMAIN d : d[i] # f
  <2>1. /\ e \in Seq(Pool) /\ Len(e) = Len(d) + 1 /\ Len(d) \in Nat
        /\ DOMAIN e = 1 .. Len(d) + 1 /\ DOMAIN d = 1 .. Len(d)
        /\ \A i \in 1 .. Len(d) : e[i] = d[i]
        /\ e[Len(d) + 1] = f
    BY <1>3, <1>5, <1>8
  <2>2. \A i, j \in DOMAIN e : e[i] = e[j] => i = j
    <3> SUFFICES ASSUME NEW i \in 1 .. Len(d) + 1, NEW j \in 1 .. Len(d) + 1, e[i] = e[j]  PROVE i = j
      BY <2>1
    <3>1. CASE i \in 1 .. Len(d) /\ j \in 1 .. Len(d)
      BY <1>5, <2>1, <3>1
    <3>2. CASE i = Len(d) + 1 /\ j \in 1 .. Len(d)
      BY <1>8, <2>1, <3>2
    <3>3. CASE j = Len(d) + 1 /\ i \in 1 .. Len(d)
      BY <1>8, <2>1, <3>3
    <3> QED BY <2>1, <3>1, <3>2, <3>3
  <2>3. query.structure \notin FreeForm => query.arity \in Nat /\ Len(e) <= query.arity
    BY <1>5, <1>6, <2>1
  <2>4. query'.drawn = e
    BY <1>4 DEF e
  <2> HIDE <1>6, <1>8
  <2> QED BY <1>1, <1>4, <2>1, <2>2, <2>3, <2>4, SettingStays DEF QueryInv, SamplerInv
<1> QED BY <1>6, <1>7, <1>8

LEMMA EndKeeps == ASSUME SamplerInv, EndDraw  PROVE SamplerInv'
<1>1. UNCHANGED <<corpus, mode, shape>> /\ corpus \in Corpora /\ query.pc = "draw" /\ QueryInv
  BY DEF EndDraw, SamplerInv
<1>2. query' = [Settled(query) EXCEPT !.pc = "parts"]
  BY DEF EndDraw
<1>3. /\ query'.pc = "parts" /\ query'.drawn = query.drawn /\ query'.parts = query.parts /\ query'.tries = query.tries
      /\ query' = [pc |-> query'.pc, structure |-> query'.structure, arity |-> query'.arity,
                   drawn |-> query'.drawn, tries |-> query'.tries, parts |-> query'.parts]
  BY <1>1, <1>2 DEF Settled, QueryInv
<1>4. query.drawn \in Seq(Pool) /\ (query.structure \notin FreeForm => query.arity \in Nat /\ Len(query.drawn) <= query.arity)
  BY <1>1 DEF QueryInv
<1>5. query'.structure \notin FreeForm => query'.arity \in Nat /\ query'.arity = Len(query.drawn)
  <2>1. CASE query.structure \notin FreeForm /\ Len(query.drawn) < query.arity
    <3>1. query'.arity = Len(query.drawn)
      BY <1>1, <1>2, <2>1 DEF Settled, QueryInv, FreeForm
    <3> QED BY <1>4, <3>1
  <2>2. CASE ~(query.structure \notin FreeForm /\ Len(query.drawn) < query.arity)
    <3>1. query'.arity = query.arity /\ query'.structure = query.structure
      BY <1>1, <1>2, <2>2 DEF Settled, QueryInv, FreeForm
    <3> QED BY <1>4, <2>2, <3>1
  <2> QED BY <2>1, <2>2
<1> QED BY <1>1, <1>3, <1>4, <1>5, SettingStays DEF QueryInv, SamplerInv

LEMMA PredicateKeeps == ASSUME SamplerInv, DrawPredicate  PROVE SamplerInv'
<1>1. /\ UNCHANGED <<corpus, mode, shape>> /\ corpus \in Corpora /\ query.pc = "parts" /\ QueryInv
      /\ Len(query.parts) < Len(query.drawn)
  BY DEF DrawPredicate, SamplerInv
<1> DEFINE d == query.drawn
           s == query.parts
           n == Len(s) + 1
<1>2. PICK x \in Predicates(corpus, d[n], mode, shape) : query' = [query EXCEPT !.parts = Append(@, x)]
  BY DEF DrawPredicate
<1>3. /\ query'.pc = "parts" /\ query'.structure = query.structure /\ query'.arity = query.arity
      /\ query'.drawn = d /\ query'.parts = Append(s, x)
      /\ query' = [pc |-> query'.pc, structure |-> query'.structure, arity |-> query'.arity,
                   drawn |-> query'.drawn, tries |-> query'.tries, parts |-> query'.parts]
  BY <1>1, <1>2 DEF QueryInv
<1>4. /\ d \in Seq(Pool) /\ s \in Seq(AllPredicates) /\ Len(s) < Len(d)
      /\ \A i \in DOMAIN s : s[i] \in Predicates(corpus, d[i], mode, shape)
  BY <1>1 DEF QueryInv
<1> HIDE DEF d, s
<1>5. n \in DOMAIN d /\ d[n] \in Pool /\ n \in Nat /\ Len(s) \in Nat /\ DOMAIN s = 1 .. Len(s) /\ Len(d) \in Nat
  BY <1>4
<1>6. x \in AllPredicates
  BY <1>2, <1>5 DEF AllPredicates
<1> DEFINE t == Append(s, x)
<1>7. /\ t \in Seq(AllPredicates) /\ Len(t) = n /\ DOMAIN t = 1 .. n
      /\ \A i \in DOMAIN s : t[i] = s[i]
      /\ t[n] = x
  BY <1>4, <1>5, <1>6
<1>8. \A i \in DOMAIN t : t[i] \in Predicates(corpus, d[i], mode, shape)
  <2> SUFFICES ASSUME NEW i \in 1 .. n  PROVE t[i] \in Predicates(corpus, d[i], mode, shape)
    BY <1>7
  <2>1. CASE i = n
    BY <1>2, <1>7, <2>1
  <2>2. CASE i # n
    <3>1. i \in DOMAIN s
      BY <1>5, <2>2
    <3> QED BY <1>4, <1>7, <3>1
  <2> QED BY <2>1, <2>2
<1>9. Len(t) <= Len(d)
  BY <1>4, <1>5, <1>7
<1> HIDE DEF t, n
<1>10. QueryInv'
  <2>1. query'.parts = t /\ query'.drawn = d
    BY <1>3 DEF t
  <2>2. /\ \A i, j \in DOMAIN d : d[i] = d[j] => i = j
        /\ query.structure \notin FreeForm => query.arity \in Nat /\ Len(d) <= query.arity /\ query.arity = Len(d)
    BY <1>1 DEF QueryInv, d
  <2> QED BY <1>1, <1>3, <1>4, <1>7, <1>8, <1>9, <2>1, <2>2, SettingStays DEF QueryInv
<1> QED BY <1>1, <1>3, <1>10 DEF SamplerInv

LEMMA SamplerKeeps == SamplerInv /\ [Next]_vars => SamplerInv'
<1> SUFFICES ASSUME SamplerInv, [Next]_vars  PROVE SamplerInv'
  OBVIOUS
<1>1. CASE UNCHANGED SamplerVars
  BY <1>1, SettingStays DEF SamplerVars, SamplerInv, QueryInv
<1>2. CASE Sample
  BY <1>2, ChooseKeeps, DrawKeeps, EndKeeps, PredicateKeeps DEF Sample, SamplerStep
<1>3. CASE query' = NoQuery /\ UNCHANGED <<corpus, mode, shape>>
  BY <1>3 DEF SamplerInv, NoQuery
<1>4. CASE RunnerNext
  BY <1>1, <1>2, <1>3, <1>4 DEF RunnerNext, RunQuery, CountQuery, PrintStatistics, ResetResults, Interrupt
<1>5. CASE UNCHANGED RunnerVars
  BY <1>1, <1>5 DEF RunnerVars
<1> QED BY <1>4, <1>5, OneToolSteps

(* The sampler's queries are well formed for every corpus, every shape and *)
(* any tables of families and structures: no template is short of a        *)
(* predicate, no range is turned around by rounding, no threshold is       *)
(* outside of the column, and the mode does not change what can be drawn.  *)
THEOREM SampledQueriesAreSound == Spec => []SamplerSound
<1>1. Init => SamplerInv
  BY DEF Init, RunnerInit, SamplerInit, SamplerInv, NoQuery
<1> QED BY <1>1, SamplerKeeps, ReadyIsSound, PTL DEF Spec

-----------------------------------------------------------------------------
(* The image copier.  Each task of a run is in one place: with the pool,   *)
(* with a worker, among the results, or counted.                           *)

Works == [at : {"download", "convert"}, row : DbRows, res : [SizeSet -> BOOLEAN], k : Nat]
Outcomes == [row : DbRows, res : [SizeSet -> BOOLEAN] \cup {Raised}]

ImageShape(i) ==
  i = [pc |-> i.pc, runs |-> i.runs, args |-> i.args, s3_cards |-> i.s3_cards, todo |-> i.todo, tasks |-> i.tasks,
       worker |-> i.worker, results |-> i.results, successful |-> i.successful, failed |-> i.failed]
ImageType ==
  /\ ImageShape(image)
  /\ image.pc \in {"stopped", "list", "group", "pool", "raised"}
  /\ image.args \in Args
  /\ image.todo \in SUBSET DbRows
  /\ image.worker \in [ImageWorkers -> Works \cup {Idle}]
  /\ image.results \in SUBSET Outcomes

NoTasks == image.todo = {} /\ image.results = {} /\ \A w \in ImageWorkers : image.worker[w] = Idle
Busy == {w \in ImageWorkers : image.worker[w] # Idle}
Counted == image.successful \cup image.failed
AllUploaded(r) == \A s \in SizeSet : S3Key(r, s) \in DOMAIN bucket

TasksApart ==
  /\ image.tasks = Cardinality(CardsWithMissingImages)
  /\ image.successful \subseteq CardsWithMissingImages /\ image.failed \subseteq CardsWithMissingImages
  /\ image.successful \cap image.failed = {}
  /\ image.todo \subseteq CardsWithMissingImages \ Counted
  /\ \A x \in image.results : x.row \in CardsWithMissingImages \ (Counted \cup image.todo)
  /\ \A w \in Busy : /\ image.worker[w].row \in CardsWithMissingImages \ (Counted \cup image.todo)
                     /\ \A x \in image.results : x.row # image.worker[w].row
  /\ \A x, y \in image.results : x.row = y.row => x = y
  /\ \A v, w \in Busy : image.worker[v].row = image.worker[w].row => v = w

ResultsAreTrue ==
  ~image.args.dry_run =>
    /\ \A r \in image.successful : AllUploaded(r)
    /\ \A x \in image.results : x.res # Raised /\ IsSuccess(x.res) => AllUploaded(x.row)
    /\ \A w \in Busy : \A s \in SizeSet :
         image.worker[w].res[s] => S3Key(image.worker[w].row, s) \in DOMAIN bucket

ImageInv ==
  /\ ImageType
  /\ image.pc \in {"stopped", "list", "group"} => NoTasks
  /\ image.pc \in {"list", "group"} => image.successful = {} /\ image.failed = {}
  /\ image.pc \in {"group", "pool"} => image.s3_cards \subseteq DOMAIN bucket
  /\ image.pc = "pool" => TasksApart /\ ResultsAreTrue

(* What a step leaves alone.                                               *)
SameRun == image'.args = image.args /\ image'.s3_cards = image.s3_cards /\ image'.tasks = image.tasks

LEMMA SameTasks == ASSUME SameRun  PROVE CardsWithMissingImages' = CardsWithMissingImages
BY DEF SameRun, CardsWithMissingImages, MissingSizes

LEMMA BucketGrows ==
  ASSUME NEW r, NEW size, bucket' = UploadToS3(r, size)
  PROVE  DOMAIN bucket \subseteq DOMAIN bucket' /\ S3Key(r, size) \in DOMAIN bucket'
BY DEF UploadToS3

LEMMA GetDbCardsKeeps == ASSUME ImageInv, GetDbCards  PROVE ImageInv'
<1>1. ImageType /\ NoTasks /\ image.pc = "stopped"
  BY DEF ImageInv, GetDbCards
<1>2. PICK a \in Args :
        image' = [image EXCEPT !.pc = IF \A r \in a.rows : r.face \in Faces THEN "list" ELSE "stopped",
                               !.runs = @ + 1, !.args = a, !.successful = {}, !.failed = {}]
  BY DEF GetDbCards
<1>3. /\ image'.successful = {} /\ image'.failed = {}
      /\ image'.pc \in {"list", "stopped"} /\ image'.args = a /\ image'.todo = image.todo
      /\ image'.worker = image.worker /\ image'.results = image.results
      /\ ImageShape(image')
  BY <1>1, <1>2 DEF ImageType, ImageShape
<1> QED BY <1>1, <1>3 DEF ImageInv, ImageType, NoTasks

LEMMA GetS3CardsKeeps == ASSUME ImageInv, GetS3Cards  PROVE ImageInv'
<1>1. ImageType /\ NoTasks /\ image.pc = "list" /\ bucket' = bucket /\ image.successful = {} /\ image.failed = {}
  BY DEF ImageInv, GetS3Cards
<1>2. image' = [image EXCEPT !.pc = "group", !.s3_cards = S3Cards(image.args)]
  BY DEF GetS3Cards
<1>3. /\ image'.successful = image.successful /\ image'.failed = image.failed
      /\ image'.pc = "group" /\ image'.args = image.args /\ image'.todo = image.todo
      /\ image'.worker = image.worker /\ image'.results = image.results /\ image'.s3_cards = S3Cards(image.args)
      /\ ImageShape(image')
  BY <1>1, <1>2 DEF ImageType, ImageShape
<1>4. S3Cards(image.args) \subseteq DOMAIN bucket
  BY DEF S3Cards
<1> QED BY <1>1, <1>3, <1>4 DEF ImageInv, ImageType, NoTasks

LEMMA StartPoolKeeps == ASSUME ImageInv, StartPool  PROVE ImageInv'
<1>1. /\ ImageType /\ NoTasks /\ image.pc = "group" /\ bucket' = bucket
      /\ image.s3_cards \subseteq DOMAIN bucket /\ image.successful = {} /\ image.failed = {}
  BY DEF ImageInv, StartPool
<1>2. CASE image' = [image EXCEPT !.pc = "stopped"]
  <2>1. /\ image'.pc = "stopped" /\ image'.args = image.args /\ image'.todo = image.todo
        /\ image'.worker = image.worker /\ image'.results = image.results /\ ImageShape(image')
    BY <1>1, <1>2 DEF ImageType, ImageShape
  <2> QED BY <1>1, <2>1 DEF ImageInv, ImageType, NoTasks
<1>3. CASE image' = [image EXCEPT !.pc = "pool", !.todo = CardsWithMissingImages,
                                  !.tasks = Cardinality(CardsWithMissingImages)]
  <2>1. /\ image'.pc = "pool" /\ image'.args = image.args /\ image'.todo = CardsWithMissingImages
        /\ image'.s3_cards = image.s3_cards /\ image'.tasks = Cardinality(CardsWithMissingImages)
        /\ image'.worker = image.worker /\ image'.results = image.results /\ ImageShape(image')
        /\ image'.successful = {} /\ image'.failed = {}
    BY <1>1, <1>3 DEF ImageType, ImageShape
  <2>2. CardsWithMissingImages' = CardsWithMissingImages
    BY <2>1 DEF CardsWithMissingImages, MissingSizes
  <2>3. CardsWithMissingImages \subseteq DbRows
    BY <1>1 DEF ImageType, Args, FetchCardsFromDb, CardsWithMissingImages
  <2>4. image'.results = {} /\ Busy' = {} /\ Counted' = {}
    BY <1>1, <2>1 DEF NoTasks, Busy, Counted
  <2>5. TasksApart'
    BY <2>1, <2>2, <2>4 DEF TasksApart
  <2>6. ResultsAreTrue'
    BY <2>1, <2>4 DEF ResultsAreTrue
  <2>7. ImageType'
    BY <1>1, <2>1, <2>3 DEF ImageType
  <2> QED BY <1>1, <2>1, <2>5, <2>6, <2>7 DEF ImageInv
<1> QED BY <1>2, <1>3 DEF StartPool

LEMMA BusyRuns ==
  ASSUME ImageInv, NEW w \in ImageWorkers, image.worker[w] # Idle
  PROVE  image.pc \in {"pool", "raised"} /\ image.worker[w] \in Works
BY DEF ImageInv, ImageType, NoTasks

(* A task goes from the pool to a worker, or is answered at once.          *)
LEMMA TakeKeeps == ASSUME ImageInv, NEW w \in ImageWorkers, Take(w)  PROVE ImageInv'
<1>1. ImageType /\ image.worker[w] = Idle /\ bucket' = bucket
  BY DEF ImageInv, Take
<1>2. PICK r \in image.todo :
        LET begun == [image EXCEPT !.todo = @ \ {r}]
        IN image' = IF ~r.png THEN [begun EXCEPT !.results = @ \cup {Return(r, NoneDone)}]
                    ELSE IF image.args.dry_run THEN [begun EXCEPT !.results = @ \cup {Return(r, AllDone)}]
                    ELSE [begun EXCEPT !.worker[w] = [at |-> "download", row |-> r, res |-> NoneDone, k |-> 1]]
  BY DEF Take
<1>3. image.pc \in {"pool", "raised"} /\ r \in DbRows
  BY <1>1 DEF ImageInv, ImageType, NoTasks
<1> DEFINE j == [at |-> "download", row |-> r, res |-> NoneDone, k |-> 1]
<1>4. NoneDone \in [SizeSet -> BOOLEAN] /\ AllDone \in [SizeSet -> BOOLEAN] /\ j \in Works /\ j # Idle
  <2>1. NoneDone \in [SizeSet -> BOOLEAN] /\ AllDone \in [SizeSet -> BOOLEAN]
    BY DEF NoneDone, AllDone
  <2>2. j \in Works
    BY <1>3, <2>1 DEF Works
  <2>3. j.at = "download" /\ Idle.at = "idle"
    BY DEF Idle
  <2> QED BY <2>1, <2>2, <2>3
<1>5. ASSUME NEW res, res \in {NoneDone, AllDone}, ~image.args.dry_run => res = NoneDone,
             image' = [image EXCEPT !.todo = @ \ {r}, !.results = @ \cup {Return(r, res)}]
      PROVE  ImageInv'
  <2> DEFINE x == Return(r, res)
  <2>1. /\ image'.pc = image.pc /\ SameRun /\ image'.todo = image.todo \ {r} /\ image'.worker = image.worker
        /\ image'.results = image.results \cup {x} /\ ImageShape(image')
        /\ image'.successful = image.successful /\ image'.failed = image.failed
    BY <1>1, <1>5 DEF ImageType, ImageShape, SameRun
  <2>2. x \in Outcomes /\ x.row = r /\ x.res = res
    BY <1>3, <1>4, <1>5 DEF Outcomes, Return
  <2> HIDE DEF x
  <2>3. ImageType'
    BY <1>1, <2>1, <2>2 DEF ImageType, SameRun
  <2>4. Busy' = Busy /\ Counted' = Counted /\ CardsWithMissingImages' = CardsWithMissingImages
    BY <2>1, SameTasks DEF Busy, Counted
  <2>5. ASSUME image.pc = "pool"  PROVE TasksApart' /\ ResultsAreTrue'
    <3>1. TasksApart /\ ResultsAreTrue
      BY <2>5 DEF ImageInv
    <3>2. r \in CardsWithMissingImages \ Counted
      BY <3>1 DEF TasksApart
    <3>3. TasksApart'
      BY <2>1, <2>2, <2>4, <3>1, <3>2 DEF TasksApart, SameRun
    <3>4. ~image.args.dry_run => res = NoneDone
      BY <1>5
    <3>5. ~image.args.dry_run /\ IsSuccess(x.res) => AllUploaded(x.row)
      BY <2>2, <3>4 DEF NoneDone, IsSuccess, AllUploaded
    <3>6. ResultsAreTrue'
      BY <1>1, <2>1, <2>4, <3>1, <3>5 DEF ResultsAreTrue, SameRun, AllUploaded
    <3> QED BY <3>3, <3>6
  <2> QED BY <1>1, <1>3, <2>1, <2>3, <2>5 DEF ImageInv, SameRun
<1>6. CASE image' = [image EXCEPT !.todo = @ \ {r}, !.worker[w] = j]
  <2>1. /\ image'.pc = image.pc /\ SameRun /\ image'.todo = image.todo \ {r}
        /\ image'.worker = [image.worker EXCEPT ![w] = j]
        /\ image'.results = image.results /\ ImageShape(image')
        /\ image'.successful = image.successful /\ image'.failed = image.failed
    BY <1>1, <1>6 DEF ImageType, ImageShape, SameRun
  <2>2. j.row = r /\ j.res = NoneDone
    OBVIOUS
  <2> HIDE DEF j
  <2>3. ImageType'
    BY <1>1, <1>4, <2>1 DEF ImageType, SameRun
  <2>4. Counted' = Counted /\ CardsWithMissingImages' = CardsWithMissingImages
    BY <2>1, SameTasks DEF Counted
  <2>5. /\ Busy' = Busy \cup {w} /\ w \notin Busy /\ image'.worker[w] = j
        /\ \A v \in Busy : image'.worker[v] = image.worker[v]
    BY <1>1, <1>4, <2>1 DEF Busy, ImageType
  <2>6. ASSUME image.pc = "pool"  PROVE TasksApart' /\ ResultsAreTrue'
    <3>1. TasksApart /\ ResultsAreTrue
      BY <2>6 DEF ImageInv
    <3>2. r \in CardsWithMissingImages \ Counted
      BY <3>1 DEF TasksApart
    <3>3. TasksApart'
      BY <2>1, <2>2, <2>4, <2>5, <3>1, <3>2 DEF TasksApart, SameRun
    <3>4. \A s \in SizeSet : ~j.res[s]
      BY <2>2 DEF NoneDone
    <3>5. ResultsAreTrue'
      BY <1>1, <2>1, <2>2, <2>5, <3>1, <3>4 DEF ResultsAreTrue, SameRun, AllUploaded
    <3> QED BY <3>3, <3>5
  <2> QED BY <1>1, <1>3, <2>1, <2>3, <2>6 DEF ImageInv, SameRun
<1>7. \/ image' = [image EXCEPT !.todo = @ \ {r}, !.results = @ \cup {Return(r, NoneDone)}]
      \/ image.args.dry_run /\ image' = [image EXCEPT !.todo = @ \ {r}, !.results = @ \cup {Return(r, AllDone)}]
      \/ image' = [image EXCEPT !.todo = @ \ {r}, !.worker[w] = j]
  BY <1>1, <1>2 DEF ImageType, ImageShape
<1> QED BY <1>5, <1>6, <1>7

(* A worker's result joins the others.                                     *)
LEMMA DeliverKeeps ==
  ASSUME ImageInv, NEW w \in ImageWorkers, image.worker[w] # Idle, NEW res \in [SizeSet -> BOOLEAN] \cup {Raised},
         DOMAIN bucket \subseteq DOMAIN bucket', Deliver(w, res),
         res # Raised => \A s \in SizeSet :
           res[s] => image.worker[w].res[s] \/ S3Key(image.worker[w].row, s) \in DOMAIN bucket'
  PROVE  ImageInv'
<1> DEFINE r == image.worker[w].row
           x == Return(r, res)
<1>1. ImageType /\ image.pc \in {"pool", "raised"} /\ image.worker[w] \in Works /\ r \in DbRows /\ w \in Busy
  BY BusyRuns DEF ImageInv, Works, Busy
<1>2. /\ image'.pc = image.pc /\ SameRun /\ image'.todo = image.todo
      /\ image'.worker = [image.worker EXCEPT ![w] = Idle]
      /\ image'.results = image.results \cup {x} /\ ImageShape(image')
      /\ image'.successful = image.successful /\ image'.failed = image.failed
  BY <1>1 DEF Deliver, ImageType, ImageShape, SameRun
<1>3. x \in Outcomes /\ x.row = r /\ x.res = res
  BY <1>1 DEF Outcomes, Return
<1> HIDE DEF x
<1>4. ImageType'
  BY <1>1, <1>2, <1>3 DEF ImageType, SameRun
<1>5. /\ Busy' = Busy \ {w} /\ Counted' = Counted /\ CardsWithMissingImages' = CardsWithMissingImages
      /\ \A v \in Busy \ {w} : image'.worker[v] = image.worker[v]
  BY <1>1, <1>2, SameTasks DEF Busy, Counted, ImageType
<1>6. ASSUME image.pc = "pool"  PROVE TasksApart' /\ ResultsAreTrue'
  <2>1. TasksApart /\ ResultsAreTrue
    BY <1>6 DEF ImageInv
  <2>2. /\ r \in CardsWithMissingImages \ (Counted \cup image.todo) /\ \A y \in image.results : y.row # r
        /\ \A v \in Busy \ {w} : image.worker[v].row # r
    BY <1>1, <2>1 DEF TasksApart
  <2>3. TasksApart'
    <3>1. \A y \in image'.results : y.row \in CardsWithMissingImages \ (Counted \cup image.todo)
      BY <1>2, <1>3, <2>1, <2>2 DEF TasksApart
    <3>2. \A y, z \in image'.results : y.row = z.row => y = z
      BY <1>2, <1>3, <2>1, <2>2 DEF TasksApart
    <3>3. \A v \in Busy' : /\ image'.worker[v].row \in CardsWithMissingImages \ (Counted \cup image.todo)
                           /\ \A y \in image'.results : y.row # image'.worker[v].row
      BY <1>2, <1>3, <1>5, <2>1, <2>2 DEF TasksApart
    <3>4. \A u, v \in Busy' : image'.worker[u].row = image'.worker[v].row => u = v
      BY <1>5, <2>1 DEF TasksApart
    <3> QED BY <1>2, <1>5, <2>1, <3>1, <3>2, <3>3, <3>4 DEF TasksApart, SameRun
  <2>4. ResultsAreTrue'
    <3> SUFFICES ASSUME ~image.args.dry_run
                 PROVE  /\ \A q \in image'.successful : AllUploaded(q)'
                        /\ \A y \in image'.results : y.res # Raised /\ IsSuccess(y.res) => AllUploaded(y.row)'
                        /\ \A v \in Busy' : \A s \in SizeSet :
                             image'.worker[v].res[s] => S3Key(image'.worker[v].row, s) \in DOMAIN bucket'
      BY <1>2 DEF ResultsAreTrue, SameRun
    <3>1. /\ \A q \in image.successful : AllUploaded(q)
          /\ \A y \in image.results : y.res # Raised /\ IsSuccess(y.res) => AllUploaded(y.row)
          /\ \A v \in Busy : \A s \in SizeSet :
               image.worker[v].res[s] => S3Key(image.worker[v].row, s) \in DOMAIN bucket
      BY <2>1 DEF ResultsAreTrue
    <3>2. \A q : AllUploaded(q) => AllUploaded(q)'
      BY DEF AllUploaded
    <3>3. ASSUME NEW CONSTANT q, q = r, res # Raised, IsSuccess(res)  PROVE AllUploaded(q)'
      <4> SUFFICES ASSUME NEW CONSTANT s \in SizeSet  PROVE S3Key(q, s) \in DOMAIN bucket'
        BY DEF AllUploaded
      <4>1. res[s]
        BY <3>3 DEF IsSuccess
      <4> QED BY <1>1, <3>1, <3>3, <4>1
    <3>4. \A y \in image'.results : y.res # Raised /\ IsSuccess(y.res) => AllUploaded(y.row)'
      BY <1>2, <1>3, <3>1, <3>2, <3>3
    <3> QED BY <1>2, <1>5, <3>1, <3>2, <3>4
  <2> QED BY <2>3, <2>4
<1>7. image.pc = "pool" => image'.s3_cards \subseteq DOMAIN bucket'
  BY <1>2 DEF ImageInv, SameRun
<1> QED BY <1>1, <1>2, <1>4, <1>6, <1>7 DEF ImageInv

(* A worker goes on with its row.                                          *)
LEMMA AdvanceKeeps ==
  ASSUME ImageInv, NEW w \in ImageWorkers, image.worker[w] # Idle, NEW j \in Works, j.row = image.worker[w].row,
         image' = [image EXCEPT !.worker[w] = j], DOMAIN bucket \subseteq DOMAIN bucket',
         \A s \in SizeSet : j.res[s] => image.worker[w].res[s] \/ S3Key(j.row, s) \in DOMAIN bucket'
  PROVE  ImageInv'
<1>1. ImageType /\ image.pc \in {"pool", "raised"} /\ image.worker[w] \in Works /\ w \in Busy
  BY BusyRuns DEF ImageInv, Busy
<1>2. /\ image'.pc = image.pc /\ SameRun /\ image'.todo = image.todo
      /\ image'.worker = [image.worker EXCEPT ![w] = j]
      /\ image'.results = image.results /\ ImageShape(image')
      /\ image'.successful = image.successful /\ image'.failed = image.failed
  BY <1>1 DEF ImageType, ImageShape, SameRun
<1>3. ImageType'
  BY <1>1, <1>2 DEF ImageType, SameRun
<1>4. j # Idle
  <2>1. j.at \in {"download", "convert"} /\ Idle.at = "idle"
    BY DEF Works, Idle
  <2> QED BY <2>1
<1>5. /\ Busy' = Busy /\ Counted' = Counted /\ CardsWithMissingImages' = CardsWithMissingImages
      /\ \A v \in Busy : image'.worker[v].row = image.worker[v].row
      /\ \A v \in Busy \ {w} : image'.worker[v] = image.worker[v]
      /\ image'.worker[w] = j
  BY <1>1, <1>2, <1>4, SameTasks DEF Busy, Counted, ImageType
<1>6. ASSUME image.pc = "pool"  PROVE TasksApart' /\ ResultsAreTrue'
  <2>1. TasksApart /\ ResultsAreTrue
    BY <1>6 DEF ImageInv
  <2>2. TasksApart'
    BY <1>2, <1>5, <2>1 DEF TasksApart, SameRun
  <2>3. ResultsAreTrue'
    <3> SUFFICES ASSUME ~image.args.dry_run
                 PROVE  /\ \A q \in image'.successful : AllUploaded(q)'
                        /\ \A y \in image'.results : y.res # Raised /\ IsSuccess(y.res) => AllUploaded(y.row)'
                        /\ \A v \in Busy' : \A s \in SizeSet :
                             image'.worker[v].res[s] => S3Key(image'.worker[v].row, s) \in DOMAIN bucket'
      BY <1>2 DEF ResultsAreTrue, SameRun
    <3>1. /\ \A q \in image.successful : AllUploaded(q)
          /\ \A y \in image.results : y.res # Raised /\ IsSuccess(y.res) => AllUploaded(y.row)
          /\ \A v \in Busy : \A s \in SizeSet :
               image.worker[v].res[s] => S3Key(image.worker[v].row, s) \in DOMAIN bucket
      BY <2>1 DEF ResultsAreTrue
    <3>2. \A q : AllUploaded(q) => AllUploaded(q)'
      BY DEF AllUploaded
    <3> QED BY <1>1, <1>2, <1>5, <3>1, <3>2
  <2> QED BY <2>2, <2>3
<1>7. image.pc = "pool" => image'.s3_cards \subseteq DOMAIN bucket'
  BY <1>2 DEF ImageInv, SameRun
<1> QED BY <1>1, <1>2, <1>3, <1>6, <1>7 DEF ImageInv

LEMMA DownloadKeeps == ASSUME ImageInv, NEW w \in ImageWorkers, Download(w)  PROVE ImageInv'
<1> DEFINE job == image.worker[w]
<1>1. image.worker[w] # Idle /\ bucket' = bucket /\ image.worker[w].at = "download"
  BY DEF Download, Idle
<1>2. image.worker[w] \in Works /\ ImageType
  BY <1>1, BusyRuns DEF ImageInv
<1>3. CASE image' = [image EXCEPT !.worker[w].at = "convert"]
  <2> DEFINE j == [job EXCEPT !.at = "convert"]
  <2>1. j \in Works /\ j.row = job.row /\ j.res = job.res
    BY <1>2 DEF Works
  <2>2. image' = [image EXCEPT !.worker[w] = j]
    BY <1>2, <1>3 DEF ImageType, ImageShape
  <2> HIDE DEF j
  <2> QED BY <1>1, <2>1, <2>2, AdvanceKeeps
<1>4. NoneDone \in [SizeSet -> BOOLEAN] /\ \A s \in SizeSet : ~NoneDone[s]
  BY DEF NoneDone
<1>5. CASE Deliver(w, NoneDone) \/ Deliver(w, Raised)
  BY <1>1, <1>4, <1>5, DeliverKeeps
<1> QED BY <1>3, <1>5 DEF Download

LEMMA NextSizeKeeps ==
  ASSUME ImageInv, NEW w \in ImageWorkers, image.worker[w] # Idle, NEW res \in [SizeSet -> BOOLEAN],
         DOMAIN bucket \subseteq DOMAIN bucket', NextSize(w, res),
         \A s \in SizeSet : res[s] => image.worker[w].res[s] \/ S3Key(image.worker[w].row, s) \in DOMAIN bucket'
  PROVE  ImageInv'
<1> DEFINE job == image.worker[w]
<1>1. CASE Deliver(w, res)
  BY <1>1, DeliverKeeps
<1>2. CASE image' = [image EXCEPT !.worker[w].k = @ + 1, !.worker[w].res = res]
  <2>1. job \in Works /\ ImageType
    BY BusyRuns DEF ImageInv
  <2> DEFINE j == [job EXCEPT !.k = @ + 1, !.res = res]
  <2>2. j \in Works /\ j.row = job.row /\ j.res = res
    <3>1. j = [at |-> job.at, row |-> job.row, res |-> res, k |-> job.k + 1]
      <4>1. job = [at |-> job.at, row |-> job.row, res |-> job.res, k |-> job.k]
        BY <2>1 DEF Works
      <4> HIDE DEF job
      <4>2. [job EXCEPT !.k = @ + 1] = [at |-> job.at, row |-> job.row, res |-> job.res, k |-> job.k + 1]
        BY <4>1
      <4> DEFINE m == [at |-> job.at, row |-> job.row, res |-> job.res, k |-> job.k + 1]
      <4>3. [m EXCEPT !.res = res] = [at |-> job.at, row |-> job.row, res |-> res, k |-> job.k + 1]
        OBVIOUS
      <4>4. j = [[job EXCEPT !.k = @ + 1] EXCEPT !.res = res]
        OBVIOUS
      <4> QED BY <4>2, <4>3, <4>4
    <3>2. job.at \in {"download", "convert"} /\ job.row \in DbRows /\ job.k + 1 \in Nat
      BY <2>1 DEF Works
    <3> HIDE DEF j, job
    <3> QED BY <3>1, <3>2 DEF Works
  <2>3. image' = [image EXCEPT !.worker[w] = j]
    BY <1>2, <2>1 DEF ImageType, ImageShape
  <2> HIDE DEF j
  <2> QED BY <2>2, <2>3, AdvanceKeeps
<1> QED BY <1>1, <1>2 DEF NextSize

LEMMA ConvertKeeps == ASSUME ImageInv, NEW w \in ImageWorkers, ConvertAndUpload(w)  PROVE ImageInv'
<1> DEFINE job == image.worker[w]
           size == ImageSizes[job.k]
<1>1. job # Idle
  BY DEF ConvertAndUpload, Idle
<1>2. job \in Works /\ job.res \in [SizeSet -> BOOLEAN]
  BY <1>1, BusyRuns DEF Works
<1>3. CASE bucket' = UploadToS3(job.row, size) /\ NextSize(w, [job.res EXCEPT ![size] = TRUE])
  <2>1. DOMAIN bucket \subseteq DOMAIN bucket' /\ S3Key(job.row, size) \in DOMAIN bucket'
    BY <1>3, BucketGrows
  <2> DEFINE res == [job.res EXCEPT ![size] = TRUE]
  <2>2. res \in [SizeSet -> BOOLEAN] /\ \A s \in SizeSet : res[s] => job.res[s] \/ s = size
    BY <1>2
  <2> HIDE DEF res
  <2>3. \A s \in SizeSet : res[s] => job.res[s] \/ S3Key(job.row, s) \in DOMAIN bucket'
    BY <2>1, <2>2
  <2>4. NextSize(w, res)
    BY <1>3 DEF res
  <2> QED BY <1>1, <2>1, <2>2, <2>3, <2>4, NextSizeKeeps
<1>4. CASE NextSize(w, job.res) /\ UNCHANGED bucket
  BY <1>1, <1>2, <1>4, NextSizeKeeps
<1>5. CASE Deliver(w, Raised) /\ UNCHANGED bucket
  BY <1>1, <1>5, DeliverKeeps
<1> QED BY <1>3, <1>4, <1>5 DEF ConvertAndUpload

LEMMA CountKeepsTasks == ASSUME ImageInv, CountResult  PROVE ImageInv'
<1>1. ImageType /\ image.pc = "pool" /\ bucket' = bucket /\ TasksApart /\ ResultsAreTrue
      /\ image.s3_cards \subseteq DOMAIN bucket
  BY DEF ImageInv, CountResult
<1>2. PICK x \in image.results :
       image' = IF x.res = Raised THEN [image EXCEPT !.pc = "raised", !.results = @ \ {x}]
                ELSE IF IsSuccess(x.res)
                THEN [image EXCEPT !.results = @ \ {x}, !.successful = @ \cup {x.row}]
                ELSE [image EXCEPT !.results = @ \ {x}, !.failed = @ \cup {x.row}]
  BY DEF CountResult
<1>3. CASE x.res = Raised
  <2>1. /\ image'.pc = "raised" /\ image'.args = image.args /\ image'.todo = image.todo /\ image'.worker = image.worker
        /\ image'.results = image.results \ {x} /\ ImageShape(image')
    BY <1>1, <1>2, <1>3 DEF ImageType, ImageShape
  <2> QED BY <1>1, <2>1 DEF ImageInv, ImageType
<1>4. CASE x.res # Raised
  <2>1. /\ image'.pc = "pool" /\ SameRun /\ image'.todo = image.todo /\ image'.worker = image.worker
        /\ image'.results = image.results \ {x} /\ ImageShape(image')
        /\ IF IsSuccess(x.res)
           THEN image'.successful = image.successful \cup {x.row} /\ image'.failed = image.failed
           ELSE image'.successful = image.successful /\ image'.failed = image.failed \cup {x.row}
    BY <1>1, <1>2, <1>4 DEF ImageType, ImageShape, SameRun
  <2>2. ImageType'
    BY <1>1, <2>1 DEF ImageType, SameRun
  <2>3. Counted' = Counted \cup {x.row}
    BY <2>1 DEF Counted
  <2>4. Busy' = Busy /\ CardsWithMissingImages' = CardsWithMissingImages
    BY <2>1, SameTasks DEF Busy
  <2>5. /\ x.row \in CardsWithMissingImages \ (Counted \cup image.todo)
        /\ \A y \in image.results \ {x} : y.row # x.row
        /\ \A w \in Busy : image.worker[w].row # x.row
    BY <1>1 DEF TasksApart
  <2>6. TasksApart'
    <3>1. /\ image'.successful \subseteq CardsWithMissingImages /\ image'.failed \subseteq CardsWithMissingImages
          /\ image'.successful \cap image'.failed = {}
      BY <1>1, <2>1, <2>5 DEF TasksApart, Counted
    <3>2. /\ image'.todo \subseteq CardsWithMissingImages \ Counted'
          /\ \A y \in image'.results : y.row \in CardsWithMissingImages \ (Counted' \cup image'.todo)
      BY <1>1, <2>1, <2>3, <2>5 DEF TasksApart
    <3>3. \A w \in Busy : /\ image'.worker[w].row \in CardsWithMissingImages \ (Counted' \cup image'.todo)
                          /\ \A y \in image'.results : y.row # image'.worker[w].row
      BY <1>1, <2>1, <2>3, <2>5 DEF TasksApart
    <3> QED BY <1>1, <2>1, <2>4, <3>1, <3>2, <3>3 DEF TasksApart, SameRun
  <2>7. ResultsAreTrue'
    <3>1. ~image.args.dry_run /\ IsSuccess(x.res) => AllUploaded(x.row)
      BY <1>1, <1>4 DEF ResultsAreTrue
    <3>2. \A q : AllUploaded(q)' <=> AllUploaded(q)
      BY <1>1 DEF AllUploaded
    <3>3. ~image.args.dry_run => \A q \in image'.successful : AllUploaded(q)
      BY <1>1, <2>1, <3>1 DEF ResultsAreTrue
    <3> QED BY <1>1, <2>1, <2>4, <3>2, <3>3 DEF ResultsAreTrue, SameRun
  <2> QED BY <1>1, <2>1, <2>2, <2>6, <2>7 DEF ImageInv, SameRun
<1> QED BY <1>3, <1>4

(* All tasks counted are all tasks.                                        *)
LEMMA AllCounted ==
  ASSUME ImageInv, image.pc = "pool", Cardinality(Counted) = image.tasks
  PROVE  Counted = CardsWithMissingImages
<1>1. TasksApart /\ ImageType
  BY DEF ImageInv
<1>2. Counted \subseteq CardsWithMissingImages /\ image.tasks = Cardinality(CardsWithMissingImages)
  BY <1>1 DEF TasksApart, Counted
<1>3. IsFiniteSet(CardsWithMissingImages)
  <2>1. CardsWithMissingImages \subseteq DbRows
    BY <1>1 DEF ImageType, Args, FetchCardsFromDb, CardsWithMissingImages
  <2> QED BY <2>1, ImageAssumption, FS_Subset
<1> QED BY <1>2, <1>3, FS_Subset

LEMMA JoinKeeps == ASSUME ImageInv, JoinPool  PROVE ImageInv'
<1>1. ImageType /\ image.todo = {} /\ (\A w \in ImageWorkers : image.worker[w] = Idle) /\ bucket' = bucket
  BY DEF ImageInv, JoinPool
<1>2. CASE /\ image.pc = "pool" /\ Cardinality(image.successful) + Cardinality(image.failed) = image.tasks
           /\ image' = [image EXCEPT !.pc = "stopped"]
  <2>1. TasksApart
    BY <1>2 DEF ImageInv
  <2>2. IsFiniteSet(image.successful) /\ IsFiniteSet(image.failed) /\ image.successful \cap image.failed = {}
    <3>1. image.successful \subseteq DbRows /\ image.failed \subseteq DbRows
      BY <1>1, <2>1 DEF TasksApart, ImageType, Args, FetchCardsFromDb, CardsWithMissingImages
    <3> QED BY <2>1, <3>1, ImageAssumption, FS_Subset DEF TasksApart
  <2>3. Cardinality(Counted) = image.tasks
    <3>1. /\ Cardinality(image.successful \cup image.failed)
                = Cardinality(image.successful) + Cardinality(image.failed) - Cardinality(image.successful \cap image.failed)
      BY <2>2, FS_Union
    <3>2. Cardinality(image.successful \cap image.failed) = 0
      BY <2>2, FS_EmptySet
    <3>3. Cardinality(image.successful) \in Nat /\ Cardinality(image.failed) \in Nat
      BY <2>2, FS_CardinalityType
    <3> QED BY <1>2, <3>1, <3>2, <3>3 DEF Counted
  <2>4. Counted = CardsWithMissingImages
    BY <1>2, <2>3, AllCounted
  <2>5. image.results = {}
    BY <2>1, <2>4 DEF TasksApart
  <2>6. /\ image'.pc = "stopped" /\ image'.args = image.args /\ image'.todo = image.todo
        /\ image'.worker = image.worker /\ image'.results = image.results /\ ImageShape(image')
    BY <1>1, <1>2 DEF ImageType, ImageShape
  <2> QED BY <1>1, <2>5, <2>6 DEF ImageInv, ImageType, NoTasks
<1>3. CASE image' = [image EXCEPT !.pc = "stopped", !.results = {}]
  <2>1. /\ image'.pc = "stopped" /\ image'.args = image.args /\ image'.todo = image.todo
        /\ image'.worker = image.worker /\ image'.results = {} /\ ImageShape(image')
    BY <1>1, <1>3 DEF ImageType, ImageShape
  <2> QED BY <1>1, <2>1 DEF ImageInv, ImageType, NoTasks
<1> QED BY <1>2, <1>3 DEF JoinPool

LEMMA KillKeeps == ASSUME ImageInv, ImageKill  PROVE ImageInv'
<1>1. ImageType
  BY DEF ImageInv
<1>2. /\ image'.pc = "stopped" /\ image'.args = image.args /\ image'.todo = {}
      /\ image'.worker = [w \in ImageWorkers |-> Idle] /\ image'.results = {} /\ ImageShape(image')
  BY <1>1 DEF ImageKill, ImageType, ImageShape
<1> QED BY <1>1, <1>2 DEF ImageInv, ImageType, NoTasks

LEMMA ImageKeeps == ASSUME ImageInv, ImageNext \/ UNCHANGED ImageVars  PROVE ImageInv'
<1>1. CASE UNCHANGED ImageVars
  <2>1. image' = image /\ bucket' = bucket
    BY <1>1 DEF ImageVars
  <2> QED BY <2>1 DEF ImageInv, ImageType, NoTasks, TasksApart, ResultsAreTrue, Busy, Counted, AllUploaded,
                      CardsWithMissingImages, MissingSizes
<1>2. CASE \E w \in ImageWorkers : Take(w) \/ Download(w) \/ ConvertAndUpload(w)
  BY <1>2, TakeKeeps, DownloadKeeps, ConvertKeeps
<1>3. CASE GetDbCards \/ GetS3Cards \/ StartPool \/ CountResult \/ JoinPool \/ ImageKill
  BY <1>3, GetDbCardsKeeps, GetS3CardsKeeps, StartPoolKeeps, CountKeepsTasks, JoinKeeps, KillKeeps
<1> QED BY <1>1, <1>2, <1>3 DEF ImageNext, ImageProgress

LEMMA ImageStarts == ASSUME ImageInit  PROVE ImageInv
<1>1. /\ image.pc = "stopped" /\ image.args = [rows |-> {}, skip_existing |-> TRUE, dry_run |-> FALSE]
      /\ image.todo = {} /\ image.results = {} /\ image.worker = [w \in ImageWorkers |-> Idle] /\ ImageShape(image)
  BY DEF ImageInit, ImageShape
<1>2. image.args \in Args
  BY <1>1 DEF Args, FetchCardsFromDb
<1> QED BY <1>1, <1>2 DEF ImageInv, ImageType, NoTasks

(* NothingLeftBehind, of one step.                                         *)
RunLeavesNothing ==
  (image.pc = "pool" /\ image'.pc = "stopped" /\ image.todo = {} /\ ~image.args.dry_run
     /\ Cardinality(image.successful \cup image.failed) = image.tasks)
  => \A r \in image.args.rows : r.face = DEFAULT_FACE => WholeInBucket(r) \/ r \in image.failed

LEMMA CountedIsWhole == ASSUME ImageInv  PROVE RunLeavesNothing
<1> SUFFICES ASSUME image.pc = "pool", ~image.args.dry_run, Cardinality(Counted) = image.tasks,
                    NEW r \in image.args.rows, r.face = DEFAULT_FACE, r \notin image.failed
             PROVE  WholeInBucket(r)
  BY DEF RunLeavesNothing, Counted
<1>1. Counted = CardsWithMissingImages
  BY AllCounted
<1>2. CASE r \in CardsWithMissingImages
  <2>1. r \in image.successful
    BY <1>1, <1>2 DEF Counted
  <2>2. AllUploaded(r)
    BY <2>1 DEF ImageInv, ResultsAreTrue
  <2> QED BY <2>2 DEF AllUploaded, WholeInBucket, S3Key
<1>3. CASE r \notin CardsWithMissingImages
  <2>1. MissingSizes(r) = {} /\ image.s3_cards \subseteq DOMAIN bucket
    BY <1>3 DEF CardsWithMissingImages, ImageInv
  <2> QED BY <2>1 DEF MissingSizes, WholeInBucket
<1> QED BY <1>2, <1>3

-----------------------------------------------------------------------------
(* The fetcher of Gatherer.  Items only move to later places, so what was  *)
(* listed at the start of a fetch and is in a page already passed has been *)
(* collected.                                                              *)

Listable == ToSet(GathererItems) \cup {GathererNews}
Passed == (gatherer.page - 1) * GathererPageSize
GathererShape(g) ==
  g = [pc |-> g.pc, what |-> g.what, page |-> g.page, items |-> g.items, began |-> g.began, garbled |-> g.garbled]

GathererRuns ==
  /\ GathererShape(gatherer)
  /\ gatherer.pc \in {"get", "save", "done", "raised", "killed"}
  /\ gatherer.what \in {"sets", "cards"} /\ gatherer.page \in Nat \ {0} /\ gatherer.items \in Seq(Listable)
  /\ ToSet(GathererItems) \subseteq gatherer.began /\ gatherer.began \subseteq ToSet(listing)
  /\ gatherer.pc = "get" => \A i \in DOMAIN listing :
       i <= Passed /\ listing[i] \in gatherer.began => listing[i] \in ToSet(gatherer.items)
  /\ gatherer.pc = "save" => gatherer.what = "cards"

GathererInv ==
  /\ listing \in Seq(Listable) /\ ToSet(GathererItems) \subseteq ToSet(listing)
  /\ ending \in Endings
  /\ gatherer.pc # "rest" => GathererRuns
  /\ FetchIsWhole

LEMMA PassedNext ==
  ASSUME NEW n \in Nat \ {0}
  PROVE  /\ (n - 1) * GathererPageSize \in Nat /\ n * GathererPageSize \in Nat
         /\ n * GathererPageSize = (n - 1) * GathererPageSize + GathererPageSize
<1>1. GathererPageSize \in Nat \ {0}
  BY FetcherAssumption
<1>2. GathererPageSize * 0 <= GathererPageSize * (n - 1) /\ GathererPageSize * (n - 1) \in Int
  BY <1>1, MultiplesOrder
<1>3. (n - 1) * GathererPageSize = GathererPageSize * (n - 1) /\ GathererPageSize * 0 = 0
  BY <1>1, Z3
<1>4. n * GathererPageSize = (n - 1) * GathererPageSize + GathererPageSize
  BY <1>1, Z3
<1> QED BY <1>1, <1>2, <1>3, <1>4

LEMMA StartFetchKeeps == ASSUME GathererInv, StartFetch  PROVE GathererInv'
<1>1. listing' = listing /\ ending' = ending /\ file' = file
  BY DEF StartFetch
<1>2. PICK what \in {"sets", "cards"} :
        gatherer' = [pc |-> "get", what |-> what, page |-> 1, items |-> <<>>, began |-> ToSet(listing), garbled |-> FALSE]
  BY DEF StartFetch
<1>3. /\ gatherer'.pc = "get" /\ gatherer'.what = what /\ gatherer'.page = 1 /\ gatherer'.items = <<>>
      /\ gatherer'.began = ToSet(listing) /\ GathererShape(gatherer')
  BY <1>2 DEF GathererShape
<1>4. Passed' = 0
  BY <1>3, FetcherAssumption DEF Passed
<1>5. GathererRuns'
  BY <1>1, <1>3, <1>4 DEF GathererRuns, GathererInv
<1>6. FetchIsWhole'
  BY <1>1, <1>3 DEF FetchIsWhole, GathererInv
<1> QED BY <1>1, <1>5, <1>6 DEF GathererInv

(* A fetch that passed the last item has them all.                         *)
LEMMA PastTheEnd ==
  ASSUME GathererInv, gatherer.pc = "get", Passed + 1 > Len(listing)
  PROVE  gatherer.began \subseteq ToSet(gatherer.items)
<1>1. GathererRuns /\ listing \in Seq(Listable)
  BY DEF GathererInv
<1>2. Passed \in Nat
  BY <1>1, PassedNext DEF Passed, GathererRuns
<1>3. \A i \in DOMAIN listing : i <= Passed
  BY <1>1, <1>2
<1>4. \A i \in DOMAIN listing : listing[i] \in gatherer.began => listing[i] \in ToSet(gatherer.items)
  BY <1>1, <1>3 DEF GathererRuns
<1> QED BY <1>1, <1>4 DEF GathererRuns, ToSet

(* A fetch that comes to an end.                                           *)
LEMMA EndsKeeps ==
  ASSUME GathererInv, gatherer.pc = "get", UNCHANGED <<listing, ending, file>>,
         NEW to \in {"save", "done", "raised"}, to = "save" => gatherer.what = "cards",
         NEW garbled, gatherer' = [gatherer EXCEPT !.pc = to, !.garbled = garbled],
         \/ to = "raised"
         \/ gatherer.what = "sets" /\ garbled
         \/ gatherer.began \subseteq ToSet(gatherer.items)
  PROVE  GathererInv'
<1>1. GathererRuns
  BY DEF GathererInv
<1>2. /\ gatherer'.pc = to /\ gatherer'.what = gatherer.what /\ gatherer'.page = gatherer.page
      /\ gatherer'.items = gatherer.items /\ gatherer'.began = gatherer.began /\ gatherer'.garbled = garbled
      /\ GathererShape(gatherer')
  BY <1>1 DEF GathererRuns, GathererShape
<1>3. GathererRuns'
  BY <1>1, <1>2 DEF GathererRuns
<1>4. FetchIsWhole'
  BY <1>2 DEF FetchIsWhole, GathererInv
<1> QED BY <1>3, <1>4 DEF GathererInv

LEMMA NextPageKeeps ==
  ASSUME GathererInv, gatherer.pc = "get", UNCHANGED <<listing, ending, file>>,
         NEW more \in Seq(Listable),
         gatherer' = [gatherer EXCEPT !.items = @ \o more, !.page = @ + 1],
         \A i \in DOMAIN listing : Passed < i /\ i <= Passed + GathererPageSize => listing[i] \in ToSet(more)
  PROVE  GathererInv'
<1>1. GathererRuns /\ listing \in Seq(Listable)
  BY DEF GathererInv
<1>2. /\ gatherer'.pc = "get" /\ gatherer'.what = gatherer.what /\ gatherer'.page = gatherer.page + 1
      /\ gatherer'.items = gatherer.items \o more /\ gatherer'.began = gatherer.began
      /\ GathererShape(gatherer')
  BY <1>1 DEF GathererRuns, GathererShape
<1>3. Passed \in Nat /\ Passed' = Passed + GathererPageSize /\ GathererPageSize \in Nat
  <2>1. gatherer.page \in Nat \ {0}
    BY <1>1 DEF GathererRuns
  <2>2. Passed' = gatherer.page * GathererPageSize
    BY <1>2, <2>1 DEF Passed
  <2> QED BY <2>1, <2>2, PassedNext, FetcherAssumption DEF Passed
<1>4. gatherer'.items \in Seq(Listable) /\ ToSet(gatherer'.items) = ToSet(gatherer.items) \cup ToSet(more)
  <2> DEFINE a == gatherer.items
             c == a \o more
  <2>1. a \in Seq(Listable)
    BY <1>1 DEF GathererRuns
  <2> HIDE DEF a
  <2>2. /\ c \in Seq(Listable) /\ DOMAIN c = 1 .. Len(a) + Len(more)
        /\ DOMAIN a = 1 .. Len(a) /\ DOMAIN more = 1 .. Len(more) /\ Len(a) \in Nat /\ Len(more) \in Nat
        /\ \A i \in 1 .. Len(a) : c[i] = a[i]
        /\ \A i \in 1 .. Len(more) : c[Len(a) + i] = more[i]
    BY <2>1
  <2> HIDE DEF c
  <2>3. ASSUME NEW i \in DOMAIN c  PROVE c[i] \in ToSet(a) \cup ToSet(more)
    <3>1. CASE i <= Len(a)
      BY <2>2, <3>1 DEF ToSet
    <3>2. CASE i > Len(a)
      <4>1. i - Len(a) \in 1 .. Len(more) /\ Len(a) + (i - Len(a)) = i
        BY <2>2, <3>2
      <4>2. c[i] = more[i - Len(a)]
        BY <2>2, <4>1
      <4> QED BY <2>2, <4>1, <4>2 DEF ToSet
    <3> QED BY <2>2, <3>1, <3>2
  <2>4. ToSet(a) \subseteq ToSet(c)
    BY <2>2 DEF ToSet
  <2>5. ToSet(more) \subseteq ToSet(c)
    <3> SUFFICES ASSUME NEW i \in 1 .. Len(more)  PROVE more[i] \in ToSet(c)
      BY <2>2 DEF ToSet
    <3>1. Len(a) + i \in DOMAIN c
      BY <2>2
    <3> QED BY <2>2, <3>1 DEF ToSet
  <2>6. ToSet(c) = ToSet(a) \cup ToSet(more)
    BY <2>3, <2>4, <2>5 DEF ToSet
  <2> QED BY <1>2, <2>2, <2>6 DEF a, c
<1>5. ASSUME NEW i \in DOMAIN listing, i <= Passed', listing[i] \in gatherer.began
      PROVE  listing[i] \in ToSet(gatherer'.items)
  <2>1. i \in Nat
    BY <1>1
  <2>2. CASE i <= Passed
    BY <1>1, <1>4, <1>5, <2>2 DEF GathererRuns
  <2>3. CASE Passed < i
    BY <1>3, <1>4, <1>5, <2>3
  <2> QED BY <1>3, <2>1, <2>2, <2>3
<1>6. GathererRuns'
  BY <1>1, <1>2, <1>4, <1>5 DEF GathererRuns
<1>7. FetchIsWhole'
  BY <1>2 DEF FetchIsWhole, GathererInv
<1> QED BY <1>6, <1>7 DEF GathererInv

PieceOf(S, s, a, b, c) ==
  c \in Seq(S) /\ Len(c) = b - a /\ DOMAIN c = 1 .. b - a /\ \A i \in 1 .. b - a : c[i] = s[a + i]

LEMMA Piece ==
  ASSUME NEW S, NEW s \in Seq(S), NEW a \in Nat, NEW b \in Nat, a <= b, b <= Len(s)
  PROVE  PieceOf(S, s, a, b, SubSeq(s, a + 1, b))
<1>1. \A i \in 1 .. Len(s) : s[i] \in S
  OBVIOUS
<1>2. SubSeq(s, a + 1, b) = [i \in 1 .. b - a |-> s[a + i]]
  OBVIOUS
<1> DEFINE c == [i \in 1 .. b - a |-> s[a + i]]
<1>3. b - a \in Nat /\ \A i \in 1 .. b - a : a + i \in 1 .. Len(s)
  OBVIOUS
<1>4. c \in [1 .. b - a -> S]
  BY <1>1, <1>3
<1>5. c \in Seq(S) /\ Len(c) = b - a
  BY <1>3, <1>4
<1> QED BY <1>2, <1>5 DEF PieceOf

LEMMA GetPageKeeps == ASSUME GathererInv, GetPage  PROVE GathererInv'
<1>1. GathererRuns /\ gatherer.pc = "get" /\ UNCHANGED <<listing, ending, file>> /\ listing \in Seq(Listable)
  BY DEF GathererInv, GetPage
<1>2. /\ GathererShape(gatherer) /\ gatherer.what \in {"sets", "cards"} /\ gatherer.page \in Nat \ {0}
      /\ gatherer.items \in Seq(Listable)
  BY <1>1 DEF GathererRuns
<1>3. Passed \in Nat /\ gatherer.page * GathererPageSize = Passed + GathererPageSize /\ GathererPageSize \in Nat \ {0}
  BY <1>2, PassedNext, FetcherAssumption DEF Passed
<1>4. CASE gatherer' = Answered(PageOf(gatherer.page)) /\ Passed + 1 > Len(listing)
  <2>1. PageOf(gatherer.page) = [kind |-> ending]
    BY <1>4 DEF PageOf, Passed
  <2>2. PageOf(gatherer.page).kind = ending /\ ending \in {"not_found", "no_items", "empty"}
    BY <2>1 DEF GathererInv, Endings
  <2>3. gatherer.began \subseteq ToSet(gatherer.items)
    BY <1>1, <1>4, PastTheEnd
  <2>4. CASE ending = "not_found"
    <3>1. gatherer' = [gatherer EXCEPT !.pc = Fetched("save"), !.garbled = gatherer.garbled]
      BY <1>2, <1>4, <2>2, <2>4 DEF Answered, GathererShape
    <3>2. Fetched("save") \in {"save", "done", "raised"} /\ (Fetched("save") = "save" => gatherer.what = "cards")
      BY <1>2 DEF Fetched
    <3> QED BY <1>1, <2>3, <3>1, <3>2, EndsKeeps
  <2>5. CASE ending = "no_items"
    <3>1. gatherer' = [gatherer EXCEPT !.pc = Fetched(NoItems), !.garbled = gatherer.garbled]
      BY <1>2, <1>4, <2>2, <2>5 DEF Answered, GathererShape
    <3>2. Fetched(NoItems) \in {"save", "done", "raised"} /\ Fetched(NoItems) # "save"
      BY <1>2 DEF Fetched, NoItems
    <3> QED BY <1>1, <2>3, <3>1, <3>2, EndsKeeps
  <2>6. CASE ending = "empty" /\ gatherer.what = "sets"
    <3>1. gatherer' = [gatherer EXCEPT !.pc = "done", !.page = @ + 1]
      BY <1>4, <2>2, <2>6 DEF Answered, Fetched
    <3>2. /\ gatherer'.pc = "done" /\ gatherer'.what = gatherer.what /\ gatherer'.page = gatherer.page + 1
          /\ gatherer'.items = gatherer.items /\ gatherer'.began = gatherer.began /\ GathererShape(gatherer')
      BY <1>2, <3>1 DEF GathererShape
    <3>3. GathererRuns'
      BY <1>1, <1>2, <3>2 DEF GathererRuns
    <3>4. FetchIsWhole'
      BY <1>1, <2>3, <3>2 DEF FetchIsWhole, GathererInv
    <3> QED BY <1>1, <3>3, <3>4 DEF GathererInv
  <2>7. CASE ending = "empty" /\ gatherer.what = "cards"
    <3>1. gatherer.items \o <<>> = gatherer.items
      BY <1>2
    <3>2. gatherer' = [gatherer EXCEPT !.items = @ \o <<>>, !.page = @ + 1]
      BY <1>1, <1>2, <1>4, <2>2, <2>7, <3>1 DEF Answered, Fetched, GathererShape
    <3>3. \A i \in DOMAIN listing : ~(Passed < i)
      BY <1>1, <1>3, <1>4
    <3>4. <<>> \in Seq(Listable)
      OBVIOUS
    <3> QED BY <1>1, <3>2, <3>3, <3>4, NextPageKeeps
  <2> QED BY <1>2, <2>2, <2>4, <2>5, <2>6, <2>7
<1>5. CASE gatherer' = Answered(PageOf(gatherer.page)) /\ ~(Passed + 1 > Len(listing))
  <2> DEFINE last == Passed + GathererPageSize
             upto == IF last > Len(listing) THEN Len(listing) ELSE last
             more == SubSeq(listing, Passed + 1, upto)
  <2>1. PageOf(gatherer.page) = [kind |-> "items", items |-> more]
    BY <1>3, <1>5 DEF PageOf, Passed
  <2> HIDE DEF more
  <2>2. PageOf(gatherer.page).kind = "items" /\ PageOf(gatherer.page).items = more
    BY <2>1
  <2>3. gatherer' = [gatherer EXCEPT !.items = @ \o more, !.page = @ + 1]
    BY <1>5, <2>2 DEF Answered
  <2>4. Len(listing) \in Nat /\ DOMAIN listing = 1 .. Len(listing) /\ upto \in Nat /\ upto <= Len(listing) /\ Passed + 1 <= upto
        /\ \A i \in 1 .. Len(listing) : listing[i] \in Listable
    BY <1>1, <1>3, <1>5
  <2> HIDE DEF upto
  <2>5. /\ more \in Seq(Listable) /\ Len(more) = upto - Passed /\ DOMAIN more = 1 .. upto - Passed
        /\ \A i \in 1 .. upto - Passed : more[i] = listing[Passed + i]
    <3>1. Passed <= upto
      BY <1>3, <2>4
    <3>2. PieceOf(Listable, listing, Passed, upto, more)
      BY <1>1, <1>3, <2>4, <3>1, Piece, Zenon DEF more
    <3> QED BY <3>2 DEF PieceOf
  <2>6. ASSUME NEW i \in DOMAIN listing, Passed < i, i <= last  PROVE listing[i] \in ToSet(more)
    <3>1. i - Passed \in 1 .. upto - Passed /\ Passed + (i - Passed) = i
      BY <1>3, <2>4, <2>6 DEF upto
    <3>2. more[i - Passed] = listing[i]
      BY <2>5, <3>1
    <3> QED BY <2>5, <3>1, <3>2 DEF ToSet
  <2> QED BY <1>1, <2>3, <2>5, <2>6, NextPageKeeps
<1>6. CASE gatherer' = [Answered([kind |-> "no_items"]) EXCEPT !.garbled = TRUE]
  <2>1. gatherer' = [gatherer EXCEPT !.pc = Fetched(NoItems), !.garbled = TRUE]
    BY <1>6 DEF Answered
  <2>2. /\ Fetched(NoItems) \in {"save", "done", "raised"} /\ Fetched(NoItems) # "save"
        /\ Fetched(NoItems) = "raised" \/ gatherer.what = "sets"
    BY <1>2 DEF Fetched, NoItems
  <2> QED BY <1>1, <2>1, <2>2, EndsKeeps
<1>7. CASE gatherer' = [gatherer EXCEPT !.pc = "raised"]
  <2>1. gatherer' = [gatherer EXCEPT !.pc = "raised", !.garbled = gatherer.garbled]
    BY <1>2, <1>7 DEF GathererShape
  <2> QED BY <1>1, <2>1, EndsKeeps
<1> QED BY <1>4, <1>5, <1>6, <1>7 DEF GetPage
Shifted(S, s, e, i, c) ==
  /\ c \in Seq(S) /\ DOMAIN c = 1 .. Len(s) + 1
  /\ \A j \in 1 .. Len(s) + 1 : c[j] = IF j < i THEN s[j] ELSE IF j = i THEN e ELSE s[j - 1]

LEMMA Inserted ==
  ASSUME NEW S, NEW s \in Seq(S), NEW e \in S, NEW i \in 1 .. Len(s) + 1
  PROVE  Shifted(S, s, e, i, InsertAt(s, i, e))
<1> DEFINE a == SubSeq(s, 1, i - 1)
           z == SubSeq(s, i, Len(s))
           m == i - 1
<1>0. m \in Nat /\ Len(s) \in Nat /\ i = m + 1 /\ m <= Len(s) /\ 0 \in Nat /\ 0 <= m
  OBVIOUS
<1>1. a \in Seq(S) /\ Len(a) = m /\ \A j \in 1 .. m : a[j] = s[j]
  <2>1. PieceOf(S, s, 0, m, SubSeq(s, 0 + 1, m))
    <3> HIDE DEF m
    <3> QED BY <1>0, Piece, Zenon
  <2>2. SubSeq(s, 0 + 1, m) = a
    OBVIOUS
  <2> QED BY <1>0, <2>1, <2>2 DEF PieceOf
<1>2. z \in Seq(S) /\ Len(z) = Len(s) - m /\ \A j \in 1 .. Len(s) - m : z[j] = s[m + j]
  <2>1. PieceOf(S, s, m, Len(s), SubSeq(s, m + 1, Len(s)))
    <3>1. Len(s) <= Len(s)
      BY <1>0
    <3> HIDE DEF m
    <3> QED BY <1>0, <3>1, Piece, Zenon
  <2>2. SubSeq(s, m + 1, Len(s)) = z
    BY <1>0
  <2> QED BY <2>1, <2>2 DEF PieceOf
<1>3. InsertAt(s, i, e) = a \o <<e>> \o z
  BY DEF InsertAt
<1> HIDE DEF a, z, m
<1> DEFINE y == a \o <<e>>
<1>4. /\ y \in Seq(S) /\ Len(y) = i /\ y[i] = e /\ \A j \in 1 .. m : y[j] = s[j]
  BY <1>0, <1>1
<1> HIDE DEF y
<1> DEFINE c == y \o z
<1>a. y \in Seq(S) /\ z \in Seq(S)
  BY <1>2, <1>4
<1>b. c \in Seq(S) /\ Len(c) = Len(y) + Len(z) /\ DOMAIN c = 1 .. Len(c)
  BY <1>a
<1>5. c \in Seq(S) /\ Len(c) = Len(s) + 1 /\ DOMAIN c = 1 .. Len(s) + 1
  <2>1. Len(c) = Len(s) + 1
    BY <1>0, <1>2, <1>4, <1>b
  <2> QED BY <1>b, <2>1
<1>6. \A j \in 1 .. Len(y) : c[j] = y[j]
  BY <1>a
<1>7. \A j \in 1 .. Len(z) : c[Len(y) + j] = z[j]
  BY <1>a
<1>8. InsertAt(s, i, e) = c
  BY <1>3 DEF y
<1> HIDE DEF c
<1>9. ASSUME NEW j \in 1 .. Len(s) + 1
      PROVE  c[j] = IF j < i THEN s[j] ELSE IF j = i THEN e ELSE s[j - 1]
  <2>1. CASE j < i
    BY <1>0, <1>4, <1>6, <2>1
  <2>2. CASE j = i
    BY <1>0, <1>4, <1>6, <2>2
  <2>3. CASE j > i
    <3>1. j - i \in 1 .. Len(s) - m /\ m + (j - i) = j - 1 /\ i + (j - i) = j
      BY <1>0, <2>3
    <3>2. c[j] = z[j - i]
      BY <1>2, <1>4, <1>7, <3>1
    <3> QED BY <1>2, <2>3, <3>1, <3>2
  <2> QED BY <2>1, <2>2, <2>3
<1> QED BY <1>5, <1>8, <1>9 DEF Shifted

LEMMA ListingGrowsKeeps == ASSUME GathererInv, ListingGrows  PROVE GathererInv'
<1>1. /\ gatherer' = gatherer /\ ending' = ending /\ file' = file /\ gatherer.pc = "get" /\ GathererRuns
      /\ listing \in Seq(Listable) /\ GathererNews \notin ToSet(listing) /\ GathererNews \in Listable
  BY DEF ListingGrows, GathererInv, Listable
<1>2. PICK i \in 1 .. Len(listing) + 1 : listing' = InsertAt(listing, i, GathererNews)
  BY DEF ListingGrows
<1>3. /\ listing' \in Seq(Listable) /\ DOMAIN listing' = 1 .. Len(listing) + 1
      /\ \A j \in 1 .. Len(listing) + 1 :
           listing'[j] = IF j < i THEN listing[j] ELSE IF j = i THEN GathererNews ELSE listing[j - 1]
  <2>1. Shifted(Listable, listing, GathererNews, i, listing')
    BY <1>1, <1>2, Inserted, Zenon
  <2> QED BY <2>1 DEF Shifted
<1>4. Len(listing) \in Nat /\ DOMAIN listing = 1 .. Len(listing)
  BY <1>1
<1>5. ToSet(listing) \subseteq ToSet(listing')
  <2> SUFFICES ASSUME NEW j \in 1 .. Len(listing)  PROVE \E k \in DOMAIN listing' : listing'[k] = listing[j]
    BY <1>4 DEF ToSet
  <2>1. CASE j < i
    BY <1>3, <1>4, <2>1
  <2>2. CASE j >= i
    <3>1. j + 1 \in DOMAIN listing' /\ listing'[j + 1] = listing[j]
      BY <1>3, <1>4, <2>2
    <3> QED BY <3>1
  <2> QED BY <2>1, <2>2
<1>6. Passed' = Passed /\ Passed \in Nat
  BY <1>1, PassedNext DEF Passed, GathererRuns
<1>7. ASSUME NEW j \in DOMAIN listing', j <= Passed, listing'[j] \in gatherer.began
      PROVE  listing'[j] \in ToSet(gatherer.items)
  <2>0. gatherer.began \subseteq ToSet(listing) /\ \A k \in DOMAIN listing :
          k <= Passed /\ listing[k] \in gatherer.began => listing[k] \in ToSet(gatherer.items)
    BY <1>1 DEF GathererRuns
  <2>1. CASE j < i
    <3>1. j \in DOMAIN listing /\ listing'[j] = listing[j]
      BY <1>3, <1>4, <2>1
    <3> QED BY <1>7, <2>0, <3>1
  <2>2. CASE j = i
    BY <1>1, <1>3, <1>7, <2>0, <2>2
  <2>3. CASE j > i
    <3>1. j - 1 \in DOMAIN listing /\ listing'[j] = listing[j - 1] /\ j - 1 <= Passed
      BY <1>3, <1>4, <1>6, <1>7, <2>3
    <3> QED BY <1>7, <2>0, <3>1
  <2> QED BY <1>3, <1>4, <2>1, <2>2, <2>3
<1>8. GathererRuns'
  BY <1>1, <1>5, <1>6, <1>7 DEF GathererRuns
<1>9. FetchIsWhole'
  BY <1>1 DEF FetchIsWhole, GathererInv
<1> QED BY <1>1, <1>3, <1>5, <1>8, <1>9 DEF GathererInv

LEMMA FileKeeps ==
  ASSUME GathererInv, OpenFile \/ DumpCards \/ GathererKilled \/ NextFetch
  PROVE  GathererInv'
<1>1. listing' = listing /\ ending' = ending
  BY DEF OpenFile, DumpCards, GathererKilled, NextFetch
<1>2. CASE OpenFile
  <2>1. gatherer' = gatherer /\ file'.state = "writing"
    BY <1>2 DEF OpenFile
  <2>2. GathererRuns => GathererRuns'
    BY <1>1, <2>1 DEF GathererRuns, Passed
  <2> QED BY <1>1, <2>1, <2>2 DEF GathererInv, FetchIsWhole
<1>3. CASE DumpCards
  <2>1. /\ GathererRuns /\ gatherer.pc = "save" /\ gatherer' = [gatherer EXCEPT !.pc = "done"]
        /\ file' = [state |-> "closed", cards |-> gatherer.items] /\ file'.cards = gatherer.items
    BY <1>3 DEF DumpCards, GathererInv
  <2>2. /\ gatherer'.pc = "done" /\ gatherer'.what = gatherer.what /\ gatherer'.page = gatherer.page
        /\ gatherer'.items = gatherer.items /\ gatherer'.began = gatherer.began /\ gatherer'.garbled = gatherer.garbled
        /\ GathererShape(gatherer')
    BY <2>1 DEF GathererRuns, GathererShape
  <2>3. gatherer.began \subseteq ToSet(gatherer.items) /\ ToSet(GathererItems) \subseteq gatherer.began
    BY <2>1 DEF GathererInv, FetchIsWhole, GathererRuns
  <2>4. GathererRuns'
    BY <1>1, <2>1, <2>2 DEF GathererRuns
  <2>5. FetchIsWhole'
    BY <2>1, <2>2, <2>3 DEF FetchIsWhole
  <2> QED BY <1>1, <2>4, <2>5 DEF GathererInv
<1>4. CASE GathererKilled
  <2>1. /\ GathererRuns /\ gatherer' = [gatherer EXCEPT !.pc = "killed"]
        /\ file' = IF file.state = "writing" THEN [file EXCEPT !.state = "cut"] ELSE file
    BY <1>4 DEF GathererKilled, GathererInv
  <2>2. /\ gatherer'.pc = "killed" /\ gatherer'.what = gatherer.what /\ gatherer'.page = gatherer.page
        /\ gatherer'.items = gatherer.items /\ gatherer'.began = gatherer.began /\ GathererShape(gatherer')
    BY <2>1 DEF GathererRuns, GathererShape
  <2>3. GathererRuns'
    BY <1>1, <2>1, <2>2 DEF GathererRuns
  <2>4. file'.state = "closed" => file' = file
    <3>1. CASE file.state = "writing"
      BY <2>1, <3>1
    <3>2. CASE file.state # "writing"
      BY <2>1, <3>2
    <3> QED BY <3>1, <3>2
  <2>5. FetchIsWhole'
    BY <2>2, <2>4 DEF FetchIsWhole, GathererInv
  <2> QED BY <1>1, <2>3, <2>5 DEF GathererInv
<1>5. CASE NextFetch
  BY <1>1, <1>5 DEF NextFetch, GathererInv, FetchIsWhole
<1> QED BY <1>2, <1>3, <1>4, <1>5

LEMMA GathererStarts == ASSUME FetcherInit  PROVE GathererInv
<1>1. listing = GathererItems /\ ending \in Endings /\ file.state = "none" /\ gatherer.pc = "rest"
  BY DEF FetcherInit, NoFile
<1>2. GathererItems \in Seq(Listable)
  <2>1. GathererItems \in Seq(ToSet(GathererItems)) /\ ToSet(GathererItems) \subseteq Listable
    BY FetcherAssumption DEF Listable
  <2> HIDE DEF Listable
  <2> QED BY <2>1 DEF ToSet
<1> QED BY <1>1, <1>2 DEF GathererInv, FetchIsWhole

LEMMA GathererKeeps == ASSUME GathererInv, GathererNext \/ UNCHANGED GathererVars  PROVE GathererInv'
<1>1. CASE UNCHANGED GathererVars
  BY <1>1 DEF GathererVars, GathererInv, GathererRuns, FetchIsWhole, Passed
<1> QED BY <1>1, StartFetchKeeps, GetPageKeeps, ListingGrowsKeeps, FileKeeps DEF GathererNext

-----------------------------------------------------------------------------
(* The finder of missing cards.  The queries before the current one are    *)
(* accounted for, each with its own names, and the pages of the current    *)
(* one that were read are in what was found.                               *)

FinderShape(f) ==
  f = [pc |-> f.pc, n |-> f.n, local |-> f.local, page |-> f.page, found |-> f.found, missing |-> f.missing,
       total_missing |-> f.total_missing, total_imported |-> f.total_imported, failed |-> f.failed,
       refused |-> f.refused, skipped |-> f.skipped, cut |-> f.cut]

Accounted(q, f, cards) == q \in f.skipped \cup f.cut \/ Matching(q) \subseteq cards \cup f.refused \cup f.failed
Records(g, f) ==
  f.skipped \subseteq g.skipped /\ f.cut \subseteq g.cut /\ f.refused \subseteq g.refused /\ f.failed \subseteq g.failed

FinderInv ==
  /\ FinderShape(finder) /\ finder.n \in Nat \ {0}
  /\ finder.pc \in {"local", "scryfall", "import"} => finder.n \in DOMAIN FinderQueries
  /\ finder.pc = "done" => finder.n = Len(FinderQueries) + 1
  /\ \A i \in DOMAIN FinderQueries : i < finder.n => Accounted(FinderQueries[i], finder, names)
  /\ finder.pc = "local" => finder.page = 1
  /\ finder.pc = "scryfall" =>
       /\ finder.local \subseteq names /\ finder.page \in DOMAIN ScryfallPages[TheQuery]
       /\ \A i \in DOMAIN ScryfallPages[TheQuery] : i < finder.page => ScryfallPages[TheQuery][i] \subseteq finder.found
  /\ finder.pc = "import" => Accounted(TheQuery, finder, names \cup finder.missing)

LEMMA AccountedStays ==
  ASSUME NEW q, NEW f, NEW g, NEW c, NEW d, Accounted(q, f, c), Records(g, f), c \subseteq d
  PROVE  Accounted(q, g, d)
BY Zenon DEF Accounted, Records

LEMMA NextQueryKeeps ==
  ASSUME FinderInv, finder.pc \in {"local", "import"}, names' = names,
         NEW f, FinderShape(f), f.n = finder.n, Records(f, finder), Accounted(TheQuery, f, names),
         finder' = NextQuery(f)
  PROVE  FinderInv'
<1>1. /\ finder'.pc = (IF f.n = Len(FinderQueries) THEN "done" ELSE "local") /\ finder'.n = f.n + 1
      /\ finder'.page = 1 /\ FinderShape(finder')
      /\ finder'.skipped = f.skipped /\ finder'.cut = f.cut /\ finder'.refused = f.refused /\ finder'.failed = f.failed
  BY DEF NextQuery, FinderShape
<1>2. Len(FinderQueries) \in Nat /\ DOMAIN FinderQueries = 1 .. Len(FinderQueries)
  BY FetcherAssumption
<1>3. finder.n \in 1 .. Len(FinderQueries)
  BY <1>2 DEF FinderInv
<1>4. Records(finder', finder) /\ Records(finder', f)
  BY <1>1 DEF Records
<1>5. ASSUME NEW i \in DOMAIN FinderQueries, i < finder'.n  PROVE Accounted(FinderQueries[i], finder', names')
  <2>1. CASE i < finder.n
    <3>1. Accounted(FinderQueries[i], finder, names)
      BY <2>1 DEF FinderInv
    <3> QED BY <1>4, <3>1, AccountedStays
  <2>2. CASE i = finder.n
    BY <1>4, <2>2, AccountedStays DEF TheQuery
  <2> QED BY <1>1, <1>2, <1>3, <1>5, <2>1, <2>2
<1>6. finder'.pc = "local" => finder'.n \in DOMAIN FinderQueries
  BY <1>1, <1>2, <1>3
<1>7. finder'.pc = "done" => finder'.n = Len(FinderQueries) + 1
  BY <1>1, <1>2, <1>3
<1>8. finder'.n \in Nat \ {0} /\ finder'.pc \in {"local", "done"}
  BY <1>1, <1>2, <1>3
<1> QED BY <1>1, <1>5, <1>6, <1>7, <1>8 DEF FinderInv

(* A step that stays with its query, and records no less.                  *)
LEMMA SameQuery ==
  ASSUME FinderInv, names \subseteq names', finder'.n = finder.n, Records(finder', finder)
  PROVE  \A i \in DOMAIN FinderQueries : i < finder'.n => Accounted(FinderQueries[i], finder', names')
<1> SUFFICES ASSUME NEW i \in DOMAIN FinderQueries, i < finder.n  PROVE Accounted(FinderQueries[i], finder', names')
  OBVIOUS
<1>1. Accounted(FinderQueries[i], finder, names)
  BY DEF FinderInv
<1> QED BY <1>1, AccountedStays

LEMMA PagesOf ==
  ASSUME FinderInv, finder.pc \in {"local", "scryfall", "import"}
  PROVE  /\ TheQuery \in DOMAIN ScryfallPages /\ Len(ScryfallPages[TheQuery]) \in Nat
         /\ DOMAIN ScryfallPages[TheQuery] = 1 .. Len(ScryfallPages[TheQuery])
<1>1. finder.n \in DOMAIN FinderQueries
  BY DEF FinderInv
<1>2. TheQuery \in DOMAIN ScryfallPages
  BY <1>1, FetcherAssumption DEF TheQuery
<1>3. ScryfallPages[TheQuery] \in Seq(ToSet(ScryfallPages[TheQuery]))
  BY <1>2, FetcherAssumption
<1> QED BY <1>2, <1>3

LEMMA SearchLocalKeeps == ASSUME FinderInv, SearchLocalDatabase  PROVE FinderInv'
<1>1. /\ finder.pc = "local" /\ names' = names /\ FinderShape(finder) /\ finder.page = 1
      /\ finder.n \in DOMAIN FinderQueries /\ finder.n \in Nat \ {0}
  BY DEF SearchLocalDatabase, FinderInv
<1>2. PICK local \in LocalAnswers(TheQuery) \cup {{}} :
        finder' = IF local = {} THEN NextQuery([finder EXCEPT !.skipped = @ \cup {TheQuery}])
                  ELSE [finder EXCEPT !.pc = "scryfall", !.local = local]
  BY DEF SearchLocalDatabase
<1>3. CASE local = {}
  <2> DEFINE f == [finder EXCEPT !.skipped = @ \cup {TheQuery}]
  <2>1. /\ FinderShape(f) /\ f.n = finder.n /\ f.skipped = finder.skipped \cup {TheQuery} /\ f.cut = finder.cut
        /\ f.refused = finder.refused /\ f.failed = finder.failed
    BY <1>1 DEF FinderShape
  <2>2. finder' = NextQuery(f)
    BY <1>2, <1>3
  <2> HIDE DEF f
  <2>3. Records(f, finder) /\ Accounted(TheQuery, f, names)
    BY <2>1 DEF Records, Accounted
  <2> QED BY <1>1, <2>1, <2>2, <2>3, NextQueryKeeps
<1>4. CASE local # {}
  <2>1. /\ finder'.pc = "scryfall" /\ finder'.local = local /\ finder'.n = finder.n /\ finder'.page = 1
        /\ FinderShape(finder') /\ finder'.skipped = finder.skipped /\ finder'.cut = finder.cut
        /\ finder'.refused = finder.refused /\ finder'.failed = finder.failed
    BY <1>1, <1>2, <1>4 DEF FinderShape
  <2>2. local \subseteq names /\ local \subseteq Matching(TheQuery)
    BY <1>2, <1>4 DEF LocalAnswers
  <2>3. TheQuery' = TheQuery
    BY <2>1 DEF TheQuery
  <2>4. \E i \in DOMAIN ScryfallPages[TheQuery] : TRUE
    BY <1>4, <2>2 DEF Matching
  <2>5. 1 \in DOMAIN ScryfallPages[TheQuery]
    BY <1>1, <2>4, PagesOf
  <2>6. \A i \in DOMAIN ScryfallPages[TheQuery] : ~(i < 1)
    BY <1>1, PagesOf
  <2>7. Records(finder', finder)
    BY <2>1 DEF Records
  <2>8. \A i \in DOMAIN FinderQueries : i < finder'.n => Accounted(FinderQueries[i], finder', names')
    BY <1>1, <2>1, <2>7, SameQuery
  <2> QED BY <1>1, <2>1, <2>2, <2>3, <2>5, <2>6, <2>8 DEF FinderInv
<1> QED BY <1>3, <1>4

(* The search is over, with every name or with a record that it was cut.   *)
LEMMA CompareKeeps ==
  ASSUME FinderInv, finder.pc = "scryfall", names' = names,
         NEW f, FinderShape(f), f.n = finder.n, f.local = finder.local, Records(f, finder),
         NEW found, finder' = Compare(f, found),
         TheQuery \in f.cut \/ Matching(TheQuery) \subseteq found
  PROVE  FinderInv'
<1>1. /\ finder'.pc = "import" /\ finder'.n = finder.n /\ finder'.missing = found \ f.local /\ FinderShape(finder')
      /\ finder'.skipped = f.skipped /\ finder'.cut = f.cut /\ finder'.refused = f.refused /\ finder'.failed = f.failed
  BY DEF Compare, FinderShape
<1>2. TheQuery' = TheQuery
  BY <1>1 DEF TheQuery
<1>3. finder.local \subseteq names /\ finder.n \in DOMAIN FinderQueries /\ finder.n \in Nat \ {0}
  BY DEF FinderInv
<1>4. Accounted(TheQuery, finder', names \cup finder'.missing)
  BY <1>1, <1>3 DEF Accounted
<1>5. Records(finder', finder)
  BY <1>1 DEF Records
<1>6. \A i \in DOMAIN FinderQueries : i < finder'.n => Accounted(FinderQueries[i], finder', names')
  BY <1>1, <1>5, SameQuery
<1> QED BY <1>1, <1>2, <1>3, <1>4, <1>6 DEF FinderInv

LEMMA SearchScryfallKeeps == ASSUME FinderInv, SearchScryfall  PROVE FinderInv'
<1> DEFINE answers == ScryfallPages[TheQuery]
           found == Collected(finder.found, answers[finder.page])
<1>1. /\ finder.pc = "scryfall" /\ names' = names /\ FinderShape(finder) /\ finder.page \in DOMAIN answers
      /\ finder.local \subseteq names /\ finder.n \in DOMAIN FinderQueries /\ finder.n \in Nat \ {0}
      /\ \A i \in DOMAIN answers : i < finder.page => answers[i] \subseteq finder.found
  BY DEF SearchScryfall, FinderInv
<1>2. Len(answers) \in Nat /\ DOMAIN answers = 1 .. Len(answers)
  BY <1>1, PagesOf
<1>3. \A i \in DOMAIN answers : i < finder.page + 1 => answers[i] \subseteq found
  <2> SUFFICES ASSUME NEW i \in DOMAIN answers, i < finder.page + 1  PROVE answers[i] \subseteq found
    OBVIOUS
  <2>1. i < finder.page \/ i = finder.page
    BY <1>1, <1>2
  <2> QED BY <1>1, <2>1 DEF Collected
<1>4. CASE finder' = Compare(finder, found) /\ finder.page = Len(answers)
  <2>1. \A i \in DOMAIN answers : answers[i] \subseteq found
    <3>1. \A i \in DOMAIN answers : i < finder.page + 1
      BY <1>2, <1>4
    <3> QED BY <1>3, <3>1
  <2>2. Matching(TheQuery) \subseteq found
    BY <2>1 DEF Matching
  <2>3. Records(finder, finder)
    BY DEF Records
  <2> HIDE DEF found
  <2> QED BY <1>1, <1>4, <2>2, <2>3, CompareKeeps
<1>5. CASE finder' = [finder EXCEPT !.page = @ + 1, !.found = found] /\ finder.page # Len(answers)
  <2> HIDE DEF found
  <2>1. /\ finder'.pc = "scryfall" /\ finder'.n = finder.n /\ finder'.page = finder.page + 1 /\ finder'.found = found
        /\ finder'.local = finder.local /\ FinderShape(finder') /\ finder'.skipped = finder.skipped
        /\ finder'.cut = finder.cut /\ finder'.refused = finder.refused /\ finder'.failed = finder.failed
    BY <1>1, <1>5 DEF FinderShape
  <2>2. TheQuery' = TheQuery
    BY <2>1 DEF TheQuery
  <2>3. finder.page + 1 \in DOMAIN answers
    BY <1>1, <1>2, <1>5
  <2>4. Records(finder', finder)
    BY <2>1 DEF Records
  <2>5. \A i \in DOMAIN FinderQueries : i < finder'.n => Accounted(FinderQueries[i], finder', names')
    BY <1>1, <2>1, <2>4, SameQuery
  <2> QED BY <1>1, <1>3, <2>1, <2>2, <2>3, <2>5 DEF FinderInv
<1>6. CASE finder' = Compare([finder EXCEPT !.cut = @ \cup {TheQuery}], finder.found)
  <2> DEFINE f == [finder EXCEPT !.cut = @ \cup {TheQuery}]
  <2>1. /\ FinderShape(f) /\ f.n = finder.n /\ f.local = finder.local /\ f.skipped = finder.skipped
        /\ f.cut = finder.cut \cup {TheQuery} /\ f.refused = finder.refused /\ f.failed = finder.failed
    BY <1>1 DEF FinderShape
  <2> HIDE DEF f
  <2>2. Records(f, finder) /\ TheQuery \in f.cut
    BY <2>1 DEF Records
  <2>3. finder' = Compare(f, finder.found)
    BY <1>6 DEF f
  <2> QED BY <1>1, <2>1, <2>2, <2>3, CompareKeeps
<1>7. ASSUME NEW to \in {"broken", "died"}, finder' = [finder EXCEPT !.pc = to]  PROVE FinderInv'
  <2>1. /\ finder'.pc = to /\ finder'.n = finder.n /\ FinderShape(finder') /\ finder'.skipped = finder.skipped
        /\ finder'.cut = finder.cut /\ finder'.refused = finder.refused /\ finder'.failed = finder.failed
    BY <1>1, <1>7 DEF FinderShape
  <2>2. Records(finder', finder)
    BY <2>1 DEF Records
  <2>3. \A i \in DOMAIN FinderQueries : i < finder'.n => Accounted(FinderQueries[i], finder', names')
    BY <1>1, <2>1, <2>2, SameQuery
  <2> QED BY <1>1, <2>1, <2>3 DEF FinderInv
<1> QED BY <1>4, <1>5, <1>6, <1>7 DEF SearchScryfall

(* One import: the card is in the database, refused or failed.             *)
LEMMA ImportKeeps ==
  ASSUME FinderInv, finder.pc = "import", names \subseteq names', FinderShape(finder'), finder'.pc = "import",
         finder'.n = finder.n, Records(finder', finder),
         NEW card, finder'.missing = finder.missing \ {card}, card \in names' \cup finder'.refused \cup finder'.failed
  PROVE  FinderInv'
<1>1. TheQuery' = TheQuery
  BY DEF TheQuery
<1>2. Accounted(TheQuery, finder, names \cup finder.missing)
  BY DEF FinderInv
<1>3. Accounted(TheQuery, finder', names' \cup finder'.missing)
  BY <1>2 DEF Accounted, Records
<1>4. \A i \in DOMAIN FinderQueries : i < finder'.n => Accounted(FinderQueries[i], finder', names')
  BY SameQuery
<1> QED BY <1>1, <1>3, <1>4 DEF FinderInv

LEMMA ImportMissingCardKeeps == ASSUME FinderInv, ImportMissingCard  PROVE FinderInv'
<1>1. finder.pc = "import" /\ FinderShape(finder) /\ Accounted(TheQuery, finder, names \cup finder.missing)
  BY DEF ImportMissingCard, FinderInv
<1>2. CASE finder.missing = {} /\ finder' = NextQuery(finder) /\ UNCHANGED names
  <2>1. Records(finder, finder) /\ names \cup finder.missing = names
    BY <1>2 DEF Records
  <2> QED BY <1>1, <1>2, <2>1, NextQueryKeeps
<1>3. ASSUME NEW card \in finder.missing,
             finder' = [finder EXCEPT !.missing = @ \ {card}, !.total_imported = @ + 1], names' = names \cup {card}
      PROVE  FinderInv'
  <2>1. /\ finder'.pc = "import" /\ finder'.n = finder.n /\ FinderShape(finder') /\ finder'.missing = finder.missing \ {card}
        /\ finder'.skipped = finder.skipped /\ finder'.cut = finder.cut /\ finder'.refused = finder.refused
        /\ finder'.failed = finder.failed
    BY <1>1, <1>3 DEF FinderShape
  <2>2. Records(finder', finder)
    BY <2>1 DEF Records
  <2> QED BY <1>1, <1>3, <2>1, <2>2, ImportKeeps
<1>4. ASSUME NEW card \in finder.missing, UNCHANGED names,
             finder' = [finder EXCEPT !.missing = @ \ {card}, !.total_imported = @ + 1, !.refused = @ \cup {card}]
      PROVE  FinderInv'
  <2>1. /\ finder'.pc = "import" /\ finder'.n = finder.n /\ FinderShape(finder') /\ finder'.missing = finder.missing \ {card}
        /\ finder'.skipped = finder.skipped /\ finder'.cut = finder.cut /\ finder'.refused = finder.refused \cup {card}
        /\ finder'.failed = finder.failed
    BY <1>1, <1>4 DEF FinderShape
  <2>2. Records(finder', finder)
    BY <2>1 DEF Records
  <2> QED BY <1>1, <1>4, <2>1, <2>2, ImportKeeps
<1>5. ASSUME NEW card \in finder.missing, UNCHANGED names,
             finder' = [finder EXCEPT !.missing = @ \ {card}, !.failed = @ \cup {card}]
      PROVE  FinderInv'
  <2>1. /\ finder'.pc = "import" /\ finder'.n = finder.n /\ FinderShape(finder') /\ finder'.missing = finder.missing \ {card}
        /\ finder'.skipped = finder.skipped /\ finder'.cut = finder.cut /\ finder'.refused = finder.refused
        /\ finder'.failed = finder.failed \cup {card}
    BY <1>1, <1>5 DEF FinderShape
  <2>2. Records(finder', finder)
    BY <2>1 DEF Records
  <2> QED BY <1>1, <1>5, <2>1, <2>2, ImportKeeps
<1> QED BY <1>2, <1>3, <1>4, <1>5 DEF ImportMissingCard

LEMMA FinderStarts == ASSUME FetcherInit  PROVE FinderInv
<1>1. finder.pc = "local" /\ finder.n = 1 /\ finder.page = 1 /\ FinderShape(finder)
  BY DEF FetcherInit, FinderShape
<1>2. 1 \in DOMAIN FinderQueries /\ \A i \in DOMAIN FinderQueries : ~(i < 1)
  BY FetcherAssumption
<1> QED BY <1>1, <1>2 DEF FinderInv

LEMMA FinderKeeps == ASSUME FinderInv, FinderNext \/ UNCHANGED FinderVars  PROVE FinderInv'
<1>1. CASE UNCHANGED FinderVars
  BY <1>1 DEF FinderVars, FinderInv, TheQuery
<1> QED BY <1>1, SearchLocalKeeps, SearchScryfallKeeps, ImportMissingCardKeeps DEF FinderNext

(* A run to the end has accounted for every query.                         *)
LEMMA AllAccounted == ASSUME FinderInv  PROVE MissingCardsFound
<1> SUFFICES ASSUME finder.pc = "done", NEW i \in DOMAIN FinderQueries
             PROVE  Accounted(FinderQueries[i], finder, names)
  BY DEF MissingCardsFound, Accounted
<1>1. i < finder.n
  BY FetcherAssumption DEF FinderInv
<1> QED BY <1>1 DEF FinderInv

-----------------------------------------------------------------------------
(* No tool that reports its end has left behind what it listed: for every  *)
(* database and bucket of the image copier, whenever it is killed and run  *)
(* again; for every listing of Gatherer and size of its pages, though it   *)
(* grows while it is read; and for all queries and pages of Scryfall.      *)
THEOREM ToolsLeaveNothingBehind == Spec => ToolsLeaveNothing
<1>1. Init => ImageInv /\ GathererInv /\ FinderInv
  BY ImageStarts, GathererStarts, FinderStarts DEF Init
<1>2. ASSUME [Next]_vars  PROVE /\ ImageNext \/ UNCHANGED ImageVars
                                /\ GathererNext \/ UNCHANGED GathererVars
                                /\ FinderNext \/ UNCHANGED FinderVars
  <2>1. CASE tool = "gatherer" /\ GathererNext /\ UNCHANGED <<tool, ImageVars, RunnerVars, CiVars, SketchVars>>
    BY <2>1 DEF GathererNext, StartFetch, GetPage, ListingGrows, OpenFile, DumpCards, GathererKilled, NextFetch
  <2>2. CASE tool = "finder" /\ FinderNext /\ UNCHANGED <<tool, ImageVars, RunnerVars, CiVars, SketchVars>>
    BY <2>2 DEF FinderNext, SearchLocalDatabase, SearchScryfall, ImportMissingCard
  <2>3. CASE ~Fetching
    BY <1>2, <2>3 DEF Next, vars, Images, Load, Monitoring, Sketching, FetcherVars
  <2> QED BY <2>1, <2>2, <2>3 DEF Fetching
<1>3. ImageInv /\ [Next]_vars => ImageInv'
  BY <1>2, ImageKeeps
<1>4. GathererInv /\ FinderInv /\ [Next]_vars => GathererInv' /\ FinderInv'
  BY <1>2, GathererKeeps, FinderKeeps
<1>5. GathererInv /\ FinderInv => FetchersLeaveNothing
  BY AllAccounted DEF GathererInv, FetchersLeaveNothing
<1>6. Spec => []FetchersLeaveNothing
  BY <1>1, <1>4, <1>5, PTL DEF Spec
<1>7. Spec => [][RunLeavesNothing]_ImageVars
  BY <1>1, <1>3, CountedIsWhole, PTL DEF Spec
<1> QED BY <1>6, <1>7, PTL DEF ToolsLeaveNothing, NothingLeftBehind, RunLeavesNothing


================================================================================
