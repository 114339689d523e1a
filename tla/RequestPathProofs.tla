------------------------- MODULE RequestPathProofs -------------------------
(***************************************************************************)
(* What the three invariants of RequestPath rest on, for every number of   *)
(* workers, every queue and batch size and every set of scenarios.         *)
(***************************************************************************)
EXTENDS RequestPath, FiniteSetTheorems, TLAPS

Busy == {"handle", "compress", "store", "respond"}

(* The server's own state.  A worker has the id of a request exactly while *)
(* it works on one, two workers never the same, and none that is answered. *)
ServerShape ==
  /\ setting \in Scenarios
  /\ world \in [cards : 0 .. MaxCards, loaded : BOOLEAN, works : {setting.works}]
  /\ DOMAIN worker = Workers /\ DOMAIN cache = Caches
  /\ \A w \in Workers :
       /\ DOMAIN worker[w] = {"at", "req", "resp", "hit", "id"}
       /\ worker[w].at \in Busy \cup {"free", "dead"}
       /\ worker[w].id \in Ids \cup {0}
       /\ worker[w].hit \in BOOLEAN
       /\ worker[w].at \in Busy => worker[w].req \in setting.script
  /\ answered \in [Ids -> {"no", "yes", "logged"}]

OneId ==
  \A w \in Workers :
    /\ worker[w].at \in Busy <=> worker[w].id # 0
    /\ worker[w].at \in Busy => answered[worker[w].id] = "no"
    /\ \A v \in Workers : v # w /\ worker[v].at \in Busy => worker[v].id # worker[w].id

-----------------------------------------------------------------------------
(* The log.  Held is what a worker has in memory for it.                   *)
IsSeq(q) == q \in Seq({q[i] : i \in DOMAIN q})
Distinct(q) == \A i, j \in DOMAIN q : q[i].id = q[j].id => i = j
Queued(w) == IdsOf(queue[w])
Batch(w) == IdsOf(writer[w].pending)
Held(w) == Queued(w) \cup Batch(w)

LogShape ==
  /\ DOMAIN queue = Workers /\ DOMAIN writer = Workers
  /\ \A w \in Workers :
       /\ DOMAIN writer[w] = {"conn", "pending", "runs"}
       /\ IsSeq(queue[w]) /\ IsSeq(writer[w].pending)
       /\ Held(w) \subseteq Ids
  /\ rows \in [Ids -> 0 .. Several]
  /\ lost \subseteq Ids /\ unacked \subseteq Ids

Bounded == \A w \in Workers : Len(queue[w]) <= QueueSize /\ Len(writer[w].pending) < FlushEvery

(* An entry is in one place.                                               *)
OnePlace ==
  \A w \in Workers :
    /\ Distinct(queue[w]) /\ Queued(w) \cap Batch(w) = {}
    /\ \A v \in Workers : v # w => Held(v) \cap Held(w) = {}

(* What is held or in the table is answered, and an entry that is held     *)
(* although it has a row was committed unacknowledged.                     *)
OnRecord ==
  /\ \A w \in Workers : \A i \in Held(w) : answered[i] = "logged" /\ (rows[i] > 0 => i \in unacked)
  /\ \A i \in Ids : rows[i] > 0 => answered[i] = "logged"

LogInv ==
  /\ ServerShape /\ OneId
  /\ LogShape /\ Bounded /\ OnePlace /\ OnRecord
  /\ EverySearchAccountedFor /\ DuplicateOnlyUnacknowledged

-----------------------------------------------------------------------------
(* Responses.  Answers: what the handlers and the compression give to the  *)
(* request on cards of now or earlier.                                     *)
WorldOf(cards, loaded) == [cards |-> cards, loaded |-> loaded, works |-> setting.works]
Handled(req, resp) ==
  \E cards \in 0 .. world.cards, loaded \in BOOLEAN : resp = Handle(req, WorldOf(cards, loaded))
Answers(req, resp) ==
  \E cards \in 0 .. world.cards, loaded \in BOOLEAN : resp = Compress(req, Handle(req, WorldOf(cards, loaded)))
Replayable(resp) == resp.status < 500 /\ resp.control # "no-store"

CacheInv ==
  /\ \A c \in Caches : \A k \in DOMAIN cache[c] :
       Replayable(cache[c][k]) /\ \E req \in setting.script : CacheKey(req) = k /\ Answers(req, cache[c][k])
  /\ \A w \in Workers :
       /\ worker[w].hit => /\ worker[w].at = "respond"
                           /\ Replayable(worker[w].resp) /\ Answers(worker[w].req, worker[w].resp)
       /\ worker[w].at = "compress" => Handled(worker[w].req, worker[w].resp)
       /\ worker[w].at = "store" => Replayable(worker[w].resp) /\ Answers(worker[w].req, worker[w].resp)

-----------------------------------------------------------------------------
(* Sequences of entries                                                    *)

(* IsSeq is membership in Seq of any set.                                  *)
LEMMA SeqFacts == ASSUME NEW S, NEW q \in Seq(S)  PROVE IsSeq(q) /\ Len(q) \in Nat /\ DOMAIN q = 1 .. Len(q)
<1>1. Len(q) \in Nat /\ DOMAIN q = 1 .. Len(q)
  OBVIOUS
<1>2. q = [i \in 1 .. Len(q) |-> q[i]]
  OBVIOUS
<1>3. \A i \in 1 .. Len(q) : q[i] \in {q[j] : j \in DOMAIN q}
  BY <1>1
<1>4. q \in [1 .. Len(q) -> {q[j] : j \in DOMAIN q}]
  BY <1>2, <1>3
<1>5. IsSeq(q)
  BY <1>1, <1>4 DEF IsSeq
<1> QED  BY <1>1, <1>5

LEMMA SeqShape == ASSUME NEW q, IsSeq(q)  PROVE Len(q) \in Nat /\ DOMAIN q = 1 .. Len(q)
BY SeqFacts DEF IsSeq

LEMMA SeqEmpty == IsSeq(<<>>) /\ Len(<<>>) = 0 /\ IdsOf(<<>>) = {} /\ Distinct(<<>>)
<1>1. <<>> \in Seq({})
  OBVIOUS
<1>2. IsSeq(<<>>) /\ Len(<<>>) = 0
  BY <1>1, SeqFacts
<1>3. DOMAIN <<>> = {}
  OBVIOUS
<1>4. IdsOf(<<>>) = {} /\ Distinct(<<>>)
  BY <1>3 DEF IdsOf, Distinct
<1> QED  BY <1>2, <1>4

(* Queue.put and pending.append                                            *)
LEMMA SeqAppend ==
  ASSUME NEW q, IsSeq(q), NEW e
  PROVE  /\ IsSeq(Append(q, e)) /\ Len(Append(q, e)) = Len(q) + 1 /\ Append(q, e) # <<>>
         /\ IdsOf(Append(q, e)) = IdsOf(q) \cup {e.id}
         /\ Distinct(q) /\ e.id \notin IdsOf(q) => Distinct(Append(q, e))
<1> DEFINE S == {q[i] : i \in DOMAIN q} \cup {e}
           a == Append(q, e)
<1>1. q \in Seq(S) /\ e \in S
  <2>1. q \in Seq({q[i] : i \in DOMAIN q})
    BY DEF IsSeq
  <2> QED  BY <2>1
<1> HIDE DEF S
<1>2. a \in Seq(S) /\ Len(a) = Len(q) + 1 /\ a # <<>>
  <2>1. a \in Seq(S) /\ Len(a) = Len(q) + 1 /\ Len(q) \in Nat
    BY <1>1
  <2>2. a # <<>>
    BY <2>1
  <2> QED  BY <2>1, <2>2
<1>3. IsSeq(a) /\ DOMAIN a = 1 .. Len(q) + 1 /\ Len(q) \in Nat /\ DOMAIN q = 1 .. Len(q)
  BY <1>1, <1>2, SeqFacts
<1>4. \A i \in DOMAIN q : a[i] = q[i]
  BY <1>1, <1>3
<1>5. a[Len(q) + 1] = e
  BY <1>1
<1> HIDE DEF a
<1>6. IdsOf(a) = IdsOf(q) \cup {e.id}
  BY <1>3, <1>4, <1>5 DEF IdsOf
<1>7. ASSUME Distinct(q), e.id \notin IdsOf(q)  PROVE Distinct(a)
  <2> SUFFICES ASSUME NEW i \in DOMAIN a, NEW j \in DOMAIN a, a[i].id = a[j].id  PROVE i = j
    BY DEF Distinct
  <2>1. CASE i \in DOMAIN q /\ j \in DOMAIN q
    BY <2>1, <1>4, <1>7 DEF Distinct
  <2>2. CASE i \notin DOMAIN q \/ j \notin DOMAIN q
    BY <2>2, <1>3, <1>4, <1>5, <1>7 DEF IdsOf
  <2> QED  BY <2>1, <2>2
<1> QED  BY <1>2, <1>3, <1>6, <1>7 DEF a

(* Queue.get                                                               *)
LEMMA SeqTail ==
  ASSUME NEW q, IsSeq(q), q # <<>>
  PROVE  /\ IsSeq(Tail(q)) /\ Len(Tail(q)) = Len(q) - 1
         /\ IdsOf(q) = IdsOf(Tail(q)) \cup {Head(q).id}
         /\ Distinct(q) => Distinct(Tail(q)) /\ Head(q).id \notin IdsOf(Tail(q))
<1> DEFINE S == {q[i] : i \in DOMAIN q}
           t == Tail(q)
<1>1. q \in Seq(S)
  BY DEF IsSeq
<1> HIDE DEF S
<1>2. t \in Seq(S) /\ Len(t) = Len(q) - 1 /\ Len(q) > 0 /\ Head(q) = q[1]
  BY <1>1
<1>3. IsSeq(t) /\ DOMAIN t = 1 .. Len(q) - 1 /\ Len(q) \in Nat /\ DOMAIN q = 1 .. Len(q)
  BY <1>1, <1>2, SeqFacts
<1>4. \A i \in DOMAIN t : t[i] = q[i + 1] /\ i + 1 \in DOMAIN q
  BY <1>1, <1>2, <1>3
<1> HIDE DEF t
<1>5. IdsOf(q) = IdsOf(t) \cup {q[1].id}
  <2>1. ASSUME NEW x \in IdsOf(q)  PROVE x \in IdsOf(t) \cup {q[1].id}
    <3>1. PICK i \in DOMAIN q : x = q[i].id
      BY <2>1 DEF IdsOf
    <3>2. CASE i = 1
      BY <3>1, <3>2
    <3>3. CASE i # 1
      <4>1. i - 1 \in DOMAIN t /\ (i - 1) + 1 = i
        BY <3>3, <1>3
      <4> QED  BY <4>1, <3>1, <1>4 DEF IdsOf
    <3> QED  BY <3>2, <3>3
  <2>2. IdsOf(t) \subseteq IdsOf(q)
    BY <1>4 DEF IdsOf
  <2>3. q[1].id \in IdsOf(q)
    BY <1>2, <1>3 DEF IdsOf
  <2> QED  BY <2>1, <2>2, <2>3
<1>6. ASSUME Distinct(q)  PROVE Distinct(t) /\ q[1].id \notin IdsOf(t)
  <2>1. ASSUME NEW i \in DOMAIN t, NEW j \in DOMAIN t, t[i].id = t[j].id  PROVE i = j
    <3>1. i + 1 = j + 1
      BY <2>1, <1>4, <1>6 DEF Distinct
    <3> QED  BY <3>1, <1>3
  <2>2. ASSUME NEW i \in DOMAIN t, t[i].id = q[1].id  PROVE FALSE
    <3>1. i + 1 = 1
      BY <2>2, <1>2, <1>3, <1>4, <1>6 DEF Distinct
    <3> QED  BY <3>1, <1>3
  <2> QED  BY <2>1, <2>2 DEF Distinct, IdsOf
<1> QED  BY <1>2, <1>3, <1>5, <1>6 DEF t

-----------------------------------------------------------------------------
(* How a flush can end: it raises and keeps the batch, or empties it.      *)
LEMMA FlushEnds ==
  ASSUME NEW conn, NEW pending, NEW f \in Flush(conn, pending)
  PROVE  /\ f.raises \in BOOLEAN /\ f.written \in BOOLEAN
         /\ f.raises => f.pending = pending
         /\ ~ f.raises => f.pending = <<>>
         /\ pending = <<>> => ~ f.raises /\ ~ f.written
<1>1. ASSUME NEW c, NEW p, NEW raises \in BOOLEAN, NEW written \in BOOLEAN, f = Flushed(c, p, raises, written)
      PROVE  f.pending = p /\ f.raises = raises /\ f.written = written
  BY <1>1 DEF Flushed
<1>2. CASE pending = <<>>
  <2>1. f = Flushed(conn, pending, FALSE, FALSE)
    BY <1>2 DEF Flush
  <2> QED  BY <1>1, <1>2, <2>1
<1>3. CASE pending # <<>>
  <2>1. \/ f = Flushed("open", <<>>, FALSE, TRUE)
        \/ f = Flushed("none", <<>>, FALSE, FALSE)
        \/ f = Flushed("none", pending, TRUE, TRUE)
        \/ \E c \in {"none", "aborted", conn} : f = Flushed(c, pending, TRUE, FALSE)
    BY <1>3, Zenon DEF Flush
  <2> QED  BY <1>1, <1>3, <2>1
<1> QED  BY <1>2, <1>3

(* A writer's step as the rest of the model sees it: what it lets go of is *)
(* in the table or lost, and what it keeps although it has a row was       *)
(* committed unacknowledged.                                               *)
LogMove(w) ==
  /\ DOMAIN queue' = Workers /\ DOMAIN writer' = Workers
  /\ \A v \in Workers \ {w} : queue'[v] = queue[v] /\ writer'[v] = writer[v]
  /\ DOMAIN writer'[w] = {"conn", "pending", "runs"}
  /\ IsSeq(queue'[w]) /\ IsSeq(writer'[w].pending)
  /\ Len(queue'[w]) <= Len(queue[w]) /\ Len(writer'[w].pending) < FlushEvery
  /\ Distinct(queue'[w]) /\ Queued(w)' \cap Batch(w)' = {}
  /\ Held(w)' \subseteq Held(w)
  /\ lost \subseteq lost' /\ lost' \subseteq Ids /\ unacked \subseteq unacked' /\ unacked' \subseteq Ids
  /\ rows' \in [Ids -> 0 .. Several]
  /\ \A i \in Ids : rows'[i] >= rows[i] /\ (rows'[i] # rows[i] => i \in Held(w))
  /\ \A i \in Ids : rows'[i] > 1 => i \in unacked'
  /\ \A i \in Held(w)' : rows'[i] > 0 => i \in unacked'
  /\ \A i \in Held(w) \ Held(w)' : i \in lost' \/ rows'[i] > 0

(* What Settle does to a batch of entries that this worker holds; an entry *)
(* that leaves the batch is in the table or lost.                          *)
Settled(f, batch) ==
  /\ lost \subseteq lost' /\ lost' \subseteq Ids /\ unacked \subseteq unacked' /\ unacked' \subseteq Ids
  /\ rows' \in [Ids -> 0 .. Several]
  /\ \A i \in Ids : rows'[i] >= rows[i] /\ (rows'[i] # rows[i] => i \in IdsOf(batch))
  /\ \A i \in Ids : rows'[i] > 1 => i \in unacked'
  /\ \A i \in IdsOf(batch) : f.raises /\ rows'[i] > 0 => i \in unacked'
  /\ \A i \in IdsOf(batch) : ~ f.raises => i \in lost' \/ rows'[i] > 0

SettleKeeping(f, batch) == Settle(f, batch, FALSE)
SettleGivingUp(f, batch) == Settle(f, batch, TRUE)

LEMMA SettleMoves ==
  ASSUME LogInv, NEW w \in Workers, NEW batch, IdsOf(batch) \subseteq Held(w),
         NEW f, f.raises \in BOOLEAN, f.written \in BOOLEAN,
         SettleGivingUp(f, batch) \/ SettleKeeping(f, batch)
  PROVE  /\ Settled(f, batch)
         /\ SettleGivingUp(f, batch) => \A i \in IdsOf(batch) : i \in lost' \/ rows'[i] > 0
<1>1. IdsOf(batch) \subseteq Ids
  BY DEF LogInv, LogShape
<1>2. \A i \in IdsOf(batch) : rows[i] > 0 => i \in unacked
  BY DEF LogInv, OnRecord
<1>3. rows \in [Ids -> 0 .. Several] /\ lost \subseteq Ids /\ unacked \subseteq Ids
  BY DEF LogInv, LogShape
<1>4. \A i \in Ids : rows[i] > 1 => i \in unacked
  BY DEF LogInv, DuplicateOnlyUnacknowledged
<1>5. lost \subseteq lost' /\ lost' \subseteq Ids /\ unacked \subseteq unacked' /\ unacked' \subseteq Ids
  BY <1>1, <1>3 DEF Settle, SettleKeeping, SettleGivingUp
<1>6. CASE f.written
  <2>1. rows' = [i \in Ids |-> IF i \in IdsOf(batch) THEN More(rows[i]) ELSE rows[i]]
    BY <1>6 DEF Settle, SettleKeeping, SettleGivingUp
  <2>2. \A n \in 0 .. Several : More(n) \in 1 .. Several /\ More(n) >= n /\ (More(n) > 1 => n > 0)
    BY DEF More, Several
  <2>3. f.raises => unacked' = unacked \cup IdsOf(batch)
    BY <1>6 DEF Settle, SettleKeeping, SettleGivingUp
  <2>4. rows' \in [Ids -> 0 .. Several]
    BY <2>1, <2>2, <1>3 DEF Several
  <2>5. \A i \in Ids : rows'[i] >= rows[i] /\ (rows'[i] # rows[i] => i \in IdsOf(batch))
    BY <2>1, <2>2, <1>3 DEF Several
  <2>6. \A i \in Ids : rows'[i] > 1 => i \in unacked'
    BY <2>1, <2>2, <1>2, <1>3, <1>4, <1>5
  <2>7. \A i \in IdsOf(batch) : rows'[i] > 0
    BY <2>1, <2>2, <1>1, <1>3
  <2> QED  BY <1>5, <2>3, <2>4, <2>5, <2>6, <2>7 DEF Settled
<1>7. CASE ~ f.written
  <2>1. rows' = rows /\ unacked' = unacked
    BY <1>7 DEF Settle, SettleKeeping, SettleGivingUp
  <2>2. ~ f.raises \/ SettleGivingUp(f, batch) => lost' = lost \cup IdsOf(batch)
    BY <1>7 DEF Settle, SettleKeeping, SettleGivingUp
  <2>3. \A i \in Ids : rows[i] \in Nat
    BY <1>3 DEF Several
  <2> QED  BY <1>2, <1>3, <1>4, <1>5, <2>1, <2>2, <2>3 DEF Settled
<1> QED  BY <1>6, <1>7

(* The three steps of the writer's loop                                    *)
LEMMA IdleMoves == ASSUME LogInv, NEW w \in Workers, Idle(w)  PROVE LogMove(w)
<1> DEFINE batch == writer[w].pending
<1>1. PICK f \in Flush(writer[w].conn, batch) :
        /\ writer' = [writer EXCEPT ![w].conn = f.conn, ![w].pending = f.pending]
        /\ Settle(f, batch, FALSE)
  BY DEF Idle
<1>2. /\ f.raises \in BOOLEAN /\ f.written \in BOOLEAN
      /\ f.raises => f.pending = batch
      /\ ~ f.raises => f.pending = <<>>
  BY FlushEnds
<1>3. /\ DOMAIN queue = Workers /\ DOMAIN writer = Workers /\ DOMAIN writer[w] = {"conn", "pending", "runs"}
      /\ IsSeq(queue[w]) /\ IsSeq(batch) /\ Len(batch) < FlushEvery
      /\ Distinct(queue[w]) /\ Queued(w) \cap Batch(w) = {}
  BY DEF LogInv, LogShape, Bounded, OnePlace
<1>4. queue' = queue /\ queue[w] = <<>>
  BY DEF Idle
<1>5. Batch(w) = IdsOf(batch) /\ Batch(w) \subseteq Held(w) /\ Held(w) = Batch(w) /\ Queued(w)' = {}
  BY <1>4, SeqEmpty DEF Held, Batch, Queued
<1>6. /\ DOMAIN writer' = Workers /\ DOMAIN writer'[w] = {"conn", "pending", "runs"}
      /\ writer'[w].pending = f.pending
      /\ \A v \in Workers \ {w} : writer'[v] = writer[v]
  BY <1>1, <1>3
<1>7. /\ lost \subseteq lost' /\ lost' \subseteq Ids /\ unacked \subseteq unacked' /\ unacked' \subseteq Ids
      /\ rows' \in [Ids -> 0 .. Several]
      /\ \A i \in Ids : rows'[i] >= rows[i] /\ (rows'[i] # rows[i] => i \in IdsOf(batch))
      /\ \A i \in Ids : rows'[i] > 1 => i \in unacked'
      /\ \A i \in IdsOf(batch) : f.raises /\ rows'[i] > 0 => i \in unacked'
      /\ \A i \in IdsOf(batch) : ~ f.raises => i \in lost' \/ rows'[i] > 0
  <2>1. IdsOf(batch) \subseteq Held(w)
    BY <1>5
  <2>2. Settled(f, batch) /\ (SettleGivingUp(f, batch) => \A i \in IdsOf(batch) : i \in lost' \/ rows'[i] > 0)
    <3>1. SettleKeeping(f, batch)
      BY <1>1 DEF SettleKeeping
    <3> QED  BY <1>2, <2>1, <3>1, SettleMoves
  <2> QED  BY <1>1, <1>2, <2>2 DEF Settled, SettleGivingUp
<1>8. Held(w)' = Batch(w)' /\ Batch(w)' = IdsOf(f.pending)
  BY <1>5, <1>6 DEF Held, Batch
<1>9. Len(queue'[w]) <= Len(queue[w])
  BY <1>3, <1>4, SeqShape
<1>10. CASE f.raises
  <2>1. IdsOf(f.pending) = IdsOf(batch) /\ f.pending = batch
    BY <1>2, <1>10
  <2> QED  BY <1>3, <1>4, <1>5, <1>6, <1>7, <1>8, <1>9, <1>10, <2>1 DEF LogMove
<1>11. CASE ~ f.raises
  <2>1. IdsOf(f.pending) = {} /\ IsSeq(f.pending) /\ Len(f.pending) = 0 /\ 0 < FlushEvery
    BY <1>2, <1>11, SeqEmpty, QueryLogAssumption
  <2> QED  BY <1>3, <1>4, <1>5, <1>6, <1>7, <1>8, <1>9, <1>11, <2>1 DEF LogMove
<1> QED  BY <1>2, <1>10, <1>11

LEMMA ExitMoves == ASSUME LogInv, NEW w \in Workers, Exit(w)  PROVE LogMove(w)
<1> DEFINE batch == writer[w].pending
<1>1. PICK f \in Flush(writer[w].conn, batch) :
        /\ writer' = [writer EXCEPT ![w] = [conn |-> "none", pending |-> <<>>, runs |-> FALSE]]
        /\ Settle(f, batch, TRUE)
  BY DEF Exit
<1>2. f.raises \in BOOLEAN /\ f.written \in BOOLEAN
  BY FlushEnds
<1>3. /\ DOMAIN queue = Workers /\ DOMAIN writer = Workers /\ IsSeq(queue[w]) /\ IsSeq(batch)
      /\ Distinct(queue[w])
  BY DEF LogInv, LogShape, OnePlace
<1>4. queue' = queue /\ queue[w] = <<>>
  BY DEF Exit
<1>5. Batch(w) = IdsOf(batch) /\ Held(w) = Batch(w) /\ Queued(w)' = {}
  BY <1>4, SeqEmpty DEF Held, Batch, Queued
<1>6. /\ DOMAIN writer' = Workers /\ DOMAIN writer'[w] = {"conn", "pending", "runs"}
      /\ writer'[w].pending = <<>>
      /\ \A v \in Workers \ {w} : writer'[v] = writer[v]
  BY <1>1, <1>3
<1>7. /\ lost \subseteq lost' /\ lost' \subseteq Ids /\ unacked \subseteq unacked' /\ unacked' \subseteq Ids
      /\ rows' \in [Ids -> 0 .. Several]
      /\ \A i \in Ids : rows'[i] >= rows[i] /\ (rows'[i] # rows[i] => i \in IdsOf(batch))
      /\ \A i \in Ids : rows'[i] > 1 => i \in unacked'
      /\ \A i \in IdsOf(batch) : i \in lost' \/ rows'[i] > 0
  <2>1. IdsOf(batch) \subseteq Held(w)
    BY <1>5
  <2>2. Settled(f, batch) /\ (SettleGivingUp(f, batch) => \A i \in IdsOf(batch) : i \in lost' \/ rows'[i] > 0)
    <3>1. SettleGivingUp(f, batch)
      BY <1>1 DEF SettleGivingUp
    <3> QED  BY <1>2, <2>1, <3>1, SettleMoves
  <2> QED  BY <1>1, <1>2, <2>2 DEF Settled, SettleGivingUp
<1>8. Held(w)' = {} /\ Batch(w)' = {} /\ IsSeq(writer'[w].pending) /\ Len(writer'[w].pending) < FlushEvery
  BY <1>5, <1>6, SeqEmpty, QueryLogAssumption DEF Held, Batch
<1>9. Len(queue'[w]) <= Len(queue[w])
  BY <1>3, <1>4, SeqShape
<1> QED  BY <1>3, <1>4, <1>5, <1>6, <1>7, <1>8, <1>9 DEF LogMove

LEMMA WriteMoves == ASSUME LogInv, NEW w \in Workers, Write(w)  PROVE LogMove(w)
<1> DEFINE e == Head(queue[w])
           batch == Append(writer[w].pending, e)
<1>1. /\ DOMAIN queue = Workers /\ DOMAIN writer = Workers /\ DOMAIN writer[w] = {"conn", "pending", "runs"}
      /\ IsSeq(queue[w]) /\ IsSeq(writer[w].pending)
      /\ Distinct(queue[w]) /\ Queued(w) \cap Batch(w) = {}
  BY DEF LogInv, LogShape, OnePlace
<1>2. queue[w] # <<>> /\ queue' = [queue EXCEPT ![w] = Tail(@)]
  BY DEF Write
<1>3. /\ IsSeq(Tail(queue[w])) /\ Len(Tail(queue[w])) = Len(queue[w]) - 1 /\ Len(queue[w]) \in Nat
      /\ Queued(w) = IdsOf(Tail(queue[w])) \cup {e.id} /\ Distinct(Tail(queue[w])) /\ e.id \notin IdsOf(Tail(queue[w]))
  BY <1>1, <1>2, SeqTail, SeqShape DEF Queued
<1>4. /\ DOMAIN queue' = Workers /\ queue'[w] = Tail(queue[w])
      /\ \A v \in Workers \ {w} : queue'[v] = queue[v]
  BY <1>1, <1>2
<1>5. Queued(w)' = IdsOf(Tail(queue[w])) /\ Len(queue'[w]) <= Len(queue[w])
  BY <1>3, <1>4 DEF Queued
<1>6. /\ IsSeq(batch) /\ Len(batch) \in Nat /\ batch # <<>> /\ IdsOf(batch) = Batch(w) \cup {e.id}
  BY <1>1, SeqAppend, SeqShape DEF Batch
<1> HIDE DEF batch, e
<1>7. /\ Queued(w)' \cap IdsOf(batch) = {} /\ Held(w) = Queued(w)' \cup IdsOf(batch)
  BY <1>1, <1>3, <1>5, <1>6 DEF Held
<1>8. rows \in [Ids -> 0 .. Several] /\ lost \subseteq Ids /\ unacked \subseteq Ids /\ Held(w) \subseteq Ids
  BY DEF LogInv, LogShape
<1>9. /\ \A i \in Held(w) : rows[i] > 0 => i \in unacked
      /\ \A i \in Ids : rows[i] > 1 => i \in unacked
  BY DEF LogInv, OnRecord, DuplicateOnlyUnacknowledged
<1>10. CASE /\ Len(batch) < FlushEvery
            /\ writer' = [writer EXCEPT ![w].pending = batch]
            /\ UNCHANGED <<rows, lost, unacked>>
  <2>1. /\ DOMAIN writer' = Workers /\ DOMAIN writer'[w] = {"conn", "pending", "runs"}
        /\ writer'[w].pending = batch
        /\ \A v \in Workers \ {w} : writer'[v] = writer[v]
    BY <1>1, <1>10
  <2>2. Batch(w)' = IdsOf(batch) /\ Held(w)' = Held(w)
    BY <1>7, <2>1 DEF Batch, Held
  <2>3. \A i \in Ids : rows'[i] >= rows[i] /\ rows'[i] = rows[i]
    BY <1>8, <1>10 DEF Several
  <2> QED  BY <1>3, <1>4, <1>5, <1>6, <1>7, <1>8, <1>9, <1>10, <2>1, <2>2, <2>3 DEF LogMove
<1>11. CASE \E f \in Flush(writer[w].conn, batch) :
              /\ writer' = [writer EXCEPT ![w] = IF f.raises THEN Fresh
                                                 ELSE [@ EXCEPT !.conn = f.conn, !.pending = f.pending]]
              /\ Settle(f, batch, TRUE)
  <2>1. PICK f \in Flush(writer[w].conn, batch) :
          /\ writer' = [writer EXCEPT ![w] = IF f.raises THEN Fresh
                                             ELSE [@ EXCEPT !.conn = f.conn, !.pending = f.pending]]
          /\ Settle(f, batch, TRUE)
    BY <1>11
  <2>2. f.raises \in BOOLEAN /\ f.written \in BOOLEAN /\ (~ f.raises => f.pending = <<>>)
    BY FlushEnds
  <2>3. /\ DOMAIN writer' = Workers /\ DOMAIN writer'[w] = {"conn", "pending", "runs"}
        /\ writer'[w].pending = <<>>
        /\ \A v \in Workers \ {w} : writer'[v] = writer[v]
    BY <1>1, <2>1, <2>2 DEF Fresh
  <2>4. Batch(w)' = {} /\ Held(w)' = Queued(w)'
    BY <2>3, SeqEmpty DEF Batch, Held
  <2>5. /\ lost \subseteq lost' /\ lost' \subseteq Ids /\ unacked \subseteq unacked' /\ unacked' \subseteq Ids
        /\ rows' \in [Ids -> 0 .. Several]
        /\ \A i \in Ids : rows'[i] >= rows[i] /\ (rows'[i] # rows[i] => i \in IdsOf(batch))
        /\ \A i \in Ids : rows'[i] > 1 => i \in unacked'
        /\ \A i \in IdsOf(batch) : i \in lost' \/ rows'[i] > 0
    <3>1. IdsOf(batch) \subseteq Held(w)
      BY <1>7
    <3>2. Settled(f, batch) /\ \A i \in IdsOf(batch) : i \in lost' \/ rows'[i] > 0
      <4>1. SettleGivingUp(f, batch)
        BY <2>1 DEF SettleGivingUp
      <4> QED  BY <2>2, <3>1, <4>1, SettleMoves
    <3> QED  BY <3>2 DEF Settled
  <2>6. IsSeq(writer'[w].pending) /\ Len(writer'[w].pending) < FlushEvery
    BY <2>3, SeqEmpty, QueryLogAssumption
  <2>7. \A i \in Held(w)' : rows'[i] > 0 => i \in unacked'
    BY <1>7, <1>8, <1>9, <2>4, <2>5
  <2> QED  BY <1>3, <1>4, <1>5, <1>7, <1>8, <2>3, <2>4, <2>5, <2>6, <2>7 DEF LogMove
<1> QED  BY <1>10, <1>11 DEF Write, batch, e

(* The server's part of the invariant is its own business.                 *)
LEMMA LogMoveKeeps ==
  ASSUME LogInv, NEW w \in Workers, LogMove(w), UNCHANGED webVars  PROVE LogInv'
<1>1. ServerShape' /\ OneId' /\ answered' = answered
  BY DEF LogInv, ServerShape, OneId, webVars, fixed, Caches
<1>2. \A v \in Workers \ {w} : Queued(v)' = Queued(v) /\ Batch(v)' = Batch(v) /\ Held(v)' = Held(v)
  BY DEF LogMove, Queued, Batch, Held
<1>3. \A v \in Workers : Held(v)' \subseteq Held(v)
  BY <1>2 DEF LogMove
<1>4. LogShape'
  <2>1. ASSUME NEW v \in Workers
        PROVE  /\ DOMAIN writer'[v] = {"conn", "pending", "runs"}
               /\ IsSeq(queue'[v]) /\ IsSeq(writer'[v].pending)
               /\ Held(v)' \subseteq Ids
    BY <1>3 DEF LogInv, LogShape, LogMove
  <2> QED  BY <2>1 DEF LogMove, LogShape
<1>5. Bounded'
  <2>1. Len(queue'[w]) <= QueueSize
    <3>1. Len(queue'[w]) \in Nat /\ Len(queue[w]) \in Nat /\ Len(queue[w]) <= QueueSize
      BY SeqShape DEF LogMove, LogInv, LogShape, Bounded
    <3> QED  BY <3>1, QueryLogAssumption DEF LogMove
  <2> QED  BY <2>1 DEF LogMove, LogInv, Bounded
<1>6. OnePlace'
  BY <1>2, <1>3 DEF LogMove, LogInv, OnePlace
<1>7. OnRecord'
  <2>1. ASSUME NEW i \in Ids, rows'[i] > 0  PROVE answered'[i] = "logged"
    <3>1. CASE rows'[i] = rows[i]
      BY <1>1, <2>1, <3>1 DEF LogInv, OnRecord
    <3>2. CASE rows'[i] # rows[i]
      BY <1>1, <3>2 DEF LogInv, OnRecord, LogMove
    <3> QED  BY <3>1, <3>2
  <2>2. ASSUME NEW v \in Workers, NEW i \in Held(v)'
        PROVE  answered'[i] = "logged" /\ (rows'[i] > 0 => i \in unacked')
    <3>1. i \in Held(v) /\ i \in Ids
      BY <1>3, <2>2 DEF LogInv, LogShape
    <3>2. CASE v = w
      BY <1>1, <2>2, <3>1, <3>2 DEF LogInv, OnRecord, LogMove
    <3>3. CASE v # w
      <4>1. rows'[i] = rows[i]
        BY <3>1, <3>3 DEF LogInv, OnePlace, LogMove
      <4> QED  BY <1>1, <3>1, <4>1 DEF LogInv, OnRecord, LogMove
    <3> QED  BY <3>2, <3>3
  <2> QED  BY <2>1, <2>2 DEF OnRecord
<1>8. EverySearchAccountedFor'
  <2> SUFFICES ASSUME NEW i \in Ids, answered'[i] = "logged"
               PROVE  i \in lost' \/ rows'[i] > 0 \/ \E v \in Workers : i \in Held(v)'
    BY DEF EverySearchAccountedFor, Held, Queued, Batch
  <2>1. i \in lost \/ rows[i] > 0 \/ \E v \in Workers : i \in Held(v)
    BY <1>1 DEF LogInv, EverySearchAccountedFor, Held, Queued, Batch
  <2>2. rows'[i] >= rows[i] /\ rows[i] \in Nat /\ rows'[i] \in Nat
    BY DEF LogMove, LogInv, LogShape, Several
  <2>3. CASE i \in lost
    BY <2>3 DEF LogMove
  <2>4. CASE rows[i] > 0
    BY <2>2, <2>4
  <2>5. CASE \E v \in Workers : i \in Held(v)
    BY <2>5, <1>2 DEF LogMove
  <2> QED  BY <2>1, <2>3, <2>4, <2>5
<1>9. DuplicateOnlyUnacknowledged'
  BY DEF LogMove, DuplicateOnlyUnacknowledged
<1> QED  BY <1>1, <1>4, <1>5, <1>6, <1>7, <1>8, <1>9 DEF LogInv

(* Steps that leave the log and the answers alone                          *)
LEMMA ServerStepKeeps ==
  ASSUME LogInv, UNCHANGED <<answered, queue, writer, rows, lost, unacked>>, ServerShape', OneId'
  PROVE  LogInv'
<1>1. \A v \in Workers : Queued(v)' = Queued(v) /\ Batch(v)' = Batch(v) /\ Held(v)' = Held(v)
  BY DEF Queued, Batch, Held
<1>2. LogShape' /\ Bounded' /\ OnePlace' /\ OnRecord'
  BY <1>1 DEF LogInv, LogShape, Bounded, OnePlace, OnRecord
<1>3. EverySearchAccountedFor' /\ DuplicateOnlyUnacknowledged'
  BY DEF LogInv, EverySearchAccountedFor, DuplicateOnlyUnacknowledged
<1> QED  BY <1>2, <1>3 DEF LogInv

(* Processes that are killed lose what they hold, and nothing else.        *)
LEMMA KillKeeps ==
  ASSUME LogInv, NEW killed \in SUBSET Workers, Kill(killed), ServerShape', OneId',
         \A i \in Ids : answered'[i] = answered[i] \/ (answered[i] = "no" /\ answered'[i] = "yes")
  PROVE  LogInv'
<1>1. \A v \in Workers \ killed : queue'[v] = queue[v] /\ writer'[v] = writer[v]
  BY DEF Kill
<1>2. \A v \in killed : queue'[v] = <<>> /\ writer'[v] = Fresh
  BY DEF Kill
<1>3. DOMAIN queue' = Workers /\ DOMAIN writer' = Workers /\ rows' = rows /\ unacked' = unacked
  BY DEF Kill
<1>4. \A v \in Workers \ killed : Queued(v)' = Queued(v) /\ Batch(v)' = Batch(v) /\ Held(v)' = Held(v)
  BY <1>1 DEF Queued, Batch, Held
<1>5. \A v \in killed : Queued(v)' = {} /\ Batch(v)' = {} /\ Held(v)' = {}
  BY <1>2, SeqEmpty DEF Queued, Batch, Held, Fresh
<1>6. lost' = lost \cup UNION {Held(v) : v \in killed}
  BY DEF Kill, Held, Queued, Batch
<1>7. LogShape'
  <2>1. ASSUME NEW v \in Workers
        PROVE  /\ DOMAIN writer'[v] = {"conn", "pending", "runs"}
               /\ IsSeq(queue'[v]) /\ IsSeq(writer'[v].pending)
               /\ Held(v)' \subseteq Ids
    <3>1. CASE v \in killed
      BY <3>1, <1>2, <1>5, SeqEmpty DEF Fresh
    <3>2. CASE v \notin killed
      BY <3>2, <1>1, <1>4 DEF LogInv, LogShape
    <3> QED  BY <3>1, <3>2
  <2>2. lost' \subseteq Ids
    BY <1>6 DEF LogInv, LogShape
  <2> QED  BY <2>1, <2>2, <1>3 DEF LogInv, LogShape
<1>8. Bounded'
  BY <1>1, <1>2, SeqEmpty, QueryLogAssumption DEF LogInv, Bounded, Fresh
<1>9. OnePlace'
  <2>1. \A v \in killed : Distinct(queue'[v])
    BY <1>2, SeqEmpty
  <2>2. \A v \in Workers : Distinct(queue'[v])
    BY <2>1, <1>1 DEF LogInv, OnePlace
  <2> QED  BY <2>2, <1>4, <1>5 DEF LogInv, OnePlace
<1>10. OnRecord'
  BY <1>3, <1>4, <1>5 DEF LogInv, OnRecord, LogShape
<1>11. EverySearchAccountedFor'
  <2> SUFFICES ASSUME NEW i \in Ids, answered'[i] = "logged"
               PROVE  i \in lost' \/ rows'[i] > 0 \/ \E v \in Workers : i \in Held(v)'
    BY DEF EverySearchAccountedFor, Held, Queued, Batch
  <2>1. i \in lost \/ rows[i] > 0 \/ \E v \in Workers : i \in Held(v)
    BY DEF LogInv, EverySearchAccountedFor, Held, Queued, Batch
  <2> QED  BY <2>1, <1>3, <1>4, <1>6
<1>12. DuplicateOnlyUnacknowledged'
  BY <1>3 DEF LogInv, DuplicateOnlyUnacknowledged
<1> QED  BY <1>7, <1>8, <1>9, <1>10, <1>11, <1>12 DEF LogInv

-----------------------------------------------------------------------------
(* While fewer requests were sent than there are ids, one is left.         *)
LEMMA NextIdIsFree ==
  ASSUME ServerShape, Cardinality(Used \cup (Taken \ {0})) < setting.sends
  PROVE  NextId \in Ids /\ NextId \notin Used /\ NextId \notin Taken
<1> DEFINE gone == Used \cup (Taken \ {0})
<1>1. gone \subseteq Ids
  BY DEF ServerShape, Used, Taken
<1>2. Cardinality(Ids) \in Nat /\ setting.sends \in Nat /\ setting.sends <= Cardinality(Ids)
  BY SendsAssumption, IdsAssumption, FS_CardinalityType DEF ServerShape
<1>3. ~ Ids \subseteq gone
  <2> SUFFICES ASSUME Ids \subseteq gone  PROVE FALSE
    OBVIOUS
  <2>1. gone = Ids
    BY <1>1
  <2> HIDE DEF gone
  <2>2. Cardinality(gone) < setting.sends
    BY DEF gone
  <2> QED  BY <1>2, <2>1, <2>2
<1>4. \E i \in Ids : i \notin Used \cup Taken
  BY <1>3, IdsAssumption
<1> QED  BY <1>4 DEF NextId

(* A worker goes on with its request.                                      *)
LEMMA WorkerGoesOn ==
  ASSUME ServerShape, OneId, NEW w \in Workers, worker[w].at \in Busy,
         DOMAIN worker' = Workers, \A v \in Workers \ {w} : worker'[v] = worker[v],
         DOMAIN worker'[w] = {"at", "req", "resp", "hit", "id"},
         worker'[w].at \in Busy, worker'[w].req = worker[w].req,
         worker'[w].id = worker[w].id, worker'[w].hit = worker[w].hit,
         UNCHANGED <<setting, answered>>, DOMAIN cache' = Caches,
         world' \in [cards : 0 .. MaxCards, loaded : BOOLEAN, works : {setting.works}]
  PROVE  ServerShape' /\ OneId'
<1>1. ASSUME NEW v \in Workers
      PROVE  /\ DOMAIN worker'[v] = {"at", "req", "resp", "hit", "id"}
             /\ worker'[v].at \in Busy \cup {"free", "dead"}
             /\ worker'[v].id = worker[v].id /\ worker'[v].hit \in BOOLEAN
             /\ worker'[v].at \in Busy <=> worker[v].at \in Busy
             /\ worker'[v].at \in Busy => worker'[v].req \in setting.script
  BY DEF ServerShape
<1>2. ServerShape'
  BY <1>1 DEF ServerShape, Caches
<1>3. OneId'
  BY <1>1 DEF OneId
<1> QED  BY <1>2, <1>3

LEMMA ReceiveKeeps ==
  ASSUME LogInv, NEW w \in Workers, NEW req \in setting.script, Receive(w, req)  PROVE LogInv'
<1>1. ServerShape /\ OneId
  BY DEF LogInv
<1>2. NextId \in Ids /\ NextId \notin Used /\ NextId \notin Taken
  BY <1>1, NextIdIsFree DEF Receive
<1>3. answered[NextId] = "no" /\ NextId # 0
  BY <1>2, IdsAssumption DEF Used
<1>4. PICK r : /\ worker' = [worker EXCEPT ![w] = r] /\ DOMAIN r = {"at", "req", "resp", "hit", "id"}
               /\ r.at \in Busy /\ r.req = req /\ r.hit \in BOOLEAN /\ r.id = NextId
  <2> DEFINE hit == Cacheable(req) /\ Stored(w, CacheKey(req))
             resp == IF hit THEN cache[CacheOf(w)][CacheKey(req)] ELSE Error(0, "none")
             next == [at |-> IF hit THEN "respond" ELSE "handle", req |-> req, hit |-> hit, id |-> NextId, resp |-> resp]
  <2>1. worker' = [worker EXCEPT ![w] = next]
    BY DEF Receive
  <2>2. hit \in BOOLEAN
    BY DEF Cacheable, Stored
  <2> HIDE DEF resp, hit
  <2>3. /\ DOMAIN next = {"at", "req", "resp", "hit", "id"}
        /\ next.at \in Busy /\ next.req = req /\ next.hit = hit /\ next.id = NextId
    BY DEF Busy
  <2> QED  BY <2>1, <2>2, <2>3
<1>5. /\ DOMAIN worker' = Workers /\ worker'[w] = r
      /\ \A v \in Workers \ {w} : worker'[v] = worker[v]
  BY <1>1, <1>4 DEF ServerShape
<1>6. UNCHANGED <<world, setting, cache, answered, queue, writer, rows, lost, unacked>>
  BY DEF Receive, fixed, logVars
<1>7. ServerShape'
  <2>1. ASSUME NEW v \in Workers
        PROVE  /\ DOMAIN worker'[v] = {"at", "req", "resp", "hit", "id"}
               /\ worker'[v].at \in Busy \cup {"free", "dead"}
               /\ worker'[v].id \in Ids \cup {0} /\ worker'[v].hit \in BOOLEAN
               /\ worker'[v].at \in Busy => worker'[v].req \in setting.script
    BY <1>1, <1>2, <1>4, <1>5 DEF ServerShape
  <2> QED  BY <1>1, <1>5, <1>6, <2>1 DEF ServerShape, Caches
<1>8. OneId'
  <2>1. \A v \in Workers : worker[v].id # NextId
    BY <1>2 DEF Taken
  <2> QED  BY <1>1, <1>3, <1>4, <1>5, <1>6, <2>1 DEF OneId
<1> QED  BY <1>6, <1>7, <1>8, ServerStepKeeps

LEMMA StepKeeps ==
  ASSUME LogInv, NEW w \in Workers, Serve(w) \/ CompressAndProbe(w) \/ StoreResponse(w)  PROVE LogInv'
<1>1. ServerShape /\ OneId
  BY DEF LogInv
<1>2. worker[w].at \in Busy
  BY DEF Serve, CompressAndProbe, StoreResponse, Busy
<1>3. /\ DOMAIN worker = Workers /\ DOMAIN worker[w] = {"at", "req", "resp", "hit", "id"}
      /\ world \in [cards : 0 .. MaxCards, loaded : BOOLEAN, works : {setting.works}]
  BY <1>1 DEF ServerShape
<1>4. UNCHANGED <<setting, answered, queue, writer, rows, lost, unacked>>
  BY DEF Serve, CompressAndProbe, StoreResponse, fixed, logVars
<1>5. PICK r, at : worker' = [worker EXCEPT ![w].resp = r, ![w].at = at] /\ at \in Busy
  <2>1. CASE Serve(w)
    BY <2>1, Zenon DEF Serve, Busy
  <2>2. CASE CompressAndProbe(w)
    BY <2>2, Zenon DEF CompressAndProbe, Busy
  <2>3. CASE StoreResponse(w)
    <3>1. worker' = [worker EXCEPT ![w].resp = worker[w].resp, ![w].at = "respond"]
      BY <1>3, <2>3 DEF StoreResponse
    <3> QED  BY <3>1 DEF Busy
  <2> QED  BY <2>1, <2>2, <2>3
<1>6. /\ DOMAIN worker' = Workers /\ \A v \in Workers \ {w} : worker'[v] = worker[v]
      /\ DOMAIN worker'[w] = {"at", "req", "resp", "hit", "id"} /\ worker'[w].at \in Busy
      /\ worker'[w].req = worker[w].req /\ worker'[w].id = worker[w].id /\ worker'[w].hit = worker[w].hit
  BY <1>3, <1>5
<1>7. DOMAIN cache' = Caches
  BY <1>1 DEF ServerShape, Serve, CompressAndProbe, StoreResponse, fixed
<1>8. world' \in [cards : 0 .. MaxCards, loaded : BOOLEAN, works : {setting.works}]
  <2>1. world' = world \/ (world.cards < MaxCards /\ world' = [world EXCEPT !.cards = @ + 1])
    <3>1. CASE Serve(w)
      BY <3>1 DEF Serve
    <3>2. CASE CompressAndProbe(w) \/ StoreResponse(w)
      <4>1. world' = world
        BY <3>2 DEF CompressAndProbe, StoreResponse, fixed
      <4> QED  BY <4>1
    <3> QED  BY <3>1, <3>2
  <2> QED  BY <1>3, <2>1, CardsAssumption
<1>9. ServerShape' /\ OneId'
  BY <1>1, <1>2, <1>4, <1>6, <1>7, <1>8, WorkerGoesOn
<1> QED  BY <1>4, <1>9, ServerStepKeeps

(* A worker gives up its request, answered or not.                         *)
LEMMA WorkerLeaves ==
  ASSUME ServerShape, OneId, NEW killed \in SUBSET Workers,
         DOMAIN worker' = Workers, \A v \in Workers \ killed : worker'[v] = worker[v],
         \A v \in killed : worker'[v] = Free \/ worker'[v] = [Free EXCEPT !.at = "dead"],
         UNCHANGED <<setting, world>>, DOMAIN cache' = Caches,
         answered' \in [Ids -> {"no", "yes", "logged"}],
         \A i \in Ids : answered'[i] # answered[i] => \E v \in killed : i = worker[v].id
  PROVE  ServerShape' /\ OneId'
<1>1. ASSUME NEW v \in killed
      PROVE  /\ DOMAIN worker'[v] = {"at", "req", "resp", "hit", "id"}
             /\ worker'[v].at \in {"free", "dead"} /\ worker'[v].at \notin Busy
             /\ worker'[v].id = 0 /\ worker'[v].hit = FALSE
  BY DEF Free, Busy
<1>2. ASSUME NEW v \in Workers
      PROVE  /\ DOMAIN worker'[v] = {"at", "req", "resp", "hit", "id"}
             /\ worker'[v].at \in Busy \cup {"free", "dead"}
             /\ worker'[v].id \in Ids \cup {0} /\ worker'[v].hit \in BOOLEAN
             /\ worker'[v].at \in Busy => worker'[v].req \in setting.script
  <2>1. CASE v \in killed
    BY <1>1, <2>1
  <2>2. CASE v \notin killed
    BY <2>2 DEF ServerShape
  <2> QED  BY <2>1, <2>2
<1>3. ServerShape'
  BY <1>2 DEF ServerShape, Caches
<1>4. ASSUME NEW v \in Workers \ killed, worker[v].at \in Busy  PROVE answered'[worker[v].id] = "no"
  <2>1. worker[v].id \in Ids /\ answered[worker[v].id] = "no"
    BY <1>4 DEF ServerShape, OneId
  <2>2. \A u \in killed : worker[u].id # worker[v].id
    BY <1>4 DEF OneId
  <2> QED  BY <2>1, <2>2
<1>5. \A v \in Workers : v \notin killed => worker'[v] = worker[v]
  OBVIOUS
<1>6. ASSUME NEW v \in Workers
      PROVE  /\ worker'[v].at \in Busy <=> worker'[v].id # 0
             /\ worker'[v].at \in Busy => v \notin killed /\ answered'[worker'[v].id] = "no"
  BY <1>1, <1>4, <1>5 DEF OneId
<1>7. ASSUME NEW v \in Workers, NEW u \in Workers, u # v, worker'[u].at \in Busy, worker'[u].id = worker'[v].id
      PROVE  FALSE
  <2>1. u \notin killed /\ worker'[u] = worker[u] /\ worker[u].id # 0
    BY <1>5, <1>6, <1>7
  <2>2. v \notin killed /\ worker'[v] = worker[v]
    BY <1>1, <1>5, <1>7, <2>1
  <2> QED  BY <1>7, <2>1, <2>2 DEF OneId
<1>8. OneId'
  BY <1>6, <1>7 DEF OneId
<1> QED  BY <1>3, <1>8

(* The response is sent, and a search is put into the queue or dropped.    *)
LEMMA RespondKeeps == ASSUME LogInv, NEW w \in Workers, Respond(w)  PROVE LogInv'
<1> DEFINE id == worker[w].id
<1>1. ServerShape /\ OneId
  BY DEF LogInv
<1>2. id \in Ids /\ answered[id] = "no"
  BY <1>1 DEF Respond, ServerShape, OneId, Busy
<1>3. PICK a \in {"yes", "logged"} :
        /\ answered' = [answered EXCEPT ![id] = a]
        /\ IF a = "logged" THEN Put(w, Entry(w)) ELSE UNCHANGED logVars
  BY DEF Respond
<1>4. worker' = [worker EXCEPT ![w] = Free] /\ UNCHANGED <<world, setting, cache>>
  BY DEF Respond, fixed
<1>5. /\ answered' \in [Ids -> {"no", "yes", "logged"}] /\ answered'[id] = a
      /\ \A i \in Ids \ {id} : answered'[i] = answered[i]
  BY <1>1, <1>2, <1>3 DEF ServerShape
<1>6. ServerShape' /\ OneId'
  <2>1. /\ DOMAIN worker' = Workers /\ worker'[w] = Free
        /\ \A v \in Workers \ {w} : worker'[v] = worker[v]
    BY <1>1, <1>4 DEF ServerShape
  <2>2. DOMAIN cache' = Caches
    BY <1>1, <1>4 DEF ServerShape
  <2>3. \A v \in Workers \ {w} : worker'[v] = worker[v]
    BY <2>1
  <2>4. \A v \in {w} : worker'[v] = Free \/ worker'[v] = [Free EXCEPT !.at = "dead"]
    BY <2>1
  <2>5. \A i \in Ids : answered'[i] # answered[i] => \E v \in {w} : i = worker[v].id
    BY <1>5
  <2> QED  BY <1>1, <1>4, <1>5, <2>1, <2>2, <2>3, <2>4, <2>5, WorkerLeaves
<1>7. \A v \in Workers : id \notin Held(v)
  BY <1>2 DEF LogInv, OnRecord
<1>8. rows[id] = 0
  BY <1>2 DEF LogInv, OnRecord, LogShape, Several
<1> HIDE DEF id
<1>9. CASE a = "yes"
  <2>1. UNCHANGED <<queue, writer, rows, lost, unacked>>
    BY <1>3, <1>9 DEF logVars
  <2>2. \A v \in Workers : Queued(v)' = Queued(v) /\ Batch(v)' = Batch(v) /\ Held(v)' = Held(v)
    BY <2>1 DEF Queued, Batch, Held
  <2>3. LogShape' /\ Bounded' /\ OnePlace'
    BY <2>1, <2>2 DEF LogInv, LogShape, Bounded, OnePlace
  <2>4. OnRecord'
    <3>1. \A v \in Workers : \A i \in Held(v) : i \in Ids \ {id}
      BY <1>7 DEF LogInv, LogShape
    <3> QED  BY <1>5, <1>7, <1>8, <2>1, <2>2, <3>1 DEF LogInv, OnRecord
  <2>5. EverySearchAccountedFor' /\ DuplicateOnlyUnacknowledged'
    BY <1>5, <1>9, <2>1 DEF LogInv, EverySearchAccountedFor, DuplicateOnlyUnacknowledged
  <2> QED  BY <1>6, <2>3, <2>4, <2>5 DEF LogInv
<1>10. CASE a = "logged"
  <2> DEFINE e == Entry(w)
  <2>1. e.id = id
    BY DEF Entry, id
  <2>2. Put(w, e)
    BY <1>3, <1>10
  <2> HIDE DEF e
  <2>3. /\ writer' = writer /\ rows' = rows /\ unacked' = unacked
        /\ \/ /\ Len(queue[w]) < QueueSize /\ queue' = [queue EXCEPT ![w] = Append(@, e)] /\ lost' = lost
           \/ /\ lost' = lost \cup {id} /\ queue' = queue
    BY <2>1, <2>2 DEF Put
  <2>4. DOMAIN queue = Workers /\ IsSeq(queue[w]) /\ Distinct(queue[w])
    BY DEF LogInv, LogShape, OnePlace
  <2>5. /\ DOMAIN queue' = Workers /\ \A v \in Workers \ {w} : queue'[v] = queue[v]
        /\ IsSeq(queue'[w]) /\ Distinct(queue'[w]) /\ Len(queue'[w]) <= QueueSize
        /\ \/ Queued(w)' = Queued(w) \cup {id} /\ lost' = lost
           \/ Queued(w)' = Queued(w) /\ lost' = lost \cup {id}
    <3>1. CASE Len(queue[w]) < QueueSize /\ queue' = [queue EXCEPT ![w] = Append(@, e)] /\ lost' = lost
      <4>1. /\ IsSeq(Append(queue[w], e)) /\ Len(Append(queue[w], e)) = Len(queue[w]) + 1
            /\ IdsOf(Append(queue[w], e)) = IdsOf(queue[w]) \cup {e.id}
            /\ e.id \notin IdsOf(queue[w]) => Distinct(Append(queue[w], e))
        BY <2>4, SeqAppend
      <4>2. e.id \notin IdsOf(queue[w])
        BY <1>7, <2>1 DEF Held, Queued
      <4>3. Len(queue[w]) + 1 <= QueueSize
        BY <3>1, <2>4, SeqShape, QueryLogAssumption
      <4> QED  BY <2>1, <2>4, <3>1, <4>1, <4>2, <4>3 DEF Queued
    <3>2. CASE lost' = lost \cup {id} /\ queue' = queue
      BY <2>4, <3>2 DEF Queued, LogInv, Bounded
    <3> QED  BY <2>3, <3>1, <3>2
  <2>6. /\ \A v \in Workers : Batch(v)' = Batch(v)
        /\ \A v \in Workers \ {w} : Queued(v)' = Queued(v) /\ Held(v)' = Held(v)
        /\ Held(w)' \subseteq Held(w) \cup {id} /\ Held(w) \subseteq Held(w)'
        /\ id \in Held(w)' \/ id \in lost'
    BY <2>3, <2>5 DEF Held, Queued, Batch
  <2>7. LogShape'
    <3>1. \A v \in Workers : Held(v)' \subseteq Ids
      BY <1>2, <2>6 DEF LogInv, LogShape, id
    <3>2. lost' \subseteq Ids
      BY <1>2, <2>5 DEF LogInv, LogShape, id
    <3> QED  BY <2>3, <2>5, <3>1, <3>2 DEF LogInv, LogShape
  <2>8. Bounded'
    BY <2>3, <2>5 DEF LogInv, Bounded
  <2>9. OnePlace'
    <3>1. \A v \in Workers : Distinct(queue'[v])
      BY <2>5 DEF LogInv, OnePlace
    <3>2. \A v \in Workers : Queued(v)' \cap Batch(v)' = {}
      BY <1>7, <2>5, <2>6 DEF LogInv, OnePlace, Held
    <3>3. ASSUME NEW v \in Workers, NEW u \in Workers, u # v  PROVE Held(u)' \cap Held(v)' = {}
      BY <1>7, <2>6, <3>3 DEF LogInv, OnePlace
    <3> QED  BY <3>1, <3>2, <3>3 DEF OnePlace
  <2>10. OnRecord'
    <3>1. \A v \in Workers : \A i \in Held(v)' : i = id \/ (i \in Held(v) /\ i \in Ids \ {id})
      BY <1>7, <2>6 DEF LogInv, LogShape
    <3> QED  BY <1>5, <1>8, <1>10, <2>3, <3>1 DEF LogInv, OnRecord
  <2>11. EverySearchAccountedFor'
    <3> SUFFICES ASSUME NEW i \in Ids, answered'[i] = "logged"
                 PROVE  i \in lost' \/ rows'[i] > 0 \/ \E v \in Workers : i \in Held(v)'
      BY DEF EverySearchAccountedFor, Held, Queued, Batch
    <3>1. CASE i = id
      BY <2>6, <3>1
    <3>2. CASE i # id
      <4>1. i \in lost \/ rows[i] > 0 \/ \E v \in Workers : i \in Held(v)
        BY <1>5, <3>2 DEF LogInv, EverySearchAccountedFor, Held, Queued, Batch
      <4>2. \A v \in Workers : Held(v) \subseteq Held(v)'
        BY <2>6
      <4> QED  BY <2>3, <2>5, <4>1, <4>2
    <3> QED  BY <3>1, <3>2
  <2>12. DuplicateOnlyUnacknowledged'
    BY <2>3 DEF LogInv, DuplicateOnlyUnacknowledged
  <2> QED  BY <1>6, <2>7, <2>8, <2>9, <2>10, <2>11, <2>12 DEF LogInv
<1> QED  BY <1>9, <1>10

(* A worker that dies, and the supervisor that kills the others            *)
LEMMA DeathsKeep == ASSUME LogInv, (\E w \in Workers : WorkerDies(w)) \/ Supervise  PROVE LogInv'
<1>1. ServerShape /\ OneId
  BY DEF LogInv
<1>2. DOMAIN worker = Workers /\ answered \in [Ids -> {"no", "yes", "logged"}]
  BY <1>1 DEF ServerShape
<1>3. PICK killed \in SUBSET Workers :
        /\ Kill(killed) /\ DOMAIN worker' = Workers
        /\ \A v \in Workers \ killed : worker'[v] = worker[v]
        /\ \A v \in killed : worker'[v] = Free \/ worker'[v] = [Free EXCEPT !.at = "dead"]
        /\ answered' = [i \in Ids |-> IF i \in {worker[v].id : v \in killed} THEN "yes" ELSE answered[i]]
        /\ UNCHANGED <<setting, world>> /\ DOMAIN cache' = Caches
  <2>1. ASSUME NEW w \in Workers, WorkerDies(w)
        PROVE  /\ Kill({w}) /\ DOMAIN worker' = Workers
               /\ \A v \in Workers \ {w} : worker'[v] = worker[v]
               /\ \A v \in {w} : worker'[v] = Free \/ worker'[v] = [Free EXCEPT !.at = "dead"]
               /\ answered' = [i \in Ids |-> IF i \in {worker[v].id : v \in {w}} THEN "yes" ELSE answered[i]]
               /\ UNCHANGED <<setting, world>> /\ DOMAIN cache' = Caches
    <3>1. Kill({w}) /\ UNCHANGED <<setting, world, cache>>
      BY <2>1 DEF WorkerDies, fixed
    <3>2. /\ DOMAIN worker' = Workers /\ worker'[w] = [Free EXCEPT !.at = "dead"]
          /\ \A v \in Workers \ {w} : worker'[v] = worker[v]
      BY <1>2, <2>1 DEF WorkerDies
    <3>3. answered' = [i \in Ids |-> IF i = worker[w].id THEN "yes" ELSE answered[i]]
      BY <2>1 DEF WorkerDies
    <3>4. \A i : i \in {worker[v].id : v \in {w}} <=> i = worker[w].id
      OBVIOUS
    <3> QED  BY <1>1, <3>1, <3>2, <3>3, <3>4 DEF ServerShape
  <2>2. ASSUME Supervise
        PROVE  /\ Kill(Workers) /\ DOMAIN worker' = Workers
               /\ \A v \in Workers : worker'[v] = Free \/ worker'[v] = [Free EXCEPT !.at = "dead"]
               /\ answered' = [i \in Ids |-> IF i \in {worker[v].id : v \in Workers} THEN "yes" ELSE answered[i]]
               /\ UNCHANGED <<setting, world>> /\ DOMAIN cache' = Caches
    BY <2>2 DEF Supervise, Taken, fixed
  <2>3. CASE \E w \in Workers : WorkerDies(w)
    <3>1. PICK w \in Workers : WorkerDies(w)
      BY <2>3
    <3> QED  BY <2>1, <3>1
  <2>4. CASE Supervise
    BY <2>2, <2>4
  <2> QED  BY <2>3, <2>4
<1>4. /\ answered' \in [Ids -> {"no", "yes", "logged"}]
      /\ \A i \in Ids : answered'[i] # answered[i] => \E v \in killed : i = worker[v].id
  BY <1>2, <1>3
<1>5. ASSUME NEW i \in Ids, NEW v \in killed, i = worker[v].id
      PROVE  answered[i] = "no"
  <2>1. i # 0
    BY IdsAssumption
  <2> QED  BY <1>1, <1>5, <2>1 DEF OneId
<1>6. \A i \in Ids : answered'[i] = answered[i] \/ (answered[i] = "no" /\ answered'[i] = "yes")
  BY <1>2, <1>3, <1>5
<1>7. ServerShape' /\ OneId'
  BY <1>1, <1>3, <1>4, WorkerLeaves
<1> QED  BY <1>3, <1>6, <1>7, KillKeeps

LEMMA LogInvInit == Init => LogInv
<1> SUFFICES ASSUME Init  PROVE LogInv
  OBVIOUS
<1>1. \A w \in Workers : worker[w] = Free /\ queue[w] = <<>> /\ writer[w] = Fresh
  BY DEF Init, LogInit
<1>2. ServerShape
  <2>1. /\ DOMAIN Free = {"at", "req", "resp", "hit", "id"} /\ Free.at = "free" /\ Free.id = 0 /\ Free.hit = FALSE
    BY DEF Free
  <2>2. world \in [cards : 0 .. MaxCards, loaded : BOOLEAN, works : {setting.works}]
    BY CardsAssumption DEF Init
  <2> QED  BY <1>1, <2>1, <2>2 DEF Init, ServerShape, Busy
<1>3. OneId
  BY <1>1 DEF OneId, Free, Busy
<1>4. \A w \in Workers : Queued(w) = {} /\ Batch(w) = {} /\ Held(w) = {}
  BY <1>1, SeqEmpty DEF Queued, Batch, Held, Fresh
<1>5. LogShape
  <2>1. \A w \in Workers : /\ DOMAIN writer[w] = {"conn", "pending", "runs"}
                           /\ IsSeq(queue[w]) /\ IsSeq(writer[w].pending)
    BY <1>1, SeqEmpty DEF Fresh
  <2> QED  BY <1>4, <2>1 DEF Init, LogInit, LogShape, Several
<1>6. Bounded
  BY <1>1, SeqEmpty, QueryLogAssumption DEF Bounded, Fresh
<1>7. OnePlace
  <2>1. \A w \in Workers : Distinct(queue[w])
    BY <1>1, SeqEmpty
  <2> QED  BY <1>4, <2>1 DEF OnePlace
<1>8. OnRecord /\ DuplicateOnlyUnacknowledged
  BY <1>4 DEF Init, LogInit, OnRecord, DuplicateOnlyUnacknowledged
<1>9. EverySearchAccountedFor
  BY DEF Init, EverySearchAccountedFor
<1> QED  BY <1>2, <1>3, <1>5, <1>6, <1>7, <1>8, <1>9 DEF LogInv

LEMMA LogInvStep == LogInv /\ [Next]_vars => LogInv'
<1> SUFFICES ASSUME LogInv, [Next]_vars  PROVE LogInv'
  OBVIOUS
<1>1. ServerShape /\ OneId
  BY DEF LogInv
<1>2. ASSUME UNCHANGED <<setting, worker, answered, queue, writer, rows, lost, unacked>>, DOMAIN cache' = Caches,
             world' \in [cards : 0 .. MaxCards, loaded : BOOLEAN, works : {setting.works}]
      PROVE  LogInv'
  <2>1. ServerShape' /\ OneId'
    BY <1>1, <1>2 DEF ServerShape, OneId, Caches
  <2> QED  BY <1>2, <2>1, ServerStepKeeps
<1>3. /\ world \in [cards : 0 .. MaxCards, loaded : BOOLEAN, works : {setting.works}]
      /\ DOMAIN cache = Caches
  BY <1>1 DEF ServerShape
<1>4. CASE UNCHANGED vars
  <2>1. UNCHANGED <<setting, worker, answered, queue, writer, rows, lost, unacked>> /\ cache' = cache /\ world' = world
    BY <1>4 DEF vars, webVars, fixed, logVars
  <2> QED  BY <1>2, <1>3, <2>1
<1>5. CASE \E c \in Caches : \E key \in DOMAIN cache[c] : Evict(c, key)
  <2>1. UNCHANGED <<setting, worker, answered, queue, writer, rows, lost, unacked, world>> /\ DOMAIN cache' = Caches
    BY <1>3, <1>5 DEF Evict, fixed, logVars
  <2> QED  BY <1>2, <1>3, <2>1
<1>6. CASE LoadEngine
  <2>1. UNCHANGED <<setting, worker, answered, queue, writer, rows, lost, unacked, cache>>
    BY <1>6 DEF LoadEngine, fixed, logVars
  <2>2. world' = [world EXCEPT !.loaded = TRUE]
    BY <1>6 DEF LoadEngine
  <2>3. world' \in [cards : 0 .. MaxCards, loaded : BOOLEAN, works : {setting.works}]
    BY <1>3, <2>2
  <2> QED  BY <1>2, <1>3, <2>1, <2>3
<1>7. CASE Supervise \/ \E w \in Workers : WorkerDies(w)
  BY <1>7, DeathsKeep
<1>8. ASSUME NEW w \in Workers, Shutdown(w)  PROVE LogInv'
  <2>1. UNCHANGED <<setting, worker, answered, queue, writer, rows, lost, unacked, cache, world>>
    BY <1>8 DEF Shutdown, Stop, webVars, fixed
  <2> QED  BY <1>2, <1>3, <2>1
<1>9. ASSUME NEW w \in Workers, LogStep(w)  PROVE LogInv'
  <2>1. LogMove(w) /\ UNCHANGED webVars
    BY <1>9, WriteMoves, IdleMoves, ExitMoves DEF LogStep, WriterStep
  <2> QED  BY <2>1, LogMoveKeeps
<1>10. ASSUME NEW w \in Workers, Step(w)  PROVE LogInv'
  BY <1>10, StepKeeps, RespondKeeps DEF Step
<1> QED  BY <1>4, <1>5, <1>6, <1>7, <1>8, <1>9, <1>10, ReceiveKeeps DEF Next

(* No entry of the query log is lost but where the code gives it up, none  *)
(* is doubled but after an unacknowledged commit, and a failure costs less *)
(* than a batch: under every fault of the database, deaths of workers and  *)
(* restarts, for any number of workers and any queue and batch size.       *)
THEOREM LogIsSound == Spec => []LogSound
<1>1. LogInv => LogSound
  <2> SUFFICES ASSUME LogInv  PROVE LogSound
    OBVIOUS
  <2>1. BatchBounded
    BY DEF LogInv, Bounded, BatchBounded
  <2>2. world.cards \in 0 .. MaxCards /\ answered \in [Ids -> {"no", "yes", "logged"}]
    BY DEF LogInv, ServerShape
  <2>3. \A w \in Workers : worker[w].at \in Busy \cup {"free", "dead"} /\ Len(queue[w]) <= QueueSize
    BY DEF LogInv, ServerShape, Bounded
  <2>4. TypeOK
    BY <2>2, <2>3 DEF TypeOK, Busy
  <2> QED  BY <2>1, <2>4 DEF LogSound, LogInv
<1> QED  BY <1>1, LogInvInit, LogInvStep, PTL DEF Spec

-----------------------------------------------------------------------------
(* The routes                                                              *)

(* A hint names one type, which may be optional; the host is a text.       *)
NamesType(hint, type) == type # "None" /\ (hint = <<type>> \/ hint = <<type, "None">>)
WellTyped(params) ==
  \A i \in DOMAIN params :
    /\ \E type : NamesType(params[i].hint, type)
    /\ params[i].name = "request_host" => params[i].hint = <<"str">>

RandomParams == <<FalconResponse, Keyword("num_cards", <<"int">>), Keyword("shape", <<"ResponseShape">>)>>
OneRequired(name) == <<Parameter(name, <<"str">>, FALSE, FALSE)>>

LEMMA ParamLists ==
  ASSUME NEW h \in Handlers
  PROVE  \/ h.params = <<>> \/ h.params = <<FalconResponse>>
         \/ h.params = SearchParams \/ h.params = RootParams \/ h.params = CardParams \/ h.params = RandomParams
         \/ h.params = OneRequired("card_name") \/ h.params = OneRequired("search_query")
<1>1. CASE h = Search
  BY <1>1 DEF Search, Route
<1>2. CASE h = Root
  BY <1>2 DEF Root, Route
<1>3. CASE h = RedirectToRoot
  BY <1>3 DEF RedirectToRoot, Route
<1>4. CASE h = Card
  BY <1>4 DEF Card, Route
<1>5. CASE h = RandomSearch
  BY <1>5 DEF RandomSearch, Route, RandomParams
<1>6. CASE h \in StaticFiles
  BY <1>6 DEF StaticFiles, Route
<1>7. CASE h \in BinaryFiles
  BY <1>7 DEF BinaryFiles, Route
<1>8. CASE h \in Operations
  <2>1. \/ h = [Route("setup_schema", {<<"setup_schema">>}, <<>>) EXCEPT !.varargs = TRUE]
        \/ \E name : h = Route(name, {<<name>>}, <<>>)
        \/ h = Route("import_card_by_name", {<<"import_card_by_name">>}, OneRequired("card_name"))
        \/ h = Route("import_cards_by_search", {<<"import_cards_by_search">>}, OneRequired("search_query"))
    BY <1>8, Zenon DEF Operations, OneRequired
  <2> QED  BY <2>1 DEF Route
<1>9. CASE h \in Reports
  BY <1>9 DEF Reports, Route
<1> QED  BY <1>1, <1>2, <1>3, <1>4, <1>5, <1>6, <1>7, <1>8, <1>9 DEF Handlers

LEMMA HandlersWellTyped == \A h \in Handlers : WellTyped(h.params)
<1> DEFINE Good(p) == (\E type : NamesType(p.hint, type)) /\ (p.name = "request_host" => p.hint = <<"str">>)
<1>1. ASSUME NEW name, NEW type, type # "None", name # "request_host" \/ type = "str", NEW pos, NEW def
      PROVE  Good(Parameter(name, <<type>>, pos, def))
  <2>1. NamesType(<<type>>, type)
    BY <1>1 DEF NamesType
  <2> QED  BY <1>1, <2>1 DEF Parameter
<1>2. ASSUME NEW name, NEW type, type # "None", name # "request_host", NEW pos, NEW def
      PROVE  Good(Parameter(name, <<type, "None">>, pos, def))
  <2>1. NamesType(<<type, "None">>, type)
    BY <1>2 DEF NamesType
  <2> QED  BY <1>2, <2>1 DEF Parameter
<1> HIDE DEF Good
<1>3. Good(FalconResponse) /\ Good(RequestHost)
  BY <1>1, <1>2 DEF FalconResponse, RequestHost, Keyword
<1>4. WellTyped(<<>>) /\ WellTyped(<<FalconResponse>>)
  BY <1>3 DEF WellTyped, Good
<1>5. /\ Good(Keyword("q", <<"str", "None">>)) /\ Good(Keyword("query", <<"str", "None">>))
      /\ Good(Keyword("limit", <<"int">>)) /\ Good(Keyword("num_cards", <<"int">>))
      /\ Good(Keyword("shape", <<"ResponseShape">>)) /\ Good(Keyword("fields", <<"Sequence[str]", "None">>))
  BY <1>1, <1>2 DEF Keyword
<1>6. /\ Good(Keyword("direction", <<"SortDirection">>)) /\ Good(Keyword("orderby", <<"CardOrdering">>))
      /\ Good(Keyword("prefer", <<"PreferOrder">>)) /\ Good(Keyword("unique", <<"UniqueOn">>))
      /\ Good(Keyword("direction", <<"SortDirection", "None">>)) /\ Good(Keyword("orderby", <<"CardOrdering", "None">>))
      /\ Good(Keyword("prefer", <<"PreferOrder", "None">>)) /\ Good(Keyword("unique", <<"UniqueOn", "None">>))
  BY <1>1, <1>2 DEF Keyword
<1> DEFINE pSet == Parameter("set_code", <<"str">>, TRUE, TRUE)
           pNumber == Parameter("collector_number", <<"str">>, TRUE, TRUE)
           pName == Parameter("card_name", <<"str">>, FALSE, FALSE)
           pQuery == Parameter("search_query", <<"str">>, FALSE, FALSE)
<1>7. /\ Good(pSet) /\ Good(pNumber) /\ Good(pName) /\ Good(pQuery)
      /\ CardParams = <<pSet, pNumber, RequestHost, FalconResponse>>
      /\ OneRequired("card_name") = <<pName>> /\ OneRequired("search_query") = <<pQuery>>
  BY <1>1 DEF CardParams, OneRequired
<1> HIDE DEF pSet, pNumber, pName, pQuery
<1>8. ASSUME NEW params, \A i \in DOMAIN params : Good(params[i])  PROVE WellTyped(params)
  BY <1>8 DEF WellTyped, Good
<1>9. \A i \in DOMAIN SearchParams : Good(SearchParams[i])
  BY <1>3, <1>5, <1>6 DEF SearchParams
<1>10. \A i \in DOMAIN RootParams : Good(RootParams[i])
  BY <1>3, <1>5, <1>6 DEF RootParams
<1>11. \A i \in DOMAIN CardParams : Good(CardParams[i])
  BY <1>3, <1>7
<1>12. \A i \in DOMAIN RandomParams : Good(RandomParams[i])
  BY <1>3, <1>5 DEF RandomParams
<1>13. WellTyped(OneRequired("card_name")) /\ WellTyped(OneRequired("search_query"))
  <2>1. \A i \in DOMAIN <<pName>> : Good(<<pName>>[i])
    BY <1>7
  <2>2. \A i \in DOMAIN <<pQuery>> : Good(<<pQuery>>[i])
    BY <1>7
  <2>3. WellTyped(<<pName>>) /\ WellTyped(<<pQuery>>)
    BY <2>1, <2>2, <1>8
  <2> QED  BY <1>7, <2>3
<1> QED  BY <1>4, <1>8, <1>9, <1>10, <1>11, <1>12, <1>13, ParamLists

-----------------------------------------------------------------------------
(* Conversions                                                             *)

LEMMA NoneIsNoConverter == "None" \notin Converters /\ "str" \in Converters
BY DEF Converters, Enums

(* A converter refuses a text or makes its own type of it; only that of    *)
(* str leaves a text.                                                      *)
LEMMA ConvertMakes ==
  ASSUME NEW type \in Converters, NEW text
  PROVE  /\ Convert(type, text) # Refused => (Convert(type, text).t = "text" <=> type = "str")
         /\ type = "str" => Convert(type, text) # Refused
<1>1. CASE type = "str"
  <2>1. Convert(type, text) = Text(text)
    BY <1>1 DEF Convert, Enums
  <2> QED  BY <1>1, <2>1 DEF Text, Refused
<1>2. CASE type # "str"
  <2>1. \/ Convert(type, text) = Refused \/ Convert(type, text) = Typed(type, text)
        \/ \E parts : Convert(type, text) = Typed("bool", parts)
        \/ \E parts : Convert(type, text) = Typed("Sequence[str]", parts)
    <3>1. CASE type \in DOMAIN Enums
      <4>1. type # "int" /\ type # "bool" /\ type # "Sequence[str]" /\ type # "str"
        BY <3>1 DEF Enums
      <4> QED  BY <3>1, <4>1 DEF Convert
    <3>2. CASE type = "int"
      BY <3>2 DEF Convert, Enums
    <3>3. CASE type = "bool"
      BY <3>3 DEF Convert, Enums
    <3>4. CASE type = "Sequence[str]"
      BY <3>4 DEF Convert, Enums
    <3> QED  BY <1>2, <3>1, <3>2, <3>3, <3>4 DEF Converters
  <2>2. type # "text"
    BY DEF Converters, Enums
  <2> QED  BY <1>2, <2>1, <2>2 DEF Typed
<1> QED  BY <1>1, <1>2

LEMMA ConverterOfType ==
  ASSUME NEW hint, NEW type, NamesType(hint, type)
  PROVE  ConverterFor(hint) = IF type \in Converters THEN type ELSE "None"
<1>1. UnwrapOptional(hint) = <<type>>
  <2>1. CASE hint = <<type>>
    <3>1. {i \in DOMAIN hint : hint[i] # "None"} = {1}
      BY <2>1 DEF NamesType
    <3> QED  BY <2>1, <3>1 DEF UnwrapOptional
  <2>2. CASE hint = <<type, "None">>
    <3>1. {i \in DOMAIN hint : hint[i] # "None"} = {1}
      BY <2>2 DEF NamesType
    <3> QED  BY <2>2, <3>1 DEF UnwrapOptional
  <2> QED  BY <2>1, <2>2 DEF NamesType
<1> QED  BY <1>1 DEF ConverterFor

(* What the old wrapper makes of a text for a parameter of one type        *)
LEMMA OldConversion ==
  ASSUME NEW hint, NEW type, NamesType(hint, type), NEW text
  PROVE  ConvertStringToType(text, hint) =
           IF type \in Converters /\ Convert(type, text) # Refused THEN Convert(type, text) ELSE Text(text)
<1> DEFINE tried == [i \in DOMAIN hint |-> IF hint[i] \in Converters THEN Convert(hint[i], text) ELSE Refused]
           converts == {i \in DOMAIN hint : tried[i] # Refused}
<1>1. /\ 1 \in DOMAIN hint /\ hint[1] = type
      /\ \A i \in DOMAIN hint : i # 1 => hint[i] \notin Converters
  <2>1. CASE hint = <<type>>
    BY <2>1
  <2>2. CASE hint = <<type, "None">>
    BY <2>2, NoneIsNoConverter
  <2> QED  BY <2>1, <2>2 DEF NamesType
<1>2. \A i \in DOMAIN hint : i # 1 => tried[i] = Refused
  BY <1>1
<1>3. tried[1] = IF type \in Converters THEN Convert(type, text) ELSE Refused
  BY <1>1
<1>4. ConvertStringToType(text, hint) =
        IF converts = {} THEN Text(text) ELSE tried[CHOOSE i \in converts : \A j \in converts : i <= j]
  BY DEF ConvertStringToType
<1> HIDE DEF tried
<1>5. CASE type \in Converters /\ Convert(type, text) # Refused
  <2>1. converts = {1}
    BY <1>1, <1>2, <1>3, <1>5
  <2>2. (CHOOSE i \in converts : \A j \in converts : i <= j) = 1
    BY <2>1
  <2> QED  BY <1>3, <1>4, <1>5, <2>1, <2>2
<1>6. CASE ~ (type \in Converters /\ Convert(type, text) # Refused)
  <2>1. converts = {}
    BY <1>1, <1>2, <1>3, <1>6
  <2> QED  BY <1>4, <1>6, <2>1
<1> QED  BY <1>5, <1>6

LEMMA ParamOfName ==
  ASSUME NEW h \in Handlers, NEW n \in Named(h)
  PROVE  /\ \E type : NamesType(Param(h, n).hint, type)
         /\ n = "request_host" => Param(h, n).hint = <<"str">>
<1>1. PICK i \in DOMAIN h.params : h.params[i].name = n
  BY DEF Named
<1>2. \E p \in ToSet(h.params) : p.name = n
  BY <1>1 DEF ToSet
<1>3. Param(h, n) \in ToSet(h.params) /\ Param(h, n).name = n
  BY <1>2 DEF Param
<1>4. PICK j \in DOMAIN h.params : Param(h, n) = h.params[j]
  BY <1>3 DEF ToSet
<1>5. WellTyped(h.params)
  BY HandlersWellTyped
<1> QED  BY <1>3, <1>4, <1>5 DEF WellTyped

(* The binder and the wrapper it replaced, on any raw parameters           *)
Replaces(h, args, kwargs) ==
  LET new == Bind(h, args, kwargs)
      old == TypeConvertingWrapper(h, args, kwargs)
      untyped(n) == old.args[n].t = "text" /\ ConverterFor(Param(h, n).hint) # "str"
  IN IF new.error = "none"
     THEN Only(old.args, Named(h)) = Only(new.args, Named(h)) /\ \A n \in Named(h) \cap DOMAIN old.args : ~ untyped(n)
     ELSE \/ old.error # "none"
          \/ {PositionalNames(h)[i] : i \in DOMAIN args} \cap DOMAIN kwargs # {}
          \/ \E n \in Named(h) \cap DOMAIN old.args : untyped(n)

LEMMA BoundAndRaised ==
  /\ \A args : Bound(args).error = "none" /\ Bound(args).args = args
  /\ TypeError.error = "TypeError" /\ ParamCoercionError.error = "ParamCoercionError"
BY DEF Bound, Raised, TypeError, ParamCoercionError

LEMMA BinderReplaces ==
  ASSUME NEW h \in Handlers, NEW args, NEW kwargs,
         \A n \in DOMAIN kwargs : kwargs[n].t # "refused",
         \A i \in DOMAIN args : args[i].t # "refused"
  PROVE  Replaces(h, args, kwargs)
<1> DEFINE positional == PositionalNames(h)
           raw == Merge(kwargs, ZipNames(positional, args))
           known == [n \in DOMAIN raw \cap Named(h) |-> BindOne(h, n, raw[n])]
           passed == Only(raw, DOMAIN raw \ (Named(h) \cup Texts(raw)))
           bound == Merge(Merge(known, passed), Defaults(h))
           texts == Texts(raw)
           converted == [n \in texts \cap Named(h) |-> ConvertStringToType(raw[n].v, Param(h, n).hint)]
           nonTexts == Only(raw, DOMAIN raw \ texts)
           wrapped == Merge(nonTexts, Merge(converted, Defaults(h)))
           collides == {positional[i] : i \in DOMAIN args} \cap DOMAIN kwargs # {}
           new == Bind(h, args, kwargs)
           old == TypeConvertingWrapper(h, args, kwargs)
<1>1. \A n \in DOMAIN raw : raw[n].t # "refused"
  <2>1. \A n \in DOMAIN ZipNames(positional, args) : \E i \in DOMAIN args : ZipNames(positional, args)[n] = args[i]
    BY DEF ZipNames
  <2>2. DOMAIN raw = DOMAIN kwargs \cup DOMAIN ZipNames(positional, args)
    BY DEF Merge
  <2>3. \A n \in DOMAIN raw : raw[n] = IF n \in DOMAIN kwargs THEN kwargs[n] ELSE ZipNames(positional, args)[n]
    BY <2>2 DEF Merge
  <2> QED  BY <2>1, <2>2, <2>3
<1>2. /\ new = IF Len(args) > Len(positional) THEN TypeError
               ELSE IF collides THEN TypeError
               ELSE IF \E n \in DOMAIN known : known[n] = Refused THEN ParamCoercionError
               ELSE Bound(bound)
      /\ old = IF Len(args) > Len(positional) THEN TypeError
               ELSE IF Named(h) = {} THEN Bound(kwargs)
               ELSE Bound(wrapped)
  BY DEF Bind, TypeConvertingWrapper
<1> HIDE DEF raw, positional
<1>3. /\ texts = {n \in DOMAIN raw : raw[n].t = "text"}
      /\ DOMAIN known = DOMAIN raw \cap Named(h) /\ DOMAIN converted = texts \cap Named(h)
      /\ DOMAIN passed = DOMAIN raw \ (Named(h) \cup texts) /\ DOMAIN nonTexts = DOMAIN raw \ texts
      /\ DOMAIN Defaults(h) \subseteq Named(h)
      /\ \A n \in DOMAIN Defaults(h) : Defaults(h)[n].t = "default"
  BY DEF Texts, Only, Defaults, Default
<1>4. ASSUME NEW n \in DOMAIN raw \cap Named(h)
      PROVE  /\ n \in texts => known[n] = Refused \/ (known[n] = converted[n] /\ (converted[n].t = "text" <=> ConverterFor(Param(h, n).hint) = "str"))
             /\ n \in texts /\ known[n] = Refused => converted[n].t = "text" /\ ConverterFor(Param(h, n).hint) # "str"
             /\ n \notin texts => known[n] = raw[n] /\ raw[n] # Refused /\ raw[n].t # "text"
  <2>1. PICK type : NamesType(Param(h, n).hint, type)
    BY ParamOfName
  <2>2. known[n] = BindOne(h, n, raw[n])
    OBVIOUS
  <2>3. CASE n \in texts
    <3> DEFINE v == raw[n].v
    <3>1. converted[n] = IF type \in Converters /\ Convert(type, v) # Refused THEN Convert(type, v) ELSE Text(v)
      BY <2>1, <2>3, OldConversion
    <3>2. known[n] = IF type \in Converters THEN Convert(type, v) ELSE Refused
      <4>1. raw[n].t = "text"
        BY <2>3, <1>3
      <4>2. ConverterFor(Param(h, n).hint) = IF type \in Converters THEN type ELSE "None"
        BY <2>1, ConverterOfType
      <4> QED  BY <2>2, <4>1, <4>2, NoneIsNoConverter DEF BindOne
    <3>3. ConverterFor(Param(h, n).hint) = IF type \in Converters THEN type ELSE "None"
      BY <2>1, ConverterOfType
    <3> HIDE DEF known, converted, v
    <3>4. Text(v).t = "text"
      BY DEF Text
    <3> QED  BY <2>3, <3>1, <3>2, <3>3, <3>4, ConvertMakes, NoneIsNoConverter
  <2>4. CASE n \notin texts
    <3>1. raw[n].t # "text" /\ raw[n].t # "refused"
      BY <1>1, <1>3, <2>4
    <3>2. raw[n] # Refused
      BY <3>1 DEF Refused
    <3> QED  BY <2>2, <2>4, <3>1, <3>2 DEF BindOne
  <2> QED  BY <2>3, <2>4
<1> HIDE DEF known, converted, passed, nonTexts, texts
<1>5. /\ DOMAIN wrapped = DOMAIN nonTexts \cup DOMAIN converted \cup DOMAIN Defaults(h)
      /\ \A n \in DOMAIN wrapped :
           wrapped[n] = IF n \in DOMAIN nonTexts THEN nonTexts[n]
                        ELSE IF n \in DOMAIN converted THEN converted[n] ELSE Defaults(h)[n]
  BY DEF Merge
<1>6. /\ DOMAIN bound = DOMAIN known \cup DOMAIN passed \cup DOMAIN Defaults(h)
      /\ \A n \in DOMAIN bound :
           bound[n] = IF n \in DOMAIN known THEN known[n]
                      ELSE IF n \in DOMAIN passed THEN passed[n] ELSE Defaults(h)[n]
  BY DEF Merge
<1>7. \A n \in DOMAIN nonTexts : nonTexts[n] = raw[n]
  BY DEF nonTexts, Only
<1> HIDE DEF wrapped, bound
<1>8. DOMAIN wrapped \cap Named(h) = DOMAIN bound \cap Named(h)
  BY <1>3, <1>5, <1>6
<1>9. ASSUME \A n \in DOMAIN known : known[n] # Refused, NEW n \in DOMAIN wrapped \cap Named(h)
      PROVE  wrapped[n] = bound[n] /\ ~ (wrapped[n].t = "text" /\ ConverterFor(Param(h, n).hint) # "str")
  <2>1. CASE n \in DOMAIN raw /\ n \in texts
    <3>1. wrapped[n] = converted[n] /\ bound[n] = known[n]
      BY <1>3, <1>5, <1>6, <1>8, <1>9, <2>1
    <3> QED  BY <1>3, <1>4, <1>9, <2>1, <3>1
  <2>2. CASE n \in DOMAIN raw /\ n \notin texts
    <3>1. wrapped[n] = raw[n] /\ bound[n] = known[n]
      BY <1>3, <1>5, <1>6, <1>7, <1>8, <1>9, <2>2
    <3> QED  BY <1>4, <1>9, <2>2, <3>1
  <2>3. CASE n \notin DOMAIN raw
    <3>1. wrapped[n] = Defaults(h)[n] /\ bound[n] = Defaults(h)[n] /\ n \in DOMAIN Defaults(h)
      BY <1>3, <1>5, <1>6, <1>8, <1>9, <2>3
    <3> QED  BY <1>3, <3>1
  <2> QED  BY <2>1, <2>2, <2>3
<1>10. ASSUME NEW n \in DOMAIN known, known[n] = Refused
       PROVE  n \in DOMAIN wrapped \cap Named(h) /\ wrapped[n].t = "text" /\ ConverterFor(Param(h, n).hint) # "str"
  <2>1. n \in texts /\ n \in DOMAIN converted /\ n \notin DOMAIN nonTexts /\ n \in DOMAIN wrapped
    BY <1>3, <1>4, <1>5, <1>10
  <2>2. wrapped[n] = converted[n]
    BY <1>5, <2>1
  <2> QED  BY <1>3, <1>4, <1>10, <2>1, <2>2
<1>11. CASE Len(args) > Len(positional)
  <2>1. new.error # "none" /\ old.error # "none"
    BY <1>2, <1>11, BoundAndRaised
  <2> QED  BY <2>1 DEF Replaces
<1>12. CASE ~ (Len(args) > Len(positional)) /\ collides
  <2>1. new.error # "none"
    BY <1>2, <1>12, BoundAndRaised
  <2> QED  BY <1>12, <2>1 DEF Replaces, positional
<1>13. CASE ~ (Len(args) > Len(positional)) /\ ~ collides /\ \E n \in DOMAIN known : known[n] = Refused
  <2>1. new.error # "none"
    BY <1>2, <1>13, BoundAndRaised
  <2>2. Named(h) # {}
    BY <1>3, <1>13
  <2>3. old.args = wrapped
    BY <1>2, <1>13, <2>2, BoundAndRaised
  <2> QED  BY <1>10, <1>13, <2>1, <2>3 DEF Replaces
<1>14. CASE ~ (Len(args) > Len(positional)) /\ ~ collides /\ ~ \E n \in DOMAIN known : known[n] = Refused
  <2>1. new.error = "none" /\ new.args = bound
    BY <1>2, <1>14, BoundAndRaised
  <2>2. CASE Named(h) = {}
    BY <2>1, <2>2 DEF Replaces, Only
  <2>3. CASE Named(h) # {}
    <3>1. old.args = wrapped
      BY <1>2, <1>14, <2>3, BoundAndRaised
    <3>2. Only(wrapped, Named(h)) = Only(bound, Named(h))
      BY <1>8, <1>9, <1>14 DEF Only
    <3> QED  BY <1>9, <1>14, <2>1, <3>1, <3>2 DEF Replaces
  <2> QED  BY <2>2, <2>3
<1> QED  BY <1>11, <1>12, <1>13, <1>14

(* _resolve_action finds a handler of the route table and texts, or none.  *)
LEMMA ResolvesToHandler ==
  ASSUME NEW path
  PROVE  /\ ResolveAction(path).handler \in Handlers \cup {Nothing}
         /\ \A i \in DOMAIN ResolveAction(path).args : ResolveAction(path).args[i].t = "text"
<1>1. ASSUME NEW p  PROVE HandlerAt(p) \in Handlers \cup {Nothing}
  <2>1. CASE p \in DOMAIN RouteTable
    <3>1. \E h \in Handlers : p \in h.paths
      BY <2>1 DEF RouteTable
    <3>2. RouteTable[p] \in Handlers
      BY <2>1, <3>1 DEF RouteTable
    <3> QED  BY <2>1, <3>2 DEF HandlerAt
  <2>2. CASE p \notin DOMAIN RouteTable
    BY <2>2 DEF HandlerAt
  <2> QED  BY <2>1, <2>2
<1> DEFINE word == HandlerAt(<<path[1]>>)
           rest == [i \in 1 .. Len(path) - 1 |-> Text(<<path[i + 1]>>)]
<1>2. \/ ResolveAction(path) = [handler |-> HandlerAt(path), args |-> <<>>]
      \/ ResolveAction(path) = [handler |-> word, args |-> rest]
      \/ ResolveAction(path) = [handler |-> Nothing, args |-> <<>>]
  BY DEF ResolveAction
<1>3. \A i \in DOMAIN rest : rest[i].t = "text"
  BY DEF Text
<1> HIDE DEF rest, word
<1>4. word \in Handlers \cup {Nothing}
  BY <1>1 DEF word
<1>5. /\ ResolveAction(path).handler \in {HandlerAt(path), word, Nothing}
      /\ ResolveAction(path).args \in {<<>>, rest}
  BY <1>2
<1>6. DOMAIN <<>> = {}
  OBVIOUS
<1> QED  BY <1>1, <1>3, <1>4, <1>5, <1>6

(* bind_params gives every handler what the old wrapper gave it, for every *)
(* request whose parameters are texts and lists: it refuses only what the  *)
(* old one failed on, overwrote or passed on unconverted.                  *)
THEOREM BinderIsDropIn == Spec => []BinderReplacesWrapper
<1>1. LogInv => BinderReplacesWrapper
  <2> SUFFICES ASSUME LogInv, NEW w \in Workers, worker[w].at = "handle",
                      ResolveAction(PathOf(worker[w].req)).handler # Nothing
               PROVE  Replaces(ResolveAction(PathOf(worker[w].req)).handler, ResolveAction(PathOf(worker[w].req)).args,
                               Merge(Injected(worker[w].req), worker[w].req.params))
    BY DEF BinderReplacesWrapper, Replaces
  <2> DEFINE req == worker[w].req
             found == ResolveAction(PathOf(req))
             kwargs == Merge(Injected(req), req.params)
  <2>1. req \in setting.script /\ setting \in Scenarios
    BY DEF LogInv, ServerShape, Busy
  <2>2. \A n \in DOMAIN req.params : req.params[n].t # "refused"
    BY <2>1, ScriptAssumption
  <2>3. \A n \in DOMAIN Injected(req) : Injected(req)[n].t # "refused"
    BY DEF Injected, Object, Text
  <2>4. \A n \in DOMAIN kwargs : kwargs[n].t # "refused"
    BY <2>2, <2>3 DEF Merge
  <2>5. found.handler \in Handlers /\ \A i \in DOMAIN found.args : found.args[i].t # "refused"
    BY ResolvesToHandler
  <2> HIDE DEF kwargs, found
  <2>6. Replaces(found.handler, found.args, kwargs)
    BY <2>4, <2>5, BinderReplaces
  <2> QED  BY <2>6 DEF kwargs, found
<1> QED  BY <1>1, LogInvInit, LogInvStep, PTL DEF Spec

-----------------------------------------------------------------------------
(* The key of the cache                                                    *)

(* Arguments that differ at most in the spelling of the host               *)
Alike(f, g) == DOMAIN f = DOMAIN g /\ \A n \in DOMAIN f : n # "request_host" => f[n] = g[n]
TextHost(f) == "request_host" \in DOMAIN f /\ f["request_host"].t = "text"

LEMMA BindAlike ==
  ASSUME NEW h \in Handlers, NEW args, NEW k1, NEW k2, Alike(k1, k2), TextHost(k1), TextHost(k2)
  PROVE  /\ Bind(h, args, k1).error = Bind(h, args, k2).error
         /\ Bind(h, args, k1).error = "none" => Alike(Bind(h, args, k1).args, Bind(h, args, k2).args)
<1> DEFINE positional == PositionalNames(h)
           zip == ZipNames(positional, args)
           raw(k) == Merge(k, zip)
           known(k) == [n \in DOMAIN raw(k) \cap Named(h) |-> BindOne(h, n, raw(k)[n])]
           passed(k) == Only(raw(k), DOMAIN raw(k) \ (Named(h) \cup Texts(raw(k))))
           bound(k) == Merge(Merge(known(k), passed(k)), Defaults(h))
           collides(k) == {positional[i] : i \in DOMAIN args} \cap DOMAIN k # {}
           refuses(k) == \E n \in DOMAIN known(k) : known(k)[n] = Refused
<1>1. \A k : Bind(h, args, k) = IF Len(args) > Len(positional) THEN TypeError
                                ELSE IF collides(k) THEN TypeError
                                ELSE IF refuses(k) THEN ParamCoercionError
                                ELSE Bound(bound(k))
  BY DEF Bind
<1> HIDE DEF positional, zip
<1>2. Alike(raw(k1), raw(k2)) /\ TextHost(raw(k1)) /\ TextHost(raw(k2))
  BY DEF Alike, TextHost, Merge
<1>3. Texts(raw(k1)) = Texts(raw(k2)) /\ "request_host" \in Texts(raw(k1))
  BY <1>2 DEF Alike, TextHost, Texts
<1>4. \A k : DOMAIN known(k) = DOMAIN raw(k) \cap Named(h) /\ DOMAIN passed(k) = DOMAIN raw(k) \ (Named(h) \cup Texts(raw(k)))
  BY DEF Only
<1>5. ASSUME NEW k, TextHost(raw(k)), "request_host" \in Named(h)  PROVE known(k)["request_host"] # Refused
  <2>1. Param(h, "request_host").hint = <<"str">>
    BY <1>5, ParamOfName
  <2>2. ConverterFor(<<"str">>) = "str"
    <3>1. NamesType(<<"str">>, "str")
      BY DEF NamesType
    <3> QED  BY <3>1, ConverterOfType, NoneIsNoConverter
  <2>3. known(k)["request_host"] = Convert("str", raw(k)["request_host"].v)
    BY <1>4, <1>5, <2>1, <2>2 DEF TextHost, BindOne
  <2> QED  BY <2>3, ConvertMakes, NoneIsNoConverter
<1>6. Alike(known(k1), known(k2))
  BY <1>2 DEF Alike
<1>7. Alike(passed(k1), passed(k2))
  BY <1>2, <1>3, <1>4 DEF Alike, Only
<1> HIDE DEF raw, known, passed
<1>8. refuses(k1) <=> refuses(k2)
  BY <1>2, <1>4, <1>5, <1>6 DEF Alike
<1>9. collides(k1) <=> collides(k2)
  BY DEF Alike
<1>10. Alike(bound(k1), bound(k2))
  BY <1>6, <1>7 DEF Alike, Merge
<1> HIDE DEF bound, refuses, collides
<1> QED  BY <1>1, <1>8, <1>9, <1>10, BoundAndRaised

(* The names a search reads                                                *)
SearchNames == {"query", "q", "direction", "orderby", "prefer", "unique"}

LEMMA SearchAlike ==
  ASSUME NEW a, NEW b, Alike(a, b), SearchNames \subseteq DOMAIN a
  PROVE  /\ QueryOf(a) = QueryOf(b) /\ Asked(a) = Asked(b)
         /\ Unhashable(a) <=> Unhashable(b)
<1>1. \A n \in DOMAIN a : n # "request_host" => a[n] = b[n]
  BY DEF Alike
<1>2. /\ a["query"] = b["query"] /\ a["q"] = b["q"] /\ a["direction"] = b["direction"]
      /\ a["orderby"] = b["orderby"] /\ a["prefer"] = b["prefer"] /\ a["unique"] = b["unique"]
  BY <1>1 DEF SearchNames
<1>3. QueryOf(a) = QueryOf(b)
  BY <1>2 DEF QueryOf, Sent
<1>4. Unhashable(a) <=> Unhashable(b)
  BY <1>2 DEF Unhashable, Hashed, Sent
<1>5. Asked(a) = Asked(b)
  <2> DEFINE name(i) == <<"direction", "fields", "limit", "orderby", "prefer", "unique">>[i]
             asked(x) == [i \in 1 .. 6 |-> IF name(i) \in DOMAIN x /\ Sent(x, name(i)) THEN x[name(i)].v ELSE <<>>]
  <2>1. \A i \in 1 .. 6 : name(i) # "request_host"
    OBVIOUS
  <2> HIDE DEF name
  <2>2. \A i \in 1 .. 6 : asked(a)[i] = asked(b)[i]
    BY <1>1, <2>1 DEF Alike, Sent
  <2>3. asked(a) = asked(b)
    BY <2>2
  <2>4. Asked(a) = <<QueryOf(a)>> \o asked(a) /\ Asked(b) = <<QueryOf(b)>> \o asked(b)
    BY DEF Asked, name
  <2> QED  BY <1>3, <2>3, <2>4
<1> QED  BY <1>3, <1>4, <1>5

LEMMA SearchErrorAlike ==
  ASSUME NEW a, NEW b, Alike(a, b), SearchNames \cup {"limit", "fields"} \subseteq DOMAIN a, NEW cards
  PROVE  SearchError(a, cards) = SearchError(b, cards)
<1>1. a["limit"] = b["limit"] /\ a["fields"] = b["fields"]
  BY DEF Alike
<1>2. QueryOf(a) = QueryOf(b) /\ (Unhashable(a) <=> Unhashable(b))
  BY SearchAlike
<1> QED  BY <1>1, <1>2 DEF SearchError, Sent

LEMMA AnswerAlike ==
  ASSUME NEW h \in Handlers, NEW a, NEW b, Alike(a, b), Named(h) \subseteq DOMAIN a, NEW site, NEW w
  PROVE  Answer(h, a, site, w) = Answer(h, b, site, w)
<1>1. ASSUME h = Search  PROVE SearchReply(a, w.cards) = SearchReply(b, w.cards)
  <2>1. h.params = SearchParams
    BY <1>1 DEF Search, Route
  <2>2. SearchNames \cup {"limit", "fields", "shape"} \subseteq Named(h)
    BY <2>1 DEF Named, SearchParams, Keyword, Parameter, SearchNames
  <2>3. Asked(a) = Asked(b) /\ SearchError(a, w.cards) = SearchError(b, w.cards)
    BY <2>2, SearchAlike, SearchErrorAlike
  <2>4. Shape(a) = Shape(b)
    BY <2>2 DEF Alike, Shape
  <2> QED  BY <2>3, <2>4 DEF SearchReply
<1>2. ASSUME h = Root  PROVE RootReply(a, site, w.cards) = RootReply(b, site, w.cards)
  <2> DEFINE default == [n \in {"limit", "fields"} |-> Default(n)]
             searched(x) == Merge(x, default)
  <2>1. h.params = RootParams
    BY <1>2 DEF Root, Route
  <2>2. SearchNames \subseteq Named(h)
    BY <2>1 DEF Named, RootParams, Keyword, Parameter, SearchNames
  <2>3. QueryOf(a) = QueryOf(b) /\ (Unhashable(a) <=> Unhashable(b))
    BY <2>2, SearchAlike
  <2>4. Alike(searched(a), searched(b)) /\ SearchNames \cup {"limit", "fields"} \subseteq DOMAIN searched(a)
    BY <2>2 DEF Alike, Merge
  <2> HIDE DEF searched
  <2>5. Asked(searched(a)) = Asked(searched(b)) /\ SearchError(searched(a), w.cards) = SearchError(searched(b), w.cards)
    BY <2>4, SearchAlike, SearchErrorAlike
  <2> DEFINE page == [Body("index") EXCEPT !.site = site]
             reply(query, error, refusal, with) ==
               IF query = <<"">> THEN Page("public", page)
               ELSE IF error = 503 THEN Error(503, "none")
               ELSE IF error = 400 THEN refusal
               ELSE Page("public", [page EXCEPT !.shows = w.cards, !.with = with])
             refusal(x) == IF Unhashable(x) THEN Error(400, "none") ELSE Page("public", page)
  <2>6. \A x : RootReply(x, site, w.cards) =
               reply(QueryOf(x), SearchError(searched(x), w.cards), refusal(x), Asked(searched(x)))
    BY DEF RootReply, searched
  <2>7. refusal(a) = refusal(b)
    BY <2>3
  <2> HIDE DEF reply, refusal
  <2> QED  BY <2>3, <2>5, <2>6, <2>7
<1>3. ASSUME h = RandomSearch  PROVE RandomReply(a, w.loaded) = RandomReply(b, w.loaded)
  <2>1. h.params = RandomParams
    BY <1>3 DEF RandomSearch, Route, RandomParams
  <2>2. {"num_cards", "shape"} \subseteq Named(h)
    BY <2>1 DEF Named, RandomParams, Keyword, Parameter
  <2>3. a["num_cards"] = b["num_cards"] /\ a["shape"] = b["shape"]
    BY <2>2 DEF Alike
  <2>4. Shape(a) = Shape(b) /\ Clamped(a) = Clamped(b)
    BY <2>3 DEF Shape, Clamped
  <2> QED  BY <2>3, <2>4 DEF RandomReply
<1>4. OperationReply(h, a, w.works) = OperationReply(h, b, w.works)
  <2>1. (\A n \in DOMAIN a \cap {"card_name", "search_query"} : a[n].v # <<"">>) <=>
        (\A n \in DOMAIN b \cap {"card_name", "search_query"} : b[n].v # <<"">>)
    BY DEF Alike
  <2> QED  BY <2>1 DEF OperationReply
<1>5. CASE h = Search
  BY <1>1, <1>2, <1>3, <1>4, <1>5 DEF Answer
<1>6. CASE h # Search /\ h = Root
  BY <1>2, <1>3, <1>4, <1>6 DEF Answer
<1>7. CASE h # Search /\ h # Root /\ h = RandomSearch
  BY <1>3, <1>4, <1>7 DEF Answer
<1>8. CASE h # Search /\ h # Root /\ h # RandomSearch
  <2>1. h \in {Card, RedirectToRoot} \cup StaticFiles \cup BinaryFiles \cup Operations \cup Reports
    BY <1>8 DEF Handlers
  <2> QED  BY <1>4, <1>8, <2>1 DEF Answer
<1> QED  BY <1>5, <1>6, <1>7, <1>8

(* The key holds everything a response depends on.                         *)
LEMMA SameKeySameAnswer ==
  ASSUME NEW r, NEW s, CacheKey(r) = CacheKey(s), NEW w
  PROVE  Compress(r, Handle(r, w)) = Compress(s, Handle(s, w))
<1>1. /\ r.method = s.method /\ r.path = s.path /\ r.params = s.params /\ r.accept = s.accept
      /\ SiteName(HostOf(r)) = SiteName(HostOf(s))
  BY DEF CacheKey, SiteName
<1>2. PathOf(r) = PathOf(s) /\ Resolved(r) = Resolved(s) /\ Resolved(r) = ResolveAction(PathOf(r)).handler
  BY <1>1 DEF PathOf, Resolved
<1> DEFINE h == Resolved(r)
           args == ResolveAction(PathOf(r)).args
           params == Only(r.params, DOMAIN r.params \ Disallowed)
           k(x) == Merge(Injected(x), params)
<1>3. /\ Arguments(r) = Called(h, Bind(h, args, k(r)))
      /\ Arguments(s) = Called(h, Bind(h, args, k(s)))
  BY <1>1, <1>2 DEF Arguments
<1>4. Alike(k(r), k(s)) /\ TextHost(k(r)) /\ TextHost(k(s))
  <2>1. /\ \A x : DOMAIN Injected(x) = {"falcon_response", "request_host"}
        /\ \A x : Injected(x)["request_host"].t = "text"
        /\ Injected(r)["falcon_response"] = Injected(s)["falcon_response"]
    BY DEF Injected, Text
  <2> HIDE DEF params
  <2> QED  BY <2>1 DEF Alike, TextHost, Merge
<1>5. h \in Handlers \cup {Nothing}
  BY <1>2, ResolvesToHandler
<1> HIDE DEF k, args, h
<1>6. ASSUME h \in Handlers
      PROVE  /\ Arguments(r).error = Arguments(s).error
             /\ Arguments(r).error = "none" => /\ Alike(Arguments(r).args, Arguments(s).args)
                                               /\ Named(h) \subseteq DOMAIN Arguments(r).args
  <2>1. /\ Bind(h, args, k(r)).error = Bind(h, args, k(s)).error
        /\ Bind(h, args, k(r)).error = "none" => Alike(Bind(h, args, k(r)).args, Bind(h, args, k(s)).args)
    BY <1>4, <1>6, BindAlike
  <2>2. Bind(h, args, k(r)).error = "none" => DOMAIN Bind(h, args, k(r)).args = DOMAIN Bind(h, args, k(s)).args
    BY <2>1 DEF Alike
  <2> QED  BY <1>3, <2>1, <2>2, BoundAndRaised DEF Called
<1>7. Handle(r, w) = Handle(s, w)
  <2>1. CASE h = Nothing
    BY <1>2, <2>1 DEF Handle, h
  <2>2. CASE h \in Handlers /\ h # Nothing
    <3>1. Arguments(r).error = "none" => Answer(h, Arguments(r).args, SiteName(HostOf(r)), w)
                                       = Answer(h, Arguments(s).args, SiteName(HostOf(s)), w)
      BY <1>1, <1>6, <2>2, AnswerAlike
    <3>2. h = Resolved(r) /\ h = Resolved(s)
      BY <1>2 DEF h
    <3> QED  BY <1>1, <1>6, <2>2, <3>1, <3>2 DEF Handle
  <2> QED  BY <1>5, <2>1, <2>2
<1>8. Candidates(r) = Candidates(s) /\ Compressor(r) = Compressor(s)
  BY <1>1 DEF Candidates, Compressor
<1> QED  BY <1>7, <1>8 DEF Compress

-----------------------------------------------------------------------------
(* What was an answer stays one: cards are only added.                     *)
Later == setting' = setting /\ world'.cards \in Nat /\ world.cards <= world'.cards

LEMMA StillAnAnswer ==
  ASSUME ServerShape, Later, NEW req, NEW resp
  PROVE  (Answers(req, resp) => Answers(req, resp)') /\ (Handled(req, resp) => Handled(req, resp)')
<1>1. world.cards \in Nat /\ 0 .. world.cards \subseteq 0 .. world'.cards
  BY CardsAssumption DEF ServerShape, Later
<1>2. \A cards, loaded : WorldOf(cards, loaded)' = WorldOf(cards, loaded)
  BY DEF WorldOf, Later
<1> QED  BY <1>1, <1>2 DEF Answers, Handled

CacheEntries == \A c \in Caches : \A k \in DOMAIN cache[c] :
                  /\ Replayable(cache[c][k])
                  /\ \E req \in setting.script : CacheKey(req) = k /\ Answers(req, cache[c][k])
WorkerResponse(w) ==
  /\ worker[w].hit => /\ worker[w].at = "respond"
                      /\ Replayable(worker[w].resp) /\ Answers(worker[w].req, worker[w].resp)
  /\ worker[w].at = "compress" => Handled(worker[w].req, worker[w].resp)
  /\ worker[w].at = "store" => Replayable(worker[w].resp) /\ Answers(worker[w].req, worker[w].resp)

LEMMA CacheParts == CacheInv <=> CacheEntries /\ \A w \in Workers : WorkerResponse(w)
BY DEF CacheInv, CacheEntries, WorkerResponse

LEMMA CacheLater == ASSUME ServerShape, Later, CacheEntries, cache' = cache  PROVE CacheEntries'
<1> SUFFICES ASSUME NEW c \in Caches, NEW k \in DOMAIN cache[c]
             PROVE  /\ Replayable(cache[c][k])
                    /\ \E req \in setting.script : CacheKey(req) = k /\ Answers(req, cache[c][k])'
  BY DEF CacheEntries, Caches, Later, Replayable
<1>1. PICK req \in setting.script : CacheKey(req) = k /\ Answers(req, cache[c][k])
  BY DEF CacheEntries
<1>2. \A resp : Answers(req, resp) => Answers(req, resp)'
  BY StillAnAnswer
<1>3. Answers(req, cache[c][k])'
  BY <1>1, <1>2 DEF Answers
<1> QED  BY <1>1, <1>3 DEF CacheEntries

LEMMA WorkerLater ==
  ASSUME ServerShape, Later, NEW w \in Workers, WorkerResponse(w), worker'[w] = worker[w]  PROVE WorkerResponse(w)'
<1>1. world.cards \in Nat /\ 0 .. world.cards \subseteq 0 .. world'.cards
  BY CardsAssumption DEF ServerShape, Later
<1>2. \A cards, loaded : WorldOf(cards, loaded)' = WorldOf(cards, loaded)
  BY DEF WorldOf, Later
<1>3. Answers(worker[w].req, worker[w].resp) => Answers(worker[w].req, worker[w].resp)'
  BY <1>1, <1>2 DEF Answers
<1>4. Handled(worker[w].req, worker[w].resp) => Handled(worker[w].req, worker[w].resp)'
  BY <1>1, <1>2 DEF Handled
<1> QED  BY <1>3, <1>4 DEF WorkerResponse, Replayable

(* process_request: a hit is an answer to another request with the key.    *)
LEMMA ReceiveAnswers ==
  ASSUME ServerShape, CacheInv, NEW w \in Workers, NEW req \in setting.script, Receive(w, req)  PROVE CacheInv'
<1> DEFINE hit == Cacheable(req) /\ Stored(w, CacheKey(req))
           resp == IF hit THEN cache[CacheOf(w)][CacheKey(req)] ELSE Error(0, "none")
<1>1. CacheEntries /\ \A v \in Workers : WorkerResponse(v)
  BY CacheParts
<1>2. worker' = [worker EXCEPT ![w] = [at |-> IF hit THEN "respond" ELSE "handle", req |-> req, hit |-> hit,
                                       id |-> NextId, resp |-> resp]]
  BY DEF Receive
<1>3. UNCHANGED <<world, setting, cache>>
  BY DEF Receive, fixed
<1>4. Later
  BY <1>3, CardsAssumption DEF Later, ServerShape
<1>5. CacheEntries'
  BY <1>1, <1>3, <1>4, CacheLater
<1>6. \A v \in Workers \ {w} : worker'[v] = worker[v]
  BY <1>2 DEF ServerShape
<1>7. \A v \in Workers \ {w} : WorkerResponse(v)'
  BY <1>1, <1>4, <1>6, WorkerLater
<1>8. ASSUME hit  PROVE Replayable(resp) /\ Answers(req, resp)
  <2>1. CacheOf(w) \in Caches /\ CacheKey(req) \in DOMAIN cache[CacheOf(w)] /\ resp = cache[CacheOf(w)][CacheKey(req)]
    BY <1>8 DEF CacheOf, Caches, Stored
  <2>2. PICK other \in setting.script : CacheKey(other) = CacheKey(req) /\ Answers(other, resp)
    BY <1>1, <2>1 DEF CacheEntries
  <2>3. \A x : Compress(other, Handle(other, x)) = Compress(req, Handle(req, x))
    BY <2>2, SameKeySameAnswer
  <2>4. Answers(req, resp)
    BY <2>2, <2>3 DEF Answers
  <2> QED  BY <1>1, <2>1, <2>4 DEF CacheEntries
<1>9. Answers(req, resp) => Answers(req, resp)'
  BY <1>3 DEF Answers, WorldOf, Cacheable, Stored, CacheOf
<1>10. worker'[w].at \notin {"compress", "store"} /\ worker'[w].hit = hit /\ worker'[w].req = req
       /\ worker'[w].resp = resp /\ (hit => worker'[w].at = "respond")
  <2> HIDE DEF hit, resp
  <2> QED  BY <1>2 DEF ServerShape
<1>11. WorkerResponse(w)'
  <2>1. resp' = resp /\ (hit' <=> hit)
    BY <1>3 DEF Cacheable, Stored, CacheOf
  <2> HIDE DEF hit, resp
  <2>2. hit => Answers(worker[w].req, worker[w].resp)'
    BY <1>8, <1>9, <1>10, <2>1 DEF Answers
  <2> QED  BY <1>8, <1>10, <2>1, <2>2 DEF WorkerResponse, Replayable
<1> QED  BY <1>5, <1>7, <1>11, CacheParts DEF CacheInv, CacheEntries, WorkerResponse

(* The handler's answer is compressed, and stored if it may be.            *)
LEMMA StepAnswers ==
  ASSUME ServerShape, CacheInv, NEW w \in Workers, Serve(w) \/ CompressAndProbe(w) \/ StoreResponse(w)  PROVE CacheInv'
<1>1. CacheEntries /\ \A v \in Workers : WorkerResponse(v)
  BY CacheParts
<1>2. /\ DOMAIN worker = Workers /\ DOMAIN worker[w] = {"at", "req", "resp", "hit", "id"}
      /\ world \in [cards : 0 .. MaxCards, loaded : BOOLEAN, works : {setting.works}]
      /\ worker[w].at \in Busy => worker[w].req \in setting.script
      /\ DOMAIN cache = Caches /\ worker[w].hit \in BOOLEAN
  BY DEF ServerShape
<1>3. Later
  <2>1. setting' = setting
    BY DEF Serve, CompressAndProbe, StoreResponse, fixed
  <2>2. world' = world \/ world' = [world EXCEPT !.cards = @ + 1]
    BY DEF Serve, CompressAndProbe, StoreResponse, fixed
  <2> QED  BY <1>2, <2>1, <2>2, CardsAssumption DEF Later
<1>4. \A v \in Workers \ {w} : worker'[v] = worker[v]
  BY <1>2 DEF Serve, CompressAndProbe, StoreResponse
<1>5. \A v \in Workers \ {w} : WorkerResponse(v)'
  BY <1>1, <1>3, <1>4, WorkerLater
<1>6. worker[w].at # "respond" /\ ~ worker[w].hit
  <2>1. worker[w].at # "respond"
    BY DEF Serve, CompressAndProbe, StoreResponse
  <2> QED  BY <1>1, <1>2, <2>1 DEF WorkerResponse
<1>7. CASE Serve(w)
  <2>1. cache' = cache
    BY <1>7 DEF Serve
  <2>2. CacheEntries'
    BY <1>1, <1>3, <2>1, CacheLater
  <2>3. /\ worker'[w].at = "compress" /\ worker'[w].hit = worker[w].hit /\ worker'[w].req = worker[w].req
        /\ worker'[w].resp = Handle(worker[w].req, world)
    BY <1>2, <1>7 DEF Serve
  <2>4. world = WorldOf(world.cards, world.loaded) /\ world.cards \in 0 .. world.cards /\ world.loaded \in BOOLEAN
    BY <1>2, CardsAssumption DEF WorldOf
  <2>5. Handled(worker[w].req, Handle(worker[w].req, world))
    BY <2>4 DEF Handled
  <2>6. \A req, resp : Handled(req, resp) => Handled(req, resp)'
    BY <1>3, StillAnAnswer
  <2>7. Handled(worker[w].req, worker[w].resp)'
    BY <2>3, <2>5, <2>6 DEF Handled
  <2>8. WorkerResponse(w)'
    BY <1>6, <2>3, <2>7 DEF WorkerResponse
  <2> QED  BY <1>5, <2>2, <2>8 DEF CacheInv, CacheEntries, WorkerResponse
<1>8. CASE CompressAndProbe(w)
  <2>1. cache' = cache /\ world' = world /\ setting' = setting
    BY <1>8 DEF CompressAndProbe, fixed
  <2>2. CacheEntries'
    BY <1>1, <1>3, <2>1, CacheLater
  <2> DEFINE resp == Compress(worker[w].req, worker[w].resp)
  <2>3. /\ worker'[w].at \in {"store", "respond"} /\ worker'[w].hit = worker[w].hit /\ worker'[w].req = worker[w].req
        /\ worker'[w].resp = resp
        /\ worker'[w].at = "store" => Replayable(resp)
    BY <1>2, <1>8 DEF CompressAndProbe, Replayable
  <2>4. Answers(worker[w].req, resp)
    <3>1. Handled(worker[w].req, worker[w].resp)
      BY <1>1, <1>8 DEF CompressAndProbe, WorkerResponse
    <3> QED  BY <3>1 DEF Handled, Answers
  <2> HIDE DEF resp
  <2>5. Answers(worker[w].req, worker[w].resp)'
    BY <2>1, <2>3, <2>4 DEF Answers, WorldOf
  <2>6. WorkerResponse(w)'
    BY <1>6, <2>3, <2>5 DEF WorkerResponse
  <2> QED  BY <1>5, <2>2, <2>6 DEF CacheInv, CacheEntries, WorkerResponse
<1>9. CASE StoreResponse(w)
  <2> DEFINE key == CacheKey(worker[w].req)
             c0 == CacheOf(w)
             resp == worker[w].resp
  <2>1. /\ world' = world /\ setting' = setting
        /\ cache' = [cache EXCEPT ![c0] = Merge([k \in {key} |-> resp], @)]
        /\ worker[w].at = "store"
    BY <1>9 DEF StoreResponse, fixed
  <2>2. Replayable(resp) /\ Answers(worker[w].req, resp) /\ worker[w].req \in setting.script
    BY <1>1, <1>2, <2>1 DEF WorkerResponse, Busy
  <2>3. /\ worker'[w].at = "respond" /\ worker'[w].hit = worker[w].hit
    BY <1>2, <1>9 DEF StoreResponse
  <2>4. WorkerResponse(w)'
    BY <1>6, <2>3 DEF WorkerResponse
  <2>5. \A req, x : Answers(req, x)' <=> Answers(req, x)
    BY <2>1 DEF Answers, WorldOf
  <2> HIDE DEF key, c0, resp
  <2>6. ASSUME NEW c \in Caches, NEW k \in DOMAIN cache'[c]
        PROVE  \/ k \in DOMAIN cache[c] /\ cache'[c][k] = cache[c][k]
               \/ k = key /\ cache'[c][k] = resp
    BY <1>2, <2>1, <2>6 DEF Merge
  <2>7. ASSUME NEW c \in Caches, NEW k \in DOMAIN cache'[c]
        PROVE  /\ Replayable(cache'[c][k])
               /\ \E req \in setting.script : CacheKey(req) = k /\ Answers(req, cache'[c][k])
    <3>1. CASE k \in DOMAIN cache[c] /\ cache'[c][k] = cache[c][k]
      BY <1>1, <3>1 DEF CacheEntries
    <3>2. CASE k = key /\ cache'[c][k] = resp
      BY <2>2, <3>2 DEF key
    <3> QED  BY <2>6, <3>1, <3>2
  <2>8. CacheEntries'
    BY <2>1, <2>5, <2>7 DEF CacheEntries, Caches, Replayable, Answers, WorldOf
  <2> QED  BY <1>5, <2>4, <2>8 DEF CacheInv, CacheEntries, WorkerResponse
<1> QED  BY <1>7, <1>8, <1>9

LEMMA EntriesKept ==
  ASSUME CacheEntries, setting' = setting, world' = world,
         \A c \in Caches : \A k \in DOMAIN cache'[c] : k \in DOMAIN cache[c] /\ cache'[c][k] = cache[c][k]
  PROVE  CacheEntries'
<1>1. ASSUME NEW c \in Caches, NEW k \in DOMAIN cache'[c]
      PROVE  /\ Replayable(cache'[c][k])
             /\ \E req \in setting.script : CacheKey(req) = k /\ Answers(req, cache'[c][k])
  BY DEF CacheEntries
<1>2. \A req, x : Answers(req, x)' <=> Answers(req, x)
  BY DEF Answers, WorldOf
<1> QED  BY <1>1, <1>2 DEF CacheEntries, Caches, Replayable, Answers, WorldOf

LEMMA FreeAnswersNothing ==
  ASSUME NEW w \in Workers, worker'[w] = Free \/ worker'[w] = [Free EXCEPT !.at = "dead"]  PROVE WorkerResponse(w)'
<1>1. worker'[w].hit = FALSE /\ worker'[w].at \in {"free", "dead"}
  BY DEF Free
<1> QED  BY <1>1 DEF WorkerResponse

LEMMA CacheInvStep == LogInv /\ CacheInv /\ [Next]_vars => CacheInv'
<1> SUFFICES ASSUME LogInv, CacheInv, [Next]_vars  PROVE CacheInv'
  OBVIOUS
<1>1. ServerShape
  BY DEF LogInv
<1>2. CacheEntries /\ \A v \in Workers : WorkerResponse(v)
  BY CacheParts
<1>3. /\ world \in [cards : 0 .. MaxCards, loaded : BOOLEAN, works : {setting.works}]
      /\ DOMAIN cache = Caches /\ DOMAIN worker = Workers
  BY <1>1 DEF ServerShape
<1>4. ASSUME CacheEntries', \A v \in Workers : WorkerResponse(v)'  PROVE CacheInv'
  BY <1>4 DEF CacheInv, CacheEntries, WorkerResponse
<1>5. ASSUME setting' = setting, world'.cards = world.cards  PROVE Later
  BY <1>3, <1>5, CardsAssumption DEF Later
<1>6. ASSUME setting' = setting, world'.cards = world.cards, UNCHANGED <<worker, cache>>  PROVE CacheInv'
  <2>1. Later
    BY <1>5, <1>6
  <2>2. CacheEntries'
    BY <1>1, <1>2, <1>6, <2>1, CacheLater
  <2>3. \A v \in Workers : WorkerResponse(v)'
    BY <1>1, <1>2, <1>6, <2>1, WorkerLater
  <2> QED  BY <1>4, <2>2, <2>3
<1>7. CASE UNCHANGED vars
  BY <1>6, <1>7 DEF vars, webVars, fixed
<1>8. ASSUME NEW c0 \in Caches, NEW key \in DOMAIN cache[c0], Evict(c0, key)  PROVE CacheInv'
  <2>1. UNCHANGED <<world, setting, worker>> /\ cache' = [cache EXCEPT ![c0] = [k \in DOMAIN @ \ {key} |-> @[k]]]
    BY <1>8 DEF Evict, fixed
  <2>2. \A v \in Workers : WorkerResponse(v)'
    BY <1>1, <1>2, <1>5, <2>1, WorkerLater
  <2>3. ASSUME NEW c \in Caches, NEW k \in DOMAIN cache'[c]
        PROVE  k \in DOMAIN cache[c] /\ cache'[c][k] = cache[c][k]
    BY <1>3, <2>1, <2>3
  <2>4. CacheEntries'
    <3>1. setting' = setting /\ world' = world
      BY <2>1
    <3> QED  BY <1>2, <2>3, <3>1, EntriesKept
  <2> QED  BY <1>4, <2>2, <2>4
<1>9. CASE LoadEngine
  <2>1. UNCHANGED <<setting, worker, cache>> /\ world' = [world EXCEPT !.loaded = TRUE]
    BY <1>9 DEF LoadEngine, fixed
  <2>2. world'.cards = world.cards
    BY <1>3, <2>1
  <2> QED  BY <1>6, <2>1, <2>2
<1>10. ASSUME NEW w \in Workers, Shutdown(w) \/ LogStep(w)  PROVE CacheInv'
  BY <1>6, <1>10 DEF Shutdown, LogStep, webVars, fixed
<1>11. ASSUME NEW w \in Workers, Respond(w) \/ WorkerDies(w)  PROVE CacheInv'
  <2>1. /\ UNCHANGED <<world, setting, cache>>
        /\ worker' = [worker EXCEPT ![w] = Free] \/ worker' = [worker EXCEPT ![w] = [Free EXCEPT !.at = "dead"]]
    BY <1>11 DEF Respond, WorkerDies, fixed
  <2>2. Later
    BY <1>5, <2>1
  <2>3. CacheEntries'
    BY <1>1, <1>2, <2>1, <2>2, CacheLater
  <2>4. \A v \in Workers \ {w} : worker'[v] = worker[v]
    BY <1>3, <2>1
  <2>5. worker'[w] = Free \/ worker'[w] = [Free EXCEPT !.at = "dead"]
    BY <1>3, <2>1
  <2>6. WorkerResponse(w)'
    BY <2>5, FreeAnswersNothing
  <2>7. \A v \in Workers \ {w} : WorkerResponse(v)'
    BY <1>1, <1>2, <2>2, <2>4, WorkerLater
  <2> QED  BY <1>4, <2>3, <2>6, <2>7
<1>12. CASE Supervise
  <2>1. /\ UNCHANGED <<world, setting>> /\ worker' = [w \in Workers |-> Free]
        /\ cache' = [c \in Caches |-> IF c = "file" THEN cache[c] ELSE <<>>]
    BY <1>12 DEF Supervise, fixed
  <2>2. \A v \in Workers : WorkerResponse(v)'
    BY <2>1, FreeAnswersNothing
  <2>3. ASSUME NEW c \in Caches, NEW k \in DOMAIN cache'[c]
        PROVE  k \in DOMAIN cache[c] /\ cache'[c][k] = cache[c][k]
    <3>1. DOMAIN <<>> = {}
      OBVIOUS
    <3> QED  BY <2>1, <2>3, <3>1
  <2>4. CacheEntries'
    <3>1. setting' = setting /\ world' = world
      BY <2>1
    <3> QED  BY <1>2, <2>3, <3>1, EntriesKept
  <2> QED  BY <1>4, <2>2, <2>4
<1>13. ASSUME NEW w \in Workers, NEW req \in setting.script, Receive(w, req)  PROVE CacheInv'
  BY <1>1, <1>13, ReceiveAnswers
<1>14. ASSUME NEW w \in Workers, Step(w)  PROVE CacheInv'
  BY <1>1, <1>11, <1>14, StepAnswers DEF Step
<1> QED  BY <1>7, <1>8, <1>9, <1>10, <1>11, <1>12, <1>13, <1>14 DEF Next

LEMMA CacheInvInit == Init => CacheInv
<1> SUFFICES ASSUME Init  PROVE CacheInv
  OBVIOUS
<1>1. \A w \in Workers : worker[w].hit = FALSE /\ worker[w].at = "free"
  BY DEF Init, Free
<1>2. \A c \in Caches : DOMAIN cache[c] = {}
  <2>1. DOMAIN <<>> = {}
    OBVIOUS
  <2> QED  BY <2>1 DEF Init
<1> QED  BY <1>1, <1>2 DEF CacheInv

(* What the response cache replays is an answer to this very request, of   *)
(* now or of some earlier time, and never a server error or a response     *)
(* marked no-store: for any requests, any number of workers, on a shared   *)
(* file or on private caches, with entries evicted and workers dying.      *)
THEOREM ReplaysAreAnswers == Spec => []ReplayIsAnAnswer
<1>1. LogInv /\ CacheInv => ReplayIsAnAnswer
  <2> SUFFICES ASSUME LogInv, CacheInv, NEW w \in Workers, worker[w].hit
               PROVE  /\ worker[w].resp.status < 500 /\ worker[w].resp.control # "no-store"
                      /\ \E cards \in 0 .. world.cards, loaded \in BOOLEAN :
                           worker[w].resp = Compress(worker[w].req, Handle(worker[w].req,
                                              [world EXCEPT !.cards = cards, !.loaded = loaded]))
    BY DEF ReplayIsAnAnswer
  <2>1. Replayable(worker[w].resp) /\ Answers(worker[w].req, worker[w].resp)
    BY DEF CacheInv
  <2>2. world \in [cards : 0 .. MaxCards, loaded : BOOLEAN, works : {setting.works}]
    BY DEF LogInv, ServerShape
  <2>3. ASSUME NEW cards, NEW loaded
        PROVE  [world EXCEPT !.cards = cards, !.loaded = loaded] = WorldOf(cards, loaded)
    <3>1. world = [cards |-> world.cards, loaded |-> world.loaded, works |-> setting.works]
      BY <2>2
    <3>2. DOMAIN world = {"cards", "loaded", "works"} /\ world.works = setting.works
      BY <2>2
    <3> DEFINE older == [world EXCEPT !.cards = cards, !.loaded = loaded]
    <3>3. /\ older = [x \in {"cards", "loaded", "works"} |-> older[x]]
          /\ older["cards"] = cards /\ older["loaded"] = loaded /\ older["works"] = setting.works
      BY <3>2
    <3> HIDE DEF older
    <3>4. older = WorldOf(cards, loaded)
      BY <3>3 DEF WorldOf
    <3> QED  BY <3>4 DEF older
  <2> QED  BY <2>1, <2>3 DEF Replayable, Answers
<1> QED  BY <1>1, LogInvInit, LogInvStep, CacheInvInit, CacheInvStep, PTL DEF Spec
=============================================================================
