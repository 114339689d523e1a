------------------------- MODULE SearchServerProofs -------------------------
(***************************************************************************)
(* What is proved of searches and imports for every number of workers and  *)
(* requests and every scenario.                                            *)
(***************************************************************************)
EXTENDS SearchServer, TLAPS

-----------------------------------------------------------------------------
(* The archive.                                                            *)

(* What makes ArchiveMonotone inductive: the guard belongs to the thread   *)
(* that reloads, and what it has fetched is no older than the archive and  *)
(* no newer than the database.                                             *)
ReloadShape ==
  /\ db \in Nat /\ archive \in Nat /\ archive <= db
  /\ DOMAIN pc = Threads
  /\ snap \in [Threads -> Nat]
ReloadInv == ReloadShape /\ GuardInv

(* A step outside the part of _reload_engine() that holds the guard.       *)
Elsewhere ==
  /\ UNCHANGED <<archive, snap, guard>>
  /\ db' \in {db, db + 1}
  /\ DOMAIN pc' = Threads
  /\ \A t \in Threads : pc'[t] \in {"fetch", "publish"} => pc'[t] = pc[t]

LEMMA ThreadsOfWorkers ==
  /\ \A w \in Workers : Main(w) \in Threads /\ Bg(w) \in Threads
  /\ \A v, w \in Workers : Main(v) = Main(w) => v = w
  /\ \A v, w \in Workers : Main(v) # Bg(w)
  /\ \A t \in Threads : t[1] \in Workers /\ (t[2] = "main" => t = Main(t[1]))
BY DEF Threads, Main, Bg

LEMMA ReloadInit == Init => ReloadInv
<1> SUFFICES ASSUME Init PROVE ReloadInv
  OBVIOUS
<1>1. \A t \in Threads : pc[t] \in {"import_data", "idle"}
  BY DEF Init
<1>2. ReloadShape
  BY DEF Init, ReloadShape
<1>3. GuardInv
  BY <1>1 DEF GuardInv, Reloading
<1> QED BY <1>2, <1>3 DEF ReloadInv

LEMMA ElsewhereKeeps ==
  ASSUME ReloadInv, Elsewhere  PROVE ReloadInv' /\ archive' = archive
<1>1. ReloadShape' /\ archive' = archive
  BY DEF ReloadInv, ReloadShape, Elsewhere
<1>2. GuardInv'
  <2> SUFFICES ASSUME NEW t \in Threads
               PROVE /\ Reloading(t)' => guard' = t
                     /\ pc'[t] = "publish" => archive' <= snap'[t] /\ snap'[t] <= db'
    BY DEF GuardInv
  <2>1. Reloading(t)' => pc'[t] = pc[t]
    BY DEF Reloading, Elsewhere
  <2>2. pc[t] = "publish" => archive <= snap[t] /\ snap[t] <= db
    BY DEF ReloadInv, GuardInv
  <2>3. Reloading(t) => guard = t
    BY DEF ReloadInv, GuardInv
  <2> QED BY <2>1, <2>2, <2>3 DEF Reloading, Elsewhere, ReloadInv, ReloadShape
<1> QED BY <1>1, <1>2 DEF ReloadInv

(* Searches, and imports up to and after their reload, never touch the     *)
(* guard, the snapshot or the archive.                                     *)
LEMMA SearchIsElsewhere ==
  ASSUME ReloadInv, NEW w \in Workers, SearchStep(w)  PROVE Elsewhere
<1> USE ThreadsOfWorkers DEF ReloadInv, ReloadShape, Elsewhere, disk, locks, times, caches,
                             past, Goto, On
<1>1. ASSUME NEW ok, Answer(w, ok)
      PROVE  /\ DOMAIN pc' = Threads
             /\ \A t \in Threads : pc'[t] \in {"fetch", "publish"} => pc'[t] = pc[t]
  BY <1>1 DEF Answer, Respond
<1>2. CASE SetupCached(w)  BY <1>1, <1>2 DEF SetupCached
<1>3. CASE SetupStale(w)  BY <1>3 DEF SetupStale
<1>4. CASE SetupCount(w)  BY <1>1, <1>4 DEF SetupCount, Counted
<1>5. CASE SearchCache(w)  BY <1>5 DEF SearchCache, Respond
<1>6. CASE EngineSize(w)  BY <1>6 DEF EngineSize, BackgroundReload
<1>7. CASE EngineQuery(w)  BY <1>7 DEF EngineQuery, Respond
<1>8. CASE EngineQueryFails(w)  BY <1>8 DEF EngineQueryFails
<1>9. CASE QueryCache(w)  BY <1>9 DEF QueryCache, Respond
<1>10. CASE QueryExecute(w)  BY <1>10 DEF QueryExecute
<1>11. CASE QueryKeep(w)  BY <1>11 DEF QueryKeep, Respond
<1> QED BY <1>2, <1>3, <1>4, <1>5, <1>6, <1>7, <1>8, <1>9, <1>10, <1>11 DEF SearchStep

LEMMA ImportIsElsewhere ==
  ASSUME ReloadInv, NEW w \in Workers, ImportStep(w)  PROVE Elsewhere
<1> USE ThreadsOfWorkers DEF ReloadInv, ReloadShape, Elsewhere, disk, locks, times, caches,
                             past, Goto, On, ImportEnds, Commit
<1>1. CASE ImportRecent(w)  BY <1>1 DEF ImportRecent
<1>2. CASE ImportLock(w)  BY <1>2 DEF ImportLock
<1>3. CASE ImportLockTimeout(w)  BY <1>3 DEF ImportLockTimeout
<1>4. CASE Upsert(w)  BY <1>4 DEF Upsert
<1>5. CASE UpsertFails(w)  BY <1>5 DEF UpsertFails
<1>6. CASE Clear(w)  BY <1>6 DEF Clear
<1>7. CASE Stamp(w)  BY <1>7 DEF Stamp
<1>8. CASE Backfill(w)  BY <1>8 DEF Backfill
<1>9. CASE BackfillFails(w)  BY <1>9 DEF BackfillFails
<1>10. CASE ClearAgain(w)  BY <1>10 DEF ClearAgain
<1>11. CASE ImportDone(w)  BY <1>11 DEF ImportDone
<1>12. CASE SearchImportDone(w)  BY <1>12 DEF SearchImportDone
<1> QED BY <1>1, <1>2, <1>3, <1>4, <1>5, <1>6, <1>7, <1>8, <1>9, <1>10, <1>11, <1>12
        DEF ImportStep

LEMMA ReloadKeeps ==
  ASSUME ReloadInv, NEW t \in Threads, Reload(t)  PROVE ReloadInv' /\ archive' >= archive
<1> USE DEF disk, locks, times, caches, past, Goto, On
<1>0. AfterReload(t) \notin {"fetch", "publish"}
  BY DEF AfterReload
<1>1. ASSUME Reloading(t)
      PROVE guard = t /\ \A u \in Threads \ {t} : ~Reloading(u)
  BY <1>1 DEF ReloadInv, GuardInv
<1>2. CASE ReloadGuard(t)
  <2>1. CASE guard = Nobody /\ guard' = t /\ pc' = [pc EXCEPT ![t] = "fetch"]
    <3>1. \A u \in Threads : ~Reloading(u)
      BY <2>1, NobodyAssumption DEF ReloadInv, GuardInv
    <3>2. \A u \in Threads \ {t} : ~Reloading(u)' /\ pc'[u] # "publish"
      BY <2>1, <3>1 DEF Reloading, ReloadInv, ReloadShape
    <3>3. pc'[t] = "fetch"
      BY <2>1 DEF ReloadInv, ReloadShape
    <3>4. GuardInv'
      BY <2>1, <3>2, <3>3 DEF GuardInv, Reloading
    <3>5. ReloadShape' /\ archive' >= archive
      BY <1>2, <2>1 DEF ReloadGuard, ReloadInv, ReloadShape
    <3> QED BY <3>4, <3>5 DEF ReloadInv
  <2>2. CASE /\ UNCHANGED guard
             /\ pc' \in {[pc EXCEPT ![t] = AfterReload(t)], [pc EXCEPT ![t] = "idle"]}
    <3>1. Elsewhere
      BY <1>0, <1>2, <2>2 DEF ReloadGuard, Elsewhere, ReloadInv, ReloadShape
    <3> QED BY <3>1, ElsewhereKeeps DEF Elsewhere, ReloadInv, ReloadShape
  <2> QED BY <1>2, <2>1, <2>2 DEF ReloadGuard
<1>3. CASE ReloadFetch(t)
  <2>1. guard = t /\ \A u \in Threads \ {t} : ~Reloading(u)
    BY <1>1, <1>3 DEF ReloadFetch, Reloading
  <2>2. \A u \in Threads \ {t} : ~Reloading(u)' /\ pc'[u] # "publish"
    BY <1>3, <2>1 DEF ReloadFetch, Reloading, ReloadInv, ReloadShape
  <2>3. CASE guard' = Nobody /\ pc' = [pc EXCEPT ![t] = "idle"] /\ UNCHANGED snap
    <3>1. GuardInv'
      BY <2>2, <2>3 DEF GuardInv, Reloading, ReloadInv, ReloadShape
    <3>2. ReloadShape' /\ archive' >= archive
      BY <1>3, <2>3 DEF ReloadFetch, ReloadInv, ReloadShape
    <3> QED BY <3>1, <3>2 DEF ReloadInv
  <2>4. CASE /\ snap' = [snap EXCEPT ![t] = db] /\ pc' = [pc EXCEPT ![t] = "publish"]
             /\ UNCHANGED guard
    <3>1. ReloadShape' /\ archive' >= archive
      BY <1>3, <2>4 DEF ReloadFetch, ReloadInv, ReloadShape
    <3>2. snap'[t] = db' /\ archive' <= db'
      BY <1>3, <2>4 DEF ReloadFetch, ReloadInv, ReloadShape
    <3>3. GuardInv'
      BY <2>1, <2>2, <2>4, <3>1, <3>2 DEF GuardInv, Reloading, ReloadShape
    <3> QED BY <3>1, <3>3 DEF ReloadInv
  <2> QED BY <1>3, <2>3, <2>4 DEF ReloadFetch
<1>4. CASE ReloadPublish(t)
  <2>1. guard = t /\ \A u \in Threads \ {t} : ~Reloading(u)
    BY <1>1, <1>4 DEF ReloadPublish, Reloading
  <2>2. archive <= snap[t] /\ snap[t] <= db
    BY <1>4 DEF ReloadPublish, ReloadInv, GuardInv
  <2>3. ReloadShape' /\ archive' >= archive
    BY <1>4, <2>2 DEF ReloadPublish, ReloadInv, ReloadShape
  <2>4. \A u \in Threads : ~Reloading(u)' /\ pc'[u] # "publish"
    BY <1>0, <1>4, <2>1 DEF ReloadPublish, Reloading, ReloadInv, ReloadShape
  <2> QED BY <2>3, <2>4 DEF ReloadInv, GuardInv
<1>5. CASE ReloadFails(t)
  <2>1. guard = t /\ \A u \in Threads \ {t} : ~Reloading(u)
    BY <1>1, <1>5 DEF ReloadFails, Reloading
  <2>2. pc' = [pc EXCEPT ![t] = "idle"]
    BY <1>5, ThreadsOfWorkers DEF ReloadFails, ImportEnds
  <2>3. ReloadShape' /\ archive' >= archive
    BY <1>5, <2>2 DEF ReloadFails, ReloadInv, ReloadShape
  <2>4. \A u \in Threads : ~Reloading(u)' /\ pc'[u] # "publish"
    BY <2>1, <2>2 DEF Reloading, ReloadInv, ReloadShape
  <2> QED BY <2>3, <2>4 DEF ReloadInv, GuardInv
<1> QED BY <1>2, <1>3, <1>4, <1>5 DEF Reload

LEMMA ReloadStep == ReloadInv /\ [Next]_vars => ReloadInv' /\ archive' >= archive
<1> SUFFICES ASSUME ReloadInv, [Next]_vars PROVE ReloadInv' /\ archive' >= archive
  OBVIOUS
<1>0. ASSUME Elsewhere PROVE ReloadInv' /\ archive' >= archive
  BY <1>0, ElsewhereKeeps DEF ReloadInv, ReloadShape
<1> USE DEF disk, locks, times, caches, threads, past, Goto, On
<1>1. CASE Age
  BY <1>0, <1>1 DEF Age, Elsewhere, ReloadInv, ReloadShape
<1>2. ASSUME NEW w \in Workers, NEW op \in Requests, Call(w, op)
      PROVE ReloadInv' /\ archive' >= archive
  <2>1. First(op) \notin {"fetch", "publish"}
    BY DEF First, Requests, Imports
  <2> QED BY <1>0, <1>2, <2>1, ThreadsOfWorkers DEF Call, Elsewhere, ReloadInv, ReloadShape
<1>3. ASSUME NEW w \in Workers, Step(w)  PROVE ReloadInv' /\ archive' >= archive
  <2>1. CASE Return(w)
    BY <1>0, <2>1, ThreadsOfWorkers DEF Return, Elsewhere, ReloadInv, ReloadShape
  <2>2. CASE SearchStep(w)  BY <1>0, <2>2, SearchIsElsewhere
  <2>3. CASE ImportStep(w)  BY <1>0, <2>3, ImportIsElsewhere
  <2>4. CASE Reload(Main(w))  BY <2>4, ReloadKeeps, ThreadsOfWorkers
  <2>5. CASE Reload(Bg(w))  BY <2>5, ReloadKeeps, ThreadsOfWorkers
  <2> QED BY <1>3, <2>1, <2>2, <2>3, <2>4, <2>5 DEF Step
<1>4. ASSUME NEW w \in Workers, Expire(w)  PROVE ReloadInv' /\ archive' >= archive
  BY <1>0, <1>4 DEF Expire, Elsewhere, ReloadInv, ReloadShape
<1>5. CASE UNCHANGED vars
  BY <1>0, <1>5 DEF vars, Elsewhere, ReloadInv, ReloadShape
<1> QED BY <1>1, <1>2, <1>3, <1>4, <1>5 DEF Next

(* _reload_engine() never replaces an archive by an older one, however     *)
(* many workers import, reload in the background or fail half way.         *)
THEOREM ArchiveNeverGoesBack == Spec => ArchiveMonotone
<1>1. ReloadInv /\ [Next]_vars => [archive' >= archive]_vars
  BY ReloadStep
<1>2. ReloadInv /\ [Next]_vars => ReloadInv'
  BY ReloadStep
<1> QED BY ReloadInit, <1>1, <1>2, PTL DEF Spec, ArchiveMonotone

-----------------------------------------------------------------------------
(* Types.                                                                  *)

(* What makes TypeOK inductive: a query that has been executed has rows.   *)
RowsInv == \A w \in Workers : pc[Main(w)] = "keep" => loc[w].res \in Nat
TypeInv == TypeOK /\ RowsInv

LEMMA IdleType == Idle \in Locals /\ NoImports \in [Imports -> Nat]
BY DEF Idle, Locals, NoImports

LEMMA LocalsUpdate ==
  ASSUME NEW l \in Locals
  PROVE  /\ \A r \in Nat \cup {Nothing, Refused} : [l EXCEPT !.res = r] \in Locals
         /\ \A n \in Nat : /\ [l EXCEPT !.ver = n] \in Locals
                          /\ [l EXCEPT !.under = n] \in Locals
                          /\ [l EXCEPT !.seen = n] \in Locals
BY DEF Locals

LEMMA LocalsRes == ASSUME NEW l \in Locals, NEW r  PROVE [l EXCEPT !.res = r].res = r
BY DEF Locals

LEMMA CacheType ==
  /\ \A n \in Nat, r \in Nat \cup {Nothing} : [gen |-> n, res |-> r] \in Cache
  /\ \A c \in Cache : c.gen \in Nat /\ c.res \in Nat \cup {Nothing}
BY DEF Cache

LEMMA LocalsFields ==
  ASSUME NEW l \in Locals
  PROVE  /\ l.op \in Requests \cup {"none"} /\ l.since \in [Imports -> Nat]
         /\ l.seen \in Nat /\ l.under \in Nat /\ l.ver \in Nat
         /\ l.res \in Nat \cup {Nothing, Refused}
BY DEF Locals

LEMMA TypeInit == Init => TypeInv
<1> SUFFICES ASSUME Init PROVE TypeInv
  OBVIOUS
<1>1. loc \in [Workers -> Locals] /\ floor \in [Imports -> Nat]
  BY IdleType DEF Init, Locals, Requests, Imports, Idle
<1>2. pc \in [Threads -> Labels] /\ \A t \in Threads : pc[t] # "keep"
  BY DEF Init, Labels
<1>3. search \in [Workers -> Cache] /\ query \in [Workers -> Cache]
  BY DEF Init, Cache
<1>4. db \in Nat /\ loaded \in BOOLEAN /\ gen \in Nat /\ archive \in Nat
  BY DEF Init
<1>5. TypeOK
  BY <1>1, <1>2, <1>3, <1>4 DEF Init, TypeOK
<1>6. RowsInv
  BY <1>2, ThreadsOfWorkers DEF RowsInv
<1> QED BY <1>5, <1>6 DEF TypeInv

LEMMA SearchTypes ==
  ASSUME TypeInv, NEW w \in Workers, SearchStep(w)  PROVE TypeInv'
<1> USE ThreadsOfWorkers
<1> USE DEF TypeInv, TypeOK, RowsInv, disk, locks, times, caches, past, Goto, On
<1>a. loc[w] \in Locals /\ search[w] \in Cache /\ query[w] \in Cache
  OBVIOUS
<1>b. /\ loc[w].seen \in Nat /\ loc[w].under \in Nat
      /\ loc[w].res \in Nat \cup {Nothing, Refused}
  BY <1>a, LocalsFields
<1>c. \A r \in Nat \cup {Nothing, Refused} : [loc[w] EXCEPT !.res = r] \in Locals
  BY <1>a, LocalsUpdate
<1>d. [loc[w] EXCEPT !.seen = stamp] \in Locals /\ [loc[w] EXCEPT !.under = gen] \in Locals
  BY <1>a, LocalsUpdate
<1>e. \A c \in Cache : InnerCache(c) \in Cache
  BY CacheType DEF InnerCache
<1>f. \A c \in Cache : c.res \in Nat \cup {Nothing}
  BY CacheType
<1>g. \A r \in Nat : /\ [gen |-> loc[w].under, res |-> r] \in Cache
                     /\ [gen |-> gen, res |-> r] \in Cache
  BY <1>b, CacheType
<1>1. ASSUME NEW ok, Answer(w, ok)
      PROVE  /\ pc' \in [Threads -> Labels]
             /\ loc' \in [Workers -> Locals]
             /\ RowsInv'
  <2>1. PICK label \in Labels \ {"keep"}, l \in Locals :
          pc' = [pc EXCEPT ![Main(w)] = label] /\ loc' = [loc EXCEPT ![w] = l]
    <3>1. CASE UNCHANGED loc
      BY <1>a, <1>1, <3>1 DEF Answer, Respond, Labels
    <3>2. CASE loc' = [loc EXCEPT ![w] = Idle]
      BY <1>1, <3>2, IdleType DEF Answer, Respond, Labels
    <3>3. CASE loc' = [loc EXCEPT ![w].res = Refused]
      BY <1>c, <1>1, <3>3 DEF Answer, Respond, Labels
    <3> QED BY <1>1, <3>1, <3>2, <3>3 DEF Answer, Respond
  <2> QED BY <2>1
<1>2. CASE SetupCached(w)  BY <1>1, <1>2 DEF SetupCached
<1>3. CASE SetupStale(w)  BY <1>d, <1>3 DEF SetupStale, Labels
<1>4. CASE SetupCount(w)
  <2>1. PICK ok \in BOOLEAN : Counted(w, ok, loc[w].seen)
    BY <1>4 DEF SetupCount
  <2>2. setup' \in [Workers -> [ok : BOOLEAN, seen : Nat] \cup {Nothing}]
    BY <1>b, <2>1 DEF Counted
  <2> QED BY <1>1, <2>1, <2>2 DEF Counted
<1>5. CASE SearchCache(w)
  <2>1. search' \in [Workers -> Cache]
    BY <1>a, <1>e, <1>5 DEF SearchCache
  <2>2. PICK label \in Labels \ {"keep"}, l \in Locals :
          pc' = [pc EXCEPT ![Main(w)] = label] /\ loc' = [loc EXCEPT ![w] = l]
    BY <1>a, <1>c, <1>d, <1>e, <1>f, <1>5 DEF SearchCache, Respond, Labels
  <2> QED BY <1>5, <2>1, <2>2 DEF SearchCache
<1>6. CASE EngineSize(w)  BY <1>6 DEF EngineSize, BackgroundReload, Labels, Main, Bg
<1>7. CASE EngineQuery(w)  BY <1>c, <1>g, <1>7 DEF EngineQuery, StoreSearch, Respond, Labels
<1>8. CASE EngineQueryFails(w)  BY <1>8 DEF EngineQueryFails, Labels
<1>9. CASE QueryCache(w)
  <2> DEFINE inner == InnerCache(query[w])
  <2>1. inner \in Cache /\ inner.res \in Nat \cup {Nothing}
    BY <1>a, <1>e, <1>f
  <2>2. query' \in [Workers -> Cache]
    BY <1>9, <2>1 DEF QueryCache
  <2>3. CASE inner.res # Nothing
    <3>1. inner.res \in Nat
      BY <2>1, <2>3
    <3>2. StoreSearch(w, inner.res) /\ Respond(w, inner.res)
      BY <1>9, <2>3 DEF QueryCache
    <3>3. search' \in [Workers -> Cache]
      BY <1>g, <3>1, <3>2 DEF StoreSearch
    <3>4. [loc[w] EXCEPT !.res = inner.res] \in Locals
      BY <1>c, <3>1
    <3>5. /\ search' \in [Workers -> Cache]
          /\ loc' \in [Workers -> Locals]
          /\ pc' = [pc EXCEPT ![Main(w)] = "done"]
      BY <3>2, <3>3, <3>4 DEF Respond
    <3>6. RowsInv' /\ pc' \in [Threads -> Labels]
      BY <1>9, <2>3, <3>1, <3>5 DEF QueryCache, Respond, Labels
    <3> QED BY <1>9, <2>2, <3>5, <3>6 DEF QueryCache
  <2>4. CASE inner.res = Nothing
    BY <1>9, <2>2, <2>4 DEF QueryCache, Labels
  <2> QED BY <2>3, <2>4
<1>10. CASE QueryExecute(w)
  <2>1. [loc[w] EXCEPT !.res = db].res = db
    BY <1>a, LocalsRes
  <2> QED BY <1>c, <1>10, <2>1 DEF QueryExecute, Labels
<1>11. CASE QueryKeep(w)  BY <1>c, <1>g, <1>11 DEF QueryKeep, StoreSearch, Respond, Labels
<1> QED BY <1>2, <1>3, <1>4, <1>5, <1>6, <1>7, <1>8, <1>9, <1>10, <1>11 DEF SearchStep

LEMMA EndTypes ==
  ASSUME TypeInv, NEW w \in Workers, ImportEnds(w)
  PROVE  /\ pc' \in [Threads -> Labels] /\ loc' \in [Workers -> Locals]
         /\ importLock' \in Workers \cup {Nobody}
         /\ RowsInv'
<1>1. "idle" \in Labels
  BY DEF Labels
<1> QED BY <1>1, IdleType, ThreadsOfWorkers DEF ImportEnds, TypeInv, TypeOK, RowsInv, Goto

LEMMA ImportTypes ==
  ASSUME TypeInv, NEW w \in Workers, ImportStep(w)  PROVE TypeInv'
<1> USE ThreadsOfWorkers, IdleType
<1> USE DEF TypeInv, TypeOK, RowsInv, disk, locks, times, caches, past, Goto, On, Labels
<1>a. loc[w] \in Locals /\ db + 1 \in Nat
  OBVIOUS
<1>b. [loc[w] EXCEPT !.ver = db + 1] \in Locals
  BY <1>a, LocalsUpdate
<1>c. loc[w].ver \in Nat
  BY <1>a, LocalsFields
<1>1. CASE ImportRecent(w)
  <2>1. CASE ImportEnds(w)  BY <1>1, <2>1, EndTypes DEF ImportRecent
  <2>2. CASE ~ImportEnds(w)  BY <1>1, <2>2 DEF ImportRecent
  <2> QED BY <2>1, <2>2
<1>2. CASE ImportLock(w)
  <2>1. CASE ImportEnds(w)  BY <1>2, <2>1, EndTypes DEF ImportLock
  <2>2. CASE ~ImportEnds(w)  BY <1>2, <2>2 DEF ImportLock
  <2> QED BY <2>1, <2>2
<1>3. CASE ImportLockTimeout(w)  BY <1>3 DEF ImportLockTimeout
<1>4. CASE Upsert(w)  BY <1>b, <1>4 DEF Upsert, Commit
<1>5. CASE UpsertFails(w)  BY <1>5 DEF UpsertFails, ImportEnds
<1>6. CASE Clear(w)  BY <1>6 DEF Clear
<1>7. CASE Stamp(w)  BY <1>7 DEF Stamp
<1>8. CASE Backfill(w)  BY <1>b, <1>8 DEF Backfill, Commit
<1>9. CASE BackfillFails(w)  BY <1>9 DEF BackfillFails, ImportEnds
<1>10. CASE ClearAgain(w)  BY <1>10 DEF ClearAgain
<1>11. Returned(w) \in [Imports -> Nat]
  BY <1>c DEF Returned, Later
<1>12. CASE ImportDone(w)  BY <1>11, <1>12 DEF ImportDone, ImportEnds
<1>13. CASE SearchImportDone(w)  BY <1>11, <1>13 DEF SearchImportDone, ImportEnds
<1> QED BY <1>1, <1>2, <1>3, <1>4, <1>5, <1>6, <1>7, <1>8, <1>9, <1>10, <1>12, <1>13
        DEF ImportStep

LEMMA ReloadTypes ==
  ASSUME TypeInv, NEW t \in Threads, Reload(t)  PROVE TypeInv'
<1> USE ThreadsOfWorkers, IdleType
<1> USE DEF TypeInv, TypeOK, RowsInv, disk, locks, times, caches, past, Goto, On, Labels
<1>0. AfterReload(t) \in {"idle", "clear_again", "reload_done"}
  BY DEF AfterReload
<1>1. CASE ReloadGuard(t)  BY <1>0, <1>1 DEF ReloadGuard
<1>2. CASE ReloadFetch(t)  BY <1>2 DEF ReloadFetch
<1>3. CASE ReloadPublish(t)  BY <1>0, <1>3 DEF ReloadPublish
<1>4. CASE ReloadFails(t)
  <2>1. CASE ImportEnds(t[1])  BY <1>4, <2>1, EndTypes DEF ReloadFails
  <2>2. CASE ~ImportEnds(t[1])  BY <1>4, <2>2 DEF ReloadFails
  <2> QED BY <2>1, <2>2
<1> QED BY <1>1, <1>2, <1>3, <1>4 DEF Reload

LEMMA TypeStep == TypeInv /\ [Next]_vars => TypeInv'
<1> SUFFICES ASSUME TypeInv, [Next]_vars PROVE TypeInv'
  OBVIOUS
<1> USE DEF disk, locks, times, caches, threads, past, Goto, On
<1>1. CASE Age
  BY <1>1 DEF Age, TypeInv, TypeOK, RowsInv
<1>2. ASSUME NEW w \in Workers, NEW op \in Requests, Call(w, op)  PROVE TypeInv'
  <2>1. First(op) \in Labels \ {"keep"}
    BY DEF First, Requests, Imports, Labels
  <2>2. [Idle EXCEPT !.op = op, !.since = floor] \in Locals
    BY DEF Idle, Locals, TypeInv, TypeOK
  <2> QED BY <1>2, <2>1, <2>2, ThreadsOfWorkers DEF Call, TypeInv, TypeOK, RowsInv
<1>3. ASSUME NEW w \in Workers, Step(w)  PROVE TypeInv'
  <2>1. CASE Return(w)
    BY <2>1, IdleType, ThreadsOfWorkers DEF Return, TypeInv, TypeOK, RowsInv, Labels
  <2>2. CASE SearchStep(w)  BY <2>2, SearchTypes
  <2>3. CASE ImportStep(w)  BY <2>3, ImportTypes
  <2>4. CASE Reload(Main(w))  BY <2>4, ReloadTypes, ThreadsOfWorkers
  <2>5. CASE Reload(Bg(w))  BY <2>5, ReloadTypes, ThreadsOfWorkers
  <2> QED BY <1>3, <2>1, <2>2, <2>3, <2>4, <2>5 DEF Step
<1>4. ASSUME NEW w \in Workers, Expire(w)  PROVE TypeInv'
  BY <1>4 DEF Expire, TypeInv, TypeOK, RowsInv, Cache
<1>5. CASE UNCHANGED vars
  BY <1>5 DEF vars, TypeInv, TypeOK, RowsInv
<1> QED BY <1>1, <1>2, <1>3, <1>4, <1>5 DEF Next

(* The server's state keeps its types, for any number of workers.          *)
THEOREM TypeCorrect == Spec => []TypeOK
<1>1. Spec => []TypeInv
  BY TypeInit, TypeStep, PTL DEF Spec
<1> QED BY <1>1, PTL DEF TypeInv

-----------------------------------------------------------------------------
(* Searches after a bulk import.                                           *)

(* FreshInv and FreshAfterImport, worker by worker.                        *)
Current(v) ==
  /\ loc[v].ver <= db
  /\ loc[v].since["import_data"] <= bulk
  /\ pc[Main(v)] = "publish" => loc[v].ver <= snap[Main(v)]
  /\ Rebuilt(v) => loc[v].ver <= archive
  /\ Rebuilt(v) \/ Unpublished(v) => loc[v].ver > 0
  /\ pc[Main(v)] = "reload_done" => loc[v].op # "import_data"

UpToDate(r) ==
  r >= bulk /\ \A u \in Workers : pc[Main(u)] = "import_done" => r >= loc[u].ver

Cached(v) ==
  /\ search[v].gen <= gen /\ loc[v].under <= gen
  /\ search[v].gen = gen /\ search[v].res # Nothing => UpToDate(search[v].res)
  /\ ViaSql(v) => loc[v].since["import_data"] = 0
  /\ ViaSql(v) /\ loc[v].under = gen => bulk = 0 /\ NobodyReturning

Good(v) == Current(v) /\ Cached(v) /\ Fresh(v, "import_data")
Ordered == bulk <= archive /\ archive <= db

AllGood == Ordered /\ \A v \in Workers : Good(v)

LEMMA GoodIsFresh ==
  AllGood <=> /\ VersionInv /\ CacheInv
              /\ \A w \in Workers : Fresh(w, "import_data")
BY DEF AllGood, Good, Current, Cached, UpToDate, Ordered, VersionInv, CacheInv

(* What every step does to the state that the workers share: commits,      *)
(* archive, generation and floor only grow, the floor to what an import    *)
(* that returns has committed; and who comes to that point advances the    *)
(* generation.                                                             *)
Forward ==
  /\ db' >= db /\ archive' >= archive /\ gen' >= gen /\ bulk' >= bulk
  /\ Ordered'
  /\ bulk' # bulk => \E u \in Workers : pc[Main(u)] = "import_done" /\ bulk' = loc[u].ver
  /\ gen' = gen => \A u \in Workers : pc'[Main(u)] = "import_done" =>
                      pc[Main(u)] = "import_done" /\ loc'[u].ver = loc[u].ver

(* A search cache that the step leaves as it is or empties.                *)
NothingNew(v) ==
  search'[v] = search[v] \/ (search'[v].res = Nothing /\ search'[v].gen <= gen')

(* A worker that the step leaves alone, but for an entry that expires.     *)
Still(v) ==
  /\ loc'[v] = loc[v] /\ pc'[Main(v)] = pc[Main(v)]
  /\ pc[Main(v)] = "publish" => snap'[Main(v)] = snap[Main(v)]
  /\ NothingNew(v)

(* A worker that the step takes to a place of which the invariant says     *)
(* little.                                                                 *)
Plain(v) ==
  /\ pc'[Main(v)] \notin {"publish", "clear_again", "import_done", "reload_done", "sql",
                          "execute", "keep", "done"}
  /\ NothingNew(v)
  /\ loc'[v].under <= gen' /\ loc'[v].since["import_data"] <= bulk' /\ loc'[v].ver <= db'
  /\ Unpublished(v)' => loc'[v].ver > 0

LEMMA Numbers ==
  ASSUME TypeOK
  PROVE  /\ db \in Nat /\ archive \in Nat /\ gen \in Nat /\ bulk \in Nat
         /\ \A v \in Workers : /\ loc[v].ver \in Nat /\ loc[v].under \in Nat
                               /\ loc[v].since["import_data"] \in Nat
                               /\ search[v].gen \in Nat
                               /\ search[v].res \in Nat \cup {Nothing}
                               /\ query[v].res \in Nat \cup {Nothing}
<1>1. "import_data" \in Imports
  BY DEF Imports
<1> QED BY <1>1, LocalsFields, CacheType DEF TypeOK, bulk

LEMMA NumbersNext ==
  ASSUME TypeOK'
  PROVE  /\ db' \in Nat /\ archive' \in Nat /\ gen' \in Nat /\ bulk' \in Nat
         /\ \A v \in Workers : /\ loc'[v].ver \in Nat /\ loc'[v].under \in Nat
                               /\ loc'[v].since["import_data"] \in Nat
                               /\ search'[v].gen \in Nat
                               /\ search'[v].res \in Nat \cup {Nothing}
<1>1. "import_data" \in Imports
  BY DEF Imports
<1> QED BY <1>1, LocalsFields, CacheType DEF TypeOK, bulk

(* An answer that was up to date stays so while the generation stands.     *)
UpToDateNext(r) ==
  r >= bulk' /\ \A u \in Workers : pc'[Main(u)] = "import_done" => r >= loc'[u].ver

LEMMA StaysUpToDate ==
  ASSUME TypeOK, TypeOK', Forward, gen' = gen, NEW r \in Nat, UpToDate(r)
  PROVE  UpToDateNext(r)
<1>1. r >= bulk'
  BY Numbers DEF Forward, UpToDate
<1>2. ASSUME NEW u \in Workers, pc'[Main(u)] = "import_done"  PROVE r >= loc'[u].ver
  BY <1>2 DEF Forward, UpToDate
<1> QED BY <1>1, <1>2 DEF UpToDateNext

LEMMA CacheStaysUpToDate ==
  ASSUME TypeOK, TypeOK', Forward, NEW v \in Workers, Cached(v),
         NothingNew(v)
  PROVE  /\ search'[v].gen <= gen'
         /\ search'[v].gen = gen' /\ search'[v].res # Nothing => UpToDateNext(search'[v].res)
<1>1. /\ gen \in Nat /\ gen' \in Nat /\ search[v].gen \in Nat
      /\ search[v].res \in Nat \cup {Nothing}
  BY Numbers, NumbersNext
<1>2. search'[v].gen <= gen'
  BY <1>1 DEF Forward, Cached, NothingNew
<1>3. ASSUME search'[v].gen = gen', search'[v].res # Nothing
      PROVE  UpToDateNext(search'[v].res)
  <2>1. gen' = gen /\ search[v].gen = gen /\ search'[v].res = search[v].res
    BY <1>1, <1>3 DEF Forward, Cached, NothingNew
  <2>2. UpToDate(search[v].res) /\ search[v].res \in Nat
    BY <1>1, <1>3, <2>1 DEF Cached
  <2>3. UpToDateNext(search[v].res)
    BY <2>1, <2>2, StaysUpToDate
  <2> QED BY <2>1, <2>3
<1> QED BY <1>2, <1>3

LEMMA StillKeeps ==
  ASSUME TypeOK, TypeOK', AllGood, Forward, NEW v \in Workers, Still(v)
  PROVE  Good(v)'
<1>1. Current(v) /\ Cached(v) /\ Fresh(v, "import_data")
  BY DEF AllGood, Good
<1>2. /\ db \in Nat /\ db' \in Nat /\ archive \in Nat /\ archive' \in Nat
      /\ gen \in Nat /\ gen' \in Nat /\ bulk \in Nat /\ bulk' \in Nat
      /\ loc[v].ver \in Nat /\ loc[v].under \in Nat /\ loc[v].since["import_data"] \in Nat
  BY Numbers, NumbersNext
<1>3. Current(v)'
  BY <1>1, <1>2 DEF Current, Still, Forward, Rebuilt, Unpublished
<1>4. Fresh(v, "import_data")'
  BY <1>1 DEF Fresh, Answered, Still
<1>5. /\ search'[v].gen <= gen'
      /\ search'[v].gen = gen' /\ search'[v].res # Nothing => UpToDateNext(search'[v].res)
  BY <1>1, CacheStaysUpToDate DEF Still
<1>6. loc'[v].under <= gen' /\ (ViaSql(v)' => loc'[v].since["import_data"] = 0)
  BY <1>1, <1>2 DEF Cached, Still, Forward, ViaSql
<1>7. ASSUME ViaSql(v)', loc'[v].under = gen'
      PROVE  bulk' = 0 /\ NobodyReturning'
  <2>1. gen' = gen /\ ViaSql(v) /\ loc[v].under = gen
    BY <1>1, <1>2, <1>7 DEF Cached, Still, Forward, ViaSql
  <2>2. bulk = 0 /\ NobodyReturning
    BY <1>1, <2>1 DEF Cached
  <2> QED BY <2>1, <2>2 DEF Forward, NobodyReturning
<1>8. Cached(v)'
  BY <1>5, <1>6, <1>7 DEF Cached, UpToDate, UpToDateNext
<1> QED BY <1>3, <1>4, <1>8 DEF Good

LEMMA PlainKeeps ==
  ASSUME TypeOK, TypeOK', AllGood, Forward, NEW v \in Workers, Plain(v)
  PROVE  Good(v)'
<1>1. Cached(v)
  BY DEF AllGood, Good
<1>2. Current(v)' /\ Fresh(v, "import_data")'
  BY DEF Current, Fresh, Answered, Plain, Rebuilt, Unpublished
<1>3. /\ search'[v].gen <= gen'
      /\ search'[v].gen = gen' /\ search'[v].res # Nothing => UpToDateNext(search'[v].res)
  BY <1>1, CacheStaysUpToDate DEF Plain
<1>4. Cached(v)'
  BY <1>3 DEF Cached, UpToDate, UpToDateNext, Plain, ViaSql
<1> QED BY <1>2, <1>4 DEF Good

(* A search that ends: with a refusal, or with an answer that is not older *)
(* than it may be and that is stored, if at all, where it belongs.         *)
Stores(v, r) ==
  /\ search'[v].gen = loc[v].under /\ search'[v].res = r
  /\ loc[v].under = gen => UpToDate(r)

LEMMA LocalsKept ==
  ASSUME NEW l \in Locals, NEW x
  PROVE  /\ [l EXCEPT !.res = x].op = l.op /\ [l EXCEPT !.res = x].since = l.since
         /\ [l EXCEPT !.res = x].under = l.under /\ [l EXCEPT !.res = x].ver = l.ver
         /\ [l EXCEPT !.res = x].res = x
         /\ [l EXCEPT !.seen = x].since = l.since
         /\ [l EXCEPT !.seen = x].under = l.under /\ [l EXCEPT !.seen = x].ver = l.ver
         /\ [l EXCEPT !.under = x].since = l.since
         /\ [l EXCEPT !.under = x].under = x /\ [l EXCEPT !.under = x].ver = l.ver
         /\ [l EXCEPT !.ver = x].op = l.op /\ [l EXCEPT !.ver = x].since = l.since
         /\ [l EXCEPT !.ver = x].under = l.under /\ [l EXCEPT !.ver = x].ver = x
BY DEF Locals

LEMMA ReplyKeeps ==
  ASSUME TypeOK, TypeOK', AllGood, Forward, gen' = gen, NEW v \in Workers, NEW r,
         pc'[Main(v)] = "done", loc'[v] = [loc[v] EXCEPT !.res = r],
         r = Refused \/ (r \in Nat /\ r >= loc[v].since["import_data"]),
         NothingNew(v) \/ (r \in Nat /\ Stores(v, r))
  PROVE  Good(v)'
<1>1. Cached(v) /\ Current(v)
  BY DEF AllGood, Good
<1>2. loc[v] \in Locals
  BY DEF TypeOK
<1>3. /\ loc'[v].since = loc[v].since /\ loc'[v].under = loc[v].under
      /\ loc'[v].ver = loc[v].ver /\ loc'[v].res = r
  BY <1>2, LocalsKept
<1>4. /\ db \in Nat /\ db' \in Nat /\ gen \in Nat /\ bulk \in Nat /\ bulk' \in Nat
      /\ loc[v].ver \in Nat /\ loc[v].since["import_data"] \in Nat
  BY Numbers, NumbersNext
<1>5. Fresh(v, "import_data")'
  BY <1>3 DEF Fresh
<1>6. Current(v)'
  BY <1>1, <1>3, <1>4 DEF Current, Forward, Rebuilt, Unpublished
<1>7. /\ search'[v].gen <= gen'
      /\ search'[v].gen = gen' /\ search'[v].res # Nothing => UpToDateNext(search'[v].res)
  <2>1. CASE NothingNew(v)  BY <1>1, <2>1, CacheStaysUpToDate
  <2>2. CASE r \in Nat /\ Stores(v, r)
    <3>1. search'[v].gen <= gen'
      BY <1>1, <2>2 DEF Stores, Cached
    <3>2. ASSUME search'[v].gen = gen'  PROVE UpToDateNext(r)
      BY <2>2, <3>2, StaysUpToDate DEF Stores
    <3> QED BY <2>2, <3>1, <3>2 DEF Stores
  <2> QED BY <2>1, <2>2
<1>8. Cached(v)'
  BY <1>1, <1>3, <1>7 DEF Cached, UpToDate, UpToDateNext, ViaSql
<1> QED BY <1>5, <1>6, <1>8 DEF Good

(* A step of one worker's request thread that nobody else can see.         *)
Private(w) ==
  /\ UNCHANGED <<db, archive, gen, floor, snap>>
  /\ pc'[Main(w)] # "import_done"
  /\ \A v \in Workers \ {w} :
       loc'[v] = loc[v] /\ pc'[Main(v)] = pc[Main(v)] /\ search'[v] = search[v]

LEMMA PrivateForward ==
  ASSUME TypeOK, AllGood, NEW w \in Workers, Private(w)  PROVE Forward
<1>1. bulk' = bulk
  BY DEF Private, bulk
<1>2. db \in Nat /\ archive \in Nat /\ gen \in Nat /\ bulk \in Nat
  BY Numbers
<1>3. Ordered'
  BY <1>1 DEF AllGood, Ordered, Private
<1> QED BY <1>1, <1>2, <1>3 DEF Forward, Private

LEMMA PrivateKeeps ==
  ASSUME TypeOK, TypeOK', AllGood, NEW w \in Workers, Private(w), Good(w)'
  PROVE  AllGood'
<1>1. Forward
  BY PrivateForward
<1>2. ASSUME NEW v \in Workers \ {w}  PROVE Good(v)'
  BY <1>1, StillKeeps DEF Still, NothingNew, Private
<1> QED BY <1>1, <1>2 DEF AllGood, Forward

(* A search that SQL answers: the archive was empty when it asked.         *)
LEMMA SqlKeeps ==
  ASSUME TypeOK, TypeOK', AllGood, Forward, gen' = gen, NEW v \in Workers,
         pc'[Main(v)] \in {"sql", "execute", "keep"}, NothingNew(v),
         loc'[v].since = loc[v].since, loc'[v].under = loc[v].under,
         loc'[v].ver = loc[v].ver,
         loc[v].since["import_data"] = 0,
         loc[v].under = gen => bulk = 0 /\ NobodyReturning
  PROVE  Good(v)'
<1>1. Cached(v) /\ Current(v)
  BY DEF AllGood, Good
<1>2. /\ db \in Nat /\ db' \in Nat /\ gen \in Nat /\ bulk \in Nat /\ bulk' \in Nat
      /\ loc[v].ver \in Nat
  BY Numbers, NumbersNext
<1>3. Current(v)' /\ Fresh(v, "import_data")'
  BY <1>1, <1>2 DEF Current, Forward, Rebuilt, Unpublished, Fresh, Answered
<1>4. /\ search'[v].gen <= gen'
      /\ search'[v].gen = gen' /\ search'[v].res # Nothing => UpToDateNext(search'[v].res)
  BY <1>1, CacheStaysUpToDate
<1>5. loc'[v].under = gen' => bulk' = 0 /\ NobodyReturning'
  BY <1>2 DEF Forward, NobodyReturning
<1>6. Cached(v)'
  BY <1>1, <1>4, <1>5 DEF Cached, UpToDate, UpToDateNext
<1> QED BY <1>3, <1>6 DEF Good

(* While the archive is empty no bulk import has returned or is about to.  *)
LEMMA NoArchiveNoImport ==
  ASSUME TypeOK, AllGood, archive = 0
  PROVE  bulk = 0 /\ NobodyReturning /\ \A v \in Workers : loc[v].since["import_data"] = 0
<1>1. bulk = 0 /\ \A v \in Workers : loc[v].since["import_data"] = 0
  BY Numbers DEF AllGood, Good, Current, Ordered
<1>2. NobodyReturning
  <2> SUFFICES ASSUME NEW v \in Workers, pc[Main(v)] = "import_done"  PROVE FALSE
    BY DEF NobodyReturning
  <2>1. Rebuilt(v) /\ Current(v)
    BY DEF Rebuilt, AllGood, Good
  <2> QED BY <2>1, Numbers DEF Current
<1> QED BY <1>1, <1>2

(* What SQL answers is up to date if it goes to the cache of the current   *)
(* generation.                                                             *)
LEMMA SqlReply ==
  ASSUME TypeOK, AllGood, NEW v \in Workers, ViaSql(v), NEW r \in Nat
  PROVE  /\ r >= loc[v].since["import_data"]
         /\ loc[v].under = gen => UpToDate(r)
<1>1. Cached(v)
  BY DEF AllGood, Good
<1> QED BY <1>1 DEF Cached, UpToDate, NobodyReturning

LEMMA AnswerKeeps ==
  ASSUME TypeOK, TypeOK', AllGood, NEW w \in Workers, NEW ok, Answer(w, ok),
         UNCHANGED <<db, archive, gen, floor, snap, search>>
  PROVE  AllGood'
<1> USE ThreadsOfWorkers
<1>a. /\ loc[w] \in Locals /\ Current(w) /\ Cached(w)
      /\ pc \in [Threads -> Labels] /\ loc \in [Workers -> Locals]
  BY DEF TypeOK, AllGood, Good
<1>b. NothingNew(w) /\ bulk' = bulk
  BY DEF NothingNew, bulk
<1>1. Private(w)
  BY <1>a DEF Answer, Respond, Goto, Private
<1>2. Forward
  BY <1>1, PrivateForward
<1>3. CASE Respond(w, Refused)
  BY <1>a, <1>b, <1>1, <1>2, <1>3, ReplyKeeps, PrivateKeeps DEF Respond, Goto
<1>4. CASE UNCHANGED loc /\ pc'[Main(w)] \in {"cache", "import_wait"}
  <2>1. Plain(w)
    BY <1>a, <1>b, <1>4 DEF Plain, Current, Cached, Unpublished
  <2> QED BY <1>1, <1>2, <2>1, PlainKeeps, PrivateKeeps
<1>5. CASE loc' = [loc EXCEPT ![w] = Idle] /\ pc'[Main(w)] = "idle"
  <2>1. loc'[w].under = 0 /\ loc'[w].ver = 0 /\ loc'[w].since["import_data"] = 0
    BY <1>a, <1>5 DEF Idle, NoImports, Imports
  <2>2. Plain(w)
    BY <1>b, <1>5, <2>1, Numbers, NumbersNext DEF Plain, Unpublished
  <2> QED BY <1>1, <1>2, <2>2, PlainKeeps, PrivateKeeps
<1> QED BY <1>a, <1>3, <1>4, <1>5 DEF Answer, Goto

LEMMA SearchKeeps ==
  ASSUME TypeInv, TypeOK', EngineAnswers, AllGood, NEW w \in Workers, SearchStep(w)
  PROVE  AllGood'
<1> USE ThreadsOfWorkers
<1> USE DEF disk, locks, times, caches, past, Goto, On
<1>a. /\ TypeOK /\ RowsInv /\ pc \in [Threads -> Labels] /\ loc \in [Workers -> Locals]
      /\ search \in [Workers -> Cache] /\ query \in [Workers -> Cache]
  BY DEF TypeInv, TypeOK
<1>b. /\ loc[w] \in Locals /\ search[w] \in Cache /\ query[w] \in Cache
      /\ Current(w) /\ Cached(w) /\ EngineEnabled /\ ~Fails("engine")
  BY <1>a DEF AllGood, Good, EngineAnswers, EngineEnabled, Fails
<1>c. /\ archive \in Nat /\ gen \in Nat /\ bulk \in Nat /\ db \in Nat
      /\ loc[w].since["import_data"] \in Nat /\ loc[w].since["import_data"] <= bulk
      /\ search[w].res \in Nat \cup {Nothing} /\ query[w].res \in Nat \cup {Nothing}
  BY <1>a, <1>b, Numbers DEF Current
<1>d. Nothing \notin Nat
  BY ServerAssumption
<1>e. ASSUME Private(w), Good(w)'  PROVE AllGood'
  BY <1>a, <1>e, PrivateKeeps
<1>f. ASSUME Private(w), Plain(w)  PROVE AllGood'
  BY <1>a, <1>e, <1>f, PrivateForward, PlainKeeps
<1>1. CASE SetupCached(w)
  BY <1>a, <1>1, AnswerKeeps DEF SetupCached
<1>2. CASE SetupStale(w)
  <2>1. Private(w) /\ NothingNew(w)
    BY <1>a, <1>2 DEF SetupStale, Private, NothingNew
  <2>2. /\ loc'[w].since = loc[w].since /\ loc'[w].under = loc[w].under
        /\ loc'[w].ver = loc[w].ver /\ pc'[Main(w)] = "count"
    BY <1>a, <1>b, <1>2, LocalsKept DEF SetupStale
  <2>3. bulk' = bulk /\ gen' = gen /\ db' = db
    BY <1>2 DEF SetupStale, bulk
  <2> QED BY <1>b, <1>f, <2>1, <2>2, <2>3 DEF Plain, Current, Cached, Unpublished
<1>3. CASE SetupCount(w)
  BY <1>a, <1>3, AnswerKeeps DEF SetupCount, Counted
<1>4. CASE SearchCache(w)
  <2> DEFINE inner == InnerCache(search[w])
  <2>0. Private(w)
    BY <1>a, <1>4, <1>b DEF SearchCache, Private, Respond
  <2>1. Forward /\ gen' = gen /\ bulk' = bulk /\ db' = db
    BY <1>a, <2>0, PrivateForward DEF Private, bulk
  <2>2. search'[w] = inner
    BY <1>a, <1>4 DEF SearchCache
  <2>3. CASE inner.res # Nothing
    <3>1. inner = search[w] /\ search[w].gen = gen
      BY <2>3 DEF InnerCache
    <3>2. UpToDate(search[w].res) /\ search[w].res \in Nat
      BY <1>b, <1>c, <2>3, <3>1 DEF Cached
    <3>3. search[w].res >= loc[w].since["import_data"]
      BY <1>c, <3>2 DEF UpToDate
    <3>4. pc'[Main(w)] = "done" /\ loc'[w] = [loc[w] EXCEPT !.res = search[w].res]
      BY <1>a, <1>4, <2>3, <3>1 DEF SearchCache, Respond
    <3>5. NothingNew(w)
      BY <2>2, <3>1 DEF NothingNew
    <3>6. Good(w)'
      BY <1>a, <2>1, <3>2, <3>3, <3>4, <3>5, ReplyKeeps
    <3> QED BY <1>e, <2>0, <3>6
  <2>4. CASE inner.res = Nothing
    <3>1. loc'[w] = [loc[w] EXCEPT !.under = gen] /\ pc'[Main(w)] = "size"
      BY <1>a, <1>b, <1>4, <2>4 DEF SearchCache
    <3>2. /\ loc'[w].since = loc[w].since /\ loc'[w].under = gen
          /\ loc'[w].ver = loc[w].ver
      BY <1>b, <3>1, LocalsKept
    <3>3. inner.gen = gen
      BY DEF InnerCache
    <3>4. NothingNew(w)
      BY <1>c, <2>1, <2>2, <2>4, <3>3 DEF NothingNew
    <3> QED BY <1>b, <1>c, <1>f, <2>0, <2>1, <3>1, <3>2, <3>4 DEF Plain, Current, Unpublished
  <2> QED BY <2>3, <2>4
<1>5. CASE EngineSize(w)
  <2>0. Private(w) /\ NothingNew(w) /\ loc' = loc /\ gen' = gen /\ db' = db /\ bulk' = bulk
    BY <1>a, <1>5 DEF EngineSize, Private, NothingNew, bulk, BackgroundReload
  <2>1. CASE pc'[Main(w)] = "engine"
    BY <1>b, <1>f, <2>0, <2>1 DEF Plain, Current, Cached, Unpublished
  <2>2. CASE archive = 0 /\ pc'[Main(w)] = "sql"
    <3>1. Good(w)'
      BY <1>a, <2>0, <2>2, PrivateForward, NoArchiveNoImport, SqlKeeps
    <3> QED BY <1>e, <2>0, <3>1
  <2> QED BY <1>a, <1>5, <2>1, <2>2 DEF EngineSize
<1>6. CASE EngineQuery(w)
  <2>0. Private(w)
    BY <1>a, <1>6 DEF EngineQuery, Private, Respond, StoreSearch
  <2>1. Forward /\ gen' = gen
    BY <1>a, <2>0, PrivateForward DEF Private
  <2>2. UpToDate(archive) /\ archive >= loc[w].since["import_data"]
    <3>1. archive >= bulk
      BY <1>c DEF AllGood, Ordered
    <3>2. ASSUME NEW u \in Workers, pc[Main(u)] = "import_done"  PROVE archive >= loc[u].ver
      <4>1. Current(u) /\ loc[u].ver \in Nat
        BY <1>a, Numbers DEF AllGood, Good
      <4> QED BY <1>c, <3>2, <4>1 DEF Current, Rebuilt
    <3> QED BY <1>c, <3>1, <3>2 DEF UpToDate
  <2>3. Stores(w, archive)
    BY <1>a, <1>6, <2>2 DEF EngineQuery, StoreSearch, Stores
  <2>4. pc'[Main(w)] = "done" /\ loc'[w] = [loc[w] EXCEPT !.res = archive]
    BY <1>a, <1>6 DEF EngineQuery, Respond
  <2>5. Good(w)'
    BY <1>a, <1>c, <2>1, <2>2, <2>3, <2>4, ReplyKeeps
  <2> QED BY <1>e, <2>0, <2>5
<1>7. CASE EngineQueryFails(w)
  BY <1>b, <1>7 DEF EngineQueryFails
<1>8. ASSUME NEW r \in Nat, ViaSql(w), StoreSearch(w, r), Respond(w, r),
             UNCHANGED <<db, archive, gen, floor, snap>>
      PROVE  AllGood'
  <2>0. Private(w)
    BY <1>a, <1>8 DEF Private, Respond, StoreSearch
  <2>1. Forward
    BY <1>a, <2>0, PrivateForward
  <2>2. r >= loc[w].since["import_data"] /\ (loc[w].under = gen => UpToDate(r))
    BY <1>a, <1>8, SqlReply
  <2>3. Stores(w, r)
    BY <1>a, <1>8, <2>2 DEF StoreSearch, Stores
  <2>4. pc'[Main(w)] = "done" /\ loc'[w] = [loc[w] EXCEPT !.res = r]
    BY <1>a, <1>8 DEF Respond
  <2>5. Good(w)'
    BY <1>a, <1>8, <2>1, <2>2, <2>3, <2>4, ReplyKeeps
  <2> QED BY <1>e, <2>0, <2>5
<1>9. ASSUME ViaSql(w), pc'[Main(w)] \in {"execute", "keep"},
             \A v \in Workers \ {w} : loc'[v] = loc[v] /\ pc'[Main(v)] = pc[Main(v)],
             loc'[w].since = loc[w].since, loc'[w].under = loc[w].under,
             loc'[w].ver = loc[w].ver,
             UNCHANGED <<db, archive, gen, floor, snap, search>>
      PROVE  AllGood'
  <2>0. Private(w) /\ NothingNew(w)
    BY <1>9 DEF Private, NothingNew
  <2>1. Forward
    BY <1>a, <2>0, PrivateForward
  <2>2. Good(w)'
    BY <1>a, <1>b, <1>9, <2>0, <2>1, SqlKeeps DEF Cached
  <2> QED BY <1>e, <2>0, <2>2
<1>10. CASE QueryCache(w)
  <2> DEFINE inner == InnerCache(query[w])
  <2>0. ViaSql(w)
    BY <1>10 DEF QueryCache, ViaSql
  <2>1. CASE inner.res # Nothing
    <3>1. inner.res \in Nat
      BY <1>c, <2>1 DEF InnerCache
    <3> QED BY <1>8, <1>10, <2>0, <2>1, <3>1 DEF QueryCache
  <2>2. CASE inner.res = Nothing
    BY <1>a, <1>9, <1>10, <2>0, <2>2 DEF QueryCache
  <2> QED BY <2>1, <2>2
<1>11. CASE QueryExecute(w)
  <2>1. ViaSql(w) /\ pc'[Main(w)] = "keep"
    BY <1>a, <1>11 DEF QueryExecute, ViaSql
  <2>2. /\ loc'[w].since = loc[w].since /\ loc'[w].under = loc[w].under
        /\ loc'[w].ver = loc[w].ver
    BY <1>a, <1>b, <1>11, LocalsKept DEF QueryExecute
  <2> QED BY <1>a, <1>9, <1>11, <2>1, <2>2 DEF QueryExecute
<1>12. CASE QueryKeep(w)
  <2>1. ViaSql(w) /\ loc[w].res \in Nat
    BY <1>a, <1>12 DEF QueryKeep, ViaSql, RowsInv
  <2> QED BY <1>8, <1>12, <2>1 DEF QueryKeep
<1> QED BY <1>1, <1>2, <1>3, <1>4, <1>5, <1>6, <1>7, <1>10, <1>11, <1>12 DEF SearchStep

(* A step of w that leaves the other workers' request threads alone.       *)
Alone(w) ==
  \A v \in Workers \ {w} :
    /\ loc'[v] = loc[v] /\ pc'[Main(v)] = pc[Main(v)] /\ search'[v] = search[v]
    /\ snap'[Main(v)] = snap[Main(v)]

LEMMA AloneKeeps ==
  ASSUME TypeOK, TypeOK', AllGood, Forward, NEW w \in Workers, Alone(w), Good(w)'
  PROVE  AllGood'
<1>1. ASSUME NEW v \in Workers \ {w}  PROVE Good(v)'
  BY <1>1, StillKeeps DEF Still, NothingNew, Alone
<1> QED BY <1>1 DEF AllGood, Forward

(* An import that ends, having returned or failed.                         *)
LEMMA EndKeeps ==
  ASSUME TypeOK, TypeOK', AllGood, NEW w \in Workers, ImportEnds(w),
         UNCHANGED <<db, archive, gen, search>>, bulk' >= bulk, Ordered',
         bulk' # bulk => pc[Main(w)] = "import_done" /\ bulk' = loc[w].ver,
         \A v \in Workers \ {w} : snap'[Main(v)] = snap[Main(v)]
  PROVE  AllGood'
<1> USE ThreadsOfWorkers
<1>a. pc \in [Threads -> Labels] /\ loc \in [Workers -> Locals]
  BY DEF TypeOK
<1>1. Alone(w) /\ NothingNew(w) /\ pc'[Main(w)] = "idle"
  BY <1>a DEF ImportEnds, Goto, Alone, NothingNew
<1>2. Forward
  BY <1>1, Numbers DEF Forward, Alone
<1>3. loc'[w].under = 0 /\ loc'[w].ver = 0 /\ loc'[w].since["import_data"] = 0
  BY <1>a DEF ImportEnds, Idle, NoImports, Imports
<1>4. Plain(w)
  BY <1>1, <1>3, NumbersNext DEF Plain, Unpublished
<1> QED BY <1>1, <1>2, <1>4, PlainKeeps, AloneKeeps

(* An import that goes on, to a place where the invariant asks for no more *)
(* than that what was committed is counted.                                *)
LEMMA GoesOn ==
  ASSUME TypeOK, TypeOK', AllGood, NEW w \in Workers, NEW label,
         Goto(Main(w), label), UNCHANGED <<archive, search, snap, floor>>,
         label \in {"import_lock", "setup", "upsert", "clear", "stamp", "backfill", "reload",
                    "fetch"},
         \/ db' = db /\ UNCHANGED loc
         \/ db' = db + 1 /\ loc' = [loc EXCEPT ![w].ver = db + 1],
         gen' \in {gen, gen + 1},
         label \in {"clear", "stamp", "backfill", "reload", "fetch"} =>
           Unpublished(w) \/ db' = db + 1
  PROVE  AllGood'
<1> USE ThreadsOfWorkers
<1>a. /\ pc \in [Threads -> Labels] /\ loc \in [Workers -> Locals]
      /\ loc[w] \in Locals /\ Current(w) /\ Cached(w)
  BY DEF TypeOK, AllGood, Good
<1>b. /\ db \in Nat /\ archive \in Nat /\ gen \in Nat /\ bulk \in Nat /\ bulk' = bulk
      /\ loc[w].ver \in Nat /\ loc[w].under \in Nat
      /\ loc[w].since["import_data"] \in Nat
  BY Numbers DEF bulk
<1>1. Alone(w) /\ NothingNew(w) /\ pc'[Main(w)] = label
  BY <1>a DEF Goto, Alone, NothingNew
<1>2. Ordered'
  BY <1>b DEF AllGood, Ordered
<1>3. Forward
  BY <1>b, <1>1, <1>2 DEF Forward, Alone
<1>4. /\ loc'[w].under = loc[w].under /\ loc'[w].since = loc[w].since
      /\ loc'[w].ver = IF db' = db THEN loc[w].ver ELSE db + 1
  <2>1. CASE UNCHANGED loc /\ db' = db  BY <2>1
  <2>2. CASE loc' = [loc EXCEPT ![w].ver = db + 1] /\ db' = db + 1
    <3>1. loc'[w] = [loc[w] EXCEPT !.ver = db + 1]
      BY <1>a, <2>2
    <3> QED BY <1>a, <1>b, <2>2, <3>1, LocalsKept
  <2> QED BY <2>1, <2>2
<1>5. Unpublished(w)' => loc'[w].ver > 0
  BY <1>a, <1>b, <1>1, <1>4 DEF Unpublished, Current
<1>6. Plain(w)
  BY <1>a, <1>b, <1>1, <1>4, <1>5 DEF Plain, Current, Cached
<1> QED BY <1>1, <1>3, <1>6, PlainKeeps, AloneKeeps

LEMMA ImportKeeps ==
  ASSUME TypeOK, TypeOK', AllGood, NEW w \in Workers, ImportStep(w)
  PROVE  AllGood'
<1> USE ThreadsOfWorkers
<1> USE DEF disk, locks, times, caches, past, On
<1>a. /\ pc \in [Threads -> Labels] /\ loc \in [Workers -> Locals]
      /\ loc[w] \in Locals /\ Current(w) /\ Cached(w) /\ Ordered
      /\ floor \in [Imports -> Nat]
  BY DEF TypeOK, AllGood, Good
<1>b. /\ db \in Nat /\ archive \in Nat /\ gen \in Nat /\ bulk \in Nat
      /\ loc[w].ver \in Nat /\ loc[w].under \in Nat
  BY Numbers
<1>c. ASSUME ImportEnds(w), UNCHANGED <<disk, gen, search, snap, floor>>  PROVE AllGood'
  <2>1. bulk' = bulk /\ Ordered'
    BY <1>a, <1>c DEF bulk, Ordered
  <2> QED BY <1>b, <1>c, <2>1, EndKeeps
<1>1. CASE ImportRecent(w)  BY <1>c, <1>1, GoesOn DEF ImportRecent
<1>2. CASE ImportLock(w)  BY <1>c, <1>2, GoesOn DEF ImportLock
<1>3. CASE ImportLockTimeout(w)  BY <1>3, GoesOn DEF ImportLockTimeout
<1>4. CASE Upsert(w)  BY <1>4, GoesOn DEF Upsert, Commit
<1>5. CASE UpsertFails(w)  BY <1>c, <1>5 DEF UpsertFails
<1>6. CASE Clear(w)  BY <1>6, GoesOn DEF Clear, Unpublished
<1>7. CASE Stamp(w)  BY <1>7, GoesOn DEF Stamp, Unpublished
<1>8. CASE Backfill(w)  BY <1>8, GoesOn DEF Backfill, Commit
<1>9. CASE BackfillFails(w)  BY <1>c, <1>9 DEF BackfillFails
<1>10. CASE ClearAgain(w)
  <2>1. /\ Alone(w) /\ pc'[Main(w)] = "import_done" /\ gen' = gen + 1
        /\ UNCHANGED <<loc, search, db, archive, snap>> /\ bulk' = bulk
    BY <1>a, <1>10 DEF ClearAgain, Goto, Alone, bulk
  <2>2. Forward
    BY <1>a, <1>b, <2>1 DEF Forward, Ordered
  <2>3. Current(w)'
    BY <1>a, <1>10, <2>1 DEF Current, Rebuilt, Unpublished, ClearAgain
  <2>4. Fresh(w, "import_data")' /\ ~ViaSql(w)'
    BY <2>1 DEF Fresh, Answered, ViaSql
  <2>5. search'[w].gen < gen' /\ loc'[w].under <= gen'
    BY <1>a, <1>b, <2>1, Numbers DEF Cached
  <2>6. Cached(w)'
    BY <1>b, <2>1, <2>4, <2>5, NumbersNext DEF Cached
  <2> QED BY <2>1, <2>2, <2>3, <2>4, <2>6, AloneKeeps DEF Good
<1>11. CASE ImportDone(w)
  <2>1. pc[Main(w)] = "import_done" /\ loc[w].ver <= archive
    BY <1>a, <1>11 DEF ImportDone, Current, Rebuilt
  <2>2. bulk' \in {bulk, Later(bulk, loc[w].ver)}
    BY <1>a, <1>11 DEF ImportDone, Returned, bulk
  <2>3. bulk' >= bulk /\ bulk' <= archive /\ (bulk' # bulk => bulk' = loc[w].ver)
    BY <1>a, <1>b, <2>1, <2>2 DEF Later, Ordered
  <2>4. Ordered'
    BY <1>a, <1>11, <2>3 DEF Ordered, ImportDone
  <2> QED BY <1>11, <2>1, <2>3, <2>4, EndKeeps DEF ImportDone
<1>12. CASE SearchImportDone(w)
  <2>1. bulk' = bulk
    BY <1>a, <1>12 DEF SearchImportDone, Current, Returned, bulk, Imports
  <2>2. Ordered'
    BY <1>a, <1>12, <2>1 DEF Ordered, SearchImportDone
  <2> QED BY <1>b, <1>12, <2>1, <2>2, EndKeeps DEF SearchImportDone
<1> QED BY <1>1, <1>2, <1>3, <1>4, <1>5, <1>6, <1>7, <1>8, <1>9, <1>10, <1>11, <1>12
        DEF ImportStep

(* _reload_engine(), forced by an import or in the background.             *)
LEMMA ReloadIsForward ==
  ASSUME TypeOK, AllGood, ReloadInv, NEW t \in Threads, Reload(t)
  PROVE  Forward /\ UNCHANGED <<db, gen, floor, search>> /\ bulk' = bulk
<1> USE ThreadsOfWorkers
<1> USE DEF disk, locks, times, caches, past, On, Goto, Reload, ReloadGuard, ReloadFetch,
            ReloadPublish, ReloadFails
<1>a. pc \in [Threads -> Labels] /\ loc \in [Workers -> Locals]
  BY DEF TypeOK
<1>1. UNCHANGED <<db, gen, floor, search>> /\ bulk' = bulk
  BY DEF bulk
<1>2. ReloadInv' /\ archive' >= archive
  BY ReloadKeeps
<1>3. db \in Nat /\ gen \in Nat /\ bulk \in Nat /\ archive \in Nat /\ archive' \in Nat
  BY <1>2, Numbers DEF ReloadInv, ReloadShape
<1>4. Ordered'
  BY <1>1, <1>2, <1>3 DEF AllGood, Ordered, ReloadInv, ReloadShape
<1>5. AfterReload(t) # "import_done"
  BY DEF AfterReload
<1>6. ASSUME NEW u \in Workers, pc'[Main(u)] = "import_done"
      PROVE  pc[Main(u)] = "import_done" /\ loc'[u].ver = loc[u].ver
  <2>1. pc'[Main(u)] = pc[Main(u)] /\ t # Main(u)
    BY <1>a, <1>5, <1>6 DEF ImportEnds
  <2>2. loc'[u] = loc[u]
    BY <1>a, <2>1 DEF ImportEnds
  <2> QED BY <1>6, <2>1, <2>2
<1> QED BY <1>1, <1>2, <1>3, <1>4, <1>6 DEF Forward

LEMMA BackgroundReloadKeeps ==
  ASSUME TypeOK, TypeOK', AllGood, ReloadInv, NEW w \in Workers, Reload(Bg(w))
  PROVE  AllGood'
<1> USE ThreadsOfWorkers
<1>a. pc \in [Threads -> Labels] /\ snap \in [Threads -> Nat]
  BY DEF TypeOK
<1>1. Forward /\ UNCHANGED search
  BY ReloadIsForward
<1>2. \A v \in Workers : /\ loc'[v] = loc[v] /\ pc'[Main(v)] = pc[Main(v)]
                         /\ snap'[Main(v)] = snap[Main(v)]
  BY <1>a DEF Reload, ReloadGuard, ReloadFetch, ReloadPublish, ReloadFails, Goto, Bg
<1>3. \A v \in Workers : Still(v)
  BY <1>1, <1>2 DEF Still, NothingNew
<1>4. \A v \in Workers : Good(v)'
  BY <1>1, <1>3, StillKeeps
<1> QED BY <1>1, <1>4 DEF AllGood, Forward

LEMMA ForcedReloadKeeps ==
  ASSUME TypeOK, TypeOK', EngineAnswers, AllGood, ReloadInv, NEW w \in Workers,
         Reload(Main(w))
  PROVE  AllGood'
<1> USE ThreadsOfWorkers
<1> USE DEF disk, locks, times, caches, past, On
<1>a. /\ pc \in [Threads -> Labels] /\ loc \in [Workers -> Locals]
      /\ snap \in [Threads -> Nat] /\ Current(w) /\ Cached(w) /\ EngineEnabled
      /\ Main(w)[1] = w /\ Main(w)[2] = "main"
  BY DEF TypeOK, AllGood, Good, EngineAnswers, EngineEnabled, Main
<1>b. /\ db \in Nat /\ loc[w].ver \in Nat
  BY Numbers
<1>1. Forward /\ UNCHANGED <<db, gen, floor, search>> /\ bulk' = bulk
  BY ReloadIsForward
<1>c. NothingNew(w)
  BY <1>1 DEF NothingNew
<1>d. ASSUME Cached(w)', Current(w)', pc'[Main(w)] # "done", Alone(w)  PROVE AllGood'
  BY <1>1, <1>d, AloneKeeps DEF Good, Fresh, Answered
<1>e. ASSUME UNCHANGED loc, pc'[Main(w)] \in {"publish", "clear_again", "reload_done"}
      PROVE  Cached(w)'
  <2>1. /\ search'[w].gen <= gen'
        /\ search'[w].gen = gen' /\ search'[w].res # Nothing => UpToDateNext(search'[w].res)
    BY <1>a, <1>c, <1>1, CacheStaysUpToDate
  <2> QED BY <1>a, <1>e, <1>1, <2>1 DEF Cached, UpToDate, UpToDateNext, ViaSql
<1>2. CASE ReloadGuard(Main(w))
  BY <1>a, <1>2, GoesOn DEF ReloadGuard, Unpublished
<1>3. CASE ReloadFetch(Main(w))
  <2>1. /\ pc'[Main(w)] = "publish" /\ snap'[Main(w)] = db /\ UNCHANGED loc /\ Alone(w)
        /\ Unpublished(w)
    BY <1>a, <1>3 DEF ReloadFetch, Goto, Alone, Unpublished
  <2>2. Current(w)'
    BY <1>a, <1>1, <2>1 DEF Current, Rebuilt, Unpublished
  <2> QED BY <1>d, <1>e, <2>1, <2>2
<1>4. CASE ReloadPublish(Main(w))
  <2>1. /\ pc'[Main(w)] = AfterReload(Main(w)) /\ archive' = snap[Main(w)] /\ UNCHANGED loc
        /\ Alone(w) /\ Unpublished(w) /\ loc[w].ver <= snap[Main(w)]
    BY <1>a, <1>4 DEF ReloadPublish, Goto, Alone, Unpublished, Current
  <2>2. \/ AfterReload(Main(w)) = "clear_again"
        \/ AfterReload(Main(w)) = "reload_done" /\ loc[w].op # "import_data"
    BY <1>a DEF AfterReload
  <2>3. Current(w)'
    BY <1>a, <1>1, <2>1, <2>2 DEF Current, Rebuilt, Unpublished
  <2> QED BY <1>d, <1>e, <2>1, <2>2, <2>3
<1>5. CASE ReloadFails(Main(w))
  <2>1. /\ ImportEnds(w) /\ UNCHANGED archive
        /\ \A v \in Workers \ {w} : snap'[Main(v)] = snap[Main(v)]
    BY <1>a, <1>5 DEF ReloadFails
  <2>2. Ordered' /\ bulk' >= bulk
    BY <1>1 DEF Forward
  <2> QED BY <1>1, <2>1, <2>2, EndKeeps
<1> QED BY <1>2, <1>3, <1>4, <1>5 DEF Reload

LEMMA GoodInit == Init => AllGood
<1> SUFFICES ASSUME Init PROVE AllGood
  OBVIOUS
<1> USE ThreadsOfWorkers
<1>1. \A w \in Workers : pc[Main(w)] = "import_data"
  BY DEF Init, Main
<1>2. bulk = 0 /\ gen = 0 /\ db \in Nat /\ archive \in Nat /\ archive <= db
  BY DEF Init, bulk, NoImports, Imports
<1>3. \A w \in Workers : /\ loc[w].ver = 0 /\ loc[w].since["import_data"] = 0 /\ loc[w].under = 0
                         /\ search[w] = [gen |-> 0, res |-> Nothing]
  BY DEF Init, Idle, NoImports, Imports
<1>4. \A w \in Workers : Good(w)
  BY <1>1, <1>2, <1>3 DEF Good, Current, Cached, Fresh, Answered, Rebuilt, Unpublished, ViaSql
<1> QED BY <1>2, <1>4 DEF AllGood, Ordered

(* The inductive invariant: types, the archive, and while the engine       *)
(* answers the freshness of caches and answers.                            *)
SearchInv == TypeInv /\ ReloadInv /\ (EngineAnswers => AllGood)

LEMMA ScenarioStands == [Next]_vars => scenario' = scenario
<1> SUFFICES ASSUME [Next]_vars PROVE scenario' = scenario
  OBVIOUS
<1> USE DEF past
<1>1. ASSUME NEW w \in Workers, SearchStep(w)  PROVE scenario' = scenario
  BY <1>1 DEF SearchStep, SetupCached, SetupStale, SetupCount, Counted, SearchCache, EngineSize,
              EngineQuery, EngineQueryFails, QueryCache, QueryExecute, QueryKeep
<1>2. ASSUME NEW w \in Workers, ImportStep(w)  PROVE scenario' = scenario
  BY <1>2 DEF ImportStep, ImportRecent, ImportLock, ImportLockTimeout, Upsert, UpsertFails,
              Clear, Stamp, Backfill, BackfillFails, ClearAgain, ImportDone, SearchImportDone
<1>3. ASSUME NEW t, Reload(t)  PROVE scenario' = scenario
  BY <1>3 DEF Reload, ReloadGuard, ReloadFetch, ReloadPublish, ReloadFails
<1>4. ASSUME NEW w \in Workers, Step(w)  PROVE scenario' = scenario
  BY <1>1, <1>2, <1>3, <1>4 DEF Step, Return
<1>5. ASSUME NEW w \in Workers, NEW op \in Requests, Call(w, op)  PROVE scenario' = scenario
  BY <1>5 DEF Call
<1>6. CASE Age  BY <1>6 DEF Age
<1>7. ASSUME NEW w \in Workers, Expire(w)  PROVE scenario' = scenario
  BY <1>7 DEF Expire
<1>8. CASE UNCHANGED vars  BY <1>8 DEF vars
<1> QED BY <1>4, <1>5, <1>6, <1>7, <1>8 DEF Next

LEMMA FreshStep == SearchInv /\ [Next]_vars => SearchInv'
<1> SUFFICES ASSUME SearchInv, [Next]_vars PROVE SearchInv'
  OBVIOUS
<1>a. TypeInv' /\ ReloadInv' /\ TypeOK /\ TypeOK' /\ ReloadInv /\ TypeInv
  BY TypeStep, ReloadStep DEF SearchInv, TypeInv
<1> USE ThreadsOfWorkers
<1> USE DEF disk, locks, times, caches, threads, past, On
<1>b. scenario' = scenario
  BY ScenarioStands
<1>c. SUFFICES ASSUME EngineAnswers  PROVE AllGood'
  BY <1>a, <1>b DEF SearchInv, EngineAnswers
<1>d. AllGood /\ pc \in [Threads -> Labels] /\ loc \in [Workers -> Locals]
  BY <1>a, <1>c DEF SearchInv, TypeOK
<1>e. ASSUME UNCHANGED <<db, archive, gen, floor, snap, pc, loc>>, \A v \in Workers : NothingNew(v)
      PROVE  AllGood'
  <2>1. bulk' = bulk /\ Ordered'
    BY <1>d, <1>e DEF bulk, AllGood, Ordered
  <2>2. Forward
    BY <1>a, <1>e, <2>1, Numbers DEF Forward
  <2>3. \A v \in Workers : Good(v)'
    BY <1>a, <1>d, <1>e, <2>2, StillKeeps DEF Still
  <2> QED BY <2>1, <2>3 DEF AllGood
<1>f. ASSUME NEW w \in Workers, NEW label, Goto(Main(w), label),
             label \in {"setup", "import_data", "upsert", "idle"},
             NEW l, loc' = [loc EXCEPT ![w] = l],
             l.under = 0, l.ver = 0, l.since["import_data"] \in {0, bulk},
             UNCHANGED <<db, archive, gen, floor, snap, search>>
      PROVE  AllGood'
  <2>1. /\ Private(w) /\ NothingNew(w) /\ loc'[w] = l /\ pc'[Main(w)] = label
        /\ bulk' = bulk
    BY <1>d, <1>f DEF Private, Goto, NothingNew, bulk
  <2>2. Plain(w)
    BY <1>a, <1>f, <2>1, Numbers, NumbersNext DEF Plain, Unpublished
  <2> QED BY <1>a, <1>d, <2>1, <2>2, PrivateForward, PlainKeeps, PrivateKeeps
<1>1. CASE Age
  BY <1>e, <1>1 DEF Age, NothingNew
<1>2. ASSUME NEW w \in Workers, NEW op \in Requests, Call(w, op)  PROVE AllGood'
  <2> DEFINE l == [Idle EXCEPT !.op = op, !.since = floor]
  <2>1. First(op) \in {"setup", "import_data", "upsert"}
    BY DEF First, Requests, Imports
  <2>2. l.under = 0 /\ l.ver = 0 /\ l.since["import_data"] = bulk
    BY DEF Idle, bulk
  <2>3. loc' = [loc EXCEPT ![w] = l] /\ Goto(Main(w), First(op))
    BY <1>2 DEF Call
  <2> HIDE DEF l
  <2> QED BY <1>f, <1>2, <2>1, <2>2, <2>3 DEF Call
<1>3. ASSUME NEW w \in Workers, Step(w)  PROVE AllGood'
  <2>1. CASE Return(w)
    <3>1. Idle.under = 0 /\ Idle.ver = 0 /\ Idle.since["import_data"] = 0
      BY DEF Idle, NoImports, Imports
    <3> QED BY <1>f, <2>1, <3>1 DEF Return
  <2>2. CASE SearchStep(w)  BY <1>a, <1>c, <1>d, <2>2, SearchKeeps
  <2>3. CASE ImportStep(w)  BY <1>a, <1>d, <2>3, ImportKeeps
  <2>4. CASE Reload(Main(w))  BY <1>a, <1>c, <1>d, <2>4, ForcedReloadKeeps
  <2>5. CASE Reload(Bg(w))  BY <1>a, <1>d, <2>5, BackgroundReloadKeeps
  <2> QED BY <1>3, <2>1, <2>2, <2>3, <2>4, <2>5 DEF Step
<1>4. ASSUME NEW w \in Workers, Expire(w)  PROVE AllGood'
  <2>1. \A v \in Workers : search[v] \in Cache /\ Cached(v)
    BY <1>a, <1>d DEF TypeOK, AllGood, Good
  <2>2. search'[w].res = Nothing /\ search'[w].gen = search[w].gen
    BY <1>a, <1>4 DEF Expire, TypeOK, Cache
  <2>3. \A v \in Workers \ {w} : search'[v] = search[v]
    BY <1>a, <1>4 DEF Expire, TypeOK
  <2>4. \A v \in Workers : NothingNew(v)
    BY <1>4, <2>1, <2>2, <2>3 DEF NothingNew, Cached, Expire
  <2> QED BY <1>e, <1>4, <2>4 DEF Expire
<1>5. CASE UNCHANGED vars
  BY <1>e, <1>5 DEF vars, NothingNew
<1> QED BY <1>1, <1>2, <1>3, <1>4, <1>5 DEF Next

LEMMA SearchInvHolds == Spec => []SearchInv
<1>1. Init => SearchInv
  BY TypeInit, ReloadInit, GoodInit DEF SearchInv
<1> QED BY <1>1, FreshStep, PTL DEF Spec

(* While the engine answers, a search that a worker begins once a bulk     *)
(* import has returned shows that import's cards or later ones, from the   *)
(* engine or from any cache, for any number of workers, imports, reloads   *)
(* and failures of import and reload.                                      *)
THEOREM SearchesAreFresh == Spec => []FreshAfterImport
<1>1. SearchInv => FreshAfterImport
  BY DEF SearchInv, AllGood, Good, FreshAfterImport
<1> QED BY <1>1, SearchInvHolds, PTL

(* The reason: what TLC checks as FreshInv holds at every moment.          *)
THEOREM CachesAreFresh == Spec => []FreshInv
<1>1. SearchInv => FreshInv
  BY GoodIsFresh DEF SearchInv, ReloadInv, FreshInv
<1> QED BY <1>1, SearchInvHolds, PTL

-----------------------------------------------------------------------------
(* That imports take effect: the setup check of every worker passes, and   *)
(* the archive catches up with the database.                               *)

(* Past its upsert an import is committed; with a bulk import that means   *)
(* that the table is no longer too small.                                  *)
Committed(v) ==
  pc[Main(v)] \in {"clear", "stamp", "backfill", "reload", "fetch", "publish",
                   "clear_again", "import_done"}

(* A cached "not complete" is older than the stamp of every bulk import    *)
(* that has returned, and so is one that is about to be cached.            *)
SetupKnown(v) ==
  setup[v] # Nothing =>
    setup[v].seen <= stamp /\ (setup[v].seen = stamp /\ ~setup[v].ok => bulk = 0)
Serves(v) ==
  /\ SetupKnown(v)
  /\ loc[v].seen <= stamp /\ loc[v].since["import_data"] <= bulk
  /\ loc[v].op = "import_data" /\ Committed(v) => loaded
  /\ loc[v].op = "import_data" => pc[Main(v)] # "reload_done"
  /\ Answered(v) /\ loc[v].res = Refused => loc[v].since["import_data"] = 0
ServesInv == (bulk > 0 => loaded) /\ \A v \in Workers : Serves(v)

(* Whoever commits has a reload before it that fetches what it committed:  *)
(* while another thread is between its SELECT and its rename, that reload  *)
(* waits for the guard.                                                    *)
Waiting == \E w \in Workers : pc[Main(w)] \in {"clear", "stamp", "backfill", "reload"}
SomeUnpublished == \E w \in Workers : Unpublished(w)
HasReloaded == \E w \in Workers : pc[Main(w)] \in {"clear_again", "import_done", "reload_done"}
CatchesUp ==
  /\ \A t \in Threads : pc[t] = "publish" => snap[t] = db \/ Waiting
  /\ floor # NoImports \/ HasReloaded => archive = db \/ SomeUnpublished

NoReloadFails == scenario \cap {"disabled", "reload", "tags"} = {}
EffectInv == (~Fails("count") => ServesInv) /\ (NoReloadFails => CatchesUp)

(* The stamp moves with every bulk import that returns, and the table      *)
(* never becomes too small again.                                          *)
Onward ==
  /\ stamp' >= stamp /\ (loaded => loaded') /\ (bulk' > 0 => loaded')
  /\ bulk' = bulk \/ (bulk' >= bulk /\ stamp' > stamp)

LEMMA SetupStays ==
  ASSUME TypeOK, TypeOK', Onward, NEW v \in Workers, SetupKnown(v),
         setup'[v] \in {setup[v], Nothing}
  PROVE  SetupKnown(v)'
<1>1. bulk \in Nat /\ bulk' \in Nat /\ stamp \in Nat /\ stamp' \in Nat
  BY Numbers, NumbersNext DEF TypeOK
<1>2. setup[v] \in [ok : BOOLEAN, seen : Nat] \cup {Nothing}
  BY DEF TypeOK
<1>3. setup[v] # Nothing => setup[v].seen \in Nat
  BY <1>2
<1> QED BY <1>1, <1>3 DEF SetupKnown, Onward

LEMMA ServesQuietly ==
  ASSUME TypeOK, TypeOK', Onward, NEW w \in Workers, Serves(w), SetupKnown(w)',
         loc'[w].op = loc[w].op, loc'[w].since = loc[w].since,
         loc'[w].seen \in {loc[w].seen, stamp},
         Committed(w)' => Committed(w) \/ loaded',
         pc'[Main(w)] = "reload_done" => loc[w].op # "import_data",
         pc'[Main(w)] = "done" /\ loc'[w].res = Refused =>
           \/ loc[w].since["import_data"] = 0
           \/ pc[Main(w)] = "done" /\ loc[w].res = Refused
  PROVE  Serves(w)'
<1>1. bulk \in Nat /\ bulk' \in Nat /\ stamp \in Nat /\ stamp' \in Nat
  BY Numbers, NumbersNext DEF TypeOK
<1>2. loc[w].seen \in Nat /\ loc[w].since["import_data"] \in Nat
  BY Numbers, LocalsFields DEF TypeOK
<1>3. loc'[w].seen <= stamp' /\ loc'[w].since["import_data"] <= bulk'
  BY <1>1, <1>2 DEF Serves, Onward
<1>4. loc'[w].op = "import_data" /\ Committed(w)' => loaded'
  BY DEF Serves, Onward
<1>5. Answered(w)' /\ loc'[w].res = Refused => loc'[w].since["import_data"] = 0
  BY DEF Serves, Answered
<1> QED BY <1>3, <1>4, <1>5 DEF Serves

LEMMA ServesAnew ==
  ASSUME TypeOK, TypeOK', Onward, NEW w \in Workers, SetupKnown(w)',
         loc'[w].seen = 0, loc'[w].since["import_data"] <= bulk',
         pc'[Main(w)] \in {"idle", "setup", "import_data", "upsert"}
  PROVE  Serves(w)'
<1>1. stamp' \in Nat
  BY DEF TypeOK
<1> QED BY <1>1 DEF Serves, Committed, Answered

LEMMA OthersServe ==
  ASSUME TypeOK, TypeOK', Onward, ServesInv, NEW w \in Workers, Serves(w)',
         \A v \in Workers \ {w} : /\ loc'[v] = loc[v] /\ pc'[Main(v)] = pc[Main(v)]
                                  /\ setup'[v] = setup[v]
  PROVE  ServesInv'
<1>1. ASSUME NEW v \in Workers \ {w}  PROVE Serves(v)'
  <2>1. Serves(v) /\ SetupKnown(v)
    BY DEF ServesInv, Serves
  <2>2. SetupKnown(v)'
    BY <2>1, SetupStays
  <2>3. Committed(v)' => Committed(v)
    BY DEF Committed
  <2>4. pc'[Main(v)] = "reload_done" => loc[v].op # "import_data"
    BY <2>1 DEF Serves
  <2> QED BY <2>1, <2>2, <2>3, <2>4, ServesQuietly
<1> QED BY <1>1 DEF ServesInv, Onward

LEMMA StampTypes ==
  ASSUME TypeOK
  PROVE  /\ stamp \in Nat /\ bulk \in Nat
         /\ \A v \in Workers : /\ loc[v] \in Locals /\ loc[v].seen \in Nat
                               /\ loc[v].since["import_data"] \in Nat
BY Numbers, LocalsFields DEF TypeOK

(* Steps that leave the stamp, the table and the completed imports alone.  *)
LEMMA OnwardSame ==
  ASSUME TypeOK, ServesInv, UNCHANGED <<stamp, loaded, floor>>  PROVE Onward /\ bulk' = bulk
<1>1. bulk' = bulk
  BY DEF bulk
<1> QED BY <1>1, StampTypes DEF Onward, ServesInv

(* The answer of _setup_complete(), given that a "not complete" is right.  *)
LEMMA AnswerServes ==
  ASSUME TypeOK, TypeOK', ServesInv, NEW w \in Workers, NEW ok \in BOOLEAN, Answer(w, ok),
         ~ok => bulk = 0, UNCHANGED <<stamp, loaded, floor>>, SetupKnown(w)',
         ~Committed(w), pc[Main(w)] # "reload_done",
         \A v \in Workers \ {w} : setup'[v] = setup[v]
  PROVE  ServesInv'
<1> USE ThreadsOfWorkers DEF Goto, Respond
<1>a. /\ pc \in [Threads -> Labels] /\ loc \in [Workers -> Locals] /\ loc[w] \in Locals
  BY DEF TypeOK
<1>1. Onward /\ bulk' = bulk
  BY OnwardSame
<1>2. \A v \in Workers \ {w} : loc'[v] = loc[v] /\ pc'[Main(v)] = pc[Main(v)]
  BY <1>a DEF Answer
<1>3. Serves(w) /\ (~ok => loc[w].since["import_data"] = 0)
  BY StampTypes DEF ServesInv, Serves
<1>4. CASE UNCHANGED loc /\ pc'[Main(w)] \in {"cache", "import_wait"}
  <2>1. ~Committed(w)'
    BY <1>4 DEF Committed
  <2> QED BY <1>1, <1>2, <1>3, <1>4, <2>1, ServesQuietly, OthersServe
<1>5. CASE ~ok /\ loc' = [loc EXCEPT ![w].res = Refused] /\ pc'[Main(w)] = "done"
  <2>1. /\ loc'[w].op = loc[w].op /\ loc'[w].since = loc[w].since
        /\ loc'[w].seen = loc[w].seen
    <3>1. loc'[w] = [loc[w] EXCEPT !.res = Refused]
      BY <1>a, <1>5
    <3> QED BY <1>a, <3>1 DEF Locals
  <2>2. ~Committed(w)'
    BY <1>5 DEF Committed
  <2>3. Serves(w)'
    BY <1>1, <1>3, <1>5, <2>1, <2>2, ServesQuietly
  <2> QED BY <1>1, <1>2, <2>3, OthersServe
<1>6. CASE loc' = [loc EXCEPT ![w] = Idle] /\ pc'[Main(w)] = "idle"
  <2>1. loc'[w].seen = 0 /\ loc'[w].since["import_data"] = 0
    BY <1>a, <1>6 DEF Idle, NoImports, Imports
  <2>2. Serves(w)'
    BY <1>1, <1>6, <2>1, StampTypes, ServesAnew
  <2> QED BY <1>1, <1>2, <2>2, OthersServe
<1> QED BY <1>a, <1>4, <1>5, <1>6 DEF Answer

LEMMA SearchServes ==
  ASSUME TypeInv, TypeOK', ~Fails("count"), ServesInv, NEW w \in Workers, SearchStep(w)
  PROVE  ServesInv'
<1> USE ThreadsOfWorkers
<1> USE DEF disk, locks, times, caches, past, Goto, On
<1>a. /\ TypeOK /\ pc \in [Threads -> Labels] /\ loc \in [Workers -> Locals]
      /\ loc[w] \in Locals /\ setup \in [Workers -> [ok : BOOLEAN, seen : Nat] \cup {Nothing}]
      /\ search[w] \in Cache /\ query[w] \in Cache
  BY DEF TypeInv, TypeOK
<1>b. Serves(w) /\ SetupKnown(w)
  BY DEF ServesInv, Serves
<1>c. UNCHANGED <<stamp, loaded, floor>>
  BY DEF SearchStep, SetupCached, SetupStale, SetupCount, Counted, SearchCache, EngineSize,
         EngineQuery, EngineQueryFails, QueryCache, QueryExecute, QueryKeep
<1>d. Onward /\ bulk' = bulk
  BY <1>a, <1>c, OnwardSame
<1>e. ASSUME UNCHANGED setup  PROVE SetupKnown(w)'
  BY <1>a, <1>b, <1>d, <1>e, SetupStays
<1>f. ASSUME UNCHANGED setup,
             \A v \in Workers \ {w} : loc'[v] = loc[v] /\ pc'[Main(v)] = pc[Main(v)],
             loc'[w].op = loc[w].op, loc'[w].since = loc[w].since,
             loc'[w].seen \in {loc[w].seen, stamp},
             pc'[Main(w)] \in {"count", "size", "sql", "engine", "execute", "keep"}
               \/ (pc'[Main(w)] = "done" /\ loc'[w].res # Refused)
      PROVE  ServesInv'
  <2>1. ~Committed(w)' /\ pc'[Main(w)] # "reload_done"
    BY <1>f DEF Committed
  <2>2. Serves(w)'
    BY <1>a, <1>b, <1>d, <1>e, <1>f, <2>1, ServesQuietly
  <2> QED BY <1>a, <1>d, <1>f, <2>2, OthersServe
<1>g. ASSUME NEW r \in Nat, Respond(w, r), UNCHANGED setup  PROVE ServesInv'
  <2>1. loc'[w] = [loc[w] EXCEPT !.res = r] /\ pc'[Main(w)] = "done"
    BY <1>a, <1>g DEF Respond
  <2>2. /\ loc'[w].op = loc[w].op /\ loc'[w].since = loc[w].since
        /\ loc'[w].seen = loc[w].seen /\ loc'[w].res = r
    BY <1>a, <2>1 DEF Locals
  <2>3. \A v \in Workers \ {w} : loc'[v] = loc[v] /\ pc'[Main(v)] = pc[Main(v)]
    BY <1>a, <1>g DEF Respond
  <2>4. r # Refused
    BY ServerAssumption
  <2> QED BY <1>f, <1>g, <2>1, <2>2, <2>3, <2>4
<1>h. /\ InnerCache(search[w]).res \in Nat \cup {Nothing}
      /\ InnerCache(query[w]).res \in Nat \cup {Nothing} /\ archive \in Nat
  BY <1>a, CacheType DEF InnerCache, TypeOK
<1>1. CASE SetupCached(w)
  <2>1. setup[w] \in [ok : BOOLEAN, seen : Nat] /\ setup[w].seen = stamp
    BY <1>a, <1>1 DEF SetupCached
  <2>2. setup[w].ok \in BOOLEAN /\ (~setup[w].ok => bulk = 0)
    BY <1>1, <1>b, <2>1 DEF SetupKnown, SetupCached
  <2>3. UNCHANGED setup /\ ~Committed(w) /\ pc[Main(w)] # "reload_done"
    BY <1>1 DEF SetupCached, Committed
  <2>4. Answer(w, setup[w].ok)
    BY <1>1 DEF SetupCached
  <2> QED BY <1>a, <1>c, <1>e, <2>2, <2>3, <2>4, AnswerServes
<1>2. CASE SetupStale(w)
  <2>1. loc'[w] = [loc[w] EXCEPT !.seen = stamp] /\ pc'[Main(w)] = "count"
    BY <1>a, <1>2 DEF SetupStale
  <2>2. /\ loc'[w].op = loc[w].op /\ loc'[w].since = loc[w].since /\ loc'[w].seen = stamp
    BY <1>a, <2>1 DEF Locals
  <2> QED BY <1>a, <1>f, <1>2, <2>1, <2>2 DEF SetupStale
<1>3. CASE SetupCount(w)
  <2>1. Counted(w, loaded, loc[w].seen)
    BY <1>3 DEF SetupCount
  <2>2. ~loaded => bulk = 0
    BY <1>a, StampTypes DEF ServesInv
  <2>3. setup'[w] = [ok |-> loaded, seen |-> loc[w].seen]
        /\ \A v \in Workers \ {w} : setup'[v] = setup[v]
    BY <1>a, <2>1 DEF Counted
  <2>4. SetupKnown(w)'
    BY <1>b, <1>c, <1>d, <2>2, <2>3 DEF SetupKnown, Serves
  <2>5. ~Committed(w) /\ pc[Main(w)] # "reload_done" /\ Answer(w, loaded)
    BY <2>1 DEF Counted, Committed
  <2>6. loaded \in BOOLEAN
    BY <1>a DEF TypeOK
  <2> QED BY <1>a, <1>c, <2>2, <2>3, <2>4, <2>5, <2>6, AnswerServes
<1>4. CASE SearchCache(w)
  <2> DEFINE inner == InnerCache(search[w])
  <2>1. CASE inner.res # Nothing
    BY <1>g, <1>h, <1>4, <2>1 DEF SearchCache
  <2>2. CASE inner.res = Nothing
    <3>1. loc'[w] = [loc[w] EXCEPT !.under = gen] /\ pc'[Main(w)] \in {"size", "sql"}
      BY <1>a, <1>4, <2>2 DEF SearchCache
    <3>2. loc'[w].op = loc[w].op /\ loc'[w].since = loc[w].since /\ loc'[w].seen = loc[w].seen
      BY <1>a, <3>1 DEF Locals
    <3> QED BY <1>a, <1>f, <1>4, <2>2, <3>1, <3>2 DEF SearchCache
  <2> QED BY <2>1, <2>2
<1>5. CASE EngineSize(w)
  BY <1>a, <1>f, <1>5 DEF EngineSize
<1>6. CASE EngineQuery(w)
  BY <1>g, <1>h, <1>6 DEF EngineQuery
<1>7. CASE EngineQueryFails(w)
  BY <1>a, <1>f, <1>7 DEF EngineQueryFails
<1>8. CASE QueryCache(w)
  <2> DEFINE inner == InnerCache(query[w])
  <2>1. CASE inner.res # Nothing
    BY <1>g, <1>h, <1>8, <2>1 DEF QueryCache
  <2>2. CASE inner.res = Nothing
    BY <1>a, <1>f, <1>8, <2>2 DEF QueryCache
  <2> QED BY <2>1, <2>2
<1>9. CASE QueryExecute(w)
  <2>1. loc'[w] = [loc[w] EXCEPT !.res = db] /\ pc'[Main(w)] = "keep"
    BY <1>a, <1>9 DEF QueryExecute
  <2>2. loc'[w].op = loc[w].op /\ loc'[w].since = loc[w].since /\ loc'[w].seen = loc[w].seen
    BY <1>a, <2>1 DEF Locals
  <2> QED BY <1>a, <1>f, <1>9, <2>1, <2>2 DEF QueryExecute
<1>10. CASE QueryKeep(w)
  <2>1. loc[w].res \in Nat
    BY <1>10 DEF QueryKeep, TypeInv, RowsInv
  <2> QED BY <1>g, <1>10, <2>1 DEF QueryKeep
<1> QED BY <1>1, <1>2, <1>3, <1>4, <1>5, <1>6, <1>7, <1>8, <1>9, <1>10 DEF SearchStep

(* A step of w's import that changes its place and perhaps its commit.     *)
LEMMA GoesOnServing ==
  ASSUME TypeOK, TypeOK', ServesInv, Onward, NEW w \in Workers, NEW label,
         Goto(Main(w), label), UNCHANGED setup,
         UNCHANGED loc \/ (\E n \in Nat : loc' = [loc EXCEPT ![w].ver = n]),
         label # "done", label = "reload_done" => loc[w].op # "import_data",
         label \in {"import_lock", "setup", "upsert"} \/ Committed(w)
           \/ (loc[w].op = "import_data" => loaded')
  PROVE  ServesInv'
<1> USE ThreadsOfWorkers
<1>a. pc \in [Threads -> Labels] /\ loc \in [Workers -> Locals] /\ loc[w] \in Locals
  BY DEF TypeOK
<1>1. /\ pc'[Main(w)] = label
      /\ \A v \in Workers \ {w} : loc'[v] = loc[v] /\ pc'[Main(v)] = pc[Main(v)]
  BY <1>a DEF Goto
<1>2. loc'[w].op = loc[w].op /\ loc'[w].since = loc[w].since /\ loc'[w].seen = loc[w].seen
  <2>1. CASE UNCHANGED loc  BY <2>1
  <2>2. ASSUME NEW n \in Nat, loc' = [loc EXCEPT ![w].ver = n]
        PROVE  loc'[w].op = loc[w].op /\ loc'[w].since = loc[w].since
               /\ loc'[w].seen = loc[w].seen
    <3>1. loc'[w] = [loc[w] EXCEPT !.ver = n]
      BY <1>a, <2>2
    <3> QED BY <1>a, <3>1 DEF Locals
  <2> QED BY <2>1, <2>2
<1>3. Serves(w) /\ SetupKnown(w)
  BY DEF ServesInv, Serves
<1>4. SetupKnown(w)'
  BY <1>3, SetupStays
<1>5. loc'[w].seen <= stamp' /\ loc'[w].since["import_data"] <= bulk'
  <2>1. bulk' \in Nat /\ stamp' \in Nat
    BY NumbersNext DEF TypeOK
  <2> QED BY <1>2, <1>3, <2>1, StampTypes DEF Serves, Onward
<1>6. loc'[w].op = "import_data" /\ Committed(w)' => loaded'
  BY <1>1, <1>2, <1>3 DEF Serves, Onward, Committed
<1>7. Serves(w)'
  BY <1>1, <1>2, <1>4, <1>5, <1>6 DEF Serves, Answered
<1> QED BY <1>1, <1>7, OthersServe

LEMMA EndServes ==
  ASSUME TypeOK, TypeOK', ServesInv, Onward, NEW w \in Workers, ImportEnds(w),
         setup' \in {setup, [setup EXCEPT ![w] = Nothing]}
  PROVE  ServesInv'
<1> USE ThreadsOfWorkers
<1>a. /\ pc \in [Threads -> Labels] /\ loc \in [Workers -> Locals]
      /\ DOMAIN setup = Workers
  BY DEF TypeOK
<1>1. /\ loc'[w] = Idle /\ pc'[Main(w)] = "idle"
      /\ \A v \in Workers \ {w} : /\ loc'[v] = loc[v] /\ pc'[Main(v)] = pc[Main(v)]
                                  /\ setup'[v] = setup[v]
  BY <1>a DEF ImportEnds, Goto
<1>2. setup'[w] \in {setup[w], Nothing}
  BY <1>a
<1>3. SetupKnown(w)'
  BY <1>2, SetupStays DEF ServesInv, Serves
<1>4. loc'[w].seen = 0 /\ loc'[w].since["import_data"] <= bulk'
  BY <1>1, NumbersNext DEF Idle, NoImports, Imports
<1>5. Serves(w)'
  BY <1>1, <1>3, <1>4, ServesAnew
<1> QED BY <1>1, <1>5, OthersServe

LEMMA ImportServes ==
  ASSUME TypeOK, TypeOK', ServesInv, NEW w \in Workers, ImportStep(w)
  PROVE  ServesInv'
<1> USE ThreadsOfWorkers
<1> USE DEF disk, locks, times, caches, past, On
<1>a. /\ loc[w] \in Locals /\ floor \in [Imports -> Nat] /\ Serves(w) /\ loc[w].ver \in Nat
      /\ stamp \in Nat /\ bulk \in Nat /\ loaded \in BOOLEAN /\ db \in Nat
  BY StampTypes, Numbers DEF TypeOK, ServesInv
<1>b. ASSUME UNCHANGED <<stamp, loaded, floor>>  PROVE Onward
  BY <1>b, OnwardSame
<1>1. CASE ImportRecent(w)  BY <1>b, <1>1, EndServes, GoesOnServing DEF ImportRecent
<1>2. CASE ImportLock(w)  BY <1>b, <1>2, EndServes, GoesOnServing DEF ImportLock
<1>3. CASE ImportLockTimeout(w)  BY <1>b, <1>3, GoesOnServing DEF ImportLockTimeout
<1>4. CASE Upsert(w)
  <2>1. bulk' = bulk /\ (loaded => loaded') /\ (loc[w].op = "import_data" => loaded')
    BY <1>4 DEF Upsert, bulk
  <2>2. Onward
    BY <1>a, <1>4, <2>1 DEF Onward, ServesInv, Upsert
  <2>3. db + 1 \in Nat /\ loc' = [loc EXCEPT ![w].ver = db + 1] /\ Goto(Main(w), "clear")
        /\ UNCHANGED setup
    BY <1>a, <1>4 DEF Upsert, Commit
  <2> QED BY <2>1, <2>2, <2>3, GoesOnServing
<1>5. CASE UpsertFails(w)  BY <1>b, <1>5, EndServes DEF UpsertFails
<1>6. CASE Clear(w)
  BY <1>b, <1>6, GoesOnServing DEF Clear, Committed
<1>7. CASE Stamp(w)
  <2>1. bulk' = bulk /\ stamp' = stamp + 1 /\ UNCHANGED loaded
    BY <1>7 DEF Stamp, bulk
  <2>2. Onward
    BY <1>a, <2>1 DEF Onward, ServesInv
  <2> QED BY <1>7, <2>2, GoesOnServing DEF Stamp, Committed
<1>8. CASE Backfill(w)
  <2>1. db + 1 \in Nat /\ loc' = [loc EXCEPT ![w].ver = db + 1] /\ Goto(Main(w), "reload")
        /\ UNCHANGED setup /\ Committed(w) /\ Onward
    BY <1>a, <1>b, <1>8 DEF Backfill, Commit, Committed
  <2> QED BY <2>1, GoesOnServing
<1>9. CASE BackfillFails(w)  BY <1>b, <1>9, EndServes DEF BackfillFails
<1>10. CASE ClearAgain(w)
  BY <1>b, <1>10, GoesOnServing DEF ClearAgain, Committed
<1>11. CASE ImportDone(w)
  <2>1. stamp' = stamp + 1 /\ UNCHANGED loaded /\ Committed(w)
    BY <1>11 DEF ImportDone, Committed
  <2>2. bulk' = bulk \/ (loc[w].op = "import_data" /\ bulk' = Later(bulk, loc[w].ver))
    BY <1>a, <1>11 DEF ImportDone, Returned, bulk
  <2>3. loc[w].op = "import_data" => loaded
    BY <1>a, <2>1 DEF Serves
  <2>4. Onward
    BY <1>a, <2>1, <2>2, <2>3 DEF Onward, ServesInv, Later
  <2> QED BY <1>11, <2>4, EndServes DEF ImportDone
<1>12. CASE SearchImportDone(w)
  <2>1. loc[w].op # "import_data"
    BY <1>a, <1>12 DEF Serves, SearchImportDone
  <2>2. bulk' = bulk
    BY <1>a, <1>12, <2>1 DEF SearchImportDone, Returned, bulk, Imports
  <2>3. Onward
    BY <1>a, <1>12, <2>2 DEF Onward, ServesInv, SearchImportDone
  <2> QED BY <1>12, <2>3, EndServes DEF SearchImportDone
<1> QED BY <1>1, <1>2, <1>3, <1>4, <1>5, <1>6, <1>7, <1>8, <1>9, <1>10, <1>11, <1>12
        DEF ImportStep

LEMMA ReloadServes ==
  ASSUME TypeOK, TypeOK', ServesInv, NEW w \in Workers, NEW t \in {Main(w), Bg(w)}, Reload(t)
  PROVE  ServesInv'
<1> USE ThreadsOfWorkers
<1> USE DEF disk, locks, times, caches, past, On
<1>a. /\ pc \in [Threads -> Labels] /\ loc \in [Workers -> Locals] /\ Serves(w)
  BY DEF TypeOK, ServesInv
<1>b. Onward /\ UNCHANGED setup
  <2>1. UNCHANGED <<stamp, loaded, floor, setup>>
    BY DEF Reload, ReloadGuard, ReloadFetch, ReloadPublish, ReloadFails
  <2> QED BY <2>1, OnwardSame
<1>1. CASE t = Bg(w)
  <2>1. \A v \in Workers : loc'[v] = loc[v] /\ pc'[Main(v)] = pc[Main(v)]
    BY <1>a, <1>1 DEF Reload, ReloadGuard, ReloadFetch, ReloadPublish, ReloadFails, Goto, Bg
  <2>2. Serves(w)'
    <3>1. SetupKnown(w)'
      BY <1>a, <1>b, SetupStays DEF Serves
    <3>2. (Committed(w)' => Committed(w))
          /\ (pc'[Main(w)] = "reload_done" => loc[w].op # "import_data")
      BY <1>a, <2>1 DEF Committed, Serves
    <3> QED BY <1>a, <1>b, <2>1, <3>1, <3>2, ServesQuietly
  <2> QED BY <1>b, <2>1, <2>2, OthersServe
<1>2. CASE t = Main(w)
  <2>1. t[1] = w /\ t[2] = "main" /\ t # Bg(w)
    BY <1>2 DEF Main, Bg
  <2>2. /\ AfterReload(t) # "done"
        /\ AfterReload(t) = "reload_done" => loc[w].op # "import_data"
    BY <2>1 DEF AfterReload
  <2>3. Committed(w)
    BY <1>2 DEF Committed, Reload, ReloadGuard, ReloadFetch, ReloadPublish, ReloadFails
  <2>4. CASE ReloadGuard(t)
    BY <1>b, <1>2, <2>1, <2>2, <2>3, <2>4, GoesOnServing DEF ReloadGuard
  <2>5. CASE ReloadFetch(t)
    BY <1>b, <1>2, <2>1, <2>3, <2>5, GoesOnServing DEF ReloadFetch
  <2>6. CASE ReloadPublish(t)
    BY <1>b, <1>2, <2>2, <2>3, <2>6, GoesOnServing DEF ReloadPublish
  <2>7. CASE ReloadFails(t)
    BY <1>b, <2>1, <2>7, EndServes DEF ReloadFails
  <2> QED BY <2>4, <2>5, <2>6, <2>7 DEF Reload
<1> QED BY <1>1, <1>2

(* The archive catches up.  Most steps take place outside the part of an   *)
(* import that begins with its first commit.                               *)
Stages == {"clear", "stamp", "backfill", "reload", "fetch", "publish", "clear_again",
           "import_done", "reload_done"}
Aside ==
  /\ UNCHANGED <<db, archive, floor, snap>>
  /\ \A v \in Workers : \/ pc'[Main(v)] = pc[Main(v)]
                        \/ pc[Main(v)] \notin Stages /\ pc'[Main(v)] \notin Stages
  /\ \A t \in Threads : pc'[t] = "publish" => pc[t] = "publish"

LEMMA AsideKeeps == ASSUME CatchesUp, Aside  PROVE CatchesUp'
<1>1. Waiting' = Waiting /\ SomeUnpublished' = SomeUnpublished /\ HasReloaded' = HasReloaded
  <2>1. Waiting' <=> Waiting
    BY DEF Waiting, Aside, Stages
  <2>2. SomeUnpublished' <=> SomeUnpublished
    BY DEF SomeUnpublished, Unpublished, Aside, Stages
  <2>3. HasReloaded' <=> HasReloaded
    BY DEF HasReloaded, Aside, Stages
  <2> QED BY <2>1, <2>2, <2>3 DEF Waiting, SomeUnpublished, HasReloaded
<1>2. ASSUME NEW t \in Threads, pc'[t] = "publish"  PROVE snap'[t] = db' \/ Waiting'
  BY <1>1, <1>2 DEF CatchesUp, Aside
<1>3. floor' # NoImports \/ HasReloaded' => archive' = db' \/ SomeUnpublished'
  BY <1>1 DEF CatchesUp, Aside
<1> QED BY <1>2, <1>3 DEF CatchesUp, SomeUnpublished, Unpublished

(* A step of an import after whose commits a reload is still to come.      *)
LEMMA WaitingKeeps ==
  ASSUME CatchesUp, NEW w \in Workers,
         pc'[Main(w)] \in {"clear", "stamp", "backfill", "reload"}
  PROVE  CatchesUp'
<1>1. Waiting' /\ SomeUnpublished'
  BY DEF Waiting, SomeUnpublished, Unpublished
<1> QED BY <1>1 DEF CatchesUp

LEMMA SearchIsAside ==
  ASSUME TypeOK, NEW w \in Workers, SearchStep(w)  PROVE Aside
<1> USE ThreadsOfWorkers DEF Aside, Stages, disk, locks, times, caches, past, Goto, On
<1>a. pc \in [Threads -> Labels]
  BY DEF TypeOK
<1>b. ASSUME NEW label, label \notin Stages, pc' = [pc EXCEPT ![Main(w)] = label],
             pc[Main(w)] \notin Stages, UNCHANGED <<db, archive, floor, snap>>
      PROVE  Aside
  BY <1>a, <1>b
<1>c. ASSUME NEW ok, Answer(w, ok)
      PROVE  \E label : label \notin Stages /\ pc' = [pc EXCEPT ![Main(w)] = label]
  <2>1. \/ pc' = [pc EXCEPT ![Main(w)] = "cache"] \/ pc' = [pc EXCEPT ![Main(w)] = "done"]
        \/ pc' = [pc EXCEPT ![Main(w)] = "idle"]
        \/ pc' = [pc EXCEPT ![Main(w)] = "import_wait"]
    BY <1>c DEF Answer, Respond
  <2> QED BY <2>1
<1>1. CASE SetupCached(w)  BY <1>b, <1>c, <1>1 DEF SetupCached
<1>2. CASE SetupStale(w)  BY <1>b, <1>2 DEF SetupStale
<1>3. CASE SetupCount(w)  BY <1>b, <1>c, <1>3 DEF SetupCount, Counted
<1>4. CASE SearchCache(w)  BY <1>b, <1>4 DEF SearchCache, Respond
<1>5. CASE EngineSize(w)
  <2>1. /\ UNCHANGED <<db, archive, floor, snap>> /\ pc[Main(w)] = "size"
        /\ pc'[Main(w)] \in {"engine", "sql"}
        /\ \A v \in Workers \ {w} : pc'[Main(v)] = pc[Main(v)]
    BY <1>a, <1>5 DEF EngineSize
  <2>2. \A t \in Threads : pc'[t] = "publish" => pc[t] = "publish"
    BY <1>a, <1>5 DEF EngineSize, BackgroundReload
  <2> QED BY <2>1, <2>2
<1>6. CASE EngineQuery(w)  BY <1>b, <1>6 DEF EngineQuery, Respond
<1>7. CASE EngineQueryFails(w)  BY <1>b, <1>7 DEF EngineQueryFails
<1>8. CASE QueryCache(w)  BY <1>b, <1>8 DEF QueryCache, Respond
<1>9. CASE QueryExecute(w)  BY <1>b, <1>9 DEF QueryExecute
<1>10. CASE QueryKeep(w)  BY <1>b, <1>10 DEF QueryKeep, Respond
<1> QED BY <1>1, <1>2, <1>3, <1>4, <1>5, <1>6, <1>7, <1>8, <1>9, <1>10 DEF SearchStep

LEMMA ImportCatchesUp ==
  ASSUME TypeOK, NoReloadFails, CatchesUp, NEW w \in Workers, ImportStep(w)
  PROVE  CatchesUp'
<1> USE ThreadsOfWorkers DEF disk, locks, times, caches, past, On
<1>a. pc \in [Threads -> Labels] /\ ~Fails("tags")
  BY DEF TypeOK, NoReloadFails, Fails
<1>b. ASSUME NEW label, label \notin Stages, Goto(Main(w), label),
             pc[Main(w)] \notin Stages, UNCHANGED <<db, archive, floor, snap>>
      PROVE  CatchesUp'
  <2>1. Aside
    BY <1>a, <1>b DEF Aside, Goto, Stages
  <2> QED BY <2>1, AsideKeeps
<1>c. ASSUME NEW label \in {"clear", "stamp", "backfill", "reload"}, Goto(Main(w), label)
      PROVE  CatchesUp'
  BY <1>a, <1>c, WaitingKeeps DEF Goto
(* An import that has reloaded goes on, or returns.                        *)
<1>d. ASSUME pc[Main(w)] \in {"clear_again", "import_done", "reload_done"},
             NEW label \in {"import_done", "idle"}, Goto(Main(w), label),
             UNCHANGED <<db, archive, snap>>
      PROVE  CatchesUp'
  <2>1. HasReloaded
    BY <1>d DEF HasReloaded
  <2>2. archive = db \/ SomeUnpublished
    BY <2>1 DEF CatchesUp
  <2>3. \A v \in Workers \ {w} : pc'[Main(v)] = pc[Main(v)]
    BY <1>a, <1>d DEF Goto
  <2>4. (SomeUnpublished => SomeUnpublished') /\ (Waiting => Waiting')
    BY <1>d, <2>3 DEF SomeUnpublished, Unpublished, Waiting
  <2>5. \A t \in Threads : pc'[t] = "publish" => pc[t] = "publish"
    BY <1>a, <1>d DEF Goto
  <2> QED BY <1>d, <2>2, <2>4, <2>5 DEF CatchesUp
<1>1. CASE ImportRecent(w)  BY <1>b, <1>1 DEF ImportRecent, ImportEnds, Stages
<1>2. CASE ImportLock(w)  BY <1>b, <1>2 DEF ImportLock, ImportEnds, Stages
<1>3. CASE ImportLockTimeout(w)  BY <1>b, <1>3 DEF ImportLockTimeout, Stages
<1>4. CASE Upsert(w)  BY <1>c, <1>4 DEF Upsert, Commit
<1>5. CASE UpsertFails(w)  BY <1>b, <1>5 DEF UpsertFails, ImportEnds, Stages
<1>6. CASE Clear(w)  BY <1>c, <1>6 DEF Clear
<1>7. CASE Stamp(w)  BY <1>c, <1>7 DEF Stamp
<1>8. CASE Backfill(w)  BY <1>c, <1>8 DEF Backfill, Commit
<1>9. CASE BackfillFails(w)  BY <1>a, <1>9 DEF BackfillFails
<1>10. CASE ClearAgain(w)  BY <1>d, <1>10 DEF ClearAgain
<1>11. CASE ImportDone(w)  BY <1>d, <1>11 DEF ImportDone, ImportEnds
<1>12. CASE SearchImportDone(w)  BY <1>d, <1>12 DEF SearchImportDone, ImportEnds
<1> QED BY <1>1, <1>2, <1>3, <1>4, <1>5, <1>6, <1>7, <1>8, <1>9, <1>10, <1>11, <1>12
        DEF ImportStep

(* Two threads never reload at a time, so whoever is unpublished and is    *)
(* not the one that publishes waits.                                       *)
LEMMA ReloadCatchesUp ==
  ASSUME TypeOK, ReloadInv, NoReloadFails, CatchesUp, NEW t \in Threads, Reload(t)
  PROVE  CatchesUp'
<1> USE ThreadsOfWorkers DEF disk, locks, times, caches, past, On, Goto
<1>a. /\ pc \in [Threads -> Labels] /\ snap \in [Threads -> Nat]
      /\ EngineEnabled /\ ~Fails("reload")
  BY DEF TypeOK, NoReloadFails, Fails, EngineEnabled
<1>b. \A u \in Threads : Reloading(u) => guard = u
  BY DEF ReloadInv, GuardInv
<1>1. CASE ReloadGuard(t)
  <2>1. /\ UNCHANGED <<db, archive, floor, snap>> /\ pc[t] = "reload"
        /\ \/ pc' = [pc EXCEPT ![t] = "fetch"] /\ guard = Nobody
           \/ pc' = [pc EXCEPT ![t] = "idle"] /\ t[2] = "bg"
    BY <1>a, <1>1 DEF ReloadGuard
  <2>2. CASE t[2] = "main"
    <3>1. pc' = [pc EXCEPT ![t] = "fetch"] /\ \A u \in Threads : ~Reloading(u)
      BY <1>b, <2>1, <2>2, NobodyAssumption
    <3>2. \A u \in Threads : pc'[u] # "publish"
      BY <1>a, <3>1 DEF Reloading
    <3>3. SomeUnpublished'
      BY <1>a, <2>2, <3>1 DEF SomeUnpublished, Unpublished
    <3> QED BY <3>2, <3>3 DEF CatchesUp
  <2>3. CASE t[2] # "main"
    <3>1. \A v \in Workers : t # Main(v)
      BY <2>3 DEF Main
    <3>2. Aside
      BY <1>a, <2>1, <3>1 DEF Aside
    <3> QED BY <3>2, AsideKeeps
  <2> QED BY <2>2, <2>3
<1>2. CASE ReloadFetch(t)
  <2>1. UNCHANGED <<db, archive, floor>> /\ pc[t] = "fetch"
    BY <1>2 DEF ReloadFetch
  <2>2. \A u \in Threads \ {t} : pc'[u] # "publish"
    BY <1>a, <1>b, <1>2 DEF ReloadFetch, Reloading
  <2>3. pc'[t] = "publish" => snap'[t] = db'
    BY <1>a, <1>2 DEF ReloadFetch
  <2>4. (SomeUnpublished => SomeUnpublished') /\ (HasReloaded' => HasReloaded)
    <3>1. \A v \in Workers : pc'[Main(v)] = pc[Main(v)]
                             \/ (pc[Main(v)] = "fetch" /\ pc'[Main(v)] = "publish")
      <4> SUFFICES ASSUME NEW v \in Workers, t = Main(v)
                   PROVE  pc[Main(v)] = "fetch" /\ pc'[Main(v)] = "publish"
        BY <1>a, <1>2 DEF ReloadFetch
      <4>1. t[2] # "bg"
        BY DEF Main
      <4> QED BY <1>a, <1>2, <4>1 DEF ReloadFetch
    <3> QED BY <3>1 DEF SomeUnpublished, Unpublished, HasReloaded
  <2> QED BY <2>1, <2>2, <2>3, <2>4 DEF CatchesUp
<1>3. CASE ReloadPublish(t)
  <2>1. UNCHANGED <<db, floor>> /\ pc[t] = "publish" /\ archive' = snap[t]
    BY <1>3 DEF ReloadPublish
  <2>2. snap[t] = db \/ Waiting
    BY <2>1 DEF CatchesUp
  <2>3. \A u \in Threads : pc'[u] # "publish"
    <3>1. AfterReload(t) # "publish"
      BY DEF AfterReload
    <3> QED BY <1>a, <1>b, <1>3, <3>1 DEF ReloadPublish, Reloading
  <2>4. Waiting => SomeUnpublished'
    <3>1. \A v \in Workers : t # Main(v) => pc'[Main(v)] = pc[Main(v)]
      BY <1>a, <1>3 DEF ReloadPublish
    <3> QED BY <2>1, <3>1 DEF Waiting, SomeUnpublished, Unpublished
  <2> QED BY <2>1, <2>2, <2>3, <2>4 DEF CatchesUp
<1>4. CASE ReloadFails(t)
  BY <1>a, <1>4 DEF ReloadFails
<1> QED BY <1>1, <1>2, <1>3, <1>4 DEF Reload

LEMMA EffectInit == Init => EffectInv
<1> SUFFICES ASSUME Init PROVE EffectInv
  OBVIOUS
<1>1. (\A w \in Workers : pc[Main(w)] = "import_data") /\ \A t \in Threads : pc[t] # "publish"
  <2>1. \A w \in Workers : Main(w) \in Threads /\ Main(w)[2] = "main"
    BY DEF Threads, Main
  <2> QED BY <2>1 DEF Init
<1>2. bulk = 0 /\ stamp = 0 /\ floor = NoImports
  BY DEF Init, bulk, NoImports, Imports
<1>3. \A w \in Workers : /\ loc[w].seen = 0 /\ loc[w].since["import_data"] = 0
                         /\ setup[w] = Nothing
  BY DEF Init, Idle, NoImports, Imports
<1>4. ServesInv
  BY <1>1, <1>2, <1>3 DEF ServesInv, Serves, SetupKnown, Committed, Answered
<1>5. CatchesUp
  BY <1>1, <1>2 DEF CatchesUp, HasReloaded
<1> QED BY <1>4, <1>5 DEF EffectInv

(* What happens between requests: neither part is disturbed.               *)
LEMMA BetweenKeeps ==
  ASSUME TypeOK, TypeOK', NEW w \in Workers, NEW label, Goto(Main(w), label),
         label \in {"setup", "import_data", "upsert", "idle"},
         pc[Main(w)] \in {"idle", "done"},
         NEW l, loc' = [loc EXCEPT ![w] = l], l.seen = 0, l.since["import_data"] \in {0, bulk},
         UNCHANGED <<db, archive, floor, snap, stamp, loaded, setup>>
  PROVE  (ServesInv => ServesInv') /\ (CatchesUp => CatchesUp')
<1> USE ThreadsOfWorkers
<1>1. /\ loc'[w] = l /\ pc'[Main(w)] = label
      /\ \A v \in Workers \ {w} : loc'[v] = loc[v] /\ pc'[Main(v)] = pc[Main(v)]
  BY DEF TypeOK, Goto
<1>2. ASSUME ServesInv  PROVE ServesInv'
  <2>1. Onward /\ bulk' = bulk
    BY <1>2, OnwardSame
  <2>2. SetupKnown(w)'
    BY <1>2, <2>1, SetupStays DEF ServesInv, Serves
  <2>3. Serves(w)'
    BY <1>1, <2>1, <2>2, StampTypes, ServesAnew
  <2> QED BY <1>1, <1>2, <2>1, <2>3, OthersServe
<1>3. Aside
  BY <1>1 DEF Aside, Stages, TypeOK, Goto
<1> QED BY <1>2, <1>3, AsideKeeps

LEMMA IdlingKeeps ==
  ASSUME TypeOK, TypeOK', EffectInv,
         UNCHANGED <<db, archive, floor, snap, stamp, loaded, setup, pc, loc, scenario>>
  PROVE  EffectInv'
<1>1. bulk' = bulk
  BY DEF bulk
<1>2. ServesInv => ServesInv'
  BY <1>1 DEF ServesInv, Serves, SetupKnown, Committed, Answered
<1>3. CatchesUp => CatchesUp'
  BY AsideKeeps DEF Aside
<1> QED BY <1>2, <1>3 DEF EffectInv, NoReloadFails, Fails

LEMMA EffectStep == SearchInv /\ EffectInv /\ [Next]_vars => EffectInv'
<1> SUFFICES ASSUME SearchInv, EffectInv, [Next]_vars PROVE EffectInv'
  OBVIOUS
<1>a. TypeInv /\ TypeOK /\ TypeOK' /\ ReloadInv
  BY TypeStep DEF SearchInv, TypeInv
<1> USE ThreadsOfWorkers
<1> USE DEF disk, locks, times, caches, threads, past, On
<1>b. scenario' = scenario
  BY ScenarioStands
<1>c. ASSUME ~Fails("count") => ServesInv', NoReloadFails => CatchesUp'  PROVE EffectInv'
  BY <1>b, <1>c DEF EffectInv, NoReloadFails, Fails
<1>d. (~Fails("count") => ServesInv) /\ (NoReloadFails => CatchesUp)
  BY DEF EffectInv
<1>1. CASE Age
  BY <1>a, <1>1, IdlingKeeps DEF Age
<1>2. ASSUME NEW w \in Workers, NEW op \in Requests, Call(w, op)  PROVE EffectInv'
  <2> DEFINE l == [Idle EXCEPT !.op = op, !.since = floor]
  <2>1. First(op) \in {"setup", "import_data", "upsert", "idle"}
    BY DEF First, Requests, Imports
  <2>2. l.seen = 0 /\ l.since["import_data"] = bulk
    BY DEF Idle, bulk
  <2>3. loc' = [loc EXCEPT ![w] = l] /\ Goto(Main(w), First(op)) /\ pc[Main(w)] = "idle"
        /\ UNCHANGED <<db, archive, floor, snap, stamp, loaded, setup>>
    BY <1>2 DEF Call
  <2> HIDE DEF l
  <2> QED BY <1>a, <1>c, <1>d, <2>1, <2>2, <2>3, BetweenKeeps
<1>3. ASSUME NEW w \in Workers, Step(w)  PROVE EffectInv'
  <2>1. CASE Return(w)
    <3>1. Idle.seen = 0 /\ Idle.since["import_data"] = 0
      BY DEF Idle, NoImports, Imports
    <3>2. loc' = [loc EXCEPT ![w] = Idle] /\ Goto(Main(w), "idle") /\ pc[Main(w)] = "done"
          /\ UNCHANGED <<db, archive, floor, snap, stamp, loaded, setup>>
      BY <2>1 DEF Return
    <3> QED BY <1>a, <1>c, <1>d, <3>1, <3>2, BetweenKeeps
  <2>2. CASE SearchStep(w)
    BY <1>a, <1>c, <1>d, <2>2, SearchServes, SearchIsAside, AsideKeeps
  <2>3. CASE ImportStep(w)
    BY <1>a, <1>c, <1>d, <2>3, ImportServes, ImportCatchesUp
  <2>4. CASE Reload(Main(w)) \/ Reload(Bg(w))
    <3>1. PICK t \in {Main(w), Bg(w)} : Reload(t)
      BY <2>4
    <3> QED BY <1>a, <1>c, <1>d, <3>1, ReloadServes, ReloadCatchesUp
  <2> QED BY <1>3, <2>1, <2>2, <2>3, <2>4 DEF Step
<1>4. ASSUME NEW w \in Workers, Expire(w)  PROVE EffectInv'
  BY <1>a, <1>4, IdlingKeeps DEF Expire
<1>5. CASE UNCHANGED vars
  BY <1>a, <1>5, IdlingKeeps DEF vars
<1> QED BY <1>1, <1>2, <1>3, <1>4, <1>5 DEF Next

(* Once a bulk import has returned, no worker refuses a search because of  *)
(* a setup check that it cached before, unless counting the cards failed;  *)
(* and unless a reload failed, the archive shows every commit as soon as   *)
(* no import is on its way from its commit to its rename.                  *)
THEOREM ImportsAlwaysTakeEffect == Spec => []ImportsTakeEffect
<1>1. EffectInv => ImportsTakeEffect
  <2>1. ASSUME EffectInv  PROVE ServedAfterImport
    BY <2>1 DEF EffectInv, ServesInv, Serves, ServedAfterImport
  <2>2. ASSUME EffectInv  PROVE ArchiveCurrent
    BY <2>2 DEF EffectInv, NoReloadFails, CatchesUp, SomeUnpublished, ArchiveCurrent
  <2> QED BY <2>1, <2>2 DEF ImportsTakeEffect
<1> QED BY <1>1, EffectInit, EffectStep, SearchInvHolds, PTL DEF Spec
=============================================================================
