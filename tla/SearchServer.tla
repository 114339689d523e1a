---------------------------- MODULE SearchServer ----------------------------
(***************************************************************************)
(* Searches and imports of api/api_resource.py: worker processes that      *)
(* answer one request at a time from two caches keyed by the shared        *)
(* generation counter, from the engine's archive or from PostgreSQL, while *)
(* imports commit new cards, advance the counter and rebuild the archive.  *)
(*                                                                         *)
(* The cards are abstracted to the number of commits that changed them: a  *)
(* response is the number of the commit it shows.  One query stands for    *)
(* all, as the caches keep queries apart.  A step is split where another   *)
(* process can see or change what it touches: the shared counter, the      *)
(* database, the archive file and the two cross-process locks.  Caching is *)
(* enabled; whether the engine is, is part of the scenario.                *)
(***************************************************************************)
EXTENDS Naturals, FiniteSets

CONSTANTS Workers,      \* worker processes
          Nobody,
          Scenarios,    \* what a server may be up against, each a set of:
                        \*   "disabled": settings.enable_engine is false
                        \*   "engine", "reload", "tags", "count": steps that may raise
          Script,       \* the requests each worker may be sent
          MaxCalls,     \* bound on the requests sent to a worker
          Nothing,      \* no cached response
          Refused       \* 503, setup is not complete

ASSUME ServerAssumption ==
  /\ Scenarios \subseteq SUBSET {"disabled", "engine", "reload", "tags", "count"}
  /\ MaxCalls \in [Workers -> Nat]
  /\ Nothing \notin Nat /\ Refused \notin Nat /\ Nothing # Refused

(* A worker's request thread, and the thread that                          *)
(* _trigger_background_reload_if_needed() starts.                          *)
Threads == Workers \X {"main", "bg"}
Main(w) == <<w, "main">>
Bg(w) == <<w, "bg">>

ASSUME NobodyAssumption == Nobody \notin Workers /\ Nobody \notin Threads

VARIABLES db,         \* commits to magic.cards
          loaded,     \* magic.cards has more than MIN_IMPORT_CARDS rows
          gen,        \* cache_generation
          archive,    \* the commit the published archive shows, 0 if empty
          guard,      \* the thread that holds engine_reload_guard
          importLock, \* the worker that holds last_import_time's lock
          stamp,      \* how often last_import_time was set
          recent,     \* it was set less than MIN_IMPORT_INTERVAL ago
          setup,      \* each worker's _setup_complete_cache
          search,     \* each worker's _search_gen_cache: generation, response
          query,      \* each worker's _query_cache: generation, response
          pc, snap,   \* each thread's program counter, and what it fetched
          loc,        \* each worker's locals
          calls,      \* requests each worker was sent
          scenario,   \* what this server is up against
          floor       \* history: the last commit of a completed import

disk == <<db, loaded, archive>>
locks == <<guard, importLock>>
times == <<stamp, recent>>
caches == <<setup, search, query>>
threads == <<pc, snap, loc, calls>>
past == <<scenario, floor>>
vars == <<disk, gen, locks, times, caches, threads, past>>

Imports == {"import_data", "import_cards_by_search"}
Requests == {"search"} \cup Imports
NoImports == [op \in Imports |-> 0]
Fails(step) == step \in scenario
EngineEnabled == "disabled" \notin scenario

Later(a, b) == IF a > b THEN a ELSE b
Returned(w) == [floor EXCEPT ![loc[w].op] = Later(@, loc[w].ver)]

(* op: the request; since: the floor when it came; seen: the stamp that    *)
(* _setup_complete() read; under: the generation whose cache _search()     *)
(* holds; ver: the last commit of this import; res: the response.          *)
Idle == [op |-> "none", since |-> NoImports, seen |-> 0, under |-> 0, ver |-> 0,
         res |-> Nothing]

(* A server starts on a database that may hold the cards of an earlier     *)
(* one, with or without the archive it left.  Every worker's constructor   *)
(* calls import_data() before it serves anything.                          *)
Init ==
  /\ db \in 0 .. 1 /\ loaded = (db > 0) /\ archive \in 0 .. db
  /\ gen = 0 /\ stamp = 0 /\ recent = FALSE
  /\ guard = Nobody /\ importLock = Nobody
  /\ setup = [w \in Workers |-> Nothing]
  /\ search = [w \in Workers |-> [gen |-> 0, res |-> Nothing]]
  /\ query = [w \in Workers |-> [gen |-> 0, res |-> Nothing]]
  /\ pc = [t \in Threads |-> IF t[2] = "main" THEN "import_data" ELSE "idle"]
  /\ snap = [t \in Threads |-> 0]
  /\ loc = [w \in Workers |-> [Idle EXCEPT !.op = "import_data"]]
  /\ calls = [w \in Workers |-> 0]
  /\ scenario \in Scenarios /\ floor = NoImports

On(t, label) == pc[t] = label
Goto(t, label) == pc' = [pc EXCEPT ![t] = label]

(* import_cards_by_search() goes from the answer of Scryfall straight to   *)
(* the upsert.                                                             *)
First(op) ==
  CASE op = "search" -> "setup"
    [] op = "import_data" -> "import_data"
    [] op = "import_cards_by_search" -> "upsert"

Call(w, op) ==
  /\ On(Main(w), "idle")
  /\ op \in Script[w] /\ calls[w] < MaxCalls[w]
  /\ Goto(Main(w), First(op))
  /\ loc' = [loc EXCEPT ![w] = [Idle EXCEPT !.op = op, !.since = floor]]
  /\ calls' = [calls EXCEPT ![w] = @ + 1]
  /\ UNCHANGED <<disk, gen, locks, times, caches, snap, past>>

Return(w) ==
  /\ On(Main(w), "done")
  /\ Goto(Main(w), "idle")
  /\ loc' = [loc EXCEPT ![w] = Idle]
  /\ UNCHANGED <<disk, gen, locks, times, caches, snap, calls, past>>

Respond(w, r) ==
  /\ Goto(Main(w), "done")
  /\ loc' = [loc EXCEPT ![w].res = r]

-----------------------------------------------------------------------------
(* _setup_complete(), for a search and for an import that timed out on the *)
(* lock.  The cached answer holds for an hour, or until last_import_time   *)
(* changes; when it may have expired it is not used.                       *)

Answer(w, ok) ==
  \/ /\ loc[w].op = "search" /\ ok
     /\ Goto(Main(w), "cache") /\ UNCHANGED loc
  \/ /\ loc[w].op = "search" /\ ~ok
     /\ Respond(w, Refused)
  \/ /\ loc[w].op # "search" /\ ok
     /\ Goto(Main(w), "idle") /\ loc' = [loc EXCEPT ![w] = Idle]
  \/ /\ loc[w].op # "search" /\ ~ok
     /\ Goto(Main(w), "import_wait") /\ UNCHANGED loc

(* Mutant of SetupCached: last_import_time is not compared.                *)
SetupCachedForAnHour(w) ==
  /\ On(Main(w), "setup")
  /\ setup[w] # Nothing
  /\ Answer(w, setup[w].ok)
  /\ UNCHANGED <<disk, gen, locks, times, caches, snap, calls, past>>

SetupCached(w) ==
  /\ On(Main(w), "setup")
  /\ setup[w] # Nothing /\ setup[w].seen = stamp
  /\ Answer(w, setup[w].ok)
  /\ UNCHANGED <<disk, gen, locks, times, caches, snap, calls, past>>

SetupStale(w) ==
  /\ On(Main(w), "setup")
  /\ Goto(Main(w), "count")
  /\ loc' = [loc EXCEPT ![w].seen = stamp]
  /\ UNCHANGED <<disk, gen, locks, times, caches, snap, calls, past>>

Counted(w, ok, seen) ==
  /\ On(Main(w), "count")
  /\ setup' = [setup EXCEPT ![w] = [ok |-> ok, seen |-> seen]]
  /\ Answer(w, ok)
  /\ UNCHANGED <<disk, gen, locks, times, search, query, snap, calls, past>>

(* A count that raised is "not complete" too, and is cached as such.       *)
SetupCount(w) ==
  \/ Counted(w, loaded, loc[w].seen)
  \/ Fails("count") /\ Counted(w, FALSE, loc[w].seen)

-----------------------------------------------------------------------------
(* _search(): the caches of a generation live as long as that generation   *)
(* is the one last asked for, as both maps hold one generation.            *)

InnerCache(c) == IF c.gen = gen THEN c ELSE [gen |-> gen, res |-> Nothing]

SearchCache(w) ==
  LET inner == InnerCache(search[w])
  IN  /\ On(Main(w), "cache")
      /\ search' = [search EXCEPT ![w] = inner]
      /\ \/ /\ inner.res # Nothing
            /\ Respond(w, inner.res)
         \/ /\ inner.res = Nothing
            /\ Goto(Main(w), IF EngineEnabled THEN "size" ELSE "sql")
            /\ loc' = [loc EXCEPT ![w].under = gen]
      /\ UNCHANGED <<disk, gen, locks, times, setup, query, snap, calls, past>>

(* A background reload starts, unless this worker has one under way.       *)
BackgroundReload(w) == IF On(Bg(w), "idle") THEN "reload" ELSE pc[Bg(w)]

(* engine.size() maps the current archive.  If it is empty SQL answers.    *)
EngineSize(w) ==
  /\ On(Main(w), "size")
  /\ \/ archive > 0 /\ Goto(Main(w), "engine")
     \/ /\ archive = 0
        /\ pc' = [pc EXCEPT ![Main(w)] = "sql", ![Bg(w)] = BackgroundReload(w)]
  /\ UNCHANGED <<disk, gen, locks, times, caches, snap, loc, calls, past>>

(* The response is stored in the cache that _search() looked in, which     *)
(* only this worker's requests replace.                                    *)
StoreSearch(w, r) == search' = [search EXCEPT ![w] = [gen |-> loc[w].under, res |-> r]]

EngineQuery(w) ==
  /\ On(Main(w), "engine")
  /\ StoreSearch(w, archive)
  /\ Respond(w, archive)
  /\ UNCHANGED <<disk, gen, locks, times, setup, query, snap, calls, past>>

EngineQueryFails(w) ==
  /\ On(Main(w), "engine")
  /\ Fails("engine")
  /\ Goto(Main(w), "sql")
  /\ UNCHANGED <<disk, gen, locks, times, caches, snap, loc, calls, past>>

(* _run_query(): look in the cache of the current generation, ask the      *)
(* database, and store in the cache of what is the current generation then.*)
QueryCache(w) ==
  LET inner == InnerCache(query[w])
  IN  /\ On(Main(w), "sql")
      /\ query' = [query EXCEPT ![w] = inner]
      /\ \/ /\ inner.res # Nothing
            /\ StoreSearch(w, inner.res)
            /\ Respond(w, inner.res)
         \/ /\ inner.res = Nothing
            /\ Goto(Main(w), "execute")
            /\ UNCHANGED <<search, loc>>
      /\ UNCHANGED <<disk, gen, locks, times, setup, snap, calls, past>>

QueryExecute(w) ==
  /\ On(Main(w), "execute")
  /\ Goto(Main(w), "keep")
  /\ loc' = [loc EXCEPT ![w].res = db]
  /\ UNCHANGED <<disk, gen, locks, times, caches, snap, calls, past>>

QueryKeep(w) ==
  /\ On(Main(w), "keep")
  /\ query' = [query EXCEPT ![w] = [gen |-> gen, res |-> loc[w].res]]
  /\ StoreSearch(w, loc[w].res)
  /\ Respond(w, loc[w].res)
  /\ UNCHANGED <<disk, gen, locks, times, setup, snap, calls, past>>

SearchStep(w) ==
  \/ SetupCached(w) \/ SetupStale(w) \/ SetupCount(w)
  \/ SearchCache(w) \/ EngineSize(w) \/ EngineQuery(w) \/ EngineQueryFails(w)
  \/ QueryCache(w) \/ QueryExecute(w) \/ QueryKeep(w)

-----------------------------------------------------------------------------
(* import_data(), under last_import_time's own lock.                       *)

(* The request ends, and with it the hold on the import lock.              *)
ImportEnds(w) ==
  /\ Goto(Main(w), "idle")
  /\ loc' = [loc EXCEPT ![w] = Idle]
  /\ importLock' = IF importLock = w THEN Nobody ELSE importLock

ImportRecent(w) ==
  /\ On(Main(w), "import_data")
  /\ \/ recent /\ ImportEnds(w)
     \/ ~recent /\ Goto(Main(w), "import_lock") /\ UNCHANGED <<loc, importLock>>
  /\ UNCHANGED <<disk, gen, guard, times, caches, snap, calls, past>>

(* Acquired within IMPORT_LOCK_TIMEOUT, or later by a worker that cannot   *)
(* serve anything yet.  Whoever had the lock may have imported.            *)
ImportLock(w) ==
  /\ On(Main(w), "import_lock") \/ On(Main(w), "import_wait")
  /\ importLock = Nobody
  /\ \/ recent /\ ImportEnds(w)
     \/ ~recent /\ importLock' = w /\ Goto(Main(w), "upsert") /\ UNCHANGED loc
  /\ UNCHANGED <<disk, gen, guard, times, caches, snap, calls, past>>

ImportLockTimeout(w) ==
  /\ On(Main(w), "import_lock")
  /\ importLock # Nobody
  /\ Goto(Main(w), "setup")
  /\ UNCHANGED <<disk, gen, locks, times, caches, snap, loc, calls, past>>

Commit(w, label) ==
  /\ db' = db + 1
  /\ loc' = [loc EXCEPT ![w].ver = db + 1]
  /\ Goto(Main(w), label)

(* _upsert_cards(): pages of upserts and one commit, or nothing at all.    *)
Upsert(w) ==
  /\ On(Main(w), "upsert")
  /\ Commit(w, "clear")
  /\ loaded' = (loaded \/ loc[w].op = "import_data")
  /\ UNCHANGED <<archive, gen, locks, times, caches, snap, calls, past>>

UpsertFails(w) ==
  /\ On(Main(w), "upsert")
  /\ ImportEnds(w)
  /\ UNCHANGED <<disk, gen, guard, times, caches, snap, calls, past>>

(* _clear_caches() at the end of _upsert_cards().                          *)
Clear(w) ==
  /\ On(Main(w), "clear")
  /\ gen' = gen + 1
  /\ Goto(Main(w), IF loc[w].op = "import_data" THEN "stamp" ELSE "reload")
  /\ UNCHANGED <<disk, locks, times, caches, snap, loc, calls, past>>

Stamp(w) ==
  /\ On(Main(w), "stamp")
  /\ stamp' = stamp + 1 /\ recent' = TRUE
  /\ Goto(Main(w), "backfill")
  /\ UNCHANGED <<disk, gen, locks, caches, snap, loc, calls, past>>

(* The backfills of scores and the imports of tags, which commit.          *)
Backfill(w) ==
  /\ On(Main(w), "backfill")
  /\ Commit(w, "reload")
  /\ UNCHANGED <<loaded, archive, gen, locks, times, caches, snap, calls, past>>

BackfillFails(w) ==
  /\ On(Main(w), "backfill")
  /\ Fails("tags")
  /\ ImportEnds(w)
  /\ UNCHANGED <<disk, gen, guard, times, caches, snap, calls, past>>

(* Mutant of ClearAgain: _upsert_cards() has cleared the caches already.   *)
ClearAgainForgotten(w) ==
  /\ On(Main(w), "clear_again")
  /\ Goto(Main(w), "import_done")
  /\ UNCHANGED <<disk, gen, locks, times, caches, snap, loc, calls, past>>

(* The second _clear_caches(), after the archive was rebuilt.              *)
ClearAgain(w) ==
  /\ On(Main(w), "clear_again")
  /\ gen' = gen + 1
  /\ Goto(Main(w), "import_done")
  /\ UNCHANGED <<disk, locks, times, caches, snap, loc, calls, past>>

ImportDone(w) ==
  /\ On(Main(w), "import_done")
  /\ stamp' = stamp + 1 /\ recent' = TRUE
  /\ setup' = [setup EXCEPT ![w] = Nothing]
  /\ floor' = Returned(w)
  /\ ImportEnds(w)
  /\ UNCHANGED <<disk, gen, guard, search, query, snap, calls, scenario>>

-----------------------------------------------------------------------------
(* _reload_engine(): forced by an import, which waits for the guard; not   *)
(* forced in the background, which gives way to whoever holds it, and to   *)
(* an archive that has appeared meanwhile.                                 *)

AfterReload(t) ==
  CASE t[2] = "bg" -> "idle"
    [] t[2] = "main" /\ loc[t[1]].op = "import_data" -> "clear_again"
    [] OTHER -> "reload_done"

(* Mutant of ReloadGuard: acquire()'s answer is not looked at.             *)
ReloadGuardIgnored(t) ==
  /\ On(t, "reload")
  /\ guard' = IF guard = Nobody THEN t ELSE guard
  /\ Goto(t, "fetch")
  /\ UNCHANGED <<disk, gen, importLock, times, caches, snap, loc, calls, past>>

(* Mutant of ReloadGuard: the guard is known by the process that holds it. *)
ReloadGuardPerProcess(t) ==
  /\ On(t, "reload")
  /\ guard = Nobody
  /\ guard' = t[1]
  /\ Goto(t, "fetch")
  /\ UNCHANGED <<disk, gen, importLock, times, caches, snap, loc, calls, past>>

ReloadGuard(t) ==
  /\ On(t, "reload")
  /\ \/ /\ ~EngineEnabled
        /\ Goto(t, AfterReload(t))
        /\ UNCHANGED guard
     \/ /\ EngineEnabled /\ guard = Nobody
        /\ guard' = t
        /\ Goto(t, "fetch")
     \/ /\ EngineEnabled /\ guard # Nobody /\ t[2] = "bg"
        /\ Goto(t, "idle")
        /\ UNCHANGED guard
  /\ UNCHANGED <<disk, gen, importLock, times, caches, snap, loc, calls, past>>

(* Mutant of ReloadFetch: force is not looked at.                          *)
ReloadFetchUnforced(t) ==
  /\ On(t, "fetch")
  /\ \/ /\ archive > 0
        /\ guard' = Nobody
        /\ Goto(t, AfterReload(t))
        /\ UNCHANGED snap
     \/ /\ archive = 0
        /\ snap' = [snap EXCEPT ![t] = db]
        /\ Goto(t, "publish")
        /\ UNCHANGED guard
  /\ UNCHANGED <<disk, gen, importLock, times, caches, loc, calls, past>>

(* The cursor's SELECT sees one snapshot, however long the batches take.   *)
ReloadFetch(t) ==
  /\ On(t, "fetch")
  /\ \/ /\ t[2] = "bg" /\ archive > 0
        /\ guard' = Nobody
        /\ Goto(t, "idle")
        /\ UNCHANGED snap
     \/ /\ t[2] = "main" \/ archive = 0
        /\ snap' = [snap EXCEPT ![t] = db]
        /\ Goto(t, "publish")
        /\ UNCHANGED guard
  /\ UNCHANGED <<disk, gen, importLock, times, caches, loc, calls, past>>

(* reload_commit() renames the new archive into place; every later query   *)
(* maps it.                                                                *)
ReloadPublish(t) ==
  /\ On(t, "publish")
  /\ archive' = snap[t]
  /\ snap' = [snap EXCEPT ![t] = 0]
  /\ guard' = Nobody
  /\ Goto(t, AfterReload(t))
  /\ UNCHANGED <<db, loaded, gen, importLock, times, caches, loc, calls, past>>

(* The SELECT or the build raises: a background reload logs it, an import  *)
(* ends there.                                                             *)
ReloadFails(t) ==
  /\ On(t, "publish")
  /\ Fails("reload")
  /\ guard' = Nobody
  /\ \/ t[2] = "bg" /\ Goto(t, "idle") /\ UNCHANGED <<importLock, loc>>
     \/ t[2] = "main" /\ ImportEnds(t[1])
  /\ snap' = [snap EXCEPT ![t] = 0]
  /\ UNCHANGED <<disk, gen, times, caches, calls, past>>

(* import_cards_by_search() returns.                                       *)
SearchImportDone(w) ==
  /\ On(Main(w), "reload_done")
  /\ floor' = Returned(w)
  /\ ImportEnds(w)
  /\ UNCHANGED <<disk, gen, guard, times, caches, snap, calls, scenario>>

Reload(t) == ReloadGuard(t) \/ ReloadFetch(t) \/ ReloadPublish(t) \/ ReloadFails(t)

ImportStep(w) ==
  \/ ImportRecent(w) \/ ImportLock(w) \/ ImportLockTimeout(w)
  \/ Upsert(w) \/ UpsertFails(w) \/ Clear(w)
  \/ Stamp(w) \/ Backfill(w) \/ BackfillFails(w) \/ ClearAgain(w) \/ ImportDone(w)
  \/ SearchImportDone(w)

-----------------------------------------------------------------------------
(* Time: MIN_IMPORT_INTERVAL goes by, and a cached response reaches the    *)
(* TTL of the search cache.                                                *)

Age ==
  /\ recent
  /\ recent' = FALSE
  /\ UNCHANGED <<disk, gen, locks, stamp, caches, threads, past>>

Expire(w) ==
  /\ search[w].res # Nothing
  /\ search' = [search EXCEPT ![w].res = Nothing]
  /\ UNCHANGED <<disk, gen, locks, times, setup, query, threads, past>>

Step(w) ==
  Return(w) \/ SearchStep(w) \/ ImportStep(w) \/ Reload(Main(w)) \/ Reload(Bg(w))

Next ==
  \/ Age
  \/ \E w \in Workers :
       \/ \E op \in Requests : Call(w, op)
       \/ Step(w) \/ Expire(w)

Spec == Init /\ [][Next]_vars

-----------------------------------------------------------------------------
Labels == {"idle", "done", "setup", "count", "cache", "size", "engine", "sql", "execute",
           "keep", "import_data", "import_lock", "import_wait",
           "upsert", "clear", "stamp", "backfill", "reload",
           "fetch", "publish", "clear_again", "import_done", "reload_done"}
Cache == [gen : Nat, res : Nat \cup {Nothing}]
Locals == [op : Requests \cup {"none"}, since : [Imports -> Nat], seen : Nat, under : Nat,
           ver : Nat, res : Nat \cup {Nothing, Refused}]

TypeOK ==
  /\ db \in Nat /\ loaded \in BOOLEAN /\ gen \in Nat /\ archive \in Nat
  /\ guard \in Threads \cup {Nobody} /\ importLock \in Workers \cup {Nobody}
  /\ stamp \in Nat /\ recent \in BOOLEAN
  /\ setup \in [Workers -> [ok : BOOLEAN, seen : Nat] \cup {Nothing}]
  /\ search \in [Workers -> Cache] /\ query \in [Workers -> Cache]
  /\ pc \in [Threads -> Labels] /\ snap \in [Threads -> Nat]
  /\ loc \in [Workers -> Locals]
  /\ calls \in [Workers -> Nat] /\ scenario \in Scenarios /\ floor \in [Imports -> Nat]

Answered(w) == pc[Main(w)] = "done" /\ loc[w].op = "search"
Fresh(w, op) == Answered(w) /\ loc[w].res # Refused => loc[w].res >= loc[w].since[op]
EngineAnswers == scenario \cap {"disabled", "engine"} = {}

(* _reload_engine() and _clear_caches() together: once a bulk import has   *)
(* returned, no search that begins afterwards, on any worker, is answered  *)
(* with the cards as they were before it, while the engine answers.        *)
FreshAfterImport == EngineAnswers => \A w \in Workers : Fresh(w, "import_data")

(* The same of import_cards_by_search(), whose cards are in the archive    *)
(* when it returns.                                                        *)
FreshAfterSearchImport ==
  EngineAnswers => \A w \in Workers : Fresh(w, "import_cards_by_search")

(* The same of a bulk import when _run_query() asks PostgreSQL.            *)
FreshFromSql == ~EngineEnabled => \A w \in Workers : Fresh(w, "import_data")

(* Once a bulk import has returned, _require_setup_complete() lets every   *)
(* worker's searches pass, whatever _setup_complete() had cached before.   *)
ServedAfterImport ==
  ~Fails("count") =>
    \A w \in Workers :
      Answered(w) /\ loc[w].res = Refused => loc[w].since["import_data"] = 0

(* _reload_engine() publishes archives in the order of the commits they    *)
(* show, whichever of the forced and background reloads come first and     *)
(* whichever fail.                                                         *)
ArchiveMonotone == [][archive' >= archive]_vars

(* When no import is between its first commit and the end of its reload,   *)
(* the archive that _reload_engine() left shows all that was committed.    *)
Unpublished(w) ==
  pc[Main(w)] \in {"clear", "stamp", "backfill", "reload", "fetch", "publish"}
ArchiveCurrent ==
  scenario \cap {"disabled", "reload", "tags"} = {} /\ floor # NoImports =>
    archive = db \/ \E w \in Workers : Unpublished(w)

(* A bulk import takes effect: the workers serve, from an archive that     *)
(* shows what it committed.                                                *)
ImportsTakeEffect == ServedAfterImport /\ ArchiveCurrent

-----------------------------------------------------------------------------
(* Why a bulk import is followed by fresh searches.  A reload holds the    *)
(* guard from before its SELECT to its rename, so what it publishes is no  *)
(* older than what is published.  The counter moves once more between the  *)
(* rename and the import's return: whatever a cache of the new generation  *)
(* holds was asked of the new archive.                                     *)

Reloading(t) == pc[t] \in {"fetch", "publish"}
GuardInv ==
  \A t \in Threads :
    /\ Reloading(t) => guard = t
    /\ pc[t] = "publish" => archive <= snap[t] /\ snap[t] <= db

bulk == floor["import_data"]
Rebuilt(w) == pc[Main(w)] \in {"clear_again", "import_done"}
VersionInv ==
  /\ bulk <= archive /\ archive <= db
  /\ \A w \in Workers :
       /\ loc[w].ver <= db
       /\ loc[w].since["import_data"] <= bulk
       /\ pc[Main(w)] = "publish" => loc[w].ver <= snap[Main(w)]
       /\ Rebuilt(w) => loc[w].ver <= archive
       /\ Rebuilt(w) \/ Unpublished(w) => loc[w].ver > 0
       /\ pc[Main(w)] = "reload_done" => loc[w].op # "import_data"

ViaSql(w) == pc[Main(w)] \in {"sql", "execute", "keep"}
NobodyReturning == \A w \in Workers : pc[Main(w)] # "import_done"
CacheInv ==
  \A w \in Workers :
    /\ search[w].gen <= gen /\ loc[w].under <= gen
    /\ search[w].gen = gen /\ search[w].res # Nothing =>
         /\ search[w].res >= bulk
         /\ \A v \in Workers : pc[Main(v)] = "import_done" => search[w].res >= loc[v].ver
    /\ ViaSql(w) => loc[w].since["import_data"] = 0
    /\ ViaSql(w) /\ loc[w].under = gen => bulk = 0 /\ NobodyReturning

FreshInv == EngineAnswers => GuardInv /\ VersionInv /\ CacheInv
=============================================================================
