------------------------------- MODULE Ingest -------------------------------
(***************************************************************************)
(* How data gets into magic.cards: the operations of APIResource that      *)
(* write to the database, run by worker processes that share it, the bulk  *)
(* data directory, the schema event and the time of the last import.       *)
(*                                                                         *)
(* A setting says what the world is like: the jobs of every process, what  *)
(* Scryfall and CubeCobra answer, what was imported before, the versions   *)
(* of the code that may be deployed after a crash, and how many requests   *)
(* or statements fail.  Rebuilding the engine's archive and bumping the    *)
(* cache generation after an import are SearchServer's.                    *)
(***************************************************************************)
EXTENDS CardRows, TagGraph, FiniteSets, TLC

CONSTANTS Procs, Keys, MaxVersion, MaxAttempts,
          Scenarios,  \* settings by name
          Cards,      \* what Scryfall may describe
          PageSize,   \* rows of an upsert statement
          MinCards    \* MIN_IMPORT_CARDS

ASSUME IngestAssumption ==
  /\ {"default_cards", "oracle_tags"} \subseteq Keys
  /\ PageSize \in Nat \ {0} /\ MinCards \in Nat
  /\ \A w \in DOMAIN Scenarios : Scenarios[w].jobs \in [Procs -> Seq(STRING)]

(* A migration file and the hash of its script.  Where a setting says that *)
(* files are only ever added, each version of the code has those of the    *)
(* one before, and no two of them the same script.                         *)
Migration == [name : STRING, sha : Nat]
ASSUME DeploysAssumption ==
  /\ "free" \notin Procs
  /\ \A w \in DOMAIN Scenarios :
       LET deploys == Scenarios[w].deploys
           applied == Scenarios[w].applied
       IN /\ deploys \in Seq(Seq(Migration)) /\ deploys # <<>> /\ applied \in Seq(Migration)
          /\ Scenarios[w].appended =>
               /\ IsPrefix(applied, deploys[1])
               /\ \A i \in 1 .. Len(deploys) - 1 : IsPrefix(deploys[i], deploys[i + 1])
               /\ \A i \in DOMAIN deploys : \A a, b \in DOMAIN deploys[i] :
                    deploys[i][a].sha = deploys[i][b].sha => a = b

(* Answers are lists of cards, and the faces of a card are a list.         *)
IsList(x) == Len(x) \in Nat /\ DOMAIN x = 1 .. Len(x)
ASSUME CardsAssumption ==
  /\ \A card \in Cards : Has(card, "card_faces") => IsList(card["card_faces"])
  /\ \A w \in DOMAIN Scenarios :
       LET s == Scenarios[w]
       IN /\ s.cards \in Seq(Seq(Cards)) /\ s.cards # <<>> /\ s.before \in Seq(Cards)
          /\ \A q \in DOMAIN s.search : s.search[q] \in Seq(Seq(Cards))
          /\ {"search", "name"} \subseteq DOMAIN s.search /\ s.isTags \in Seq(DOMAIN s.search)

(* The dumps of cards and of tags have the same versions.                  *)
ASSUME TagsAssumption ==
  /\ "nobody" \notin Procs
  /\ \A w \in DOMAIN Scenarios :
       LET tags == Scenarios[w].tags
       IN DOMAIN tags = 1 .. Len(Scenarios[w].cards) /\ \A v \in DOMAIN tags : IsList(tags[v])

VARIABLES world,      \* which of the settings this is
          published, listed, dir, fetch,                   \* see BulkFiles
          fs, migrations, executed, ready, guard, boot,    \* see SchemaSetup
          table,      \* magic.cards, by scryfall_id
          hierarchy,  \* the tag tables
          importLock, \* who holds the lock of _last_import_time
          importTime, \* _last_import_time, counted
          recent,     \* whether that was less than five minutes ago
          job,        \* what each process is doing
          complete,   \* each process's _setup_complete_cache
          deployed,   \* which of the setting's versions of the code runs
          faults,     \* failures still to come
          synced,     \* the tag import that last had the tables to itself
          loaded      \* the version of the cards last imported

BulkFiles == INSTANCE BulkFiles
Schema == INSTANCE SchemaSetup

fileVars == <<published, listed, dir, fetch>>
schemaVars == <<fs, migrations, executed, ready, guard, boot>>
readyVars == <<complete, importTime, recent>>
vars == <<world, fileVars, schemaVars, table, hierarchy, importLock, readyVars, job, deployed, faults, synced, loaded>>

setting == Scenarios[world]

NoTable == [id \in {} |-> NULL]
NoHierarchy == [tags |-> {}, pairs |-> {}]
Nobody == [by |-> "nobody", version |-> 0, done |-> FALSE]

(* A process at rest with its jobs to do: where it is in the current one,  *)
(* the pages and the tags it has gone through, and what came of the last.  *)
Idle(todo) == [todo |-> todo, at |-> "rest", page |-> 1, found |-> <<>>, tags |-> <<>>, left |-> {},
               imported |-> {}, failed |-> {}, time |-> 0, result |-> "none"]
Op(p) == Head(job[p].todo)
Goto(p, where) == job' = [job EXCEPT ![p].at = where]
Finish(p, result) == job' = [job EXCEPT ![p] = [Idle(Tail(job[p].todo)) EXCEPT
                               !.imported = job[p].imported, !.failed = job[p].failed, !.result = result]]
Unlock(p) == importLock' = IF importLock = p THEN "free" ELSE importLock
Fault == faults > 0 /\ faults' = faults - 1

Init ==
  /\ world \in DOMAIN Scenarios
  /\ BulkFiles!FilesInit
  /\ Schema!SchemaInit(setting.deploys[1], setting.applied)
  /\ table = UpsertCards(NoTable, setting.before, PageSize).table
  /\ hierarchy = NoHierarchy
  /\ importLock = "free" /\ importTime = 0 /\ recent = FALSE
  /\ job = [p \in Procs |-> Idle(setting.jobs[p])]
  /\ complete = [p \in Procs |-> NULL]
  /\ deployed = 1 /\ faults = setting.faults
  /\ synced = Nobody
  /\ loaded = 0

-----------------------------------------------------------------------------
(* The beginning of a job.  import_data() gives up at once when another    *)
(* import is recent.                                                       *)
BeginImport(p) == IF recent THEN Finish(p, "recent") ELSE Goto(p, "lock")
(* import_all_is_tags(): the tags that were discovered, one after another. *)
BeginIsTags(p) ==
  job' = [job EXCEPT ![p].at = "istags", ![p].tags = setting.isTags, ![p].imported = {}, ![p].failed = {}]
(* ingest_cubecobra() keeps the cards that the database has now.           *)
BeginCubecobra(p) ==
  job' = [job EXCEPT ![p].at = "cube", ![p].left = {table[id]["oracle_id"] : id \in DOMAIN table} \ {NULL}]
(* import_card_by_name() searches for a name that no row has, or had when  *)
(* the answer was cached that it asks for.                                 *)
BeginByName(p) ==
  \/ /\ \E id \in DOMAIN table : table[id]["card_name"] = setting.name
     /\ Finish(p, "already_exists")
  \/ Goto(p, "search")

Start(p) ==
  /\ job[p].at = "rest" /\ job[p].todo # <<>>
  /\ \/ Op(p) = "import" /\ BeginImport(p)
     \/ Op(p) = "tags" /\ Goto(p, "tags")
     \/ Op(p) = "ready" /\ Goto(p, "ask")
     \/ Op(p) = "istags" /\ BeginIsTags(p)
     \/ Op(p) = "cubecobra" /\ BeginCubecobra(p)
     \/ Op(p) = "search" /\ Goto(p, "search")
     \/ Op(p) = "name" /\ BeginByName(p)
     \/ Op(p) = "setup" /\ Goto(p, "setup")
  /\ UNCHANGED <<world, deployed, fileVars, schemaVars, table, hierarchy, importLock, readyVars, faults, synced, loaded>>

(* discover_is_tags_from_syntax() may fail, which fails the job.           *)
DiscoverFails(p) ==
  /\ job[p].at = "istags" /\ job[p].imported = {} /\ job[p].failed = {} /\ job[p].tags = setting.isTags
  /\ Fault /\ Finish(p, "undiscovered")
  /\ UNCHANGED <<world, deployed, fileVars, schemaVars, table, hierarchy, importLock, readyVars, synced, loaded>>

(* The import lock, and the second look at the time under it.              *)
LockImport(p) ==
  /\ job[p].at = "lock" /\ importLock = "free"
  /\ IF recent THEN Finish(p, "recent") /\ UNCHANGED importLock ELSE Goto(p, "setup") /\ importLock' = p
  /\ UNCHANGED <<world, deployed, fileVars, schemaVars, table, hierarchy, readyVars, faults, synced, loaded>>

(* setup_schema(), which takes the tables along when it drops the schema.  *)
SetUp(p) ==
  /\ job[p].at = "setup" /\ boot[p].at \notin {"done", "raised"}
  /\ Schema!SetupStep(p) \/ (faults > 0 /\ Schema!SetupFail(p))
  /\ faults' = IF boot'[p].at = "raised" THEN faults - 1 ELSE faults
  /\ LET dropped == executed' = <<>> /\ executed # <<>>
     IN /\ table' = (IF dropped THEN NoTable ELSE table) /\ hierarchy' = (IF dropped THEN NoHierarchy ELSE hierarchy)
        /\ synced' = (IF dropped THEN Nobody ELSE synced) /\ loaded' = (IF dropped THEN 0 ELSE loaded)
  /\ UNCHANGED <<world, deployed, fileVars, importLock, readyVars, job>>

AfterSetup(p) ==
  /\ job[p].at = "setup" /\ boot[p].at \in {"done", "raised"}
  /\ boot' = [boot EXCEPT ![p] = Schema!Out]
  /\ IF boot[p].at = "raised" THEN Finish(p, "raised") /\ Unlock(p)
     ELSE /\ \/ Op(p) = "import" /\ Goto(p, "cards")
             \/ Op(p) \in {"search", "name"} /\ Goto(p, "upsert")
             \/ Op(p) = "setup" /\ Finish(p, "done")
          /\ UNCHANGED importLock
  /\ UNCHANGED <<world, deployed, fileVars, fs, migrations, executed, ready, guard, table, hierarchy, readyVars, faults, synced, loaded>>

-----------------------------------------------------------------------------
(* The dumps.  What a fetch raises ends the job.                           *)
KeyOf(p) == IF job[p].at = "cards" THEN "default_cards" ELSE "oracle_tags"
Fetch(p) ==
  /\ job[p].at \in {"cards", "tags"}
  /\ BulkFiles!Locate(p, KeyOf(p)) \/ BulkFiles!FetchStep(p)
  /\ UNCHANGED <<world, deployed, schemaVars, table, hierarchy, importLock, readyVars, job, faults, synced, loaded>>
ReadFails(p) ==
  /\ job[p].at \in {"cards", "tags"} /\ Fault /\ BulkFiles!ReadFails(p)
  /\ UNCHANGED <<world, deployed, schemaVars, table, hierarchy, importLock, readyVars, job, synced, loaded>>
FetchRaised(p) ==
  /\ job[p].at \in {"cards", "tags"} /\ fetch[p].at = "raised"
  /\ fetch' = [fetch EXCEPT ![p].at = "rest"]
  /\ Finish(p, "raised") /\ Unlock(p)
  /\ UNCHANGED <<world, deployed, published, listed, dir, schemaVars, table, hierarchy, readyVars, faults, synced, loaded>>
Fetched(p) == fetch' = [fetch EXCEPT ![p] = [BulkFiles!Resting EXCEPT !.attempt = fetch[p].attempt]]

(* _upsert_cards() commits all pages or none; new rows have no tags yet,   *)
(* and one that is another card now has those of the card it was.          *)
Committed(p, cards) ==
  /\ table' = UpsertCards(table, cards, PageSize).table
  /\ synced' = IF DOMAIN table' = DOMAIN table /\ \A id \in DOMAIN table : table'[id]["oracle_id"] = table[id]["oracle_id"]
               THEN synced ELSE Nobody

ImportCards(p) ==
  /\ job[p].at = "cards" /\ fetch[p].at = "read"
  /\ LET cards == setting.cards[fetch[p].bytes]
         status == UpsertCards(table, cards, PageSize).status
     IN \/ /\ Committed(p, cards) /\ UNCHANGED faults
           /\ IF status = "success" THEN Goto(p, "stamp") /\ loaded' = fetch[p].bytes /\ UNCHANGED importLock
              ELSE Finish(p, status) /\ Unlock(p) /\ UNCHANGED loaded
        \/ Fault /\ Finish(p, "database_error") /\ Unlock(p) /\ UNCHANGED <<table, synced, loaded>>
  /\ Fetched(p)
  /\ UNCHANGED <<world, deployed, published, listed, dir, schemaVars, hierarchy, readyVars>>

Stamp(p) ==
  /\ job[p].at = "stamp"
  /\ importTime' = importTime + 1 /\ recent' = TRUE
  /\ Goto(p, "scores")
  /\ UNCHANGED <<world, deployed, fileVars, schemaVars, table, hierarchy, importLock, complete, faults, synced, loaded>>

(* backfill_cubecobra_scores(): one printing of a card, the query does not *)
(* say which, has its place in the ranking, and gives it to all of them.   *)
Rank(elo) == IF elo = NULL THEN 100 ELSE 100 - elo
Names == {table[id]["card_name"] : id \in DOMAIN table}
(* Mutant of Scored: every printing by itself.                             *)
ScoredApart(t) == t = [id \in DOMAIN table |-> [table[id] EXCEPT !["cubecobra_score"] = Rank(table[id]["cubecobra_elo"])]]
Scored(t) ==
  \E pick \in [Names -> DOMAIN table] :
    /\ \A n \in Names : table[pick[n]]["card_name"] = n
    /\ t = [id \in DOMAIN table |->
              [table[id] EXCEPT !["cubecobra_score"] = Rank(table[pick[table[id]["card_name"]]]["cubecobra_elo"])]]
ScoreCards(p) ==
  /\ job[p].at = "scores"
  /\ \/ /\ \E t \in {[id \in DOMAIN table |-> [table[id] EXCEPT !["cubecobra_score"] = s[id]]] :
                       s \in [DOMAIN table -> {Rank(table[id]["cubecobra_elo"]) : id \in DOMAIN table}]} :
             Scored(t) /\ table' = t
        /\ IF Op(p) = "import" THEN Goto(p, "tags") ELSE Finish(p, "success")
        /\ UNCHANGED <<importLock, faults>>
     \/ Fault /\ Finish(p, "raised") /\ Unlock(p) /\ UNCHANGED table
  /\ UNCHANGED <<world, deployed, fileVars, schemaVars, hierarchy, readyVars, synced, loaded>>

-----------------------------------------------------------------------------
(* Tags: the two tables in one transaction, then the tags that no card of  *)
(* the dump has any more, then the cards of the dump, batch by batch.      *)
TagDump(p) == setting.tags[job[p].page]
Syncing(p) == job[p].at \in {"clear", "batch"}
EndTags(p) == IF Op(p) = "import" THEN Goto(p, "end") ELSE Finish(p, "success")
Dies(p) == Fault /\ Finish(p, "raised") /\ Unlock(p) /\ UNCHANGED <<table, hierarchy>>
           /\ synced' = IF synced.by = p THEN Nobody ELSE synced

SyncHierarchy(p) ==
  /\ job[p].at = "tags" /\ fetch[p].at = "read"
  /\ LET tags == setting.tags[fetch[p].bytes]
     IN \/ /\ Accepted(tags)
           /\ hierarchy' = [tags |-> Slugs(tags), pairs |-> Related(tags)]
           /\ job' = [job EXCEPT ![p].at = "clear", ![p].page = fetch[p].bytes]
           /\ synced' = IF \E q \in Procs \ {p} : Syncing(q) THEN Nobody
                        ELSE [by |-> p, version |-> fetch[p].bytes, done |-> FALSE]
           /\ UNCHANGED <<table, importLock, faults>>
        \/ /\ ~ Accepted(tags) /\ Finish(p, "raised") /\ Unlock(p)
           /\ UNCHANGED <<table, hierarchy, synced, faults>>
        \/ Dies(p)
  /\ Fetched(p)
  /\ UNCHANGED <<world, deployed, published, listed, dir, schemaVars, readyVars, loaded>>

(* Mutant of ClearTags: the cards that keep some tag are cleared.          *)
ClearTagsInverted(p) ==
  /\ job[p].at = "clear"
  /\ LET keep == DOMAIN IdToTags(TagDump(p))
     IN /\ table' = [id \in DOMAIN table |-> IF table[id]["oracle_id"] \notin keep THEN table[id]
                                             ELSE [table[id] EXCEPT !["card_oracle_tags"] = {}]]
        /\ job' = [job EXCEPT ![p].at = "batch", ![p].left = keep]
  /\ UNCHANGED <<world, deployed, fileVars, schemaVars, hierarchy, importLock, readyVars, faults, synced, loaded>>

ClearTags(p) ==
  /\ job[p].at = "clear"
  /\ LET keep == DOMAIN IdToTags(TagDump(p))
     IN \/ /\ table' = [id \in DOMAIN table |-> IF table[id]["oracle_id"] \in keep \cup {NULL} THEN table[id]
                                                ELSE [table[id] EXCEPT !["card_oracle_tags"] = {}]]
           /\ job' = [job EXCEPT ![p].at = "batch", ![p].left = keep]
           /\ UNCHANGED <<hierarchy, importLock, faults, synced>>
        \/ Dies(p)
  /\ UNCHANGED <<world, deployed, fileVars, schemaVars, readyVars, loaded>>

SetTags(p) ==
  /\ job[p].at = "batch" /\ job[p].left # {}
  /\ LET o == CHOOSE x \in job[p].left : TRUE
     IN \/ /\ table' = [id \in DOMAIN table |-> IF table[id]["oracle_id"] # o THEN table[id]
                                                ELSE [table[id] EXCEPT !["card_oracle_tags"] = IdToTags(TagDump(p))[o]]]
           /\ job' = [job EXCEPT ![p].left = @ \ {o}]
           /\ UNCHANGED <<hierarchy, importLock, faults, synced>>
        \/ Dies(p)
  /\ UNCHANGED <<world, deployed, fileVars, schemaVars, readyVars, loaded>>

TagsDone(p) ==
  /\ job[p].at = "batch" /\ job[p].left = {}
  /\ synced' = IF synced.by = p THEN [synced EXCEPT !.done = TRUE] ELSE synced
  /\ EndTags(p)
  /\ UNCHANGED <<world, deployed, fileVars, schemaVars, table, hierarchy, importLock, readyVars, faults, loaded>>

(* The end of an import: the second time stamp.                            *)
EndImport(p) ==
  /\ job[p].at = "end"
  /\ importTime' = importTime + 1 /\ recent' = TRUE
  /\ complete' = [complete EXCEPT ![p] = NULL]
  /\ Finish(p, "success") /\ Unlock(p)
  /\ UNCHANGED <<world, deployed, fileVars, schemaVars, table, hierarchy, faults, synced, loaded>>

-----------------------------------------------------------------------------
(* _scryfall_search(), a request for every page.  A 404 ends it with what  *)
(* it has (the first page of a search without results is one); any other   *)
(* error is a ValueError, which fails the tag or the import.               *)
Query(p) == IF Op(p) = "istags" THEN Head(job[p].tags) ELSE Op(p)
NextTag(p, tag, good) ==
  job' = [job EXCEPT ![p] = [Idle(@.todo) EXCEPT !.at = "istags", !.tags = Tail(job[p].tags),
            !.imported = job[p].imported \cup (IF good THEN {tag} ELSE {}),
            !.failed = job[p].failed \cup (IF good THEN {} ELSE {tag})]]

KindOf(tag) == setting.kinds[tag]
(* Mutant of Wanted: every tag by printing.                                *)
WantedByPrinting(tag, found) == {found[i]["id"] : i \in DOMAIN found}
Wanted(tag, found) == {found[i][IF KindOf(tag) = "card" THEN "name" ELSE "id"] : i \in DOMAIN found}

SearchEnds(p, found) ==
  \/ found = <<>> /\ (IF Op(p) = "istags" THEN NextTag(p, Head(job[p].tags), TRUE) ELSE Finish(p, "not_found"))
  \/ /\ found # <<>> /\ Op(p) = "istags"
     /\ job' = [job EXCEPT ![p].at = "mark", ![p].left = Wanted(Head(job[p].tags), found), ![p].found = found]
  \/ /\ found # <<>> /\ Op(p) # "istags"
     /\ job' = [job EXCEPT ![p].at = "setup", ![p].found = found]

ScryfallSearch(p) ==
  /\ job[p].at = "search"
  /\ LET pages == setting.search[Query(p)]
         sofar == IF job[p].page > Len(pages) THEN job[p].found ELSE job[p].found \o pages[job[p].page]
     IN \/ /\ IF job[p].page >= Len(pages) THEN SearchEnds(p, sofar)
              ELSE job' = [job EXCEPT ![p].page = @ + 1, ![p].found = sofar]
           /\ UNCHANGED faults
        \/ Fault /\ SearchEnds(p, job[p].found)
        \/ Fault /\ IF Op(p) = "istags" THEN NextTag(p, Head(job[p].tags), FALSE) ELSE Finish(p, "error")
  /\ UNCHANGED <<world, deployed, fileVars, schemaVars, table, hierarchy, importLock, readyVars, synced, loaded>>

(* import_cards_by_search()                                                *)
ImportFound(p) ==
  /\ job[p].at = "upsert"
  /\ \/ Committed(p, job[p].found) /\ Finish(p, UpsertCards(table, job[p].found, PageSize).status) /\ loaded' = 0 /\ UNCHANGED faults
     \/ Fault /\ Finish(p, "database_error") /\ UNCHANGED <<table, synced, loaded>>
  /\ UNCHANGED <<world, deployed, fileVars, schemaVars, hierarchy, importLock, readyVars>>

(* import_all_is_tags(): tag after tag; the custom ones are left alone.    *)
NextIsTag(p) ==
  /\ job[p].at = "istags"
  /\ IF job[p].tags = <<>> THEN Finish(p, "success")
     ELSE IF KindOf(Head(job[p].tags)) = "custom" THEN NextTag(p, Head(job[p].tags), TRUE)
     ELSE Goto(p, "search")
  /\ UNCHANGED <<world, deployed, fileVars, schemaVars, table, hierarchy, importLock, readyVars, faults, synced, loaded>>

MarkCards(p) ==
  /\ job[p].at = "mark"
  /\ LET tag == Head(job[p].tags)
         x == CHOOSE y \in job[p].left : TRUE
         column == IF KindOf(tag) = "card" THEN "card_name" ELSE "scryfall_id"
     IN \/ /\ job[p].left = {} /\ NextTag(p, tag, TRUE) /\ UNCHANGED <<table, faults>>
        \/ /\ job[p].left # {}
           /\ table' = [id \in DOMAIN table |-> IF table[id][column] # x THEN table[id]
                                                ELSE [table[id] EXCEPT !["card_is_tags"] = @ \cup {tag}]]
           /\ job' = [job EXCEPT ![p].left = @ \ {x}]
           /\ UNCHANGED faults
        \/ job[p].left # {} /\ Fault /\ Finish(p, "raised") /\ UNCHANGED table
  /\ UNCHANGED <<world, deployed, fileVars, schemaVars, hierarchy, importLock, readyVars, synced, loaded>>

-----------------------------------------------------------------------------
(* ingest_cubecobra(): page after page, of which those cards are kept that *)
(* the database had at the start.  Without any page a variable that only   *)
(* the loop sets is read.  Mutant: the write is after the loop.            *)
CubePageLast(p) ==
  /\ job[p].at = "cube"
  /\ LET n == Len(setting.cube)
     IN IF n = 0 THEN Finish(p, "raised") /\ UNCHANGED table
        ELSE /\ table' = [id \in DOMAIN table |->
                            IF table[id]["oracle_id"] \notin job[p].left \cap DOMAIN setting.cube[n] THEN table[id]
                            ELSE [table[id] EXCEPT !["cubecobra_elo"] = setting.cube[n][table[id]["oracle_id"]]]]
             /\ Goto(p, "scores")
  /\ UNCHANGED <<world, deployed, fileVars, schemaVars, hierarchy, importLock, readyVars, faults, synced, loaded>>

CubePage(p) ==
  /\ job[p].at = "cube"
  /\ LET n == job[p].page
     IN \/ /\ n > Len(setting.cube)
           /\ IF n = 1 THEN Finish(p, "raised") ELSE Goto(p, "scores")
           /\ UNCHANGED <<table, faults>>
        \/ /\ n <= Len(setting.cube)
           /\ table' = [id \in DOMAIN table |->
                          IF table[id]["oracle_id"] \notin job[p].left \cap DOMAIN setting.cube[n] THEN table[id]
                          ELSE [table[id] EXCEPT !["cubecobra_elo"] = setting.cube[n][table[id]["oracle_id"]]]]
           /\ job' = [job EXCEPT ![p].page = @ + 1]
           /\ UNCHANGED faults
        \/ Fault /\ Finish(p, "raised") /\ UNCHANGED table
  /\ UNCHANGED <<world, deployed, fileVars, schemaVars, hierarchy, importLock, readyVars, synced, loaded>>

-----------------------------------------------------------------------------
(* _setup_complete(): a cached answer counts while the import time is the  *)
(* one it was given under; the time is read before the cards are counted.  *)
Ask(p) ==
  /\ job[p].at = "ask"
  /\ IF complete[p] # NULL /\ complete[p].time = importTime
     THEN Finish(p, IF complete[p].result THEN "complete" ELSE "unavailable")
     ELSE job' = [job EXCEPT ![p].at = "count", ![p].time = importTime]
  /\ UNCHANGED <<world, deployed, fileVars, schemaVars, table, hierarchy, importLock, readyVars, faults, synced, loaded>>

(* Setup counts as complete with more than MIN_IMPORT_CARDS cards.         *)
EnoughCards == Cardinality(DOMAIN table) > MinCards
Count(p) ==
  /\ job[p].at = "count"
  /\ \/ /\ job' = [job EXCEPT ![p].at = "note", ![p].result = IF EnoughCards THEN "complete" ELSE "unavailable"]
        /\ UNCHANGED faults
     \/ Fault /\ job' = [job EXCEPT ![p].at = "note", ![p].result = "error"]
  /\ UNCHANGED <<world, deployed, fileVars, schemaVars, table, hierarchy, importLock, readyVars, synced, loaded>>

NoteAt(p, time) ==
  /\ job[p].at = "note"
  /\ complete' = [complete EXCEPT ![p] = [result |-> job[p].result = "complete", time |-> time, error |-> job[p].result = "error"]]
  /\ Finish(p, job[p].result)
  /\ UNCHANGED <<world, deployed, fileVars, schemaVars, table, hierarchy, importLock, importTime, recent, faults, synced, loaded>>

(* Mutant of Note: the time of the count's end.                            *)
NoteLate(p) == NoteAt(p, importTime)
Note(p) == NoteAt(p, job[p].time)

-----------------------------------------------------------------------------
(* Time passes: five minutes since the import, an hour since the count,    *)
(* five minutes since the listing, a newer dump, a download that stalls.   *)
RecentEnds ==
  /\ recent /\ recent' = FALSE
  /\ UNCHANGED <<world, deployed, fileVars, schemaVars, table, hierarchy, importLock, complete, importTime, job, faults, synced, loaded>>
CompleteExpires(p) ==
  /\ complete[p] # NULL /\ complete' = [complete EXCEPT ![p] = NULL]
  /\ UNCHANGED <<world, deployed, fileVars, schemaVars, table, hierarchy, importLock, importTime, recent, job, faults, synced, loaded>>
FilesChange ==
  /\ \/ published < Len(setting.cards) /\ BulkFiles!Publish
     \/ \E p \in Procs : BulkFiles!ListingExpires(p) \/ BulkFiles!Stall(p)
  /\ UNCHANGED <<world, deployed, schemaVars, table, hierarchy, importLock, readyVars, job, faults, synced, loaded>>

(* The container stops and starts again, maybe with newer code.            *)
Restart ==
  /\ deployed < Len(setting.deploys) /\ deployed' = deployed + 1
  /\ Schema!Redeploy(setting.deploys[deployed + 1]) /\ BulkFiles!CrashFiles
  /\ importLock' = "free" /\ importTime' = 0 /\ recent' = FALSE
  /\ job' = [p \in Procs |-> Idle(setting.jobs[p])]
  /\ complete' = [p \in Procs |-> NULL]
  /\ synced' = IF synced.done THEN synced ELSE Nobody
  /\ UNCHANGED <<world, table, hierarchy, faults, loaded>>

AllDone == (\A p \in Procs : job[p].at = "rest" /\ job[p].todo = <<>>) /\ UNCHANGED vars

Work(p) ==
  \/ Start(p) \/ DiscoverFails(p) \/ LockImport(p) \/ SetUp(p) \/ AfterSetup(p)
  \/ Fetch(p) \/ ReadFails(p) \/ FetchRaised(p) \/ ImportCards(p) \/ Stamp(p) \/ ScoreCards(p)
  \/ SyncHierarchy(p) \/ ClearTags(p) \/ SetTags(p) \/ TagsDone(p) \/ EndImport(p)
  \/ ScryfallSearch(p) \/ ImportFound(p) \/ NextIsTag(p) \/ MarkCards(p) \/ CubePage(p)
  \/ Ask(p) \/ Count(p) \/ Note(p)

Next ==
  \/ \E p \in Procs : Work(p) \/ CompleteExpires(p)
  \/ RecentEnds \/ FilesChange \/ Restart \/ AllDone

Spec == Init /\ [][Next]_vars

-----------------------------------------------------------------------------
(* What the last import of a card brought is what its row says, in every   *)
(* column that the import always sets: a card that is no creature any more *)
(* has no power left over from when it was one.                            *)
RowsFollowTheDump ==
  loaded # 0 =>
    LET rows == PreprocessAll(setting.cards[loaded])
        superseded(i) == \E j \in i + 1 .. Len(rows) : rows[j]["scryfall_id"] = rows[i]["scryfall_id"]
    IN \A i \in DOMAIN rows : superseded(i) \/
         LET id == rows[i]["scryfall_id"]
         IN \A c \in DOMAIN Always(setting.cards[loaded][1]) \cap ImportColumns :
              id \in DOMAIN table /\ table[id][c] = IF Has(rows[i], c) THEN rows[i][c] ELSE NULL

(* What is stored never makes an import fail: a dump that an empty table   *)
(* takes is taken over any rows, though values fall back to theirs before  *)
(* the constraints are checked.                                            *)
GoodDumpsLoad ==
  \A p \in Procs : job[p].at = "cards" /\ fetch[p].at = "read" =>
    LET cards == setting.cards[fetch[p].bytes]
    IN UpsertCards(NoTable, cards, PageSize).status = "success" => UpsertCards(table, cards, PageSize).status = "success"

(* Whatever is imported, over whichever rows and in whichever order, no    *)
(* card loses an is: tag: upserts leave the tag columns alone.             *)
IsTagsKept ==
  [][\A id \in DOMAIN table \cap DOMAIN table' : table[id]["card_is_tags"] \subseteq table'[id]["card_is_tags"]]_vars

(* Dumps in which every record has an id of its own.                       *)
OwnIds(tags) == \A i, j \in DOMAIN tags : tags[i].id = tags[j].id => i = j

(* After a tag import that had the tables to itself, every card has the    *)
(* tags the dump puts on it and all broader ones, no card has others, and  *)
(* the hierarchy is that of the same dump.                                 *)
Expected(tags, oracle) ==
  LET direct == {tags[i].slug : i \in {j \in DOMAIN tags : oracle \in tags[j].tags}}
  IN direct \cup {pair[2] : pair \in {q \in Broader(tags) : q[1] \in direct}}
TagsSynced ==
  synced.done =>
    LET tags == setting.tags[synced.version]
    IN /\ hierarchy.tags = Slugs(tags)
       /\ OwnIds(tags) => \A id \in DOMAIN table : table[id]["oracle_id"] # NULL =>
                            table[id]["card_oracle_tags"] = Expected(tags, table[id]["oracle_id"])

(* The walk over the parents finds the transitive closure in every graph,  *)
(* with cycles, tags that are their own parents and parents that are not   *)
(* in the dump.                                                            *)
AncestorsAreClosure ==
  \A v \in DOMAIN setting.tags :
    LET tags == setting.tags[v]
    IN OwnIds(tags) /\ Distinct(tags) =>
         \A s \in Slugs(tags) : Ancestors(tags, s) = {pair[2] : pair \in {q \in Broader(tags) : q[1] = s}} \ {s}

(* A card has the tags of the dump and their ancestors in the dump's       *)
(* graph, whatever that graph is.                                          *)
TagsSound == AncestorsAreClosure /\ TagsSynced

(* A cached "not complete" that still counts was true when the last import *)
(* was stamped, unless the count failed: the server does not refuse        *)
(* requests for an hour because a count raced an import.  Imports by search*)
(* and by name add cards and do not stamp the time: settings with one are  *)
(* not meant.                                                              *)
OnlyBulk == \A p \in Procs : setting.jobs[p] \in Seq(STRING \ {"search", "name"})
NoStaleIncomplete ==
  OnlyBulk => \A p \in Procs :
    \/ complete[p] = NULL \/ complete[p].result \/ complete[p].error \/ complete[p].time # importTime
    \/ ~ EnoughCards
    \/ \E q \in Procs : job[q].at = "stamp"

(* The printings of a card share a score, though a new printing comes      *)
(* without the data it is made from.                                       *)
PrintingsScoredAlike ==
  \A a, b \in DOMAIN table :
    table[a]["card_name"] = table[b]["card_name"] /\ NULL \notin {table[a]["cubecobra_score"], table[b]["cubecobra_score"]}
      => table[a]["cubecobra_score"] = table[b]["cubecobra_score"]

(* A tag reported as imported is on all printings of a card that the       *)
(* search found, when it is a tag of cards, and on the printings found     *)
(* when it is one of printings; a page that was not found may cut it short.*)
IsTagsApplied ==
  \A p \in Procs : \A tag \in job[p].imported : \A n \in DOMAIN setting.search[tag] : \A i \in DOMAIN setting.search[tag][n] :
    LET card == setting.search[tag][n][i]
        marked == {id \in DOMAIN table : IF KindOf(tag) = "card" THEN table[id]["card_name"] = card["name"] ELSE id = card["id"]}
    IN (KindOf(tag) # "custom" /\ setting.faults = faults) => \A id \in marked : tag \in table[id]["card_is_tags"]

(* An ingest that ends well wrote every page to the printings there were   *)
(* when it began, though it holds only one page at a time.                 *)
CubecobraComplete ==
  \A p \in Procs : job[p].at = "scores" /\ Op(p) = "cubecobra" =>
    \A n \in DOMAIN setting.cube : \A id \in DOMAIN UpsertCards(NoTable, setting.before, PageSize).table :
      LET o == table[id]["oracle_id"]
      IN o \in job[p].left \cap DOMAIN setting.cube[n]
           => \E k \in n .. Len(setting.cube) : o \in DOMAIN setting.cube[k] /\ table[id]["cubecobra_elo"] = setting.cube[k][o]

(* What the operations beside the imports write to cards is complete when  *)
(* they report success, and is not undone.                                 *)
OperationsComplete == PrintingsScoredAlike /\ CubecobraComplete /\ IsTagsApplied

(* Files, as BulkFiles states it: one that can be read is complete.        *)
FinalFilesWhole == BulkFiles!FinalFilesWhole
(* The migrations table is what was run (SchemaSetup).                     *)
MigrationsTellTheTruth == Schema!MigrationsTellTheTruth
(* With files that are only ever added, the event means that all of them   *)
(* have run.                                                               *)
DeployedFilesHaveRun == setting.appended => Schema!ReadyMeansMigrated
(* Schema setup can be trusted, by the next setup and by the imports.      *)
SchemaSound == MigrationsTellTheTruth /\ DeployedFilesHaveRun
(* The same for any change of the files, as the comment in setup_schema()  *)
(* has it.                                                                 *)
ReadyMeansMigrated == Schema!ReadyMeansMigrated
=============================================================================
