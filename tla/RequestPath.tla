---------------------------- MODULE RequestPath ----------------------------
(***************************************************************************)
(* A request through api/api_worker.py: worker processes that answer one   *)
(* request at a time behind the middlewares, in the order of get_api():    *)
(* the response cache on the way in, the handlers of Dispatch, and on the  *)
(* way out compression, the cache again and the query log.  The cache is   *)
(* one file that all workers map, or a dictionary in each worker when that *)
(* cannot be opened.                                                       *)
(*                                                                         *)
(* Headers that are set on every response (security, CORS, Server-Timing)  *)
(* are left out: the cache stores none of the ones that vary.              *)
(***************************************************************************)
EXTENDS Dispatch, QueryLog

CONSTANTS Scenarios,  \* what a server may be up against: a set of records with
                      \*   script: the requests it may be sent, sends: how many
                      \*   enabled: settings.enable_cache, shared: the cache file can be opened
                      \*   faults: of the database (see QueryLog), crashes: deaths of a worker
                      \*   stops: whether stop() is called, works: files and operations work
          MaxCards    \* bound on the operations that change the cards

ASSUME CardsAssumption == MaxCards \in Nat \ {0}

(* Every request gets an id, and 0 is none.                                *)
ASSUME IdsAssumption == IsFiniteSet(Ids) /\ Ids \subseteq Nat \ {0}
ASSUME SendsAssumption == \A s \in Scenarios : s.sends \in 0 .. Cardinality(Ids)

(* A parameter arrives as a text, or as a list when its key is repeated.   *)
ASSUME ScriptAssumption ==
  \A s \in Scenarios : \A req \in s.script : \A n \in DOMAIN req.params : req.params[n].t \in {"text", "list"}

VARIABLES world,    \* the cards, the engine, files and operations (see Dispatch)
          setting,  \* the scenario
          dead,     \* workers that died and how often one did
          cache,    \* each cache's entries, by key
          worker,   \* each worker's request, response, and where it is
          answered  \* by id: whether it is logged, and the cards it was shown

fixed == <<setting, faults>>
webVars == <<world, fixed, dead, cache, worker, answered>>
vars == <<webVars, logVars>>

Caches == Workers \cup {"file"}
CacheOf(w) == IF setting.shared THEN "file" ELSE w

NoRequest == [path |-> <<>>, method |-> "GET", params |-> <<>>, accept |-> {}, host |-> <<>>, proxy |-> <<>>]
Free == [at |-> "free", req |-> NoRequest, resp |-> Error(0, "none"), hit |-> FALSE, id |-> 0]

Used == {i \in Ids : answered[i] # "no"}
Taken == {worker[w].id : w \in Workers}
NextId == CHOOSE i \in Ids : i \notin Used \cup Taken

(* _cache_key.  The name of the host is compared without regard to case.   *)
(* Mutant: without the host.                                               *)
CacheKeyHostless(req) ==
  <<req.method, req.path, req.params, req.accept>>

CacheKey(req) ==
  LET host == HostOf(req)
  IN <<req.method, req.path, req.params, req.accept, IF host = <<>> THEN host ELSE <<host[2]>>>>

Cacheable(req) == setting.enabled /\ req.method \in {"GET", "HEAD"}
Stored(w, key) == key \in DOMAIN cache[CacheOf(w)]

-----------------------------------------------------------------------------
(* CompressionMiddleware: among the encodings the client names, whatever   *)
(* their weight, the one of lowest priority number; short bodies are left  *)
(* alone.                                                                  *)
Priority == [zstd |-> 10, br |-> 20, gzip |-> 30]
Candidates(req) == {item[1] : item \in req.accept} \cap DOMAIN Priority
Compressor(req) == CHOOSE c \in Candidates(req) : \A d \in Candidates(req) : Priority[c] <= Priority[d]
Compress(req, resp) ==
  IF Candidates(req) = {} \/ resp.body.size = "short" THEN resp
  ELSE [resp EXCEPT !.encoding = Compressor(req)]

-----------------------------------------------------------------------------
(* A process starts with an empty dictionary for a cache; the file may     *)
(* hold what earlier processes left.                                       *)
Init ==
  /\ setting \in Scenarios /\ faults = setting.faults
  /\ world \in [cards : 0 .. 1, loaded : BOOLEAN, works : {setting.works}]
  /\ world.loaded => world.cards > 0
  /\ dead = [who |-> {}, times |-> 0]
  /\ cache = [c \in Caches |-> <<>>]
  /\ worker = [w \in Workers |-> Free]
  /\ answered = [i \in Ids |-> "no"]
  /\ LogInit

(* process_request                                                         *)
Receive(w, req) ==
  /\ worker[w].at = "free" /\ w \notin stopping
  /\ Cardinality(Used \cup (Taken \ {0})) < setting.sends
  /\ LET hit == Cacheable(req) /\ Stored(w, CacheKey(req))
     IN worker' = [worker EXCEPT ![w] =
          [at |-> IF hit THEN "respond" ELSE "handle", req |-> req, hit |-> hit, id |-> NextId,
           resp |-> IF hit THEN cache[CacheOf(w)][CacheKey(req)] ELSE Error(0, "none")]]
  /\ UNCHANGED <<world, fixed, dead, cache, answered, logVars>>

(* The handler runs, and an operation may change the cards.                *)
Serve(w) ==
  /\ worker[w].at = "handle"
  /\ LET req == worker[w].req
     IN /\ worker' = [worker EXCEPT ![w].resp = Handle(req, world), ![w].at = "compress"]
        /\ \/ UNCHANGED world
           \/ /\ Runs(req) /\ IsOperation(Resolved(req)) /\ world.works = "works" /\ world.cards < MaxCards
              /\ world' = [world EXCEPT !.cards = @ + 1]
  /\ UNCHANGED <<fixed, dead, cache, answered, logVars>>

(* CompressionMiddleware.process_response and the first half of            *)
(* CachingMiddleware.process_response: a server error, a response marked   *)
(* no-store and one that is stored already are not stored.                 *)
(* Mutant: the response's Cache-Control is not looked at.                  *)
CompressAlways(w) ==
  /\ worker[w].at = "compress"
  /\ LET req == worker[w].req
         resp == Compress(req, worker[w].resp)
     IN worker' = [worker EXCEPT ![w].resp = resp,
                     ![w].at = IF Cacheable(req) /\ resp.status < 500 /\ ~ Stored(w, CacheKey(req))
                               THEN "store" ELSE "respond"]
  /\ UNCHANGED <<world, fixed, dead, cache, answered, logVars>>

CompressAndProbe(w) ==
  /\ worker[w].at = "compress"
  /\ LET req == worker[w].req
         resp == Compress(req, worker[w].resp)
     IN worker' = [worker EXCEPT ![w].resp = resp,
                     ![w].at = IF /\ Cacheable(req) /\ resp.status < 500 /\ resp.control # "no-store"
                                  /\ ~ Stored(w, CacheKey(req))
                               THEN "store" ELSE "respond"]
  /\ UNCHANGED <<world, fixed, dead, cache, answered, logVars>>

(* Storing: another worker may have stored a response for the key since.   *)
StoreResponse(w) ==
  /\ worker[w].at = "store"
  /\ cache' = [cache EXCEPT ![CacheOf(w)] = Merge([k \in {CacheKey(worker[w].req)} |-> worker[w].resp], @)]
  /\ worker' = [worker EXCEPT ![w].at = "respond"]
  /\ UNCHANGED <<world, fixed, dead, answered, logVars>>

(* QueryLogMiddleware.process_response, for requests to /search only.      *)
IsLogged(req, resp) == req.path = <<"search">> /\ resp.cards # None
Entry(w) == [id |-> worker[w].id, hit |-> worker[w].hit, cards |-> worker[w].resp.cards,
             error |-> worker[w].resp.status >= 400]

Respond(w) ==
  /\ worker[w].at = "respond"
  /\ answered' = [answered EXCEPT ![worker[w].id] = IF IsLogged(worker[w].req, worker[w].resp) THEN "logged" ELSE "yes"]
  /\ IF IsLogged(worker[w].req, worker[w].resp) THEN Put(w, Entry(w)) ELSE UNCHANGED logVars
  /\ worker' = [worker EXCEPT ![w] = Free]
  /\ UNCHANGED <<world, fixed, dead, cache>>

(* The cache gives up an entry on its own: a page is recycled, the LRU is  *)
(* full, or a lookup times out on the lock.                                *)
Evict(c, key) ==
  /\ cache' = [cache EXCEPT ![c] = [k \in DOMAIN @ \ {key} |-> @[k]]]
  /\ UNCHANGED <<world, fixed, dead, worker, answered, logVars>>

(* The engine's archive becomes available, or is lost with its directory.  *)
LoadEngine ==
  /\ world.cards > 0 /\ ~ world.loaded
  /\ world' = [world EXCEPT !.loaded = TRUE]
  /\ UNCHANGED <<fixed, dead, cache, worker, answered, logVars>>

(* The writer is told to stop between two requests.                        *)
Shutdown(w) ==
  /\ setting.stops /\ worker[w].at = "free"
  /\ Stop(w)
  /\ UNCHANGED webVars

(* A worker dies: what it had in memory is gone, and the request it was    *)
(* working on is not answered.                                             *)
WorkerDies(w) ==
  /\ dead.times < setting.crashes /\ worker[w].at # "dead"
  /\ dead' = [who |-> dead.who \cup {w}, times |-> dead.times + 1]
  /\ Kill({w})
  /\ worker' = [worker EXCEPT ![w] = [Free EXCEPT !.at = "dead"]]
  /\ answered' = [i \in Ids |-> IF i = worker[w].id THEN "yes" ELSE answered[i]]
  /\ UNCHANGED <<world, fixed, cache>>

(* run_server and _kill_workers: the supervisor finds a worker dead, kills *)
(* the others and ends; the container's next server starts them all anew,  *)
(* on the same cache file.                                                 *)
Supervise ==
  /\ dead.who # {}
  /\ dead' = [dead EXCEPT !.who = {}]
  /\ Kill(Workers)
  /\ cache' = [c \in Caches |-> IF c = "file" THEN cache[c] ELSE <<>>]
  /\ worker' = [w \in Workers |-> Free]
  /\ answered' = [i \in Ids |-> IF i \in Taken THEN "yes" ELSE answered[i]]
  /\ UNCHANGED <<world, fixed>>

LogStep(w) == WriterStep(w) /\ UNCHANGED webVars

Step(w) == Serve(w) \/ CompressAndProbe(w) \/ StoreResponse(w) \/ Respond(w)

Next ==
  \/ \E w \in Workers :
       \/ \E req \in setting.script : Receive(w, req)
       \/ Step(w)
       \/ Shutdown(w)
       \/ WorkerDies(w)
       \/ LogStep(w)
  \/ \E c \in Caches : \E key \in DOMAIN cache[c] : Evict(c, key)
  \/ LoadEngine
  \/ Supervise

(* The writers' threads run on, and the supervisor polls; nothing is      *)
(* assumed of the requests.                                                *)
Fairness == LogFairness /\ WF_vars(Supervise)

Spec == Init /\ [][Next]_vars /\ Fairness
-----------------------------------------------------------------------------
TypeOK ==
  /\ world.cards \in 0 .. MaxCards
  /\ \A w \in Workers :
       /\ worker[w].at \in {"free", "handle", "compress", "store", "respond", "dead"}
       /\ Len(queue[w]) <= QueueSize
  /\ answered \in [Ids -> {"no", "yes", "logged"}]

(* A response from the cache is one that the handlers and the compression  *)
(* would give to this very request, on the cards of now or of some earlier *)
(* time: the key holds everything a response depends on.  An outage ends   *)
(* when its cause does: a server error is never replayed, nor is a         *)
(* response that a handler marked no-store.                                *)
ReplayIsAnAnswer ==
  \A w \in Workers :
    LET req == worker[w].req IN
    worker[w].hit =>
      /\ worker[w].resp.status < 500 /\ worker[w].resp.control # "no-store"
      /\ \E cards \in 0 .. world.cards, loaded \in BOOLEAN :
           worker[w].resp = Compress(req, Handle(req, [world EXCEPT !.cards = cards, !.loaded = loaded]))

(* Every answered search is in the log, on its way to it, or was given up  *)
(* where the code gives up an entry: the queue was full, a batch failed,   *)
(* or the process died.                                                    *)
EverySearchAccountedFor ==
  \A i \in Ids : answered[i] = "logged" =>
    \/ i \in lost \/ rows[i] > 0
    \/ \E w \in Workers : i \in IdsOf(queue[w]) \cup IdsOf(writer[w].pending)

(* bind_params is the drop-in replacement of the old wrapper: where it     *)
(* accepts a request the handler gets the same arguments, and it refuses   *)
(* only what the old one failed on, let a keyword overwrite, or handed to  *)
(* the handler as a text although the parameter is none.                   *)
BinderReplacesWrapper ==
  \A w \in Workers :
    LET found == ResolveAction(PathOf(worker[w].req))
        h == found.handler
        kwargs == Merge(Injected(worker[w].req), worker[w].req.params)
        new == Bind(h, found.args, kwargs)
        old == TypeConvertingWrapper(h, found.args, kwargs)
        untyped(n) == old.args[n].t = "text" /\ ConverterFor(Param(h, n).hint) # "str"
    IN worker[w].at = "handle" /\ h # Nothing =>
         IF new.error = "none"
         THEN Only(old.args, Named(h)) = Only(new.args, Named(h)) /\ \A n \in Named(h) \cap DOMAIN old.args : ~ untyped(n)
         ELSE \/ old.error # "none"
              \/ {PositionalNames(h)[i] : i \in DOMAIN found.args} \cap DOMAIN kwargs # {}
              \/ \E n \in Named(h) \cap DOMAIN old.args : untyped(n)

(* An entry of the log is neither lost nor doubled where the code does not *)
(* say so, and a failure costs less than a batch.                          *)
LogSound == TypeOK /\ EverySearchAccountedFor /\ BatchBounded /\ DuplicateOnlyUnacknowledged

(* The writers get on, whatever the database does: stop() comes to its end *)
(* and what was queued is taken up.                                        *)
LogProgress == StopEnds /\ QueueDrains

(* An answered request to an operation did what it asked for: the answer   *)
(* is not one that the cache kept from an earlier request.                 *)
OperationsOnDemand ==
  \A w \in Workers : worker[w].hit => ~ IsOperation(Resolved(worker[w].req))
=============================================================================
