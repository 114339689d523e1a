----------------------------- MODULE BulkFiles -----------------------------
(***************************************************************************)
(* The bulk data cache of api/scryfall_bulk_data_fetcher.py: a directory   *)
(* per kind of dump that all worker processes share.  A file is named for  *)
(* the version it was listed under, and downloaded to a name of its own    *)
(* before it is renamed.                                                   *)
(*                                                                         *)
(* Scryfall publishes versions 1, 2, ...  A process keeps the listing it   *)
(* fetched for five minutes.  A download may be cut short, which a gzip    *)
(* stream shows, or fail; it may also stall so long that other processes   *)
(* take its .tmp file for abandoned.                                       *)
(***************************************************************************)
EXTENDS Integers, Sequences, FiniteSets

CONSTANTS Procs, Keys,
          MaxVersion,   \* bound on what Scryfall publishes
          MaxAttempts   \* bound on the fetches of a process

VARIABLES published, \* the newest version, for every key
          listed,    \* each process's cached listing, 0 without one
          dir,       \* the files of each key
          fetch      \* what each process is doing

fileVars == <<published, listed, dir, fetch>>

(* A file: the version in its name, whose .tmp it is (with the attempt     *)
(* that wrote it) or "final", the version of its bytes and whether they    *)
(* are all there; stale when its .tmp was not written to for 15 minutes.   *)
File(name, tmp, bytes, whole) == [name |-> name, tmp |-> tmp, bytes |-> bytes, whole |-> whole, stale |-> FALSE]
Final(key, name) == {f \in dir[key] : f.tmp = <<"final", 0>> /\ f.name = name}
TmpOf(p) == <<p, fetch[p].attempt>>
Mine(p) == {f \in dir[fetch[p].key] : f.tmp = TmpOf(p)}

Resting == [at |-> "rest", key |-> "none", name |-> 0, seen |-> {}, bytes |-> 0, whole |-> TRUE, attempt |-> 0]
At(p, where) == fetch' = [fetch EXCEPT ![p].at = where]
Raise(p) == fetch' = [fetch EXCEPT ![p] = [Resting EXCEPT !.at = "raised", !.attempt = fetch[p].attempt]]

FilesInit ==
  /\ published = 1
  /\ listed = [p \in Procs |-> 0]
  /\ dir = [k \in Keys |-> {}]
  /\ fetch = [p \in Procs |-> Resting]

Publish == published < MaxVersion /\ published' = published + 1 /\ UNCHANGED <<listed, dir, fetch>>
ListingExpires(p) == listed[p] # 0 /\ listed' = [listed EXCEPT ![p] = 0] /\ UNCHANGED <<published, dir, fetch>>

(* stream_data_for_key: the name comes from the cached listing, or a new   *)
(* one.                                                                    *)
Listing(p) == IF listed[p] = 0 THEN published ELSE listed[p]
Locate(p, key) ==
  /\ fetch[p].at = "rest" /\ fetch[p].attempt < MaxAttempts
  /\ listed' = [listed EXCEPT ![p] = Listing(p)]
  /\ fetch' = [fetch EXCEPT ![p] = [Resting EXCEPT !.at = "check", !.key = key, !.name = Listing(p),
                                      !.attempt = fetch[p].attempt + 1]]
  /\ UNCHANGED <<published, dir>>

(* _ensure_cached: nothing to do, or a look at the directory's files.      *)
CheckCached(p) ==
  /\ fetch[p].at = "check"
  /\ IF Final(fetch[p].key, fetch[p].name) # {} THEN At(p, "open")
     ELSE fetch' = [fetch EXCEPT ![p].at = "prune", ![p].seen = dir[fetch[p].key]]
  /\ UNCHANGED <<published, listed, dir>>

(* Mutant of Prune: every .tmp file goes.                                  *)
PruneAll(p) ==
  /\ fetch[p].at = "prune" /\ fetch[p].seen # {}
  /\ \E f \in fetch[p].seen :
       /\ fetch' = [fetch EXCEPT ![p].seen = @ \ {f}]
       /\ dir' = [dir EXCEPT ![fetch[p].key] = @ \ {g \in @ : g.name = f.name /\ g.tmp = f.tmp}]
  /\ UNCHANGED <<published, listed>>

(* One file after the other: a .tmp that was written to lately is another  *)
(* worker's; a file that is gone by now is none of our business.           *)
Prune(p) ==
  /\ fetch[p].at = "prune" /\ fetch[p].seen # {}
  /\ \E f \in fetch[p].seen :
       LET now == {g \in dir[fetch[p].key] : g.name = f.name /\ g.tmp = f.tmp}
           spared == {g \in now : g.tmp # <<"final", 0>> /\ ~ g.stale}
       IN /\ fetch' = [fetch EXCEPT ![p].seen = @ \ {f}]
          /\ dir' = [dir EXCEPT ![fetch[p].key] = @ \ (now \ spared)]
  /\ UNCHANGED <<published, listed>>

(* The address is looked up again, and the listing may be a newer one than *)
(* the name was taken from.                                                *)
StartDownload(p) ==
  /\ fetch[p].at = "prune" /\ fetch[p].seen = {}
  /\ listed' = [listed EXCEPT ![p] = Listing(p)]
  /\ dir' = [dir EXCEPT ![fetch[p].key] = @ \cup {File(fetch[p].name, TmpOf(p), Listing(p), FALSE)}]
  /\ At(p, "download")
  /\ UNCHANGED published

(* A stalled download looks abandoned to the others.                       *)
Stall(p) ==
  /\ fetch[p].at = "download" /\ Mine(p) # {}
  /\ dir' = [dir EXCEPT ![fetch[p].key] = (@ \ Mine(p)) \cup {[f EXCEPT !.stale = TRUE] : f \in Mine(p)}]
  /\ UNCHANGED <<published, listed, fetch>>

(* The .tmp file is renamed when all bytes came, and removed otherwise: a  *)
(* gzip stream that ends within a member is an error.  The rename fails if *)
(* the file was pruned meanwhile.  Mutant: a cut stream is taken as it is. *)
DownloadUnchecked(p) ==
  /\ fetch[p].at = "download"
  /\ \E whole \in BOOLEAN :
       IF Mine(p) # {}
       THEN /\ dir' = [dir EXCEPT ![fetch[p].key] =
                         {f \in @ : f.tmp # TmpOf(p) /\ f \notin Final(fetch[p].key, fetch[p].name)}
                         \cup {[f EXCEPT !.tmp = <<"final", 0>>, !.whole = whole, !.stale = FALSE] : f \in Mine(p)}]
            /\ At(p, "open")
       ELSE dir' = [dir EXCEPT ![fetch[p].key] = @ \ Mine(p)] /\ Raise(p)
  /\ UNCHANGED <<published, listed>>

FinishDownload(p) ==
  /\ fetch[p].at = "download"
  /\ \E whole \in BOOLEAN :
       IF whole /\ Mine(p) # {}
       THEN /\ dir' = [dir EXCEPT ![fetch[p].key] =
                         {f \in @ : f.tmp # TmpOf(p) /\ f \notin Final(fetch[p].key, fetch[p].name)}
                         \cup {[f EXCEPT !.tmp = <<"final", 0>>, !.whole = TRUE, !.stale = FALSE] : f \in Mine(p)}]
            /\ At(p, "open")
       ELSE dir' = [dir EXCEPT ![fetch[p].key] = @ \ Mine(p)] /\ Raise(p)
  /\ UNCHANGED <<published, listed>>

(* The file is opened by its name, which may be gone since the check; once *)
(* open its bytes stay.                                                    *)
OpenFile(p) ==
  /\ fetch[p].at = "open"
  /\ LET found == Final(fetch[p].key, fetch[p].name)
     IN IF found = {} THEN Raise(p)
        ELSE fetch' = [fetch EXCEPT ![p].at = "read", ![p].bytes = (CHOOSE f \in found : TRUE).bytes,
                                    ![p].whole = (CHOOSE f \in found : TRUE).whole]
  /\ UNCHANGED <<published, listed, dir>>

(* Reading fails: the bytes went bad on disk, and the file goes so that    *)
(* the next call downloads it again; or too little of it is one object a   *)
(* line, and it stays.                                                     *)
ReadFails(p) ==
  /\ fetch[p].at = "read"
  /\ \E corrupt \in BOOLEAN :
       dir' = [dir EXCEPT ![fetch[p].key] = IF corrupt THEN @ \ Final(fetch[p].key, fetch[p].name) ELSE @]
  /\ Raise(p)
  /\ UNCHANGED <<published, listed>>

FetchStep(p) == CheckCached(p) \/ Prune(p) \/ StartDownload(p) \/ FinishDownload(p) \/ OpenFile(p)

(* A crash leaves the .tmp file, which nobody writes to any more.          *)
CrashFiles ==
  /\ dir' = [k \in Keys |-> {IF f.tmp = <<"final", 0>> THEN f ELSE [f EXCEPT !.stale = TRUE] : f \in dir[k]}]
  /\ listed' = [p \in Procs |-> 0]
  /\ fetch' = [p \in Procs |-> [Resting EXCEPT !.attempt = fetch[p].attempt]]
  /\ UNCHANGED published

-----------------------------------------------------------------------------
(* A file under its final name is a complete download, whoever raced for   *)
(* it, and so is what a reader gets: "racers waste a duplicate download    *)
(* but never corrupt the cache file".                                      *)
FinalFilesWhole ==
  /\ \A k \in Keys : \A f \in dir[k] : f.tmp = <<"final", 0>> => f.whole
  /\ \A p \in Procs : fetch[p].at = "read" => fetch[p].whole
=============================================================================
