----------------------------- MODULE IngestProofs -----------------------------
(***************************************************************************)
(* What is proved of the operations that write to the database, for every  *)
(* number of worker processes, every scenario and every dump.              *)
(***************************************************************************)
EXTENDS Ingest, FiniteSetTheorems, WellFoundedInduction, TLAPS

-----------------------------------------------------------------------------
(* The bulk data directory.                                                *)

(* Steps that leave it alone.                                              *)
AwayFromFiles(p) ==
  \/ Start(p) \/ DiscoverFails(p) \/ LockImport(p) \/ SetUp(p) \/ AfterSetup(p)
  \/ Stamp(p) \/ ScoreCards(p) \/ ClearTags(p) \/ SetTags(p) \/ TagsDone(p) \/ EndImport(p)
  \/ ScryfallSearch(p) \/ ImportFound(p) \/ NextIsTag(p) \/ MarkCards(p) \/ CubePage(p)
  \/ Ask(p) \/ Count(p) \/ Note(p) \/ CompleteExpires(p)

LEMMA FilesUntouched ==
  ASSUME NEW p, AwayFromFiles(p) \/ RecentEnds \/ AllDone  PROVE UNCHANGED fileVars
<1>1. CASE Start(p) \/ DiscoverFails(p) \/ LockImport(p) \/ SetUp(p) \/ AfterSetup(p)
  BY <1>1 DEF Start, DiscoverFails, LockImport, SetUp, AfterSetup, fileVars
<1>2. CASE Stamp(p) \/ ScoreCards(p) \/ ClearTags(p) \/ SetTags(p) \/ TagsDone(p) \/ EndImport(p)
  BY <1>2 DEF Stamp, ScoreCards, ClearTags, SetTags, TagsDone, EndImport, fileVars
<1>3. CASE ScryfallSearch(p) \/ ImportFound(p) \/ NextIsTag(p) \/ MarkCards(p) \/ CubePage(p)
  BY <1>3 DEF ScryfallSearch, ImportFound, NextIsTag, MarkCards, CubePage, fileVars
<1>4. CASE Ask(p) \/ Count(p) \/ Note(p) \/ CompleteExpires(p) \/ RecentEnds \/ AllDone
  BY <1>4 DEF Ask, Count, Note, NoteAt, CompleteExpires, RecentEnds, AllDone, vars, fileVars
<1> QED BY <1>1, <1>2, <1>3, <1>4 DEF AwayFromFiles

FileSet == [name : Nat, tmp : (Procs \cup {"final"}) \X Nat, bytes : Nat, whole : BOOLEAN, stale : BOOLEAN]
Stages == {"rest", "check", "prune", "download", "open", "read", "raised"}
FetchSet == [at : Stages, key : Keys \cup {"none"}, name : Nat, seen : SUBSET FileSet, bytes : Nat,
             whole : BOOLEAN, attempt : Nat]
Busy == {"check", "prune", "download", "open", "read"}

(* What a process is at, once it is written out.                           *)
Fetching(at, key, name, seen, bytes, whole, attempt) ==
  [at |-> at, key |-> key, name |-> name, seen |-> seen, bytes |-> bytes, whole |-> whole, attempt |-> attempt]
LEMMA FetchingType ==
  ASSUME NEW at \in Stages, NEW key \in Keys \cup {"none"}, NEW name \in Nat, NEW seen \in SUBSET FileSet,
         NEW bytes \in Nat, NEW whole \in BOOLEAN, NEW attempt \in Nat
  PROVE  Fetching(at, key, name, seen, bytes, whole, attempt) \in FetchSet
BY Zenon DEF Fetching, FetchSet
LEMMA FetchingFields ==
  ASSUME NEW f \in FetchSet
  PROVE  /\ f = Fetching(f.at, f.key, f.name, f.seen, f.bytes, f.whole, f.attempt)
         /\ f.at \in Stages /\ f.key \in Keys \cup {"none"} /\ f.name \in Nat /\ f.seen \in SUBSET FileSet
         /\ f.bytes \in Nat /\ f.whole \in BOOLEAN /\ f.attempt \in Nat
BY DEF Fetching, FetchSet

LEMMA FetchingRaised ==
  ASSUME NEW whole, NEW f, f = Fetching("rest", "none", 0, {}, 0, whole, 0), NEW attempt
  PROVE  [f EXCEPT !.at = "raised", !.attempt = attempt] = Fetching("raised", "none", 0, {}, 0, whole, attempt)
<1>1. [f EXCEPT !.at = "raised", !.attempt = attempt]
        = [i \in DOMAIN f |-> IF i = "attempt" THEN attempt ELSE IF i = "at" THEN "raised" ELSE f[i]]
  OBVIOUS
<1> QED BY <1>1 DEF Fetching
LEMMA FetchingRests ==
  ASSUME NEW whole, NEW f, f = Fetching("rest", "none", 0, {}, 0, whole, 0), NEW attempt
  PROVE  [f EXCEPT !.attempt = attempt] = Fetching("rest", "none", 0, {}, 0, whole, attempt)
BY DEF Fetching
LEMMA RestingIs == BulkFiles!Resting = Fetching("rest", "none", 0, {}, 0, TRUE, 0)
BY DEF BulkFiles!Resting, Fetching

LEMMA LocatedIs ==
  ASSUME NEW key, NEW name, NEW attempt
  PROVE  [BulkFiles!Resting EXCEPT !.at = "check", !.key = key, !.name = name, !.attempt = attempt]
           = Fetching("check", key, name, {}, 0, TRUE, attempt)
<1> DEFINE yes == TRUE
           f == BulkFiles!Resting
<1>1. f = Fetching("rest", "none", 0, {}, 0, yes, 0)
  BY RestingIs
<1> HIDE DEF yes, f
<1>2. [f EXCEPT !.at = "check", !.key = key, !.name = name, !.attempt = attempt]
        = Fetching("check", key, name, {}, 0, yes, attempt)
  <2>1. [f EXCEPT !.at = "check", !.key = key, !.name = name, !.attempt = attempt]
          = [i \in DOMAIN f |-> IF i = "attempt" THEN attempt ELSE IF i = "name" THEN name
                                ELSE IF i = "key" THEN key ELSE IF i = "at" THEN "check" ELSE f[i]]
    OBVIOUS
  <2> QED BY <1>1, <2>1 DEF Fetching
<1> QED BY Zenon, <1>2 DEF f, yes

(* A .tmp file has the name of an attempt, and attempts are counted from   *)
(* one, so that none is taken for a file with its final name.              *)
FilesInv ==
  /\ published \in Nat /\ listed \in [Procs -> Nat]
  /\ dir \in [Keys -> SUBSET FileSet] /\ fetch \in [Procs -> FetchSet]
  /\ \A p \in Procs : fetch[p].at \in Busy => fetch[p].attempt >= 1 /\ fetch[p].key \in Keys
  /\ FinalFilesWhole

(* Files with a final name are those that were there, or the whole one     *)
(* that a download has just renamed.                                       *)
LEMMA FilesStep ==
  ASSUME FilesInv, NEW p \in Procs,
         \/ \E key \in Keys : BulkFiles!Locate(p, key)
         \/ BulkFiles!FetchStep(p) \/ BulkFiles!ReadFails(p)
         \/ BulkFiles!ListingExpires(p) \/ BulkFiles!Stall(p)
  PROVE  FilesInv'
<1>a. /\ published \in Nat /\ listed \in [Procs -> Nat] /\ dir \in [Keys -> SUBSET FileSet]
      /\ fetch \in [Procs -> FetchSet]
  BY DEF FilesInv
<1>g. /\ fetch[p].at \in Stages /\ fetch[p].key \in Keys \cup {"none"} /\ fetch[p].bytes \in Nat
      /\ fetch[p].whole \in BOOLEAN /\ fetch[p] \in FetchSet /\ fetch[p].seen \in SUBSET FileSet
      /\ fetch[p].name \in Nat /\ fetch[p].attempt \in Nat
  BY <1>a, FetchingFields
<1>b. /\ fetch[p] \in FetchSet /\ fetch[p].attempt \in Nat /\ fetch[p].name \in Nat /\ BulkFiles!Listing(p) \in Nat
      /\ fetch[p].seen \subseteq FileSet
  BY <1>a DEF FetchSet, BulkFiles!Listing
<1>c. \A k \in Keys : \A f \in dir[k] : f \in FileSet /\ (f.tmp = <<"final", 0>> => f.whole)
  BY <1>a DEF FilesInv, FinalFilesWhole, BulkFiles!FinalFilesWhole
<1>d. fetch[p].at \in Busy => /\ fetch[p].attempt >= 1 /\ fetch[p].key \in Keys
                              /\ BulkFiles!TmpOf(p) \in (Procs \cup {"final"}) \X Nat
                              /\ BulkFiles!TmpOf(p) # <<"final", 0>>
  BY <1>b DEF FilesInv, BulkFiles!TmpOf
(* What the step makes of p's fetch, and of the files of its key.          *)
<1>f. ASSUME NEW r \in FetchSet, fetch' = [fetch EXCEPT ![p] = r],
             r.at \in Busy => r.attempt >= 1 /\ r.key \in Keys,
             r.at = "read" => r.whole,
             published' \in Nat, listed' \in [Procs -> Nat],
             dir' \in [Keys -> SUBSET FileSet],
             \A k \in Keys : \A f \in dir'[k] : f.tmp = <<"final", 0>> => f.whole
      PROVE  FilesInv'
  <2>1. fetch' \in [Procs -> FetchSet] /\ \A q \in Procs : fetch'[q] = IF q = p THEN r ELSE fetch[q]
    BY <1>a, <1>f
  <2> QED BY <1>f, <2>1 DEF FilesInv, FinalFilesWhole, BulkFiles!FinalFilesWhole
<1>k. ASSUME NEW key \in Keys, NEW files \in SUBSET FileSet, dir' = [dir EXCEPT ![key] = files],
             \A f \in files : f.tmp = <<"final", 0>> => f.whole
      PROVE  /\ dir' \in [Keys -> SUBSET FileSet]
             /\ \A k \in Keys : \A f \in dir'[k] : f.tmp = <<"final", 0>> => f.whole
  <2>1. \A k \in Keys : dir'[k] = IF k = key THEN files ELSE dir[k]
    BY <1>a, <1>k
  <2> QED BY <1>a, <1>c, <1>k, <2>1
<1>s. UNCHANGED dir => /\ dir' \in [Keys -> SUBSET FileSet]
                       /\ \A k \in Keys : \A f \in dir'[k] : f.tmp = <<"final", 0>> => f.whole
  BY <1>a, <1>c
<1>t. [BulkFiles!Resting EXCEPT !.at = "raised", !.attempt = fetch[p].attempt] \in FetchSet
  <2>1. Fetching("raised", "none", 0, {}, 0, TRUE, fetch[p].attempt) \in FetchSet
    BY <1>g, FetchingType DEF Stages
  <2>2. [BulkFiles!Resting EXCEPT !.at = "raised", !.attempt = fetch[p].attempt]
          = Fetching("raised", "none", 0, {}, 0, TRUE, fetch[p].attempt)
    BY RestingIs, FetchingRaised
  <2> QED BY <2>1, <2>2
<1>m. ASSUME NEW where \in Stages, BulkFiles!At(p, where)
      PROVE  /\ fetch' = [fetch EXCEPT ![p] = [fetch[p] EXCEPT !.at = where]]
             /\ [fetch[p] EXCEPT !.at = where] \in FetchSet
             /\ [fetch[p] EXCEPT !.at = where].at = where
             /\ [fetch[p] EXCEPT !.at = where].attempt = fetch[p].attempt
             /\ [fetch[p] EXCEPT !.at = where].key = fetch[p].key
             /\ [fetch[p] EXCEPT !.at = where].whole = fetch[p].whole
  <2>1. Fetching(where, fetch[p].key, fetch[p].name, fetch[p].seen, fetch[p].bytes, fetch[p].whole, fetch[p].attempt) \in FetchSet
    BY <1>g, FetchingType
  <2>2. fetch[p] = Fetching(fetch[p].at, fetch[p].key, fetch[p].name, fetch[p].seen, fetch[p].bytes, fetch[p].whole, fetch[p].attempt)
    BY <1>g, FetchingFields
  <2>3. [fetch[p] EXCEPT !.at = where]
          = Fetching(where, fetch[p].key, fetch[p].name, fetch[p].seen, fetch[p].bytes, fetch[p].whole, fetch[p].attempt)
    BY <2>2 DEF Fetching
  <2>4. fetch' = [fetch EXCEPT ![p] = [fetch[p] EXCEPT !.at = where]]
    BY <1>a, <1>m DEF BulkFiles!At
  <2> QED BY <2>1, <2>3, <2>4 DEF Fetching
<1>r. ASSUME BulkFiles!Raise(p), UNCHANGED <<published, listed>>, dir' \in [Keys -> SUBSET FileSet],
             \A k \in Keys : \A f \in dir'[k] : f.tmp = <<"final", 0>> => f.whole
      PROVE  FilesInv'
  <2> DEFINE r == [BulkFiles!Resting EXCEPT !.at = "raised", !.attempt = fetch[p].attempt]
  <2>1. fetch' = [fetch EXCEPT ![p] = r] /\ r.at = "raised" /\ r \in FetchSet
    BY <1>r, <1>t DEF BulkFiles!Raise, BulkFiles!Resting
  <2> HIDE DEF r
  <2> QED BY <1>a, <1>f, <1>r, <2>1 DEF Busy
<1>1. ASSUME NEW key \in Keys, BulkFiles!Locate(p, key)  PROVE FilesInv'
  <2> DEFINE r == [BulkFiles!Resting EXCEPT !.at = "check", !.key = key, !.name = BulkFiles!Listing(p),
                                            !.attempt = fetch[p].attempt + 1]
  <2>1. fetch' = [fetch EXCEPT ![p] = r] /\ listed' = [listed EXCEPT ![p] = BulkFiles!Listing(p)]
        /\ UNCHANGED <<published, dir>>
    BY <1>1 DEF BulkFiles!Locate
  <2>2. r \in FetchSet /\ r.attempt >= 1 /\ r.key \in Keys /\ r.at = "check"
    <3>1. Fetching("check", key, BulkFiles!Listing(p), {}, 0, TRUE, fetch[p].attempt + 1) \in FetchSet
      <4>1. fetch[p].attempt + 1 \in Nat /\ {} \in SUBSET FileSet
        BY <1>g
      <4> HIDE DEF r
      <4> QED BY <1>b, <4>1, FetchingType DEF Stages
    <3>2. r = Fetching("check", key, BulkFiles!Listing(p), {}, 0, TRUE, fetch[p].attempt + 1)
      BY Zenon, LocatedIs
    <3> QED BY <1>b, <3>1, <3>2 DEF Fetching
  <2> HIDE DEF r
  <2>3. listed' \in [Procs -> Nat]
    BY <1>a, <1>b, <2>1
  <2> QED BY <1>a, <1>f, <1>s, <2>1, <2>2, <2>3
<1>2. CASE BulkFiles!CheckCached(p)
  <2>1. fetch[p].at = "check" /\ UNCHANGED <<published, listed, dir>>
    BY <1>2 DEF BulkFiles!CheckCached
  <2>2. CASE BulkFiles!At(p, "open")
    <3> DEFINE r == [fetch[p] EXCEPT !.at = "open"]
    <3>1. /\ fetch' = [fetch EXCEPT ![p] = r] /\ r \in FetchSet /\ r.at = "open"
          /\ r.attempt = fetch[p].attempt /\ r.key = fetch[p].key
      <4>1. "open" \in Stages
        BY DEF Stages
      <4> QED BY <1>m, <2>2, <4>1
    <3> HIDE DEF r
    <3> QED BY <1>a, <1>d, <1>f, <1>s, <2>1, <3>1 DEF Busy
  <2>3. CASE fetch' = [fetch EXCEPT ![p].at = "prune", ![p].seen = dir[fetch[p].key]]
    <3> DEFINE r == [fetch[p] EXCEPT !.at = "prune", !.seen = dir[fetch[p].key]]
    <3>1. dir[fetch[p].key] \in SUBSET FileSet
      BY <1>a, <1>d, <2>1 DEF Busy
    <3>2. fetch' = [fetch EXCEPT ![p] = r]
      BY <1>a, <2>3
    <3>3. r \in FetchSet /\ r.at = "prune" /\ r.attempt = fetch[p].attempt /\ r.key = fetch[p].key
      <4>1. Fetching("prune", fetch[p].key, fetch[p].name, dir[fetch[p].key], fetch[p].bytes, fetch[p].whole, fetch[p].attempt)
              \in FetchSet
        BY <1>g, <3>1, FetchingType DEF Stages
      <4>2. fetch[p] = Fetching(fetch[p].at, fetch[p].key, fetch[p].name, fetch[p].seen, fetch[p].bytes, fetch[p].whole, fetch[p].attempt)
        BY <1>g, FetchingFields
      <4>3. r = Fetching("prune", fetch[p].key, fetch[p].name, dir[fetch[p].key], fetch[p].bytes, fetch[p].whole, fetch[p].attempt)
        <5>1. r = [i \in DOMAIN fetch[p] |->
                     IF i = "seen" THEN dir[fetch[p].key] ELSE IF i = "at" THEN "prune" ELSE fetch[p][i]]
          OBVIOUS
        <5> QED BY <4>2, <5>1 DEF Fetching
      <4> QED BY <4>1, <4>3 DEF Fetching
    <3> HIDE DEF r
    <3> QED BY <1>a, <1>d, <1>f, <1>s, <2>1, <3>2, <3>3 DEF Busy
  <2> QED BY <1>2, <2>2, <2>3 DEF BulkFiles!CheckCached
<1>3. CASE BulkFiles!Prune(p)
  <2>1. PICK f \in fetch[p].seen :
          /\ fetch' = [fetch EXCEPT ![p].seen = @ \ {f}]
          /\ \E gone : dir' = [dir EXCEPT ![fetch[p].key] = @ \ gone]
    BY <1>3 DEF BulkFiles!Prune
  <2>2. PICK gone : dir' = [dir EXCEPT ![fetch[p].key] = @ \ gone]
    BY <2>1
  <2>3. fetch[p].at = "prune" /\ fetch[p].key \in Keys /\ UNCHANGED <<published, listed>>
    BY <1>3, <1>d DEF BulkFiles!Prune, Busy
  <2> DEFINE r == [fetch[p] EXCEPT !.seen = @ \ {f}]
             files == dir[fetch[p].key] \ gone
  <2>4. fetch' = [fetch EXCEPT ![p] = r] /\ dir' = [dir EXCEPT ![fetch[p].key] = files]
    BY <1>a, <2>1, <2>2
  <2>5. r \in FetchSet /\ r.at = "prune" /\ r.attempt = fetch[p].attempt /\ r.key = fetch[p].key
    BY <1>b, <2>3 DEF FetchSet
  <2>6. files \in SUBSET FileSet /\ \A g \in files : g.tmp = <<"final", 0>> => g.whole
    BY <1>a, <1>c, <2>3
  <2> HIDE DEF r, files
  <2> QED BY <1>a, <1>d, <1>f, <1>k, <2>3, <2>4, <2>5, <2>6 DEF Busy
<1>4. CASE BulkFiles!StartDownload(p)
  <2> DEFINE new == BulkFiles!File(fetch[p].name, BulkFiles!TmpOf(p), BulkFiles!Listing(p), FALSE)
             files == dir[fetch[p].key] \cup {new}
             r == [fetch[p] EXCEPT !.at = "download"]
  <2>1. /\ fetch[p].at = "prune" /\ fetch[p].key \in Keys /\ UNCHANGED published
        /\ listed' = [listed EXCEPT ![p] = BulkFiles!Listing(p)]
        /\ dir' = [dir EXCEPT ![fetch[p].key] = files] /\ BulkFiles!At(p, "download")
    BY <1>4, <1>d DEF BulkFiles!StartDownload, Busy
  <2>2. new \in FileSet /\ new.tmp # <<"final", 0>>
    BY <1>b, <1>d, <2>1 DEF FileSet, Busy, BulkFiles!File
  <2>3. /\ fetch' = [fetch EXCEPT ![p] = r] /\ r \in FetchSet /\ r.at = "download"
        /\ r.attempt = fetch[p].attempt /\ r.key = fetch[p].key
    <3>1. "download" \in Stages
      BY DEF Stages
    <3> QED BY <1>m, <2>1, <3>1
  <2> HIDE DEF r, new
  <2>4. files \in SUBSET FileSet /\ \A g \in files : g.tmp = <<"final", 0>> => g.whole
    BY <1>a, <1>c, <2>1, <2>2
  <2>5. listed' \in [Procs -> Nat]
    BY <1>a, <1>b, <2>1
  <2> HIDE DEF files
  <2> QED BY <1>a, <1>d, <1>f, <1>k, <2>1, <2>3, <2>4, <2>5 DEF Busy
<1>e. BulkFiles!Mine(p) \subseteq dir[fetch[p].key]
  BY DEF BulkFiles!Mine
<1>5. CASE BulkFiles!FinishDownload(p)
  <2>1. fetch[p].at = "download" /\ fetch[p].key \in Keys /\ UNCHANGED <<published, listed>>
    BY <1>5, <1>d DEF BulkFiles!FinishDownload, Busy
  <2> DEFINE made(f) == [f EXCEPT !.tmp = <<"final", 0>>, !.whole = TRUE, !.stale = FALSE]
             rest == {f \in dir[fetch[p].key] : f.tmp # BulkFiles!TmpOf(p) /\ f \notin BulkFiles!Final(fetch[p].key, fetch[p].name)}
             renamed == rest \cup {made(f) : f \in BulkFiles!Mine(p)}
             left == dir[fetch[p].key] \ BulkFiles!Mine(p)
             r == [fetch[p] EXCEPT !.at = "open"]
  <2>2. \/ dir' = [dir EXCEPT ![fetch[p].key] = renamed] /\ BulkFiles!At(p, "open")
        \/ dir' = [dir EXCEPT ![fetch[p].key] = left] /\ BulkFiles!Raise(p)
    BY <1>5 DEF BulkFiles!FinishDownload
  <2>3. \A f \in FileSet : made(f) \in FileSet /\ made(f).whole
    BY DEF FileSet
  <2> HIDE DEF made
  <2>4. renamed \in SUBSET FileSet /\ \A g \in renamed : g.tmp = <<"final", 0>> => g.whole
    BY <1>a, <1>c, <1>e, <2>1, <2>3
  <2>5. left \in SUBSET FileSet /\ \A g \in left : g.tmp = <<"final", 0>> => g.whole
    BY <1>a, <1>c, <2>1
  <2> HIDE DEF left, renamed
  <2>6. CASE dir' = [dir EXCEPT ![fetch[p].key] = renamed] /\ BulkFiles!At(p, "open")
    <3>1. /\ fetch' = [fetch EXCEPT ![p] = r] /\ r \in FetchSet /\ r.at = "open"
          /\ r.attempt = fetch[p].attempt /\ r.key = fetch[p].key
      <4>1. "open" \in Stages
        BY DEF Stages
      <4> QED BY <1>m, <2>6, <4>1
    <3> HIDE DEF r
    <3> QED BY <1>a, <1>d, <1>f, <1>k, <2>1, <2>4, <2>6, <3>1 DEF Busy
  <2>7. CASE dir' = [dir EXCEPT ![fetch[p].key] = left] /\ BulkFiles!Raise(p)
    BY <1>k, <1>r, <2>1, <2>5, <2>7
  <2> QED BY <2>2, <2>6, <2>7
<1>6. CASE BulkFiles!OpenFile(p)
  <2> DEFINE found == BulkFiles!Final(fetch[p].key, fetch[p].name)
             f == CHOOSE x \in found : TRUE
             r == [fetch[p] EXCEPT !.at = "read", !.bytes = f.bytes, !.whole = f.whole]
  <2>1. fetch[p].at = "open" /\ fetch[p].key \in Keys /\ UNCHANGED <<published, listed, dir>>
    BY <1>6, <1>d DEF BulkFiles!OpenFile, Busy
  <2>2. CASE found = {}
    BY <1>6, <1>r, <1>s, <2>1, <2>2 DEF BulkFiles!OpenFile
  <2>3. CASE found # {}
    <3>1. f \in found
      BY <2>3
    <3>2. f \in dir[fetch[p].key] /\ f.tmp = <<"final", 0>>
      BY <3>1 DEF BulkFiles!Final
    <3>3. f \in FileSet /\ f.whole /\ f.whole \in BOOLEAN /\ f.bytes \in Nat
      BY <1>c, <2>1, <3>2 DEF FileSet
    <3>4. fetch' = [fetch EXCEPT ![p] = r]
      BY <1>6, <1>a, <2>3 DEF BulkFiles!OpenFile
    <3> HIDE DEF f, found
    <3>5. r \in FetchSet /\ r.at = "read" /\ r.attempt = fetch[p].attempt /\ r.key = fetch[p].key /\ r.whole
      <4>1. Fetching("read", fetch[p].key, fetch[p].name, fetch[p].seen, f.bytes, f.whole, fetch[p].attempt) \in FetchSet
        BY <1>g, <3>3, FetchingType DEF Stages
      <4>2. fetch[p] = Fetching(fetch[p].at, fetch[p].key, fetch[p].name, fetch[p].seen, fetch[p].bytes, fetch[p].whole, fetch[p].attempt)
        BY <1>g, FetchingFields
      <4>3. r = Fetching("read", fetch[p].key, fetch[p].name, fetch[p].seen, f.bytes, f.whole, fetch[p].attempt)
        <5>1. r = [i \in DOMAIN fetch[p] |-> IF i = "whole" THEN f.whole ELSE IF i = "bytes" THEN f.bytes
                                             ELSE IF i = "at" THEN "read" ELSE fetch[p][i]]
          OBVIOUS
        <5> QED BY <4>2, <5>1 DEF Fetching
      <4> QED BY <3>3, <4>1, <4>3 DEF Fetching
    <3> HIDE DEF r
    <3> QED BY <1>a, <1>d, <1>f, <1>s, <2>1, <3>4, <3>5 DEF Busy
  <2> QED BY <2>2, <2>3
<1>7. CASE BulkFiles!ReadFails(p)
  <2>1. fetch[p].at = "read" /\ fetch[p].key \in Keys /\ UNCHANGED <<published, listed>> /\ BulkFiles!Raise(p)
    BY <1>7, <1>d DEF BulkFiles!ReadFails, Busy
  <2>2. PICK gone : dir' = [dir EXCEPT ![fetch[p].key] = @ \ gone]
    <3>1. PICK corrupt \in BOOLEAN :
            dir' = [dir EXCEPT ![fetch[p].key] = IF corrupt THEN @ \ BulkFiles!Final(fetch[p].key, fetch[p].name) ELSE @]
      BY <1>7 DEF BulkFiles!ReadFails
    <3> DEFINE gone == IF corrupt THEN BulkFiles!Final(fetch[p].key, fetch[p].name) ELSE {}
    <3>2. dir' = [dir EXCEPT ![fetch[p].key] = @ \ gone]
      BY <3>1
    <3> QED BY <3>2
  <2> DEFINE files == dir[fetch[p].key] \ gone
  <2>3. files \in SUBSET FileSet /\ \A g \in files : g.tmp = <<"final", 0>> => g.whole
    BY <1>a, <1>c, <2>1
  <2>4. dir' = [dir EXCEPT ![fetch[p].key] = files]
    BY <2>2
  <2> HIDE DEF files
  <2> QED BY <1>k, <1>r, <2>1, <2>3, <2>4
<1>8. CASE BulkFiles!ListingExpires(p)
  <2>1. listed' = [listed EXCEPT ![p] = 0] /\ UNCHANGED <<published, dir, fetch>>
    BY <1>8 DEF BulkFiles!ListingExpires
  <2> QED BY <1>a, <2>1 DEF FilesInv, FinalFilesWhole, BulkFiles!FinalFilesWhole
<1>9. CASE BulkFiles!Stall(p)
  <2> DEFINE slow(f) == [f EXCEPT !.stale = TRUE]
             files == (dir[fetch[p].key] \ BulkFiles!Mine(p)) \cup {slow(f) : f \in BulkFiles!Mine(p)}
  <2>1. /\ fetch[p].at = "download" /\ fetch[p].key \in Keys /\ UNCHANGED <<published, listed, fetch>>
        /\ dir' = [dir EXCEPT ![fetch[p].key] = files]
    BY <1>9, <1>d DEF BulkFiles!Stall, Busy
  <2>2. \A f \in FileSet : slow(f) \in FileSet /\ slow(f).whole = f.whole /\ slow(f).tmp = f.tmp
    BY DEF FileSet
  <2> HIDE DEF slow
  <2>3. files \in SUBSET FileSet /\ \A g \in files : g.tmp = <<"final", 0>> => g.whole
    BY <1>a, <1>c, <1>e, <2>1, <2>2
  <2> HIDE DEF files
  <2>4. /\ dir' \in [Keys -> SUBSET FileSet]
        /\ \A k \in Keys : \A f \in dir'[k] : f.tmp = <<"final", 0>> => f.whole
    BY <1>k, <2>1, <2>3
  <2> QED BY <2>1, <2>4 DEF FilesInv, FinalFilesWhole, BulkFiles!FinalFilesWhole
<1> QED BY <1>1, <1>2, <1>3, <1>4, <1>5, <1>6, <1>7, <1>8, <1>9 DEF BulkFiles!FetchStep

LEMMA FilesInitOK == Init => FilesInv
<1> SUFFICES ASSUME Init  PROVE FilesInv
  OBVIOUS
<1>1. BulkFiles!Resting \in FetchSet
  BY RestingIs, FetchingType DEF Stages
<1>2. /\ published = 1 /\ listed = [p \in Procs |-> 0] /\ dir = [k \in Keys |-> {}]
      /\ fetch = [p \in Procs |-> BulkFiles!Resting]
  BY DEF Init, BulkFiles!FilesInit
<1>3. BulkFiles!Resting.at = "rest"
  BY DEF BulkFiles!Resting
<1> QED BY <1>1, <1>2, <1>3 DEF FilesInv, Busy, FinalFilesWhole, BulkFiles!FinalFilesWhole

(* A process that is through with a file, or is stopped, is at rest.       *)
LEMMA FilesAtRest ==
  ASSUME FilesInv, NEW p \in Procs,
         \/ fetch' = [fetch EXCEPT ![p].at = "rest"]
         \/ fetch' = [fetch EXCEPT ![p] = [BulkFiles!Resting EXCEPT !.attempt = fetch[p].attempt]],
         UNCHANGED <<published, listed, dir>>
  PROVE  FilesInv'
<1>1. /\ fetch \in [Procs -> FetchSet] /\ fetch[p] \in FetchSet
  BY DEF FilesInv
<1>2. PICK r \in FetchSet : fetch' = [fetch EXCEPT ![p] = r] /\ r.at = "rest"
  <2>1. CASE fetch' = [fetch EXCEPT ![p].at = "rest"]
    <3> DEFINE f == fetch[p]
               r == Fetching("rest", f.key, f.name, f.seen, f.bytes, f.whole, f.attempt)
    <3>1. /\ f = Fetching(f.at, f.key, f.name, f.seen, f.bytes, f.whole, f.attempt)
          /\ f.key \in Keys \cup {"none"} /\ f.name \in Nat /\ f.seen \in SUBSET FileSet
          /\ f.bytes \in Nat /\ f.whole \in BOOLEAN /\ f.attempt \in Nat
      BY <1>1, FetchingFields
    <3>2. r \in FetchSet
      BY <3>1, FetchingType DEF Stages
    <3>3. fetch' = [fetch EXCEPT ![p] = [f EXCEPT !.at = "rest"]]
      BY <2>1
    <3>4. [f EXCEPT !.at = "rest"] = r /\ r.at = "rest"
      BY <3>1 DEF Fetching
    <3> QED BY <3>2, <3>3, <3>4
  <2>2. CASE fetch' = [fetch EXCEPT ![p] = [BulkFiles!Resting EXCEPT !.attempt = fetch[p].attempt]]
    <3>1. fetch[p].attempt \in Nat
      BY <1>1, FetchingFields
    <3>2. Fetching("rest", "none", 0, {}, 0, TRUE, fetch[p].attempt) \in FetchSet
      BY <3>1, FetchingType DEF Stages
    <3>3. [BulkFiles!Resting EXCEPT !.attempt = fetch[p].attempt] = Fetching("rest", "none", 0, {}, 0, TRUE, fetch[p].attempt)
      BY RestingIs, FetchingRests
    <3>4. Fetching("rest", "none", 0, {}, 0, TRUE, fetch[p].attempt).at = "rest"
      BY DEF Fetching
    <3> QED BY <2>2, <3>2, <3>3, <3>4
  <2> QED BY <2>1, <2>2
<1>3. fetch' \in [Procs -> FetchSet] /\ \A q \in Procs : fetch'[q] = IF q = p THEN r ELSE fetch[q]
  BY <1>1, <1>2
<1> QED BY <1>2, <1>3 DEF FilesInv, Busy, FinalFilesWhole, BulkFiles!FinalFilesWhole

LEMMA FilesCrash ==
  ASSUME FilesInv, BulkFiles!CrashFiles  PROVE FilesInv'
<1> DEFINE rest(q) == [BulkFiles!Resting EXCEPT !.attempt = fetch[q].attempt]
           left(f) == IF f.tmp = <<"final", 0>> THEN f ELSE [f EXCEPT !.stale = TRUE]
<1>1. /\ published' = published /\ published \in Nat /\ listed' = [p \in Procs |-> 0]
      /\ dir' = [k \in Keys |-> {left(f) : f \in dir[k]}] /\ fetch' = [q \in Procs |-> rest(q)]
  BY DEF BulkFiles!CrashFiles, FilesInv
<1>2. ASSUME NEW q \in Procs  PROVE rest(q) \in FetchSet /\ rest(q).at = "rest"
  <2>1. fetch[q].attempt \in Nat
    BY FetchingFields DEF FilesInv
  <2>2. Fetching("rest", "none", 0, {}, 0, TRUE, fetch[q].attempt) \in FetchSet
    BY <2>1, FetchingType DEF Stages
  <2>3. rest(q) = Fetching("rest", "none", 0, {}, 0, TRUE, fetch[q].attempt)
    BY RestingIs, FetchingRests
  <2>4. Fetching("rest", "none", 0, {}, 0, TRUE, fetch[q].attempt).at = "rest"
    BY DEF Fetching
  <2> QED BY <2>2, <2>3, <2>4
<1>3. \A f \in FileSet : left(f) \in FileSet /\ left(f).whole = f.whole /\ left(f).tmp = f.tmp
  BY DEF FileSet
<1>4. \A k \in Keys : dir[k] \in SUBSET FileSet /\ \A f \in dir[k] : f.tmp = <<"final", 0>> => f.whole
  BY DEF FilesInv, FinalFilesWhole, BulkFiles!FinalFilesWhole
<1> HIDE DEF rest, left
<1>5. \A k \in Keys : {left(f) : f \in dir[k]} \in SUBSET FileSet
  BY <1>3, <1>4
<1>6. dir' \in [Keys -> SUBSET FileSet] /\ \A k \in Keys : \A f \in dir'[k] : f.tmp = <<"final", 0>> => f.whole
  BY <1>1, <1>3, <1>4, <1>5
<1>7. fetch' \in [Procs -> FetchSet] /\ \A q \in Procs : fetch'[q].at = "rest"
  BY <1>1, <1>2
<1> QED BY <1>1, <1>6, <1>7 DEF FilesInv, Busy, FinalFilesWhole, BulkFiles!FinalFilesWhole

LEMMA FilesNext ==
  ASSUME IngestAssumption, FilesInv, [Next]_vars  PROVE FilesInv'
<1>u. ASSUME UNCHANGED fileVars  PROVE FilesInv'
  BY <1>u DEF fileVars, FilesInv, FinalFilesWhole, BulkFiles!FinalFilesWhole
<1>1. ASSUME NEW p \in Procs, Work(p) \/ CompleteExpires(p)  PROVE FilesInv'
  <2>1. CASE AwayFromFiles(p)
    BY <1>u, <2>1, FilesUntouched
  <2>2. CASE Fetch(p)
    <3>1. KeyOf(p) \in Keys
      BY DEF KeyOf, IngestAssumption
    <3> QED BY <2>2, <3>1, FilesStep DEF Fetch
  <2>3. CASE ReadFails(p)
    BY <2>3, FilesStep DEF ReadFails
  <2>4. CASE FetchRaised(p)
    BY <2>4, FilesAtRest DEF FetchRaised
  <2>5. CASE ImportCards(p) \/ SyncHierarchy(p)
    <3>1. Fetched(p) /\ UNCHANGED <<published, listed, dir>>
      BY <2>5 DEF ImportCards, SyncHierarchy
    <3> QED BY <3>1, FilesAtRest DEF Fetched
  <2> QED BY <1>1, <2>1, <2>2, <2>3, <2>4, <2>5 DEF Work, AwayFromFiles
<1>2. CASE FilesChange
  <2>1. CASE BulkFiles!Publish
    <3>1. published' = published + 1 /\ UNCHANGED <<listed, dir, fetch>>
      BY <2>1 DEF BulkFiles!Publish
    <3> QED BY <3>1 DEF FilesInv, FinalFilesWhole, BulkFiles!FinalFilesWhole
  <2>2. CASE \E p \in Procs : BulkFiles!ListingExpires(p) \/ BulkFiles!Stall(p)
    BY <2>2, FilesStep
  <2> QED BY <1>2, <2>1, <2>2 DEF FilesChange
<1>3. CASE Restart
  BY <1>3, FilesCrash DEF Restart
<1>4. CASE RecentEnds \/ AllDone
  BY <1>4, <1>u, FilesUntouched
<1>5. CASE UNCHANGED vars
  BY <1>5, <1>u DEF vars
<1> QED BY <1>1, <1>2, <1>3, <1>4, <1>5 DEF Next

(* A file that can be found under its final name is complete, and so is    *)
(* what a reader has open, however the processes race for it, wherever a   *)
(* download is cut or the container stops: "racers waste a duplicate       *)
(* download but never corrupt the cache file".                             *)
THEOREM FilesStayWhole == Spec => []FinalFilesWhole
<1>1. Init => FilesInv
  BY FilesInitOK
<1>2. FilesInv /\ [Next]_vars => FilesInv'
  BY IngestAssumption, FilesNext
<1>3. FilesInv => FinalFilesWhole
  BY DEF FilesInv
<1> QED BY <1>1, <1>2, <1>3, PTL DEF Spec

-----------------------------------------------------------------------------
(* Schema setup.                                                           *)

(* Where files are only ever added the rows are a prefix of the files, at  *)
(* the comparison and while files are applied.  A process that applies     *)
(* them has found the first n applied, and the rows are those and the ones *)
(* it has been through.                                                    *)
Holds(p) == boot[p].at \in {"compare", "apply"} => guard = p
Applying(p) ==
  /\ boot[p].next \in 1 .. Len(fs) + 1
  /\ \E n \in 0 .. Len(fs) : /\ boot[p].applied = {fs[i].sha : i \in 1 .. n}
                             /\ Len(migrations) = IF boot[p].next - 1 > n THEN boot[p].next - 1 ELSE n
Prefix == Len(migrations) <= Len(fs) /\ \A i \in 1 .. Len(migrations) : migrations[i] = fs[i]
Appended ==
  /\ Prefix
  /\ ready => Len(migrations) = Len(fs)
  /\ \A p \in Procs : Holds(p)
  /\ \A p \in Procs : boot[p].at = "apply" => Applying(p)

SetupStages == {"out", "wait", "compare", "apply", "done", "raised"}
BootSet == [at : SetupStages, applied : SUBSET Nat, next : Nat \ {0}]
SchemaInv ==
  /\ world \in DOMAIN Scenarios
  /\ deployed \in DOMAIN setting.deploys /\ fs = setting.deploys[deployed]
  /\ boot \in [Procs -> BootSet]
  /\ migrations = executed /\ migrations \in Seq(Migration)
  /\ setting.appended => Appended

(* What the scenarios are assumed to say of the files.                     *)
LEMMA Deploys ==
  ASSUME DeploysAssumption, world \in DOMAIN Scenarios
  PROVE  /\ setting.deploys \in Seq(Seq(Migration)) /\ setting.deploys # <<>> /\ setting.applied \in Seq(Migration)
         /\ setting.appended =>
              /\ IsPrefix(setting.applied, setting.deploys[1])
              /\ \A i \in 1 .. Len(setting.deploys) - 1 : IsPrefix(setting.deploys[i], setting.deploys[i + 1])
              /\ \A i \in DOMAIN setting.deploys : \A a, b \in DOMAIN setting.deploys[i] :
                   setting.deploys[i][a].sha = setting.deploys[i][b].sha => a = b
BY DEF DeploysAssumption, setting

LEMMA PrefixMeans ==
  ASSUME NEW S, NEW s \in Seq(S), NEW t \in Seq(S), IsPrefix(s, t)
  PROVE  Len(s) <= Len(t) /\ \A i \in 1 .. Len(s) : s[i] = t[i]
<1>1. Len(s) <= Len(t) /\ SubSeq(s, 1, Len(s)) = SubSeq(t, 1, Len(s))
  BY DEF IsPrefix
<1>2. \A i \in 1 .. Len(s) : SubSeq(s, 1, Len(s))[i] = s[i] /\ SubSeq(t, 1, Len(s))[i] = t[i]
  BY <1>1
<1> QED BY <1>1, <1>2

LEMMA OutType == Schema!Out \in BootSet /\ Schema!Out.at = "out"
BY DEF Schema!Out, BootSet, SetupStages

LEMMA ToType ==
  ASSUME NEW where \in SetupStages
  PROVE  [Schema!Out EXCEPT !.at = where] \in BootSet /\ [Schema!Out EXCEPT !.at = where].at = where
BY DEF Schema!Out, BootSet, SetupStages

LEMMA SchemaInitOK == ASSUME DeploysAssumption, Init  PROVE SchemaInv
<1>1. world \in DOMAIN Scenarios /\ deployed = 1
  BY DEF Init
<1>2. /\ fs = setting.deploys[1] /\ migrations = setting.applied /\ executed = setting.applied /\ ready = FALSE
      /\ boot = [p \in Procs |-> Schema!Out]
  BY DEF Init, Schema!SchemaInit
<1>3. /\ 1 \in DOMAIN setting.deploys /\ setting.deploys[1] \in Seq(Migration) /\ setting.applied \in Seq(Migration)
  BY <1>1, Deploys
<1>4. boot \in [Procs -> BootSet] /\ \A p \in Procs : boot[p].at = "out"
  BY <1>2, OutType
<1>5. ASSUME setting.appended  PROVE Appended
  <2>1. Prefix
    BY <1>1, <1>2, <1>3, <1>5, Deploys, PrefixMeans DEF Prefix
  <2> QED BY <1>2, <1>4, <2>1 DEF Appended, Holds
<1> QED BY <1>1, <1>2, <1>3, <1>4, <1>5 DEF SchemaInv

(* A step of one process in setup_schema().                                *)
LEMMA SchemaStep ==
  ASSUME DeploysAssumption, SchemaInv, NEW p \in Procs, UNCHANGED <<world, deployed>>,
         Schema!SetupStep(p) \/ Schema!SetupFail(p)
  PROVE  SchemaInv'
<1>a. /\ world \in DOMAIN Scenarios /\ deployed \in DOMAIN setting.deploys /\ fs = setting.deploys[deployed]
      /\ boot \in [Procs -> BootSet] /\ migrations = executed /\ migrations \in Seq(Migration) /\ setting' = setting
  BY DEF SchemaInv, setting
<1>b. fs \in Seq(Migration) /\ Len(fs) \in Nat /\ Len(migrations) \in Nat
  BY <1>a, Deploys
<1>c. boot[p] \in BootSet /\ boot[p].next \in Nat \ {0} /\ boot[p].applied \in SUBSET Nat
  BY <1>a DEF BootSet
<1>d. ASSUME setting.appended  PROVE \A a, b \in 1 .. Len(fs) : fs[a].sha = fs[b].sha => a = b
  <2>1. \A i \in DOMAIN setting.deploys : \A a, b \in DOMAIN setting.deploys[i] :
          setting.deploys[i][a].sha = setting.deploys[i][b].sha => a = b
    BY <1>a, <1>d, Deploys
  <2>2. \A a, b \in DOMAIN fs : fs[a].sha = fs[b].sha => a = b
    BY <1>a, <2>1
  <2> QED BY <1>b, <2>2
<1>e. UNCHANGED fs
  BY DEF Schema!SetupStep, Schema!SetupFail, Schema!SetupEnter, Schema!SetupLock, Schema!SetupCompare, Schema!SetupApply, Schema!SetupDone
(* It is enough to say what becomes of p and of the rows.                  *)
<1>f. ASSUME NEW b \in BootSet, boot' = [boot EXCEPT ![p] = b],
             migrations' = executed', migrations' \in Seq(Migration),
             setting.appended => /\ Prefix'
                                 /\ ready' => Len(migrations') = Len(fs)
                                 /\ b.at \in {"compare", "apply"} => guard' = p
                                 /\ b.at = "apply" => Applying(p)'
                                 /\ \/ guard' = guard /\ migrations' = migrations
                                    \/ guard' = guard /\ guard = p
                                    \/ migrations' = migrations /\ guard \in {"free", p}
      PROVE  SchemaInv'
  <2>1. boot' \in [Procs -> BootSet] /\ \A q \in Procs : boot'[q] = IF q = p THEN b ELSE boot[q]
    BY <1>a, <1>f
  <2>2. ASSUME setting.appended  PROVE Appended'
    <3>1. ASSUME NEW q \in Procs, q # p  PROVE Holds(q)' /\ (boot'[q].at = "apply" => Applying(q)')
      <4>1. boot'[q] = boot[q] /\ q # "free"
        BY <2>1, <3>1 DEF DeploysAssumption
      <4>2. Holds(q) /\ (boot[q].at = "apply" => Applying(q))
        BY <2>2 DEF SchemaInv, Appended
      <4>3. CASE boot[q].at \in {"compare", "apply"}
        <5>1. guard = q
          BY <4>2, <4>3 DEF Holds
        <5>2. guard' = guard /\ migrations' = migrations
          BY <1>f, <2>2, <3>1, <4>1, <5>1
        <5>3. Applying(q)' = Applying(q)
          BY <1>e, <4>1, <5>2 DEF Applying
        <5> QED BY <4>1, <4>2, <5>1, <5>2, <5>3 DEF Holds
      <4>4. CASE boot[q].at \notin {"compare", "apply"}
        BY <4>1, <4>4 DEF Holds
      <4> QED BY <4>3, <4>4
    <3>2. Holds(p)' /\ (boot'[p].at = "apply" => Applying(p)')
      BY <1>f, <2>1, <2>2 DEF Holds
    <3> QED BY <1>e, <1>f, <2>2, <3>1, <3>2 DEF Appended
  <2> QED BY <1>a, <1>e, <1>f, <2>1, <2>2 DEF SchemaInv
<1>g. setting.appended => Appended
  BY DEF SchemaInv
<1>w. Prefix /\ migrations' = migrations => Prefix'
  BY <1>e DEF Prefix
<1>h. ASSUME NEW where \in SetupStages, Schema!To(p, where), where \notin {"compare", "apply"},
             UNCHANGED <<migrations, executed>>,
             setting.appended => guard \in {"free", p} \/ guard' = guard,
             ready' => ready \/ (setting.appended => Len(migrations) = Len(fs))
      PROVE  SchemaInv'
  <2> DEFINE b == [Schema!Out EXCEPT !.at = where]
  <2>1. b \in BootSet /\ b.at = where /\ boot' = [boot EXCEPT ![p] = b]
    BY <1>h, ToType DEF Schema!To
  <2> HIDE DEF b
  <2>2. setting.appended => Prefix' /\ (ready' => Len(migrations') = Len(fs))
    BY <1>g, <1>h, <1>w DEF Appended
  <2> QED BY <1>a, <1>f, <1>h, <2>1, <2>2
<1>1. CASE Schema!SetupEnter(p)
  <2>1. PICK where \in {"done", "wait"} : Schema!To(p, where)
    BY <1>1 DEF Schema!SetupEnter
  <2>2. UNCHANGED <<migrations, executed, ready, guard>>
    BY <1>1 DEF Schema!SetupEnter
  <2> QED BY <1>h, <2>1, <2>2 DEF SetupStages
<1>2. CASE Schema!SetupLock(p)
  <2>1. guard = "free" /\ UNCHANGED <<migrations, executed, ready>>
    BY <1>2 DEF Schema!SetupLock
  <2>2. CASE Schema!To(p, "done") /\ UNCHANGED guard
    BY <1>h, <2>1, <2>2 DEF SetupStages
  <2>3. CASE Schema!To(p, "compare") /\ guard' = p
    <3> DEFINE b == [Schema!Out EXCEPT !.at = "compare"]
    <3>1. b \in BootSet /\ b.at = "compare" /\ boot' = [boot EXCEPT ![p] = b]
      BY <2>3, ToType DEF Schema!To, SetupStages
    <3> HIDE DEF b
    <3>2. setting.appended => Prefix' /\ (ready' => Len(migrations') = Len(fs))
      BY <1>g, <1>w, <2>1 DEF Appended
    <3> QED BY <1>a, <1>f, <2>1, <2>3, <3>1, <3>2
  <2> QED BY <1>2, <2>2, <2>3 DEF Schema!SetupLock
(* Where files are only ever added no pair differs.                        *)
<1>3. CASE Schema!SetupCompare(p)
  <2> DEFINE seen == {migrations[i].sha : i \in {j \in Schema!Pairs : \A d \in Schema!Differ : d < j}}
             b == [at |-> "apply", next |-> 1, applied |-> seen]
  <2>1. /\ boot[p].at = "compare" /\ boot' = [boot EXCEPT ![p] = b] /\ UNCHANGED <<ready, guard>>
        /\ \/ Schema!Differ = {} /\ UNCHANGED <<migrations, executed>>
           \/ Schema!Differ # {} /\ migrations' = <<>> /\ executed' = <<>>
    BY <1>3 DEF Schema!SetupCompare
  <2>2. Schema!Pairs \subseteq 1 .. Len(migrations)
    BY <1>b DEF Schema!Pairs
  <2>3. \A i \in 1 .. Len(migrations) : migrations[i].sha \in Nat
    <3>1. \A i \in 1 .. Len(migrations) : migrations[i] \in Migration
      BY <1>a
    <3> QED BY <3>1 DEF Migration
  <2>4. seen \in SUBSET Nat
    BY <2>2, <2>3
  <2>5. ASSUME setting.appended
        PROVE  /\ Schema!Differ = {} /\ Len(migrations) <= Len(fs)
               /\ seen = {fs[i].sha : i \in 1 .. Len(migrations)}
    <3>1. Len(migrations) <= Len(fs) /\ \A i \in 1 .. Len(migrations) : migrations[i] = fs[i]
      BY <1>g, <2>5 DEF Appended, Prefix
    <3>2. Schema!Pairs = 1 .. Len(migrations)
      BY <1>b, <3>1 DEF Schema!Pairs
    <3>3. Schema!Differ = {}
      BY <3>1, <3>2 DEF Schema!Differ
    <3>4. seen = {migrations[i].sha : i \in 1 .. Len(migrations)}
      BY <3>2, <3>3
    <3> QED BY <3>1, <3>3, <3>4
  <2> HIDE DEF seen
  <2>6. b \in BootSet /\ b.at = "apply" /\ b.next = 1 /\ b.applied = seen
    BY <2>4 DEF BootSet, SetupStages
  <2> HIDE DEF b
  <2>7. ASSUME setting.appended
        PROVE  /\ Prefix' /\ (ready' => Len(migrations') = Len(fs)) /\ guard' = p /\ Applying(p)'
               /\ migrations' = migrations
    <3>1. Appended /\ migrations' = migrations /\ guard = p
      BY <1>g, <2>1, <2>5, <2>7 DEF Appended, Holds
    <3>2. boot'[p] = b
      BY <1>a, <2>1
    <3>3. Applying(p)'
      <4> DEFINE n == Len(migrations)
      <4>1. n \in 0 .. Len(fs) /\ b.applied = {fs[i].sha : i \in 1 .. n}
        BY <1>b, <2>5, <2>6, <2>7
      <4>2. Len(migrations) = IF b.next - 1 > n THEN b.next - 1 ELSE n
        BY <1>b, <2>6
      <4>3. b.next \in 1 .. Len(fs) + 1
        BY <1>b, <2>6
      <4> HIDE DEF n
      <4> QED BY <1>e, <3>1, <3>2, <4>1, <4>2, <4>3 DEF Applying
    <3> QED BY <1>w, <2>1, <3>1, <3>3 DEF Appended
  <2>8. migrations' = executed' /\ migrations' \in Seq(Migration)
    <3>1. <<>> \in Seq(Migration)
      OBVIOUS
    <3> QED BY <1>a, <2>1, <3>1
  <2> QED BY <1>f, <2>1, <2>6, <2>7, <2>8
<1>4. CASE Schema!SetupApply(p)
  <2> DEFINE m == fs[boot[p].next]
             b == [boot[p] EXCEPT !.next = @ + 1]
  <2>1. /\ boot[p].at = "apply" /\ boot[p].next <= Len(fs) /\ UNCHANGED <<ready, guard>>
        /\ boot' = [boot EXCEPT ![p] = b]
        /\ \/ m.sha \in boot[p].applied /\ UNCHANGED <<migrations, executed>>
           \/ m.sha \notin boot[p].applied /\ executed' = Append(executed, m) /\ migrations' = Append(migrations, m)
    BY <1>4, <1>a DEF Schema!SetupApply
  <2>2. b \in BootSet /\ b.at = "apply" /\ b.next = boot[p].next + 1 /\ b.applied = boot[p].applied
    BY <1>c, <2>1 DEF BootSet
  <2> HIDE DEF b
  <2>3. boot'[p] = b
    BY <1>a, <2>1
  <2>4. ASSUME setting.appended
        PROVE  /\ Prefix' /\ (ready' => Len(migrations') = Len(fs)) /\ guard' = p /\ Applying(p)'
               /\ guard = p /\ migrations' \in Seq(Migration)
    <3>1. Appended /\ guard = p /\ Applying(p)
      BY <1>g, <2>1, <2>4 DEF Appended, Holds
    <3>2. PICK n \in 0 .. Len(fs) : /\ boot[p].applied = {fs[i].sha : i \in 1 .. n}
                                    /\ Len(migrations) = IF boot[p].next - 1 > n THEN boot[p].next - 1 ELSE n
      BY <3>1 DEF Applying
    <3>3. boot[p].next \in 1 .. Len(fs)
      BY <1>b, <1>c, <2>1, <3>1 DEF Applying
    <3>4. (m.sha \in boot[p].applied) <=> boot[p].next <= n
      <4>1. m.sha \in boot[p].applied => boot[p].next <= n
        <5>1. SUFFICES ASSUME NEW i \in 1 .. n, m.sha = fs[i].sha  PROVE boot[p].next <= n
          BY <3>2
        <5>2. i \in 1 .. Len(fs)
          BY <1>b, <3>2
        <5>3. boot[p].next = i
          BY <1>d, <2>4, <3>3, <5>1, <5>2
        <5> QED BY <3>2, <5>3
      <4>2. boot[p].next <= n => boot[p].next \in 1 .. n
        BY <1>c, <3>2, <3>3
      <4> QED BY <3>2, <4>1, <4>2
    <3>5. CASE m.sha \in boot[p].applied
      <4>1. migrations' = migrations /\ boot[p].next <= n
        BY <2>1, <3>4, <3>5
      <4>2. /\ b.next \in 1 .. Len(fs) + 1
            /\ Len(migrations) = IF b.next - 1 > n THEN b.next - 1 ELSE n
        BY <1>b, <1>c, <2>2, <3>2, <3>3, <4>1
      <4>3. Applying(p)'
        BY <1>e, <2>2, <2>3, <3>2, <4>1, <4>2 DEF Applying
      <4> QED BY <1>a, <1>w, <2>1, <3>1, <4>1, <4>3 DEF Appended
    <3>6. CASE m.sha \notin boot[p].applied
      <4>1. migrations' = Append(migrations, m) /\ boot[p].next > n /\ Len(migrations) = boot[p].next - 1
        BY <1>b, <1>c, <2>1, <3>2, <3>4, <3>6
      <4>2. m \in Migration
        BY <1>b, <3>3
      <4>3. /\ migrations' \in Seq(Migration) /\ Len(migrations') = boot[p].next
            /\ \A i \in 1 .. Len(migrations') : migrations'[i] = IF i = boot[p].next THEN m ELSE migrations[i]
        BY <1>a, <1>b, <1>c, <4>1, <4>2
      <4>4. Len(migrations') <= Len(fs) /\ \A i \in 1 .. Len(migrations') : migrations'[i] = fs[i]
        BY <1>b, <1>c, <3>1, <3>3, <4>1, <4>3 DEF Appended, Prefix
      <4>5. ~ ready
        BY <1>b, <1>c, <2>1, <3>1, <4>1 DEF Appended
      <4>6. /\ b.next \in 1 .. Len(fs) + 1
            /\ Len(migrations') = IF b.next - 1 > n THEN b.next - 1 ELSE n
        BY <1>b, <1>c, <2>2, <3>2, <3>3, <4>1, <4>3
      <4>7. Applying(p)'
        BY <1>e, <2>2, <2>3, <3>2, <4>6 DEF Applying
      <4>8. Prefix'
        BY <1>e, <4>4 DEF Prefix
      <4> QED BY <2>1, <3>1, <4>3, <4>5, <4>7, <4>8
    <3> QED BY <3>5, <3>6
  <2>5. migrations' = executed' /\ migrations' \in Seq(Migration)
    <3>1. boot[p].next \in 1 .. Len(fs) => m \in Migration
      BY <1>b
    <3>2. boot[p].next \in 1 .. Len(fs)
      BY <1>b, <1>c, <2>1
    <3>3. m \in Migration
      BY <3>1, <3>2
    <3> HIDE DEF m
    <3>4. Append(migrations, m) \in Seq(Migration)
      BY <1>a, <3>3
    <3> QED BY <1>a, <2>1, <3>4
  <2> QED BY <1>f, <2>1, <2>2, <2>4, <2>5
<1>5. CASE Schema!SetupDone(p)
  <2>1. /\ boot[p].at = "apply" /\ boot[p].next > Len(fs) /\ UNCHANGED <<migrations, executed>>
        /\ guard' = "free" /\ Schema!To(p, "done")
    BY <1>5 DEF Schema!SetupDone
  <2>2. ASSUME setting.appended  PROVE guard = p /\ Len(migrations) = Len(fs)
    <3>1. guard = p /\ Applying(p)
      BY <1>g, <2>1, <2>2 DEF Appended, Holds
    <3> QED BY <1>b, <1>c, <2>1, <3>1 DEF Applying
  <2> QED BY <1>h, <2>1, <2>2 DEF SetupStages
<1>6. CASE Schema!SetupFail(p)
  <2>1. boot[p].at = "apply" /\ UNCHANGED <<migrations, executed, ready>> /\ guard' = "free" /\ Schema!To(p, "raised")
    BY <1>6 DEF Schema!SetupFail
  <2>2. setting.appended => guard = p
    BY <1>g, <2>1 DEF Appended, Holds
  <2> QED BY <1>h, <2>1, <2>2 DEF SetupStages
<1> QED BY <1>1, <1>2, <1>3, <1>4, <1>5, <1>6 DEF Schema!SetupStep

(* Steps that leave the schema alone.                                      *)
AwayFromSchema(p) ==
  \/ Start(p) \/ DiscoverFails(p) \/ LockImport(p)
  \/ Fetch(p) \/ ReadFails(p) \/ FetchRaised(p) \/ ImportCards(p) \/ Stamp(p) \/ ScoreCards(p)
  \/ SyncHierarchy(p) \/ ClearTags(p) \/ SetTags(p) \/ TagsDone(p) \/ EndImport(p)
  \/ ScryfallSearch(p) \/ ImportFound(p) \/ NextIsTag(p) \/ MarkCards(p) \/ CubePage(p)
  \/ Ask(p) \/ Count(p) \/ Note(p) \/ CompleteExpires(p)

LEMMA SchemaUntouched ==
  ASSUME NEW p, AwayFromSchema(p) \/ RecentEnds \/ FilesChange \/ AllDone
  PROVE  UNCHANGED <<world, deployed, schemaVars>>
<1>1. CASE Start(p) \/ DiscoverFails(p) \/ LockImport(p) \/ Fetch(p) \/ ReadFails(p) \/ FetchRaised(p)
  BY <1>1 DEF Start, DiscoverFails, LockImport, Fetch, ReadFails, FetchRaised, schemaVars
<1>2. CASE ImportCards(p) \/ Stamp(p) \/ ScoreCards(p) \/ SyncHierarchy(p) \/ ClearTags(p) \/ SetTags(p)
  BY <1>2 DEF ImportCards, Stamp, ScoreCards, SyncHierarchy, ClearTags, SetTags, schemaVars
<1>3. CASE TagsDone(p) \/ EndImport(p) \/ ScryfallSearch(p) \/ ImportFound(p) \/ NextIsTag(p) \/ MarkCards(p) \/ CubePage(p)
  BY <1>3 DEF TagsDone, EndImport, ScryfallSearch, ImportFound, NextIsTag, MarkCards, CubePage, schemaVars
<1>4. CASE Ask(p) \/ Count(p) \/ Note(p) \/ CompleteExpires(p)
  BY <1>4 DEF Ask, Count, Note, NoteAt, CompleteExpires, schemaVars
<1>5. CASE RecentEnds \/ FilesChange \/ AllDone
  BY <1>5 DEF RecentEnds, FilesChange, AllDone, vars, schemaVars
<1> QED BY <1>1, <1>2, <1>3, <1>4, <1>5 DEF AwayFromSchema

LEMMA SchemaKept == ASSUME SchemaInv, UNCHANGED <<world, deployed, schemaVars>>  PROVE SchemaInv'
<1>1. UNCHANGED <<world, deployed, fs, migrations, executed, ready, guard, boot>> /\ setting' = setting
  BY DEF schemaVars, setting
<1>2. UNCHANGED <<Prefix, Appended>>
  BY <1>1 DEF Prefix, Appended, Holds, Applying
<1> QED BY <1>1, <1>2 DEF SchemaInv

(* A process that is out of setup_schema() holds no lock; after a restart  *)
(* all are, and the new files begin with those of the version before.      *)
LEMMA SchemaLeft ==
  ASSUME SchemaInv, NEW p \in Procs, boot[p].at \in {"done", "raised"}, boot' = [boot EXCEPT ![p] = Schema!Out],
         UNCHANGED <<world, deployed, fs, migrations, executed, ready, guard>>
  PROVE  SchemaInv'
<1>1. boot \in [Procs -> BootSet] /\ setting' = setting
  BY DEF SchemaInv, setting
<1>2. boot' \in [Procs -> BootSet] /\ \A q \in Procs : boot'[q] = IF q = p THEN Schema!Out ELSE boot[q]
  BY <1>1, OutType
<1>3. ASSUME Appended  PROVE Appended'
  <2>1. UNCHANGED Prefix
    BY DEF Prefix
  <2>2. \A q \in Procs : Holds(q)' /\ (boot'[q].at = "apply" => Applying(q)')
    <3>1. ASSUME NEW q \in Procs, q # p  PROVE Holds(q)' /\ (boot'[q].at = "apply" => Applying(q)')
      <4>1. boot'[q] = boot[q]
        BY <1>2, <3>1
      <4> QED BY <1>3, <4>1 DEF Appended, Holds, Applying
    <3> QED BY <1>2, <3>1, OutType DEF Holds
  <2> QED BY <1>3, <2>1, <2>2 DEF Appended
<1> QED BY <1>1, <1>2, <1>3 DEF SchemaInv

LEMMA SchemaRestart == ASSUME DeploysAssumption, SchemaInv, Restart  PROVE SchemaInv'
<1>1. /\ world' = world /\ setting' = setting /\ world \in DOMAIN Scenarios
      /\ deployed < Len(setting.deploys) /\ deployed' = deployed + 1
      /\ fs' = setting.deploys[deployed + 1] /\ ready' = FALSE /\ boot' = [p \in Procs |-> Schema!Out]
      /\ UNCHANGED <<migrations, executed>>
  BY DEF Restart, Schema!Redeploy, setting, SchemaInv
<1>2. /\ deployed \in 1 .. Len(setting.deploys) /\ deployed' \in 1 .. Len(setting.deploys)
      /\ fs = setting.deploys[deployed] /\ migrations = executed /\ migrations \in Seq(Migration)
      /\ fs \in Seq(Migration) /\ fs' \in Seq(Migration)
  BY <1>1, Deploys DEF SchemaInv
<1>3. boot' \in [Procs -> BootSet] /\ \A q \in Procs : boot'[q].at = "out"
  BY <1>1, OutType
<1>4. ASSUME setting.appended  PROVE Appended'
  <2>1. Prefix
    BY <1>4 DEF SchemaInv, Appended
  <2>2. IsPrefix(fs, fs')
    <3>1. \A i \in 1 .. Len(setting.deploys) - 1 : IsPrefix(setting.deploys[i], setting.deploys[i + 1])
      BY <1>1, <1>4, Deploys
    <3>2. deployed \in 1 .. Len(setting.deploys) - 1
      BY <1>1, <1>2
    <3> QED BY <1>1, <1>2, <3>1, <3>2
  <2>3. Len(fs) <= Len(fs') /\ \A i \in 1 .. Len(fs) : fs[i] = fs'[i]
    BY <1>2, <2>2, PrefixMeans
  <2>4. Prefix'
    BY <1>1, <1>2, <2>1, <2>3 DEF Prefix
  <2> QED BY <1>1, <1>3, <2>4 DEF Appended, Holds
<1> QED BY <1>1, <1>2, <1>3, <1>4 DEF SchemaInv

LEMMA SchemaNext == ASSUME DeploysAssumption, SchemaInv, [Next]_vars  PROVE SchemaInv'
<1>1. ASSUME NEW p \in Procs, Work(p) \/ CompleteExpires(p)  PROVE SchemaInv'
  <2>1. CASE AwayFromSchema(p)
    BY <2>1, SchemaUntouched, SchemaKept
  <2>2. CASE SetUp(p)
    <3>1. UNCHANGED <<world, deployed>> /\ (Schema!SetupStep(p) \/ Schema!SetupFail(p))
      BY <2>2 DEF SetUp
    <3> QED BY <3>1, SchemaStep
  <2>3. CASE AfterSetup(p)
    <3>1. /\ boot[p].at \in {"done", "raised"} /\ boot' = [boot EXCEPT ![p] = Schema!Out]
          /\ UNCHANGED <<world, deployed, fs, migrations, executed, ready, guard>>
      BY <2>3 DEF AfterSetup
    <3> QED BY <3>1, SchemaLeft
  <2> QED BY <1>1, <2>1, <2>2, <2>3 DEF Work, AwayFromSchema
<1>2. CASE RecentEnds \/ FilesChange \/ AllDone
  <2>1. UNCHANGED <<world, deployed, schemaVars>>
    BY <1>2 DEF RecentEnds, FilesChange, AllDone, vars, schemaVars
  <2> QED BY <2>1, SchemaKept
<1>3. CASE Restart
  BY <1>3, SchemaRestart
<1>4. CASE UNCHANGED vars
  <2>1. UNCHANGED <<world, deployed, schemaVars>>
    BY <1>4 DEF vars
  <2> QED BY <2>1, SchemaKept
<1> QED BY <1>1, <1>2, <1>3, <1>4 DEF Next

LEMMA SchemaInvSound == ASSUME DeploysAssumption, SchemaInv  PROVE SchemaSound
<1>1. world \in DOMAIN Scenarios /\ deployed \in DOMAIN setting.deploys /\ fs = setting.deploys[deployed]
      /\ migrations = executed /\ migrations \in Seq(Migration)
  BY DEF SchemaInv
<1>2. fs \in Seq(Migration)
  BY <1>1, Deploys
<1>3. ASSUME setting.appended, ready  PROVE Schema!Range(fs) \subseteq Schema!Range(executed)
  <2>1. Len(migrations) = Len(fs) /\ \A i \in 1 .. Len(migrations) : migrations[i] = fs[i]
    BY <1>3 DEF SchemaInv, Appended, Prefix
  <2> QED BY <1>1, <1>2, <2>1 DEF Schema!Range
<1> QED BY <1>1, <1>3 DEF SchemaSound, MigrationsTellTheTruth, DeployedFilesHaveRun, Schema!MigrationsTellTheTruth,
                          Schema!ReadyMeansMigrated

(* What the migrations table says has run, in the order it says, through   *)
(* failed scripts, crashes, processes that start together and new versions *)
(* of the code; and where files are only ever added, no request is served  *)
(* after the event before every file of the deployed version has run.      *)
THEOREM SetupCanBeTrusted == Spec => []SchemaSound
<1>1. Init => SchemaInv
  BY DeploysAssumption, SchemaInitOK
<1>2. SchemaInv /\ [Next]_vars => SchemaInv'
  BY DeploysAssumption, SchemaNext
<1>3. SchemaInv => SchemaSound
  BY DeploysAssumption, SchemaInvSound
<1> QED BY <1>1, <1>2, <1>3, PTL DEF Spec

-----------------------------------------------------------------------------
(* Induction along a range, and the recursion of the rows' functions.      *)

LEMMA LeastMember ==
  ASSUME NEW S, S \subseteq Nat, S # {}  PROVE Min(S) \in S /\ \A j \in S : Min(S) <= j
<1>1. PICK m \in S : \A j \in S : ~(<<j, m>> \in OpToRel(<, Nat))
  BY NatLessThanWellFounded, WFMin
<1>2. \A j \in S : ~(j < m)
  BY <1>1 DEF OpToRel
<1>3. \A j \in S : m <= j
  BY <1>2
<1> QED BY <1>3 DEF Min

LEMMA RangeInduction ==
  ASSUME NEW N \in Nat, NEW S, NEW c, c[0] \in S,
         \A n \in 1 .. N : c[n - 1] \in S => c[n] \in S
  PROVE  \A n \in 0 .. N : c[n] \in S
<1> DEFINE B == {n \in 0 .. N : c[n] \notin S}
<1> SUFFICES ASSUME B # {}  PROVE FALSE
  OBVIOUS
<1> HIDE DEF B
<1>1. B \subseteq Nat
  BY DEF B
<1>2. Min(B) \in B /\ \A j \in B : Min(B) <= j
  BY <1>1, LeastMember
<1> DEFINE m == Min(B)
<1>3. m \in B /\ \A j \in B : m <= j
  BY <1>2
<1> HIDE DEF m
<1>4. m \in 1 .. N /\ m - 1 \in 0 .. N /\ ~(m <= m - 1)
  BY <1>3 DEF B
<1>5. c[m - 1] \in S
  BY <1>3, <1>4 DEF B
<1> QED BY <1>3, <1>4, <1>5 DEF B

(* A list of lists of rows, flattened, is a list of the same rows.         *)
LEMMA FlattenType ==
  ASSUME NEW S, NEW seqs \in Seq(Seq(S))  PROVE FlattenSeq(seqs) \in Seq(S)
<1> DEFINE N == Len(seqs)
<1>1. N \in Nat /\ \A i \in 1 .. N : seqs[i] \in Seq(S)
  OBVIOUS
<1>2. CASE N = 0
  BY <1>2 DEF FlattenSeq
<1>3. CASE N # 0
  <2> DEFINE Body(f) == [i \in 1 .. N |-> IF i = 1 THEN seqs[i] ELSE f[i - 1] \o seqs[i]]
             Part(f, n) == f = [i \in 1 .. n |-> IF i = 1 THEN seqs[i] ELSE f[i - 1] \o seqs[i]] /\ f \in [1 .. n -> Seq(S)]
             G == {n \in 0 .. N : \E f : Part(f, n)}
             c == [n \in 0 .. N |-> n]
  <2>1. c[0] \in G
    <3> DEFINE z == [i \in 1 .. 0 |-> <<>>]
    <3>1. Part(z, 0)
      OBVIOUS
    <3> HIDE DEF z, Part
    <3> QED BY <1>1, <3>1
  <2>2. ASSUME NEW n \in 1 .. N, c[n - 1] \in G  PROVE c[n] \in G
    <3>1. n - 1 \in 0 .. N /\ n \in 0 .. N /\ c[n - 1] = n - 1 /\ c[n] = n
      BY <1>1
    <3>2. PICK f : Part(f, n - 1)
      BY <2>2, <3>1
    <3> DEFINE last == IF n = 1 THEN seqs[n] ELSE f[n - 1] \o seqs[n]
               g == [i \in 1 .. n |-> IF i = n THEN last ELSE f[i]]
    <3>3. last \in Seq(S)
      <4>1. CASE n = 1
        BY <1>1, <4>1
      <4>2. CASE n # 1
        <5>1. f[n - 1] \in Seq(S) /\ seqs[n] \in Seq(S)
          BY <1>1, <3>2, <4>2
        <5> QED BY <4>2, <5>1
      <4> QED BY <4>1, <4>2
    <3>4. \A i \in 1 .. n - 1 : f[i] \in Seq(S) /\ f[i] = IF i = 1 THEN seqs[i] ELSE f[i - 1] \o seqs[i]
      BY <3>2
    <3>5. g \in [1 .. n -> Seq(S)]
      <4> HIDE DEF last
      <4>1. \A i \in 1 .. n : i # n => i \in 1 .. n - 1
        BY <1>1
      <4> QED BY <3>3, <3>4, <4>1
    <3>6. ASSUME NEW i \in 1 .. n  PROVE g[i] = IF i = 1 THEN seqs[i] ELSE g[i - 1] \o seqs[i]
      <4>1. CASE i = n
        <5>1. n # 1 => n - 1 \in 1 .. n /\ n - 1 # n
          BY <1>1
        <5> QED BY <4>1, <5>1
      <4>2. CASE i # n
        <5>1. i \in 1 .. n - 1 /\ (i # 1 => i - 1 \in 1 .. n /\ i - 1 # n)
          BY <1>1, <4>2
        <5> HIDE DEF last
        <5> QED BY <3>4, <4>2, <5>1
      <4> QED BY <4>1, <4>2
    <3>7. Part(g, n)
      <4> HIDE DEF g
      <4> QED BY <3>5, <3>6
    <3> HIDE DEF g, Part
    <3> QED BY <3>1, <3>7
  <2> HIDE DEF G, c
  <2>3. \A n \in 0 .. N : c[n] \in G
    BY <1>1, <2>1, <2>2, RangeInduction
  <2>4. PICK a : Part(a, N)
    <3>1. N \in 0 .. N
      BY <1>1
    <3>2. N \in G
      BY <2>3, <3>1 DEF c
    <3> QED BY <3>2 DEF G
  <2> DEFINE F == CHOOSE f : f = Body(f)
  <2>5. a = Body(a)
    BY <2>4
  <2>6. F = Body(F)
    <3> HIDE DEF Body
    <3> QED BY <2>5
  <2>7. FlattenSeq(seqs) = F[N]
    BY <1>3 DEF FlattenSeq
  <2> HIDE DEF F
  <2> DEFINE d == [n \in 0 .. N |-> IF n = 0 THEN <<>> ELSE F[n]]
  <2>8. d[0] \in Seq(S)
    OBVIOUS
  <2>9. ASSUME NEW n \in 1 .. N, d[n - 1] \in Seq(S)  PROVE d[n] \in Seq(S)
    <3>1. F[n] = IF n = 1 THEN seqs[n] ELSE F[n - 1] \o seqs[n]
      BY <2>6
    <3>2. d[n] = F[n] /\ (n # 1 => d[n - 1] = F[n - 1])
      BY <1>1
    <3>3. CASE n = 1
      BY <1>1, <3>1, <3>2, <3>3
    <3>4. CASE n # 1
      <4>1. F[n - 1] \in Seq(S) /\ seqs[n] \in Seq(S)
        BY <1>1, <2>9, <3>2, <3>4
      <4>2. F[n - 1] \o seqs[n] \in Seq(S)
        BY <4>1
      <4> HIDE DEF F
      <4> QED BY <3>1, <3>2, <3>4, <4>2
    <3> QED BY <3>3, <3>4
  <2> HIDE DEF d
  <2>10. \A n \in 0 .. N : d[n] \in Seq(S)
    BY <1>1, <2>8, <2>9, RangeInduction
  <2>11. N \in 0 .. N /\ d[N] = F[N]
    BY <1>1, <1>3 DEF d
  <2> QED BY <2>7, <2>10, <2>11
<1> QED BY <1>2, <1>3

-----------------------------------------------------------------------------
(* Rows of a card.                                                         *)

(* The columns that every row of an import has.                            *)
Kept == {"face_name", "face_idx", "flavor_text", "scryfall_id", "card_types", "card_subtypes",
         "creature_power", "creature_power_text", "mana_cost_text", "devotion", "collector_number_int",
         "card_oracle_tags", "card_is_tags"}
LEMMA AlwaysKept == ASSUME NEW card  PROVE DOMAIN Always(card) = Kept
BY Zenon DEF Always, Kept

LEMMA SingleKept == ASSUME NEW card  PROVE Kept \subseteq DOMAIN Single(card)
<1> DEFINE a == Always(card)
           b == Over(Sometimes(card), card)
<1>1. Single(card) = Over(a, b) /\ DOMAIN a = Kept
  BY AlwaysKept DEF Single
<1> HIDE DEF a, b
<1> QED BY <1>1 DEF Over

Row(r) == Kept \subseteq DOMAIN r

LEMMA CardRowsAre ==
  ASSUME NEW card, Has(card, "card_faces") => IsList(card["card_faces"])
  PROVE  \E S : PreprocessCard(card) \in Seq(S) /\ \A r \in S : Row(r)
<1> DEFINE named == Over([k \in {"card_name"} |-> card["name"]], card)
           faces == Get(card, "card_faces", <<>>)
           merged(i) == Without(Over([k \in {"face_idx"} |-> i], Over(faces[i], named)), "card_faces")
           faced(i) == Single(Over([k \in {"face_name"} |-> merged(i)["name"]], merged(i)))
           S == {Single(named)} \cup {faced(i) : i \in DOMAIN faces}
           parts == [i \in DOMAIN faces |-> PreprocessFace(merged(i))]
<1>1. \/ PreprocessCard(card) = <<>>
      \/ PreprocessCard(card) = <<Single(named)>>
      \/ PreprocessCard(card) = FlattenSeq(parts)
  BY Zenon DEF PreprocessCard
<1>2. Len(faces) \in Nat /\ DOMAIN faces = 1 .. Len(faces)
  BY DEF Get, IsList
<1>3. \A i \in DOMAIN faces : PreprocessFace(merged(i)) = <<>> \/ PreprocessFace(merged(i)) = <<faced(i)>>
  BY Zenon DEF PreprocessFace
<1>4. \A r \in S : Row(r)
  <2>1. Row(Single(named))
    BY SingleKept DEF Row
  <2>2. \A i \in DOMAIN faces : Row(faced(i))
    BY SingleKept DEF Row
  <2> HIDE DEF faced, named, faces
  <2> QED BY <2>1, <2>2
<1> HIDE DEF named, faced, merged, faces
<1>5. parts \in Seq(Seq(S))
  <2>1. ASSUME NEW i \in DOMAIN faces  PROVE PreprocessFace(merged(i)) \in Seq(S)
    <3> DEFINE r == faced(i)
    <3>1. r \in S
      OBVIOUS
    <3>2. PreprocessFace(merged(i)) = <<>> \/ PreprocessFace(merged(i)) = <<r>>
      BY <1>3
    <3> HIDE DEF r, S
    <3>3. <<>> \in Seq(S) /\ <<r>> \in Seq(S)
      BY <3>1
    <3> QED BY <3>2, <3>3
  <2>2. parts \in [1 .. Len(faces) -> Seq(S)]
    BY <1>2, <2>1
  <2> QED BY <1>2, <2>2
<1>6. FlattenSeq(parts) \in Seq(S)
  BY <1>5, FlattenType
<1>7. <<>> \in Seq(S) /\ <<Single(named)>> \in Seq(S)
  OBVIOUS
<1> QED BY <1>1, <1>4, <1>6, <1>7

LEMMA RowsAre ==
  ASSUME CardsAssumption, NEW cards \in Seq(Cards)
  PROVE  \E S : PreprocessAll(cards) \in Seq(S) /\ \A r \in S : Row(r)
<1> DEFINE of(i) == CHOOSE S : PreprocessCard(cards[i]) \in Seq(S) /\ \A r \in S : Row(r)
           S == UNION {of(i) : i \in DOMAIN cards}
           parts == [i \in DOMAIN cards |-> PreprocessCard(cards[i])]
<1>1. ASSUME NEW i \in DOMAIN cards  PROVE PreprocessCard(cards[i]) \in Seq(of(i)) /\ \A r \in of(i) : Row(r)
  <2>1. cards[i] \in Cards
    OBVIOUS
  <2>2. \E T : PreprocessCard(cards[i]) \in Seq(T) /\ \A r \in T : Row(r)
    BY <2>1, CardRowsAre DEF CardsAssumption
  <2> QED BY <2>2
<1> HIDE DEF of
<1>2. \A r \in S : Row(r)
  BY <1>1
<1>3. \A i \in DOMAIN cards : PreprocessCard(cards[i]) \in Seq(S)
  <2> SUFFICES ASSUME NEW i \in DOMAIN cards  PROVE PreprocessCard(cards[i]) \in Seq(S)
    OBVIOUS
  <2> DEFINE s == PreprocessCard(cards[i])
  <2>1. s \in Seq(of(i)) /\ of(i) \subseteq S
    BY <1>1
  <2> HIDE DEF s, S
  <2> QED BY <2>1 DEF s
<1> HIDE DEF S
<1>4. parts \in Seq(Seq(S))
  <2>1. Len(cards) \in Nat /\ DOMAIN cards = 1 .. Len(cards)
    OBVIOUS
  <2>2. parts \in [1 .. Len(cards) -> Seq(S)]
    BY <1>3, <2>1
  <2> QED BY <2>1, <2>2
<1>5. PreprocessAll(cards) \in Seq(S)
  BY <1>4, FlattenType DEF PreprocessAll
<1> QED BY <1>2, <1>5

-----------------------------------------------------------------------------
(* Pages of rows.                                                          *)

Low(n, size) == (n - 1) * size
LEMMA PagesAre ==
  ASSUME NEW S, NEW rows \in Seq(S), NEW size \in Nat \ {0}
  PROVE  /\ Pages(rows, size) \in Seq(Seq(S)) /\ Len(Pages(rows, size)) \in Nat
         /\ \A n \in 1 .. Len(Pages(rows, size)) : \A j \in DOMAIN Pages(rows, size)[n] :
              /\ Low(n, size) \in Nat /\ j \in 1 .. size /\ Low(n, size) + j \in 1 .. Len(rows)
              /\ Pages(rows, size)[n][j] = rows[Low(n, size) + j]
         /\ \A i \in 1 .. Len(rows) : \E n \in 1 .. Len(Pages(rows, size)) : \E j \in DOMAIN Pages(rows, size)[n] :
              i = Low(n, size) + j
<1> DEFINE L == Len(rows)
           K == (L + size - 1) \div size
           High(n) == IF n * size < L THEN n * size ELSE L
           P == Pages(rows, size)
<1>1. L \in Nat /\ \A i \in 1 .. L : rows[i] \in S
  OBVIOUS
<1>2. K \in Nat /\ K * size <= L + size - 1 /\ L + size - 1 < K * size + size /\ K * size \in Nat
  BY <1>1
<1>3. P = [n \in 1 .. K |-> SubSeq(rows, Low(n, size) + 1, High(n))]
  BY DEF Pages, Low
<1> HIDE DEF K, P
<1>4. ASSUME NEW n \in 1 .. K
      PROVE  Low(n, size) \in Nat /\ n * size \in Nat /\ Low(n, size) + size = n * size /\ Low(n, size) < L /\ Low(n, size) < High(n) /\ High(n) \in 1 .. L
  <2>1. n \in Nat \ {0} /\ n * size \in Nat /\ Low(n, size) \in Nat /\ Low(n, size) + size = n * size
    BY <1>2 DEF Low
  <2>2. n * size <= K * size
    BY <1>2, <2>1
  <2>3. Low(n, size) < L
    BY <1>1, <1>2, <2>1, <2>2
  <2> QED BY <1>1, <2>1, <2>3
<1>5. ASSUME NEW n \in 1 .. K
      PROVE  /\ P[n] = SubSeq(rows, Low(n, size) + 1, High(n))
             /\ P[n] \in Seq(S) /\ DOMAIN P[n] = 1 .. High(n) - Low(n, size)
             /\ \A j \in 1 .. High(n) - Low(n, size) : P[n][j] = rows[Low(n, size) + j]
  <2> DEFINE a == Low(n, size)
             b == High(n)
  <2>1. P[n] = SubSeq(rows, a + 1, b) /\ a \in Nat /\ b \in 1 .. L /\ a < b
    BY <1>3, <1>4
  <2> HIDE DEF a, b
  <2>2. /\ SubSeq(rows, a + 1, b) \in Seq(S) /\ DOMAIN SubSeq(rows, a + 1, b) = 1 .. b - a
        /\ \A j \in 1 .. b - a : SubSeq(rows, a + 1, b)[j] = rows[a + j]
    <3>1. Len(SubSeq(rows, a + 1, b)) = b - a
      BY <1>1, <2>1
    <3>2. \A j \in 1 .. b - a : SubSeq(rows, a + 1, b)[j] = rows[a + 1 + j - 1]
      BY <1>1, <2>1
    <3>3. SubSeq(rows, a + 1, b) \in Seq(S)
      BY <1>1, <2>1
    <3> QED BY <1>1, <2>1, <3>1, <3>2, <3>3
  <2> QED BY <2>1, <2>2 DEF a, b
<1>6. P \in Seq(Seq(S)) /\ Len(P) = K
  <2>1. P \in [1 .. K -> Seq(S)]
    BY <1>3, <1>5
  <2> QED BY <1>2, <2>1
<1>7. ASSUME NEW n \in 1 .. K, NEW j \in DOMAIN P[n]
      PROVE  j \in 1 .. size /\ Low(n, size) + j \in 1 .. L /\ P[n][j] = rows[Low(n, size) + j]
  <2>1. j \in 1 .. High(n) - Low(n, size) /\ P[n][j] = rows[Low(n, size) + j]
    BY <1>5, <1>7
  <2>2. High(n) <= n * size /\ High(n) <= L /\ High(n) \in Nat
    BY <1>1, <1>4
  <2> HIDE DEF High
  <2> QED BY <1>1, <1>4, <2>1, <2>2
<1>8. ASSUME NEW i \in 1 .. L
      PROVE  \E n \in 1 .. K : \E j \in DOMAIN P[n] : i = Low(n, size) + j
  <2> DEFINE q == (i - 1) \div size
             n == q + 1
             j == i - Low(n, size)
  <2>1. q \in Nat /\ q * size \in Nat /\ q * size <= i - 1 /\ i - 1 < q * size + size
    BY <1>1
  <2> HIDE DEF q
  <2>2. q < K
    <3>1. SUFFICES ASSUME K <= q  PROVE FALSE
      BY <1>2, <2>1
    <3>2. K * size <= q * size
      BY <1>2, <2>1, <3>1
    <3> QED BY <1>1, <1>2, <2>1, <3>2
  <2>3. n \in 1 .. K /\ Low(n, size) = q * size /\ n * size = q * size + size
    BY <1>2, <2>1, <2>2 DEF Low
  <2>4. j \in 1 .. High(n) - Low(n, size)
    BY <1>1, <2>1, <2>3
  <2>5. j \in DOMAIN P[n] /\ i = Low(n, size) + j
    BY <1>1, <1>5, <2>1, <2>3, <2>4
  <2> QED BY <2>3, <2>5
<1> QED BY <1>2, <1>4, <1>6, <1>7, <1>8 DEF P

LEMMA UpsertPagesIs ==
  ASSUME NEW t0, NEW pages, Len(pages) \in Nat
  PROVE  /\ DOMAIN UpsertPages(t0, pages) = 0 .. Len(pages)
         /\ UpsertPages(t0, pages)[0] = t0
         /\ \A n \in 1 .. Len(pages) :
              UpsertPages(t0, pages)[n] = BulkUpsert(UpsertPages(t0, pages)[n - 1], pages[n], TagColumns)
<1> DEFINE N == Len(pages)
           Body(f) == [n \in 0 .. N |-> IF n = 0 THEN t0 ELSE BulkUpsert(f[n - 1], pages[n], TagColumns)]
           Part(f, n) == f = [i \in 0 .. n |-> IF i = 0 THEN t0 ELSE BulkUpsert(f[i - 1], pages[i], TagColumns)]
           G == {n \in 0 .. N : \E f : Part(f, n)}
           c == [n \in 0 .. N |-> n]
<1>1. N \in Nat
  OBVIOUS
<1>2. c[0] \in G
  <2> DEFINE z == [i \in 0 .. 0 |-> t0]
  <2>1. Part(z, 0)
    OBVIOUS
  <2> HIDE DEF z, Part
  <2> QED BY <1>1, <2>1
<1>3. ASSUME NEW n \in 1 .. N, c[n - 1] \in G  PROVE c[n] \in G
  <2>1. n - 1 \in 0 .. N /\ n \in 0 .. N /\ c[n - 1] = n - 1 /\ c[n] = n
    BY <1>1
  <2>2. PICK f : Part(f, n - 1)
    BY <1>3, <2>1
  <2> DEFINE last == BulkUpsert(f[n - 1], pages[n], TagColumns)
             g == [i \in 0 .. n |-> IF i = n THEN last ELSE f[i]]
  <2>3. \A i \in 0 .. n - 1 : f[i] = IF i = 0 THEN t0 ELSE BulkUpsert(f[i - 1], pages[i], TagColumns)
    BY <2>2
  <2>4. ASSUME NEW i \in 0 .. n  PROVE g[i] = IF i = 0 THEN t0 ELSE BulkUpsert(g[i - 1], pages[i], TagColumns)
    <3>1. CASE i = n
      <4>1. i # 0 /\ i - 1 \in 0 .. n /\ i - 1 # n
        BY <1>1, <3>1
      <4> QED BY <3>1, <4>1
    <3>2. CASE i # n
      <4>1. i \in 0 .. n - 1 /\ (i # 0 => i - 1 \in 0 .. n /\ i - 1 # n)
        BY <1>1, <3>2
      <4> HIDE DEF last
      <4> QED BY <2>3, <3>2, <4>1
    <3> QED BY <3>1, <3>2
  <2>5. Part(g, n)
    <3>1. g = [i \in 0 .. n |-> g[i]]
      OBVIOUS
    <3> HIDE DEF g
    <3> QED BY <2>4, <3>1
  <2> HIDE DEF g, Part
  <2> QED BY <2>1, <2>5
<1> HIDE DEF G, c
<1>4. \A n \in 0 .. N : c[n] \in G
  BY <1>1, <1>2, <1>3, RangeInduction
<1>5. PICK a : Part(a, N)
  <2>1. N \in 0 .. N
    BY <1>1
  <2>2. N \in G
    BY <1>4, <2>1 DEF c
  <2> QED BY <2>2 DEF G
<1> DEFINE F == CHOOSE f : f = Body(f)
<1>6. a = Body(a)
  BY <1>5
<1>7. F = Body(F)
  <2> HIDE DEF Body
  <2> QED BY <1>6
<1>8. UpsertPages(t0, pages) = F
  BY DEF UpsertPages
<1> HIDE DEF F
<1> QED BY <1>1, <1>7, <1>8

(* What an upsert makes of a row.                                          *)
UpsertsTo(t, rows, u) ==
  /\ DOMAIN u = DOMAIN t \cup DOMAIN rows
  /\ \A id \in DOMAIN t \cup DOMAIN rows :
       /\ DOMAIN u[id] = Columns
       /\ \A c \in Columns :
            /\ id \notin DOMAIN rows => u[id][c] = t[id][c]
            /\ id \in DOMAIN rows /\ c \in DOMAIN rows[id] \ TagColumns => u[id][c] = rows[id][c]
            /\ id \in DOMAIN t /\ id \in DOMAIN rows /\ c \notin DOMAIN rows[id] => u[id][c] = t[id][c]
            /\ id \notin DOMAIN t /\ c \notin DOMAIN rows[id] /\ c \notin TagColumns => u[id][c] = NULL
            /\ id \in DOMAIN t /\ c \in TagColumns => u[id][c] = t[id][c]
LEMMA UpsertedIs ==
  ASSUME NEW t, NEW rows  PROVE UpsertsTo(t, rows, Upserted(t, rows, TagColumns))
<1> DEFINE present == (UNION {DOMAIN rows[i] : i \in DOMAIN rows}) \cap Columns
           proposed(i, d) == IF Has(rows[i], d) THEN rows[i][d] ELSE IF Has(t, i) THEN t[i][d] ELSE NULL
           value(i, d) == IF ~Has(rows, i) THEN t[i][d]
                          ELSE IF Has(t, i)
                               THEN IF d \in present \ TagColumns THEN proposed(i, d) ELSE t[i][d]
                          ELSE IF d \in present THEN proposed(i, d) ELSE ColumnDefault(d)
           u == Upserted(t, rows, TagColumns)
<1>1. u = [i \in DOMAIN t \cup DOMAIN rows |-> [d \in Columns |-> value(i, d)]]
  BY Zenon DEF Upserted
<1>2. ASSUME NEW id \in DOMAIN rows, NEW c \in DOMAIN rows[id], c \in Columns  PROVE c \in present
  <2> DEFINE D == {DOMAIN rows[i] : i \in DOMAIN rows}
  <2>1. DOMAIN rows[id] \in D
    OBVIOUS
  <2>2. present = (UNION D) \cap Columns
    OBVIOUS
  <2> HIDE DEF D, present
  <2> QED BY <1>2, <2>1, <2>2
<1> HIDE DEF u, present
<1>3. DOMAIN u = DOMAIN t \cup DOMAIN rows
  BY <1>1
<1>4. ASSUME NEW id \in DOMAIN t \cup DOMAIN rows, NEW c \in Columns
      PROVE  DOMAIN u[id] = Columns /\ u[id][c] = value(id, c)
  BY <1>1
<1>5. ASSUME NEW id \in DOMAIN t \cup DOMAIN rows, NEW c \in Columns
      PROVE  /\ id \notin DOMAIN rows => value(id, c) = t[id][c]
             /\ id \in DOMAIN rows /\ c \in DOMAIN rows[id] \ TagColumns => value(id, c) = rows[id][c]
             /\ id \in DOMAIN t /\ id \in DOMAIN rows /\ c \notin DOMAIN rows[id] => value(id, c) = t[id][c]
             /\ id \notin DOMAIN t /\ c \notin DOMAIN rows[id] /\ c \notin TagColumns => value(id, c) = NULL
             /\ id \in DOMAIN t /\ c \in TagColumns => value(id, c) = t[id][c]
  BY <1>2 DEF Has, ColumnDefault
<1> HIDE DEF value
<1>6. "card_is_tags" \in Columns
  BY DEF Columns, TagColumns
<1> QED BY <1>3, <1>4, <1>5, <1>6 DEF UpsertsTo, u

LEMMA GreatestMember ==
  ASSUME NEW L \in Nat, NEW S, S \subseteq 0 .. L, S # {}  PROVE \E m \in S : \A j \in S : j <= m
<1> DEFINE T == {L - i : i \in S}
<1>1. T \subseteq Nat /\ T # {}
  <2>1. PICK i \in S : TRUE
    OBVIOUS
  <2>2. L - i \in T
    BY <2>1
  <2> QED BY <2>2
<1>2. Min(T) \in T /\ \A j \in T : Min(T) <= j
  BY <1>1, LeastMember
<1>3. PICK m \in S : Min(T) = L - m
  BY <1>2
<1>4. \A j \in S : L - m <= L - j
  BY <1>2, <1>3
<1> QED BY <1>4

LEMMA DedupeIs ==
  ASSUME NEW S, NEW rows \in Seq(S)
  PROVE  /\ DOMAIN DedupeRows(rows) = {rows[i]["scryfall_id"] : i \in DOMAIN rows}
         /\ \A id \in DOMAIN DedupeRows(rows) : \E i \in DOMAIN rows :
              /\ rows[i]["scryfall_id"] = id /\ DedupeRows(rows)[id] = rows[i]
              /\ \A j \in DOMAIN rows : rows[j]["scryfall_id"] = id => j <= i
<1>1. DOMAIN DedupeRows(rows) = {rows[i]["scryfall_id"] : i \in DOMAIN rows}
  BY DEF DedupeRows
<1>2. ASSUME NEW id \in {rows[i]["scryfall_id"] : i \in DOMAIN rows}
      PROVE  \E i \in DOMAIN rows :
               /\ rows[i]["scryfall_id"] = id /\ DedupeRows(rows)[id] = rows[i]
               /\ \A j \in DOMAIN rows : rows[j]["scryfall_id"] = id => j <= i
  <2> DEFINE K == Keyed(rows, id)
             m == CHOOSE i \in K : \A j \in K : j <= i
  <2>1. K = {i \in DOMAIN rows : rows[i]["scryfall_id"] = id}
    BY DEF Keyed
  <2>2. K # {} /\ K \subseteq 0 .. Len(rows) /\ Len(rows) \in Nat
    BY <1>2, <2>1
  <2>3. DedupeRows(rows)[id] = rows[m]
    BY <1>2 DEF DedupeRows
  <2> HIDE DEF K
  <2>4. \E i \in K : \A j \in K : j <= i
    BY <2>2, GreatestMember
  <2>5. m \in K /\ \A j \in K : j <= m
    BY <2>4
  <2> HIDE DEF m
  <2> QED BY <2>1, <2>3, <2>5
<1> QED BY <1>1, <1>2

Shaped(t) == \A id \in DOMAIN t : DOMAIN t[id] = Columns
Good(t) == \A id \in DOMAIN t : DOMAIN t[id] = Columns /\ Admits(t[id])
Copied == {"card_types", "card_subtypes", "creature_power", "creature_power_text"}

(* A page adds rows, and leaves the tags of those that are there.          *)
LEMMA PageKeeps ==
  ASSUME NEW S, NEW page \in Seq(S), NEW t, Shaped(t)
  PROVE  /\ Shaped(BulkUpsert(t, page, TagColumns))
         /\ DOMAIN t \subseteq DOMAIN BulkUpsert(t, page, TagColumns)
         /\ \A id \in DOMAIN t : \A c \in TagColumns : BulkUpsert(t, page, TagColumns)[id][c] = t[id][c]
<1> DEFINE rows == DedupeRows(page)
           u == BulkUpsert(t, page, TagColumns)
<1>1. UpsertsTo(t, rows, u)
  BY UpsertedIs DEF BulkUpsert
<1> HIDE DEF rows, u
<1>2. TagColumns \subseteq Columns /\ "card_is_tags" \in TagColumns
  BY DEF TagColumns, Columns
<1>3. ASSUME NEW id \in DOMAIN t \cup DOMAIN rows
      PROVE  DOMAIN u = DOMAIN t \cup DOMAIN rows /\ DOMAIN u[id] = Columns
  BY <1>1 DEF UpsertsTo
<1>4. DOMAIN u = DOMAIN t \cup DOMAIN rows
  BY <1>1 DEF UpsertsTo
<1>5. ASSUME NEW id \in DOMAIN t, NEW c \in TagColumns  PROVE u[id][c] = t[id][c]
  BY <1>1, <1>2 DEF UpsertsTo
<1> QED BY <1>3, <1>4, <1>5 DEF Shaped, u

(* Whether a page's rows are admitted is told from the page and from what  *)
(* is stored, by rows that were admitted themselves.                       *)
LEMMA PageAdmits ==
  ASSUME NEW S, NEW page \in Seq(S), \A r \in S : Row(r), NEW t, NEW t0, Good(t),
         \A id \in DOMAIN BulkUpsert(t0, page, TagColumns) : Admits(BulkUpsert(t0, page, TagColumns)[id])
  PROVE  Good(BulkUpsert(t, page, TagColumns))
<1> DEFINE rows == DedupeRows(page)
           u == BulkUpsert(t, page, TagColumns)
           u0 == BulkUpsert(t0, page, TagColumns)
<1>1. UpsertsTo(t, rows, u) /\ UpsertsTo(t0, rows, u0)
  BY UpsertedIs DEF BulkUpsert
<1>2. ASSUME NEW id \in DOMAIN rows  PROVE Row(rows[id])
  <2>1. PICK i \in DOMAIN page : rows[id] = page[i]
    BY DedupeIs
  <2>2. page[i] \in S
    OBVIOUS
  <2> QED BY <2>1, <2>2
<1>3. Shaped(t)
  BY DEF Good, Shaped
<1>4. Shaped(u)
  BY <1>3, PageKeeps
<1>5. DOMAIN u = DOMAIN t \cup DOMAIN rows /\ DOMAIN u0 = DOMAIN t0 \cup DOMAIN rows
  BY <1>1 DEF UpsertsTo
<1>6. \A id \in DOMAIN u0 : Admits(u0[id])
  OBVIOUS
<1> HIDE DEF rows, u, u0
<1>7. /\ Copied \cup {"card_rarity_int"} \subseteq Columns \ TagColumns
      /\ Copied \subseteq Kept
  BY DEF Copied, Columns, ImportColumns, TagColumns, Kept
<1>8. ASSUME NEW id \in DOMAIN u  PROVE Admits(u[id])
  <2>1. CASE id \notin DOMAIN rows
    <3>1. id \in DOMAIN t
      BY <1>5, <1>8, <2>1
    <3>2. \A c \in Copied \cup {"card_rarity_int"} : u[id][c] = t[id][c]
      BY <1>1, <1>7, <2>1, <3>1 DEF UpsertsTo
    <3>3. Admits(t[id])
      BY <3>1 DEF Good
    <3> QED BY <3>2, <3>3 DEF Admits, Copied
  <2>2. CASE id \in DOMAIN rows
    <3>1. ASSUME NEW c \in Copied  PROVE u[id][c] = rows[id][c] /\ u0[id][c] = rows[id][c]
      <4>1. c \in Columns \ TagColumns /\ c \in DOMAIN rows[id]
        BY <1>2, <1>7, <2>2 DEF Row
      <4> QED BY <1>1, <2>2, <4>1 DEF UpsertsTo
    <3>2. Admits(u0[id])
      BY <1>5, <1>6, <2>2
    <3> DEFINE c == "card_rarity_int"
    <3>3. u[id][c] = u0[id][c] \/ u[id][c] = NULL \/ (id \in DOMAIN t /\ u[id][c] = t[id][c])
      <4>1. c \in Columns /\ c \notin TagColumns
        BY <1>7
      <4> HIDE DEF c
      <4>2. CASE c \in DOMAIN rows[id]
        <5>1. u[id][c] = rows[id][c] /\ u0[id][c] = rows[id][c]
          BY <1>1, <2>2, <4>1, <4>2 DEF UpsertsTo
        <5> QED BY <5>1
      <4>3. CASE c \notin DOMAIN rows[id] /\ id \in DOMAIN t
        <5>1. u[id][c] = t[id][c]
          BY <1>1, <2>2, <4>1, <4>3 DEF UpsertsTo
        <5> QED BY <4>3, <5>1
      <4>4. CASE c \notin DOMAIN rows[id] /\ id \notin DOMAIN t
        <5>1. u[id][c] = NULL
          BY <1>1, <2>2, <4>1, <4>4 DEF UpsertsTo
        <5> QED BY <5>1
      <4> QED BY <4>2, <4>3, <4>4
    <3>4. id \in DOMAIN t => Admits(t[id])
      BY DEF Good
    <3> QED BY <3>1, <3>2, <3>3, <3>4 DEF Admits, Copied
  <2> QED BY <2>1, <2>2
<1> QED BY <1>4, <1>8 DEF Good, Shaped, u

(* The tables between the pages of an import.                              *)
PagesOf(cards) == Pages(PreprocessAll(cards), PageSize)
After(t, cards) == UpsertPages(t, PagesOf(cards))
Admitted(t, cards) == \A n \in DOMAIN After(t, cards) : \A id \in DOMAIN After(t, cards)[n] : Admits(After(t, cards)[n][id])

LEMMA UpsertCardsIs ==
  ASSUME NEW t, NEW cards
  PROVE  /\ UpsertCards(t, cards, PageSize).table = IF Admitted(t, cards) THEN After(t, cards)[Len(PagesOf(cards))] ELSE t
         /\ UpsertCards(t, cards, PageSize).status
              = IF PreprocessAll(cards) = <<>> THEN "no_cards" ELSE IF Admitted(t, cards) THEN "success" ELSE "database_error"
BY Zenon DEF UpsertCards, Admitted, After, PagesOf

LEMMA AfterIs ==
  ASSUME IngestAssumption, CardsAssumption, NEW cards \in Seq(Cards)
  PROVE  /\ Len(PagesOf(cards)) \in Nat
         /\ \E S : /\ \A r \in S : Row(r)
                   /\ \A n \in 1 .. Len(PagesOf(cards)) : PagesOf(cards)[n] \in Seq(S)
         /\ \A t : /\ DOMAIN After(t, cards) = 0 .. Len(PagesOf(cards))
                   /\ After(t, cards)[0] = t
                   /\ \A n \in 1 .. Len(PagesOf(cards)) :
                        After(t, cards)[n] = BulkUpsert(After(t, cards)[n - 1], PagesOf(cards)[n], TagColumns)
<1>1. PICK S : PreprocessAll(cards) \in Seq(S) /\ \A r \in S : Row(r)
  BY RowsAre
<1>2. PagesOf(cards) \in Seq(Seq(S)) /\ Len(PagesOf(cards)) \in Nat
  BY <1>1, PagesAre DEF PagesOf, IngestAssumption
<1>3. \A n \in 1 .. Len(PagesOf(cards)) : PagesOf(cards)[n] \in Seq(S)
  BY <1>2
<1>4. ASSUME NEW t
      PROVE  /\ DOMAIN After(t, cards) = 0 .. Len(PagesOf(cards))
             /\ After(t, cards)[0] = t
             /\ \A n \in 1 .. Len(PagesOf(cards)) :
                  After(t, cards)[n] = BulkUpsert(After(t, cards)[n - 1], PagesOf(cards)[n], TagColumns)
  BY <1>2, UpsertPagesIs DEF After
<1> QED BY <1>1, <1>2, <1>3, <1>4

(* An import adds rows and leaves the tags alone, whatever comes of it.    *)
Extends(t, u) == /\ DOMAIN t \subseteq DOMAIN u
                 /\ \A id \in DOMAIN t : \A c \in TagColumns : u[id][c] = t[id][c]
LEMMA UpsertKeeps ==
  ASSUME IngestAssumption, CardsAssumption, NEW cards \in Seq(Cards), NEW t, Good(t)
  PROVE  Good(UpsertCards(t, cards, PageSize).table) /\ Extends(t, UpsertCards(t, cards, PageSize).table)
<1> DEFINE a == After(t, cards)
           N == Len(PagesOf(cards))
           u == UpsertCards(t, cards, PageSize).table
           G == {n \in 0 .. N : Shaped(a[n]) /\ Extends(t, a[n])}
           c == [n \in 0 .. N |-> n]
<1>1. N \in Nat /\ DOMAIN a = 0 .. N /\ a[0] = t
  BY AfterIs
<1>2. PICK S : \A n \in 1 .. N : PagesOf(cards)[n] \in Seq(S)
  BY AfterIs
<1>3. \A n \in 1 .. N : a[n] = BulkUpsert(a[n - 1], PagesOf(cards)[n], TagColumns)
  BY AfterIs
<1>4. u = IF Admitted(t, cards) THEN a[N] ELSE t
  BY UpsertCardsIs
<1>5. Admitted(t, cards) <=> \A n \in 0 .. N : \A id \in DOMAIN a[n] : Admits(a[n][id])
  BY <1>1 DEF Admitted
<1> HIDE DEF a, N, u
<1>6. Shaped(t) /\ Extends(t, t)
  BY DEF Shaped, Good, Extends
<1>7. c[0] \in G
  BY <1>1, <1>6
<1>8. ASSUME NEW n \in 1 .. N, c[n - 1] \in G  PROVE c[n] \in G
  <2>1. n - 1 \in 0 .. N /\ n \in 0 .. N /\ c[n - 1] = n - 1 /\ c[n] = n
    BY <1>1
  <2>2. Shaped(a[n - 1]) /\ Extends(t, a[n - 1])
    BY <1>8, <2>1
  <2> DEFINE b == BulkUpsert(a[n - 1], PagesOf(cards)[n], TagColumns)
  <2>3. Shaped(b) /\ DOMAIN a[n - 1] \subseteq DOMAIN b /\ \A id \in DOMAIN a[n - 1] : \A d \in TagColumns : b[id][d] = a[n - 1][id][d]
    BY <1>2, <2>2, PageKeeps
  <2>4. a[n] = b
    BY <1>3
  <2> HIDE DEF b
  <2>5. Extends(t, b)
    BY <2>2, <2>3 DEF Extends
  <2> QED BY <2>1, <2>3, <2>4, <2>5
<1> HIDE DEF G, c
<1>9. \A n \in 0 .. N : c[n] \in G
  BY <1>1, <1>7, <1>8, RangeInduction
<1>10. Shaped(a[N]) /\ Extends(t, a[N])
  <2>1. N \in 0 .. N
    BY <1>1
  <2> QED BY <1>9, <2>1 DEF G, c
<1>11. CASE Admitted(t, cards)
  <2>1. \A id \in DOMAIN a[N] : Admits(a[N][id])
    BY <1>1, <1>5, <1>11
  <2> QED BY <1>4, <1>10, <1>11, <2>1 DEF Good, Shaped, u
<1>12. CASE ~Admitted(t, cards)
  BY <1>4, <1>6, <1>12 DEF u
<1> QED BY <1>11, <1>12

(* What the constraints admit into an empty table they admit into any      *)
(* table of rows that they admitted.                                       *)
LEMMA UpsertLoads ==
  ASSUME IngestAssumption, CardsAssumption, NEW cards \in Seq(Cards), NEW t, Good(t),
         UpsertCards(NoTable, cards, PageSize).status = "success"
  PROVE  UpsertCards(t, cards, PageSize).status = "success"
<1> DEFINE a == After(t, cards)
           a0 == After(NoTable, cards)
           N == Len(PagesOf(cards))
           G == {n \in 0 .. N : Good(a[n])}
           c == [n \in 0 .. N |-> n]
<1>1. N \in Nat /\ DOMAIN a = 0 .. N /\ a[0] = t /\ DOMAIN a0 = 0 .. N
  BY AfterIs
<1>2. PICK S : (\A r \in S : Row(r)) /\ \A n \in 1 .. N : PagesOf(cards)[n] \in Seq(S)
  BY AfterIs
<1>3. \A n \in 1 .. N : a[n] = BulkUpsert(a[n - 1], PagesOf(cards)[n], TagColumns)
  BY AfterIs
<1>4. \A n \in 1 .. N : a0[n] = BulkUpsert(a0[n - 1], PagesOf(cards)[n], TagColumns)
  BY AfterIs
<1>5. PreprocessAll(cards) # <<>> /\ Admitted(NoTable, cards)
  BY UpsertCardsIs
<1>6. \A n \in 0 .. N : \A id \in DOMAIN a0[n] : Admits(a0[n][id])
  BY <1>1, <1>5 DEF Admitted
<1>7. Admitted(t, cards) <=> \A n \in 0 .. N : \A id \in DOMAIN a[n] : Admits(a[n][id])
  BY <1>1 DEF Admitted
<1> HIDE DEF a, a0, N
<1>8. c[0] \in G
  BY <1>1
<1>9. ASSUME NEW n \in 1 .. N, c[n - 1] \in G  PROVE c[n] \in G
  <2>1. n - 1 \in 0 .. N /\ n \in 0 .. N /\ c[n - 1] = n - 1 /\ c[n] = n
    BY <1>1
  <2>2. Good(a[n - 1])
    BY <1>9, <2>1
  <2> DEFINE b == BulkUpsert(a[n - 1], PagesOf(cards)[n], TagColumns)
             b0 == BulkUpsert(a0[n - 1], PagesOf(cards)[n], TagColumns)
  <2>3. \A id \in DOMAIN b0 : Admits(b0[id])
    BY <1>4, <1>6, <2>1
  <2>4. Good(b)
    BY <1>2, <2>2, <2>3, PageAdmits
  <2>5. a[n] = b
    BY <1>3
  <2> QED BY <2>1, <2>4, <2>5
<1> HIDE DEF G, c
<1>10. \A n \in 0 .. N : c[n] \in G
  BY <1>1, <1>8, <1>9, RangeInduction
<1>11. \A n \in 0 .. N : Good(a[n])
  BY <1>10 DEF G, c
<1>12. Admitted(t, cards)
  BY <1>7, <1>11 DEF Good
<1> QED BY <1>5, <1>12, UpsertCardsIs

-----------------------------------------------------------------------------
(* What is read is a version that was published.                           *)

VersionsInv ==
  /\ world \in DOMAIN Scenarios
  /\ published \in 1 .. Len(setting.cards)
  /\ \A p \in Procs : listed[p] <= published
  /\ \A k \in Keys : \A f \in dir[k] : f.bytes \in 1 .. published
  /\ \A p \in Procs : fetch[p].at = "read" => fetch[p].bytes \in 1 .. published

LEMMA CardsAre ==
  ASSUME CardsAssumption, world \in DOMAIN Scenarios
  PROVE  /\ setting.cards \in Seq(Seq(Cards)) /\ Len(setting.cards) \in Nat \ {0} /\ setting.before \in Seq(Cards)
         /\ \A v \in 1 .. Len(setting.cards) : setting.cards[v] \in Seq(Cards)
         /\ \A q \in DOMAIN setting.search : setting.search[q] \in Seq(Seq(Cards))
         /\ {"search", "name"} \subseteq DOMAIN setting.search /\ setting.isTags \in Seq(DOMAIN setting.search)
<1>1. /\ setting.cards \in Seq(Seq(Cards)) /\ setting.cards # <<>> /\ setting.before \in Seq(Cards)
      /\ \A q \in DOMAIN setting.search : setting.search[q] \in Seq(Seq(Cards))
      /\ {"search", "name"} \subseteq DOMAIN setting.search /\ setting.isTags \in Seq(DOMAIN setting.search)
  BY DEF CardsAssumption, setting
<1>2. Len(setting.cards) \in Nat \ {0} /\ \A v \in 1 .. Len(setting.cards) : setting.cards[v] \in Seq(Cards)
  BY <1>1
<1> QED BY <1>1, <1>2

LEMMA VersionsInitOK == ASSUME CardsAssumption, Init  PROVE VersionsInv
<1>1. world \in DOMAIN Scenarios
  BY DEF Init
<1>2. /\ published = 1 /\ listed = [p \in Procs |-> 0] /\ dir = [k \in Keys |-> {}]
      /\ fetch = [p \in Procs |-> BulkFiles!Resting]
  BY DEF Init, BulkFiles!FilesInit
<1>3. BulkFiles!Resting.at = "rest"
  BY DEF BulkFiles!Resting
<1>4. Len(setting.cards) \in Nat \ {0}
  BY <1>1, CardsAre
<1> QED BY <1>1, <1>2, <1>3, <1>4 DEF VersionsInv

LEMMA VersionsStep ==
  ASSUME CardsAssumption, FilesInv, VersionsInv, NEW p \in Procs, UNCHANGED world,
         \/ \E key \in Keys : BulkFiles!Locate(p, key)
         \/ BulkFiles!FetchStep(p) \/ BulkFiles!ReadFails(p)
         \/ BulkFiles!ListingExpires(p) \/ BulkFiles!Stall(p)
  PROVE  VersionsInv'
<1>a. /\ published \in Nat /\ listed \in [Procs -> Nat] /\ dir \in [Keys -> SUBSET FileSet]
      /\ fetch \in [Procs -> FetchSet]
  BY DEF FilesInv
<1>b. /\ world \in DOMAIN Scenarios /\ published \in 1 .. Len(setting.cards) /\ Len(setting.cards) \in Nat
      /\ setting' = setting
  BY CardsAre DEF VersionsInv, setting
<1>c. /\ \A q \in Procs : listed[q] <= published /\ (fetch[q].at = "read" => fetch[q].bytes \in 1 .. published)
      /\ \A k \in Keys : \A f \in dir[k] : f.bytes \in 1 .. published
  BY DEF VersionsInv
<1>d. fetch[p].at \in Busy => fetch[p].key \in Keys
  BY DEF FilesInv
<1>e. BulkFiles!Listing(p) \in 1 .. published
  BY <1>a, <1>b, <1>c DEF BulkFiles!Listing
<1>l. ASSUME \/ listed' = [listed EXCEPT ![p] = BulkFiles!Listing(p)] \/ listed' = [listed EXCEPT ![p] = 0]
             \/ listed' = listed
      PROVE  \A q \in Procs : listed'[q] <= published
  <2>1. \A q \in Procs : listed'[q] \in {listed[q], 0, BulkFiles!Listing(p)}
    BY <1>a, <1>l
  <2>2. published \in Nat /\ BulkFiles!Listing(p) <= published
    BY <1>a, <1>e
  <2> QED BY <1>c, <2>1, <2>2
<1>f. ASSUME published' = published, \A q \in Procs : listed'[q] <= published,
             \A k \in Keys : \A f \in dir'[k] : f.bytes \in 1 .. published,
             \A q \in Procs : fetch'[q].at = "read" => fetch'[q].bytes \in 1 .. published
      PROVE  VersionsInv'
  BY <1>b, <1>f DEF VersionsInv
<1>n. ASSUME NEW r, fetch' = [fetch EXCEPT ![p] = r], r.at = "read" => r.bytes \in 1 .. published
      PROVE  \A q \in Procs : fetch'[q].at = "read" => fetch'[q].bytes \in 1 .. published
  BY <1>a, <1>c, <1>n
<1>m. ASSUME NEW where, where # "read", BulkFiles!At(p, where)
      PROVE  \A q \in Procs : fetch'[q].at = "read" => fetch'[q].bytes \in 1 .. published
  <2>1. fetch' = [fetch EXCEPT ![p] = [fetch[p] EXCEPT !.at = where]]
    BY <1>a, <1>m DEF BulkFiles!At
  <2>2. [fetch[p] EXCEPT !.at = where].at = where
    BY <1>a DEF FetchSet
  <2> QED BY <1>m, <1>n, <2>1, <2>2
<1>r. ASSUME BulkFiles!Raise(p)
      PROVE  \A q \in Procs : fetch'[q].at = "read" => fetch'[q].bytes \in 1 .. published
  <2> DEFINE r == [BulkFiles!Resting EXCEPT !.at = "raised", !.attempt = fetch[p].attempt]
  <2>1. fetch' = [fetch EXCEPT ![p] = r] /\ r.at = "raised"
    BY <1>r DEF BulkFiles!Raise, BulkFiles!Resting
  <2> HIDE DEF r
  <2> QED BY <1>n, <2>1
<1>k. ASSUME NEW key \in Keys, NEW files, dir' = [dir EXCEPT ![key] = files],
             \A f \in files : f.bytes \in 1 .. published
      PROVE  \A k \in Keys : \A f \in dir'[k] : f.bytes \in 1 .. published
  <2>1. \A k \in Keys : dir'[k] = IF k = key THEN files ELSE dir[k]
    BY <1>a, <1>k
  <2> QED BY <1>c, <1>k, <2>1
<1>1. ASSUME NEW key \in Keys, BulkFiles!Locate(p, key)  PROVE VersionsInv'
  <2> DEFINE r == [BulkFiles!Resting EXCEPT !.at = "check", !.key = key, !.name = BulkFiles!Listing(p),
                                            !.attempt = fetch[p].attempt + 1]
  <2>1. fetch' = [fetch EXCEPT ![p] = r] /\ listed' = [listed EXCEPT ![p] = BulkFiles!Listing(p)]
        /\ UNCHANGED <<published, dir>>
    BY <1>1 DEF BulkFiles!Locate
  <2>2. r.at = "check"
    BY DEF BulkFiles!Resting
  <2> HIDE DEF r
  <2> QED BY <1>c, <1>f, <1>l, <1>n, <2>1, <2>2
<1>2. CASE BulkFiles!CheckCached(p)
  <2>1. UNCHANGED <<published, listed, dir>>
    BY <1>2 DEF BulkFiles!CheckCached
  <2>2. CASE BulkFiles!At(p, "open")
    BY <1>c, <1>f, <1>l, <1>m, <2>1, <2>2
  <2>3. CASE fetch' = [fetch EXCEPT ![p].at = "prune", ![p].seen = dir[fetch[p].key]]
    <3> DEFINE r == [fetch[p] EXCEPT !.at = "prune", !.seen = dir[fetch[p].key]]
    <3>1. fetch' = [fetch EXCEPT ![p] = r]
      BY <1>a, <2>3
    <3>2. r.at = "prune"
      BY <1>a DEF FetchSet
    <3> HIDE DEF r
    <3> QED BY <1>c, <1>f, <1>l, <1>n, <2>1, <3>1, <3>2
  <2> QED BY <1>2, <2>2, <2>3 DEF BulkFiles!CheckCached
<1>3. CASE BulkFiles!Prune(p)
  <2>1. PICK f \in fetch[p].seen :
          /\ fetch' = [fetch EXCEPT ![p].seen = @ \ {f}]
          /\ \E gone : dir' = [dir EXCEPT ![fetch[p].key] = @ \ gone]
    BY <1>3 DEF BulkFiles!Prune
  <2>2. PICK gone : dir' = [dir EXCEPT ![fetch[p].key] = @ \ gone]
    BY <2>1
  <2>3. fetch[p].at = "prune" /\ fetch[p].key \in Keys /\ UNCHANGED <<published, listed>>
    BY <1>3, <1>d DEF BulkFiles!Prune, Busy
  <2> DEFINE r == [fetch[p] EXCEPT !.seen = @ \ {f}]
             files == dir[fetch[p].key] \ gone
  <2>4. fetch' = [fetch EXCEPT ![p] = r] /\ dir' = [dir EXCEPT ![fetch[p].key] = files]
    BY <1>a, <2>1, <2>2
  <2>5. r.at = "prune"
    BY <1>a, <2>3 DEF FetchSet
  <2>6. \A g \in files : g.bytes \in 1 .. published
    BY <1>c, <2>3
  <2> HIDE DEF r, files
  <2> QED BY <1>c, <1>f, <1>k, <1>l, <1>n, <2>3, <2>4, <2>5, <2>6
<1>4. CASE BulkFiles!StartDownload(p)
  <2> DEFINE new == BulkFiles!File(fetch[p].name, BulkFiles!TmpOf(p), BulkFiles!Listing(p), FALSE)
             files == dir[fetch[p].key] \cup {new}
  <2>1. /\ fetch[p].at = "prune" /\ fetch[p].key \in Keys /\ UNCHANGED published
        /\ listed' = [listed EXCEPT ![p] = BulkFiles!Listing(p)]
        /\ dir' = [dir EXCEPT ![fetch[p].key] = files] /\ BulkFiles!At(p, "download")
    BY <1>4, <1>d DEF BulkFiles!StartDownload, Busy
  <2>2. new.bytes \in 1 .. published
    BY <1>e DEF BulkFiles!File
  <2> HIDE DEF new
  <2>3. \A g \in files : g.bytes \in 1 .. published
    BY <1>c, <2>1, <2>2
  <2> HIDE DEF files
  <2> QED BY <1>f, <1>k, <1>l, <1>m, <2>1, <2>3
<1>5. CASE BulkFiles!FinishDownload(p)
  <2>1. fetch[p].at = "download" /\ fetch[p].key \in Keys /\ UNCHANGED <<published, listed>>
    BY <1>5, <1>d DEF BulkFiles!FinishDownload, Busy
  <2> DEFINE made(f) == [f EXCEPT !.tmp = <<"final", 0>>, !.whole = TRUE, !.stale = FALSE]
             rest == {f \in dir[fetch[p].key] : f.tmp # BulkFiles!TmpOf(p) /\ f \notin BulkFiles!Final(fetch[p].key, fetch[p].name)}
             renamed == rest \cup {made(f) : f \in BulkFiles!Mine(p)}
             left == dir[fetch[p].key] \ BulkFiles!Mine(p)
  <2>2. \/ dir' = [dir EXCEPT ![fetch[p].key] = renamed] /\ BulkFiles!At(p, "open")
        \/ dir' = [dir EXCEPT ![fetch[p].key] = left] /\ BulkFiles!Raise(p)
    BY <1>5 DEF BulkFiles!FinishDownload
  <2>3. \A f \in FileSet : made(f).bytes = f.bytes
    BY DEF FileSet
  <2>4. BulkFiles!Mine(p) \subseteq dir[fetch[p].key] /\ dir[fetch[p].key] \subseteq FileSet
    BY <1>a, <2>1 DEF BulkFiles!Mine
  <2> HIDE DEF made
  <2>5. \A g \in renamed : g.bytes \in 1 .. published
    BY <1>c, <2>1, <2>3, <2>4
  <2>6. \A g \in left : g.bytes \in 1 .. published
    BY <1>c, <2>1
  <2> HIDE DEF left, renamed
  <2> QED BY <1>c, <1>f, <1>k, <1>l, <1>m, <1>r, <2>1, <2>2, <2>5, <2>6
<1>6. CASE BulkFiles!OpenFile(p)
  <2> DEFINE found == BulkFiles!Final(fetch[p].key, fetch[p].name)
             f == CHOOSE x \in found : TRUE
             r == [fetch[p] EXCEPT !.at = "read", !.bytes = f.bytes, !.whole = f.whole]
  <2>1. fetch[p].at = "open" /\ fetch[p].key \in Keys /\ UNCHANGED <<published, listed, dir>>
    BY <1>6, <1>d DEF BulkFiles!OpenFile, Busy
  <2>2. CASE found = {}
    BY <1>6, <1>c, <1>f, <1>l, <1>r, <2>1, <2>2 DEF BulkFiles!OpenFile
  <2>3. CASE found # {}
    <3>1. f \in found
      BY <2>3
    <3>2. f \in dir[fetch[p].key]
      BY <3>1 DEF BulkFiles!Final
    <3>3. f.bytes \in 1 .. published
      BY <1>c, <2>1, <3>2
    <3>4. fetch' = [fetch EXCEPT ![p] = r]
      BY <1>6, <1>a, <2>3 DEF BulkFiles!OpenFile
    <3> HIDE DEF f, found
    <3>5. r.bytes = f.bytes
      BY <1>a DEF FetchSet
    <3> HIDE DEF r
    <3> QED BY <1>c, <1>f, <1>l, <1>n, <2>1, <3>3, <3>4, <3>5
  <2> QED BY <2>2, <2>3
<1>7. CASE BulkFiles!ReadFails(p)
  <2>1. fetch[p].at = "read" /\ fetch[p].key \in Keys /\ UNCHANGED <<published, listed>> /\ BulkFiles!Raise(p)
    BY <1>7, <1>d DEF BulkFiles!ReadFails, Busy
  <2>2. PICK corrupt \in BOOLEAN :
          dir' = [dir EXCEPT ![fetch[p].key] = IF corrupt THEN @ \ BulkFiles!Final(fetch[p].key, fetch[p].name) ELSE @]
    BY <1>7 DEF BulkFiles!ReadFails
  <2> DEFINE files == IF corrupt THEN dir[fetch[p].key] \ BulkFiles!Final(fetch[p].key, fetch[p].name) ELSE dir[fetch[p].key]
  <2>3. dir' = [dir EXCEPT ![fetch[p].key] = files]
    BY <2>2
  <2>4. \A g \in files : g.bytes \in 1 .. published
    BY <1>c, <2>1
  <2> HIDE DEF files
  <2> QED BY <1>f, <1>k, <1>l, <1>r, <2>1, <2>3, <2>4
<1>8. CASE BulkFiles!ListingExpires(p)
  BY <1>8, <1>c, <1>f, <1>l DEF BulkFiles!ListingExpires
<1>9. CASE BulkFiles!Stall(p)
  <2> DEFINE slow(f) == [f EXCEPT !.stale = TRUE]
             files == (dir[fetch[p].key] \ BulkFiles!Mine(p)) \cup {slow(f) : f \in BulkFiles!Mine(p)}
  <2>1. /\ fetch[p].at = "download" /\ fetch[p].key \in Keys /\ UNCHANGED <<published, listed, fetch>>
        /\ dir' = [dir EXCEPT ![fetch[p].key] = files]
    BY <1>9, <1>d DEF BulkFiles!Stall, Busy
  <2>2. \A f \in FileSet : slow(f).bytes = f.bytes
    BY DEF FileSet
  <2>3. BulkFiles!Mine(p) \subseteq dir[fetch[p].key] /\ dir[fetch[p].key] \subseteq FileSet
    BY <1>a, <2>1 DEF BulkFiles!Mine
  <2> HIDE DEF slow
  <2>4. \A g \in files : g.bytes \in 1 .. published
    BY <1>c, <2>1, <2>2, <2>3
  <2> HIDE DEF files
  <2> QED BY <1>c, <1>f, <1>k, <1>l, <2>1, <2>4
<1> QED BY <1>1, <1>2, <1>3, <1>4, <1>5, <1>6, <1>7, <1>8, <1>9 DEF BulkFiles!FetchStep

LEMMA WorldKept == ASSUME [Next]_vars  PROVE world' = world
<1>1. ASSUME NEW p \in Procs, Work(p) \/ CompleteExpires(p)  PROVE world' = world
  <2>1. CASE AwayFromSchema(p)
    BY <2>1, SchemaUntouched
  <2>2. CASE SetUp(p) \/ AfterSetup(p)
    BY <2>2 DEF SetUp, AfterSetup
  <2> QED BY <1>1, <2>1, <2>2 DEF Work, AwayFromSchema
<1>2. CASE RecentEnds \/ FilesChange \/ Restart \/ AllDone \/ UNCHANGED vars
  BY <1>2 DEF RecentEnds, FilesChange, Restart, AllDone, vars
<1> QED BY <1>1, <1>2 DEF Next

LEMMA VersionsNext ==
  ASSUME IngestAssumption, CardsAssumption, FilesInv, VersionsInv, [Next]_vars  PROVE VersionsInv'
<1>w. world' = world /\ setting' = setting
  BY WorldKept DEF setting
<1>u. ASSUME UNCHANGED fileVars  PROVE VersionsInv'
  BY <1>u, <1>w DEF fileVars, VersionsInv
<1>r. ASSUME NEW p \in Procs, UNCHANGED <<published, listed, dir>>, NEW r, fetch' = [fetch EXCEPT ![p] = r], r.at = "rest"
      PROVE  VersionsInv'
  <2>1. \A q \in Procs : fetch'[q] = IF q = p THEN r ELSE fetch[q]
    BY <1>r DEF FilesInv
  <2> QED BY <1>r, <1>w, <2>1 DEF VersionsInv
<1>1. ASSUME NEW p \in Procs, Work(p) \/ CompleteExpires(p)  PROVE VersionsInv'
  <2>1. CASE AwayFromFiles(p)
    BY <1>u, <2>1, FilesUntouched
  <2>2. CASE Fetch(p)
    <3>1. KeyOf(p) \in Keys
      BY DEF KeyOf, IngestAssumption
    <3> QED BY <1>w, <2>2, <3>1, VersionsStep DEF Fetch
  <2>3. CASE ReadFails(p)
    BY <1>w, <2>3, VersionsStep DEF ReadFails
  <2>4. CASE FetchRaised(p)
    <3>1. fetch' = [fetch EXCEPT ![p].at = "rest"] /\ UNCHANGED <<published, listed, dir>>
      BY <2>4 DEF FetchRaised
    <3> DEFINE r == [fetch[p] EXCEPT !.at = "rest"]
    <3>2. fetch' = [fetch EXCEPT ![p] = r]
      BY <3>1 DEF FilesInv
    <3>3. r.at = "rest"
      BY DEF FilesInv, FetchSet
    <3> HIDE DEF r
    <3> QED BY <1>r, <3>1, <3>2, <3>3
  <2>5. CASE ImportCards(p) \/ SyncHierarchy(p)
    <3>1. Fetched(p) /\ UNCHANGED <<published, listed, dir>>
      BY <2>5 DEF ImportCards, SyncHierarchy
    <3> DEFINE r == [BulkFiles!Resting EXCEPT !.attempt = fetch[p].attempt]
    <3>2. fetch' = [fetch EXCEPT ![p] = r] /\ r.at = "rest"
      BY <3>1 DEF Fetched, BulkFiles!Resting
    <3> HIDE DEF r
    <3> QED BY <1>r, <3>1, <3>2
  <2> QED BY <1>1, <2>1, <2>2, <2>3, <2>4, <2>5 DEF Work, AwayFromFiles
<1>2. CASE FilesChange
  <2>1. CASE published < Len(setting.cards) /\ BulkFiles!Publish
    <3>1. published' = published + 1 /\ UNCHANGED <<listed, dir, fetch>>
      BY <2>1 DEF BulkFiles!Publish
    <3>2. /\ published \in 1 .. Len(setting.cards) /\ Len(setting.cards) \in Nat
      BY CardsAre DEF VersionsInv
    <3>3. published' \in 1 .. Len(setting'.cards) /\ 1 .. published \subseteq 1 .. published'
      BY <1>w, <2>1, <3>1, <3>2
    <3>4. \A q \in Procs : listed[q] <= published'
      BY <3>1, <3>2 DEF VersionsInv, FilesInv
    <3> QED BY <1>w, <3>1, <3>3, <3>4 DEF VersionsInv
  <2>2. CASE \E p \in Procs : BulkFiles!ListingExpires(p) \/ BulkFiles!Stall(p)
    BY <1>w, <2>2, VersionsStep
  <2> QED BY <1>2, <2>1, <2>2 DEF FilesChange
<1>3. CASE Restart
  <2> DEFINE rest(q) == [BulkFiles!Resting EXCEPT !.attempt = fetch[q].attempt]
             left(f) == IF f.tmp = <<"final", 0>> THEN f ELSE [f EXCEPT !.stale = TRUE]
  <2>1. /\ published' = published /\ listed' = [p \in Procs |-> 0]
        /\ dir' = [k \in Keys |-> {left(f) : f \in dir[k]}] /\ fetch' = [q \in Procs |-> rest(q)]
    BY <1>3 DEF Restart, BulkFiles!CrashFiles
  <2>2. \A q \in Procs : rest(q).at = "rest"
    BY DEF BulkFiles!Resting
  <2>3. \A f \in FileSet : left(f).bytes = f.bytes
    BY DEF FileSet
  <2>4. \A k \in Keys : dir[k] \subseteq FileSet /\ \A f \in dir[k] : f.bytes \in 1 .. published
    BY DEF FilesInv, VersionsInv
  <2>5. published \in 1 .. Len(setting.cards) /\ Len(setting.cards) \in Nat
    BY CardsAre DEF VersionsInv
  <2> HIDE DEF rest, left
  <2>6. \A k \in Keys : \A f \in dir'[k] : f.bytes \in 1 .. published
    BY <2>1, <2>3, <2>4
  <2> QED BY <1>w, <2>1, <2>2, <2>5, <2>6 DEF VersionsInv
<1>4. CASE RecentEnds \/ AllDone
  BY <1>4, <1>u, FilesUntouched
<1>5. CASE UNCHANGED vars
  BY <1>5, <1>u DEF vars
<1> QED BY <1>1, <1>2, <1>3, <1>4, <1>5 DEF Next

-----------------------------------------------------------------------------
(* What a process holds on to in the middle of a job.                      *)

JobFields == {"todo", "at", "page", "found", "tags", "left", "imported", "failed", "time", "result"}
Held(j) ==
  /\ DOMAIN j = JobFields
  /\ j.found \in Seq(Cards) /\ j.tags \in Seq(DOMAIN setting.search)
  /\ j.at \in {"rest", "istags"} => j.page = 1
  /\ j.at = "istags" => Head(j.todo) = "istags"
  /\ j.at = "mark" => Head(j.todo) = "istags" /\ j.tags # <<>>
  /\ j.at = "search" => /\ j.page \in Nat \ {0}
                        /\ Head(j.todo) \in {"istags", "search", "name"}
                        /\ Head(j.todo) = "istags" => j.tags # <<>>
JobInv == DOMAIN job = Procs /\ \A p \in Procs : Held(job[p])

LEMMA IdleHeld == ASSUME NEW todo  PROVE Held(Idle(todo)) /\ Idle(todo).at = "rest" /\ Idle(todo).page = 1 /\ DOMAIN Idle(todo) = JobFields
                                         /\ Idle(todo).todo = todo
<1>1. <<>> \in Seq(Cards) /\ <<>> \in Seq(DOMAIN setting.search)
  OBVIOUS
<1> QED BY <1>1 DEF Idle, Held, JobFields

Special == {"rest", "istags", "mark", "search"}
LEMMA HeldGoto ==
  ASSUME NEW j, Held(j), NEW where, where \notin Special  PROVE Held([j EXCEPT !.at = where])
<1> DEFINE k == [j EXCEPT !.at = where]
<1>1. DOMAIN k = JobFields /\ k.at = where /\ k.found = j.found /\ k.tags = j.tags /\ k.todo = j.todo /\ k.page = j.page
  BY DEF Held, JobFields
<1> HIDE DEF k
<1> QED BY <1>1 DEF Held, Special, k

(* Other fields may change with it, or alone.                              *)
Plain == {"page", "left", "imported", "failed", "time", "result"}
LEMMA HeldAlso ==
  ASSUME NEW j, Held(j), NEW field \in Plain, NEW value, field = "page" => j.at \notin Special
  PROVE  Held([j EXCEPT ![field] = value])
<1> DEFINE k == [j EXCEPT ![field] = value]
<1>1. /\ DOMAIN k = JobFields /\ k.at = j.at /\ k.found = j.found /\ k.tags = j.tags /\ k.todo = j.todo
      /\ field # "page" => k.page = j.page
  BY DEF Held, JobFields, Plain
<1> HIDE DEF k
<1> QED BY <1>1 DEF Held, Special, k

LEMMA HeldFound ==
  ASSUME NEW j, Held(j), NEW found \in Seq(Cards)  PROVE Held([j EXCEPT !.found = found])
<1> DEFINE k == [j EXCEPT !.found = found]
<1>1. /\ DOMAIN k = JobFields /\ k.at = j.at /\ k.found = found /\ k.tags = j.tags /\ k.todo = j.todo /\ k.page = j.page
  BY DEF Held, JobFields
<1> HIDE DEF k
<1> QED BY <1>1 DEF Held, k

LEMMA JobMoves ==
  ASSUME JobInv, NEW p \in Procs, world' = world, NEW j, job' = [job EXCEPT ![p] = j], Held(j)
  PROVE  JobInv'
<1>1. DOMAIN job' = Procs /\ \A q \in Procs : job'[q] = IF q = p THEN j ELSE job[q]
  BY DEF JobInv
<1>2. setting' = setting
  BY DEF setting
<1>3. ASSUME NEW q \in Procs  PROVE Held(job[q])' <=> Held(job'[q])
  BY <1>2 DEF Held
<1>4. \A q \in Procs : Held(job'[q])
  BY <1>1 DEF JobInv
<1> QED BY <1>1, <1>3, <1>4 DEF JobInv

LEMMA JobGoto ==
  ASSUME JobInv, NEW p \in Procs, world' = world, NEW where, where \notin Special, Goto(p, where)  PROVE JobInv'
<1>1. job' = [job EXCEPT ![p] = [job[p] EXCEPT !.at = where]]
  BY DEF Goto, JobInv
<1>2. Held([job[p] EXCEPT !.at = where])
  BY HeldGoto DEF JobInv
<1> QED BY <1>1, <1>2, JobMoves

LEMMA JobFinish ==
  ASSUME JobInv, NEW p \in Procs, world' = world, NEW result, Finish(p, result)  PROVE JobInv'
<1> DEFINE i == Idle(Tail(job[p].todo))
           a == [i EXCEPT !.imported = job[p].imported]
           b == [a EXCEPT !.failed = job[p].failed]
           c == [b EXCEPT !.result = result]
<1>1. job' = [job EXCEPT ![p] = c]
  BY DEF Finish
<1>2. Held(i)
  BY IdleHeld
<1> HIDE DEF i
<1>3. Held(a)
  BY <1>2, HeldAlso DEF Plain
<1> HIDE DEF a
<1>4. Held(b)
  BY <1>3, HeldAlso DEF Plain
<1> HIDE DEF b
<1>5. Held(c)
  BY <1>4, HeldAlso DEF Plain
<1> HIDE DEF c
<1> QED BY <1>1, <1>5, JobMoves

LEMMA JobNextTag ==
  ASSUME JobInv, NEW p \in Procs, world' = world, NEW tag, NEW good, Head(job[p].todo) = "istags", job[p].tags # <<>>,
         NextTag(p, tag, good)
  PROVE  JobInv'
<1> DEFINE i == Idle(job[p].todo)
           a == [i EXCEPT !.at = "istags", !.tags = Tail(job[p].tags)]
           more == job[p].imported \cup (IF good THEN {tag} ELSE {})
           b == [a EXCEPT !.imported = more]
           less == job[p].failed \cup (IF good THEN {} ELSE {tag})
           c == [b EXCEPT !.failed = less]
<1>1. job' = [job EXCEPT ![p] = c]
  BY DEF NextTag, JobInv
<1>2. Held(i) /\ i.page = 1 /\ DOMAIN i = JobFields /\ i.todo = job[p].todo /\ i.found \in Seq(Cards)
  BY IdleHeld DEF Held
<1>3. Tail(job[p].tags) \in Seq(DOMAIN setting.search)
  <2> DEFINE s == job[p].tags
             D == DOMAIN setting.search
  <2>1. s \in Seq(D) /\ s # <<>>
    BY DEF JobInv, Held
  <2> HIDE DEF s, D
  <2>2. Tail(s) \in Seq(D)
    BY <2>1
  <2> QED BY <2>2 DEF s, D
<1> HIDE DEF i, more, less
<1>4. /\ DOMAIN a = JobFields /\ a.at = "istags" /\ a.found = i.found /\ a.tags = Tail(job[p].tags)
      /\ a.todo = job[p].todo /\ a.page = 1
  BY <1>2 DEF JobFields
<1> HIDE DEF a
<1>5. Held(a)
  BY <1>2, <1>3, <1>4 DEF Held
<1>6. Held(b)
  BY <1>5, HeldAlso DEF Plain
<1> HIDE DEF b
<1>7. Held(c)
  BY <1>6, HeldAlso DEF Plain
<1> HIDE DEF c
<1> QED BY <1>1, <1>7, JobMoves

LEMMA JobStands == ASSUME JobInv, UNCHANGED <<world, job>>  PROVE JobInv'
BY DEF JobInv, Held, setting

(* The jobs that search go from tag to tag, or from page to page.          *)
LEMMA JobStart ==
  ASSUME CardsAssumption, VersionsInv, JobInv, NEW p \in Procs, Start(p)  PROVE JobInv'
<1>w. world' = world /\ setting' = setting
  BY DEF Start, setting
<1>r. job[p].at = "rest" /\ job[p].page = 1 /\ Held(job[p])
  BY DEF Start, JobInv, Held
<1>1. CASE BeginImport(p)
  BY <1>1, <1>w, JobGoto, JobFinish DEF BeginImport, Special
<1>2. CASE Goto(p, "tags") \/ Goto(p, "ask") \/ Goto(p, "setup")
  BY <1>2, <1>w, JobGoto DEF Special
<1>3. CASE Op(p) = "istags" /\ BeginIsTags(p)
  <2> DEFINE a == [job[p] EXCEPT !.at = "istags", !.tags = setting.isTags]
             b == [a EXCEPT !.imported = {}]
             c == [b EXCEPT !.failed = {}]
  <2>1. job' = [job EXCEPT ![p] = c]
    BY <1>3 DEF BeginIsTags, JobInv
  <2>2. setting.isTags \in Seq(DOMAIN setting.search)
    BY CardsAre DEF VersionsInv
  <2>3. /\ DOMAIN a = JobFields /\ a.at = "istags" /\ a.found = job[p].found /\ a.tags = setting.isTags
        /\ a.todo = job[p].todo /\ a.page = 1
    BY <1>r DEF Held, JobFields
  <2> HIDE DEF a
  <2>4. Held(a)
    BY <1>3, <1>r, <2>2, <2>3 DEF Held, Op
  <2>5. Held(b)
    BY <2>4, HeldAlso DEF Plain
  <2> HIDE DEF b
  <2>6. Held(c)
    BY <2>5, HeldAlso DEF Plain
  <2> HIDE DEF c
  <2> QED BY <1>w, <2>1, <2>6, JobMoves
<1>4. CASE BeginCubecobra(p)
  <2> DEFINE a == [job[p] EXCEPT !.at = "cube"]
             cards == {table[id]["oracle_id"] : id \in DOMAIN table} \ {NULL}
             b == [a EXCEPT !.left = cards]
  <2>1. job' = [job EXCEPT ![p] = b]
    BY <1>4 DEF BeginCubecobra, JobInv
  <2>2. Held(a)
    BY <1>r, HeldGoto DEF Special
  <2> HIDE DEF a, cards
  <2>3. Held(b)
    BY <2>2, HeldAlso DEF Plain
  <2> HIDE DEF b
  <2> QED BY <1>w, <2>1, <2>3, JobMoves
<1>5. CASE Op(p) \in {"search", "name"} /\ Goto(p, "search")
  <2> DEFINE a == [job[p] EXCEPT !.at = "search"]
  <2>1. job' = [job EXCEPT ![p] = a]
    BY <1>5 DEF Goto, JobInv
  <2>2. /\ DOMAIN a = JobFields /\ a.at = "search" /\ a.found = job[p].found /\ a.tags = job[p].tags
        /\ a.todo = job[p].todo /\ a.page = 1
    BY <1>r DEF Held, JobFields
  <2> HIDE DEF a
  <2>3. Held(a)
    BY <1>5, <1>r, <2>2 DEF Held, Op
  <2> QED BY <1>w, <2>1, <2>3, JobMoves
<1>6. CASE Finish(p, "already_exists")
  BY <1>6, <1>w, JobFinish
<1> QED BY <1>1, <1>2, <1>3, <1>4, <1>5, <1>6 DEF Start, BeginByName

LEMMA JobSearch ==
  ASSUME CardsAssumption, VersionsInv, JobInv, NEW p \in Procs, ScryfallSearch(p)  PROVE JobInv'
<1>w. world' = world /\ setting' = setting
  BY DEF ScryfallSearch, setting
<1>r. /\ job[p].at = "search" /\ Held(job[p]) /\ job[p].page \in Nat \ {0} /\ job[p].found \in Seq(Cards)
      /\ Op(p) \in {"istags", "search", "name"} /\ (Op(p) = "istags" => job[p].tags # <<>>)
  BY DEF ScryfallSearch, JobInv, Held, Op
<1>q. Query(p) \in DOMAIN setting.search
  <2>1. CASE Op(p) = "istags"
    <3>1. job[p].tags \in Seq(DOMAIN setting.search) /\ job[p].tags # <<>>
      BY <1>r, <2>1 DEF Held
    <3> QED BY <2>1, <3>1 DEF Query
  <2>2. CASE Op(p) # "istags"
    BY <1>r, <2>2, CardsAre DEF Query, VersionsInv
  <2> QED BY <2>1, <2>2
<1> DEFINE pages == setting.search[Query(p)]
           sofar == IF job[p].page > Len(pages) THEN job[p].found ELSE job[p].found \o pages[job[p].page]
<1>p. pages \in Seq(Seq(Cards))
  BY <1>q, CardsAre DEF VersionsInv
<1>s. sofar \in Seq(Cards)
  <2> HIDE DEF pages
  <2>1. CASE job[p].page > Len(pages)
    BY <1>r, <2>1
  <2>2. CASE ~(job[p].page > Len(pages))
    <3>1. job[p].page \in 1 .. Len(pages)
      BY <1>p, <1>r, <2>2
    <3>2. pages[job[p].page] \in Seq(Cards)
      BY <1>p, <3>1
    <3> QED BY <1>r, <2>2, <3>2
  <2> QED BY <2>1, <2>2
<1> HIDE DEF pages, sofar
<1>e. ASSUME NEW found \in Seq(Cards), SearchEnds(p, found)  PROVE JobInv'
  <2>1. CASE found = <<>> /\ (IF Op(p) = "istags" THEN NextTag(p, Head(job[p].tags), TRUE) ELSE Finish(p, "not_found"))
    BY <1>r, <1>w, <2>1, JobNextTag, JobFinish DEF Op
  <2>2. CASE /\ found # <<>> /\ Op(p) = "istags"
             /\ job' = [job EXCEPT ![p].at = "mark", ![p].left = Wanted(Head(job[p].tags), found), ![p].found = found]
    <3> DEFINE a == [job[p] EXCEPT !.at = "mark"]
               wanted == Wanted(Head(job[p].tags), found)
               b == [a EXCEPT !.left = wanted]
               c == [b EXCEPT !.found = found]
    <3>1. job' = [job EXCEPT ![p] = c]
      BY <2>2 DEF JobInv
    <3>2. /\ DOMAIN a = JobFields /\ a.at = "mark" /\ a.found = job[p].found /\ a.tags = job[p].tags
          /\ a.todo = job[p].todo
      BY <1>r DEF Held, JobFields
    <3> HIDE DEF a, wanted
    <3>3. Held(a)
      BY <1>r, <2>2, <3>2 DEF Held, Op
    <3>4. Held(b)
      BY <3>3, HeldAlso DEF Plain
    <3> HIDE DEF b
    <3>5. Held(c)
      BY <1>e, <3>4, HeldFound
    <3> HIDE DEF c
    <3> QED BY <1>w, <3>1, <3>5, JobMoves
  <2>3. CASE job' = [job EXCEPT ![p].at = "setup", ![p].found = found]
    <3> DEFINE a == [job[p] EXCEPT !.at = "setup"]
               b == [a EXCEPT !.found = found]
    <3>1. job' = [job EXCEPT ![p] = b]
      BY <2>3 DEF JobInv
    <3>2. Held(a)
      BY <1>r, HeldGoto DEF Special
    <3> HIDE DEF a
    <3>3. Held(b)
      BY <1>e, <3>2, HeldFound
    <3> HIDE DEF b
    <3> QED BY <1>w, <3>1, <3>3, JobMoves
  <2> QED BY <1>e, <2>1, <2>2, <2>3 DEF SearchEnds
<1>1. CASE SearchEnds(p, sofar) \/ SearchEnds(p, job[p].found)
  BY <1>1, <1>e, <1>r, <1>s
<1>2. CASE job' = [job EXCEPT ![p].page = @ + 1, ![p].found = sofar]
  <2> DEFINE a == [job[p] EXCEPT !.page = job[p].page + 1]
             b == [a EXCEPT !.found = sofar]
  <2>1. job' = [job EXCEPT ![p] = b]
    BY <1>2 DEF JobInv
  <2>2. /\ DOMAIN a = JobFields /\ a.at = "search" /\ a.found = job[p].found /\ a.tags = job[p].tags
        /\ a.todo = job[p].todo /\ a.page = job[p].page + 1
    BY <1>r DEF Held, JobFields
  <2> HIDE DEF a
  <2>3. Held(a)
    BY <1>r, <2>2 DEF Held, Op
  <2>4. Held(b)
    BY <1>s, <2>3, HeldFound
  <2> HIDE DEF b
  <2> QED BY <1>w, <2>1, <2>4, JobMoves
<1>3. CASE IF Op(p) = "istags" THEN NextTag(p, Head(job[p].tags), FALSE) ELSE Finish(p, "error")
  BY <1>3, <1>r, <1>w, JobNextTag, JobFinish DEF Op
<1> QED BY <1>1, <1>2, <1>3 DEF ScryfallSearch, pages, sofar

LEMMA JobTags ==
  ASSUME CardsAssumption, VersionsInv, JobInv, NEW p \in Procs, NextIsTag(p) \/ MarkCards(p)  PROVE JobInv'
<1>w. world' = world /\ Held(job[p])
  BY DEF NextIsTag, MarkCards, JobInv
<1>1. CASE NextIsTag(p)
  <2>1. job[p].at = "istags" /\ Head(job[p].todo) = "istags" /\ job[p].page = 1
    BY <1>1, <1>w DEF NextIsTag, Held
  <2>2. CASE job[p].tags = <<>> /\ Finish(p, "success")
    BY <1>w, <2>2, JobFinish
  <2>3. CASE job[p].tags # <<>> /\ NextTag(p, Head(job[p].tags), TRUE)
    BY <1>w, <2>1, <2>3, JobNextTag
  <2>4. CASE job[p].tags # <<>> /\ Goto(p, "search")
    <3> DEFINE a == [job[p] EXCEPT !.at = "search"]
    <3>1. job' = [job EXCEPT ![p] = a]
      BY <2>4 DEF Goto, JobInv
    <3>2. /\ DOMAIN a = JobFields /\ a.at = "search" /\ a.found = job[p].found /\ a.tags = job[p].tags
          /\ a.todo = job[p].todo /\ a.page = 1
      BY <1>w, <2>1 DEF Held, JobFields
    <3> HIDE DEF a
    <3>3. Held(a)
      BY <1>w, <2>1, <2>4, <3>2 DEF Held
    <3> QED BY <1>w, <3>1, <3>3, JobMoves
  <2> QED BY <1>1, <2>2, <2>3, <2>4 DEF NextIsTag
<1>2. CASE MarkCards(p)
  <2>1. job[p].at = "mark" /\ Head(job[p].todo) = "istags" /\ job[p].tags # <<>>
    BY <1>2, <1>w DEF MarkCards, Held
  <2>2. CASE NextTag(p, Head(job[p].tags), TRUE)
    BY <1>w, <2>1, <2>2, JobNextTag
  <2>3. ASSUME NEW x, job' = [job EXCEPT ![p].left = @ \ {x}]  PROVE JobInv'
    <3> DEFINE rest == job[p].left \ {x}
               a == [job[p] EXCEPT !.left = rest]
    <3>1. job' = [job EXCEPT ![p] = a]
      BY <2>3 DEF JobInv
    <3> HIDE DEF rest
    <3>2. Held(a)
      BY <1>w, HeldAlso DEF Plain
    <3> HIDE DEF a
    <3> QED BY <1>w, <3>1, <3>2, JobMoves
  <2>4. CASE Finish(p, "raised")
    BY <1>w, <2>4, JobFinish
  <2> QED BY <1>2, <2>2, <2>3, <2>4 DEF MarkCards
<1> QED BY <1>1, <1>2

(* The steps of the other jobs.                                            *)
LEMMA JobImport ==
  ASSUME JobInv, NEW p \in Procs,
         \/ DiscoverFails(p) \/ LockImport(p) \/ AfterSetup(p) \/ FetchRaised(p) \/ ImportCards(p)
         \/ Stamp(p) \/ ScoreCards(p) \/ SyncHierarchy(p) \/ ClearTags(p) \/ SetTags(p) \/ TagsDone(p) \/ EndImport(p)
         \/ ImportFound(p)
  PROVE  JobInv'
<1>w. world' = world /\ Held(job[p])
  BY DEF DiscoverFails, LockImport, AfterSetup, FetchRaised, ImportCards, Stamp, ScoreCards, SyncHierarchy, ClearTags,
         SetTags, TagsDone, EndImport, ImportFound, JobInv
<1>g. ASSUME NEW where \in {"lock", "setup", "cards", "upsert", "stamp", "scores", "tags", "end"}, Goto(p, where)  PROVE JobInv'
  BY <1>g, <1>w, JobGoto DEF Special
<1>f. ASSUME NEW result, Finish(p, result)  PROVE JobInv'
  BY <1>f, <1>w, JobFinish
<1>l. ASSUME NEW where \in {"clear", "batch"}, NEW field \in {"page", "left"}, NEW value,
             job' = [job EXCEPT ![p] = [[job[p] EXCEPT !.at = where] EXCEPT ![field] = value]]
      PROVE  JobInv'
  <2> DEFINE a == [job[p] EXCEPT !.at = where]
             b == [a EXCEPT ![field] = value]
  <2>1. Held(a) /\ a.at = where
    BY <1>w, HeldGoto DEF Special, Held, JobFields
  <2> HIDE DEF a
  <2>2. Held(b)
    BY <2>1, HeldAlso DEF Plain, Special
  <2>3. job' = [job EXCEPT ![p] = b]
    BY <1>l DEF a
  <2> HIDE DEF b
  <2> QED BY <1>w, <2>2, <2>3, JobMoves
<1>1. CASE DiscoverFails(p) \/ LockImport(p)
  BY <1>1, <1>f, <1>g DEF DiscoverFails, LockImport
<1>2. CASE AfterSetup(p) \/ FetchRaised(p) \/ ImportCards(p)
  <2>1. CASE AfterSetup(p)
    BY <2>1, <1>f, <1>g DEF AfterSetup
  <2>2. CASE FetchRaised(p)
    BY <2>2, <1>f DEF FetchRaised
  <2>3. CASE ImportCards(p)
    BY <2>3, <1>f, <1>g DEF ImportCards
  <2> QED BY <1>2, <2>1, <2>2, <2>3
<1>3. CASE Stamp(p) \/ ScoreCards(p) \/ EndImport(p) \/ ImportFound(p)
  <2>1. CASE Stamp(p)
    BY <2>1, <1>g DEF Stamp
  <2>2. CASE ScoreCards(p)
    BY <2>2, <1>f, <1>g DEF ScoreCards
  <2>3. CASE EndImport(p)
    BY <2>3, <1>f DEF EndImport
  <2>4. CASE ImportFound(p)
    BY <2>4, <1>f DEF ImportFound
  <2> QED BY <1>3, <2>1, <2>2, <2>3, <2>4
<1>4. CASE SyncHierarchy(p)
  <2>1. CASE job' = [job EXCEPT ![p].at = "clear", ![p].page = fetch[p].bytes]
    <3>1. job' = [job EXCEPT ![p] = [[job[p] EXCEPT !.at = "clear"] EXCEPT !["page"] = fetch[p].bytes]]
      BY <2>1 DEF JobInv
    <3> QED BY <1>l, <3>1
  <2>2. CASE Finish(p, "raised")
    BY <1>f, <2>2
  <2> QED BY <1>4, <2>1, <2>2 DEF SyncHierarchy, Dies
<1>5. CASE ClearTags(p)
  <2> DEFINE keep == DOMAIN IdToTags(TagDump(p))
  <2>1. CASE job' = [job EXCEPT ![p].at = "batch", ![p].left = keep]
    <3> HIDE DEF keep
    <3>1. job' = [job EXCEPT ![p] = [[job[p] EXCEPT !.at = "batch"] EXCEPT !["left"] = keep]]
      BY <2>1 DEF JobInv
    <3> QED BY <1>l, <3>1
  <2>2. CASE Finish(p, "raised")
    BY <1>f, <2>2
  <2> QED BY <1>5, <2>1, <2>2 DEF ClearTags, Dies
<1>6. CASE SetTags(p)
  <2>1. ASSUME NEW o, job' = [job EXCEPT ![p].left = @ \ {o}]  PROVE JobInv'
    <3> DEFINE rest == job[p].left \ {o}
               a == [job[p] EXCEPT !.left = rest]
    <3>1. job' = [job EXCEPT ![p] = a]
      BY <2>1 DEF JobInv
    <3> HIDE DEF rest
    <3>2. Held(a)
      BY <1>w, HeldAlso DEF Plain
    <3> HIDE DEF a
    <3> QED BY <1>w, <3>1, <3>2, JobMoves
  <2>2. CASE Finish(p, "raised")
    BY <1>f, <2>2
  <2> QED BY <1>6, <2>1, <2>2 DEF SetTags, Dies
<1>7. CASE TagsDone(p)
  BY <1>7, <1>f, <1>g DEF TagsDone, EndTags
<1> QED BY <1>1, <1>2, <1>3, <1>4, <1>5, <1>6, <1>7

LEMMA JobAnswers ==
  ASSUME JobInv, NEW p \in Procs, CubePage(p) \/ Ask(p) \/ Count(p) \/ Note(p)  PROVE JobInv'
<1>w. world' = world /\ Held(job[p])
  BY DEF CubePage, Ask, Count, Note, NoteAt, JobInv
<1>1. CASE CubePage(p)
  <2>1. job[p].at = "cube"
    BY <1>1 DEF CubePage
  <2>2. CASE Finish(p, "raised")
    BY <1>w, <2>2, JobFinish
  <2>3. CASE Goto(p, "scores")
    BY <1>w, <2>3, JobGoto DEF Special
  <2>4. CASE job' = [job EXCEPT ![p].page = @ + 1]
    <3> DEFINE next == job[p].page + 1
               a == [job[p] EXCEPT !.page = next]
    <3>1. job' = [job EXCEPT ![p] = a]
      BY <2>4 DEF JobInv
    <3> HIDE DEF next
    <3>2. Held(a)
      BY <1>w, <2>1, HeldAlso DEF Plain, Special
    <3> HIDE DEF a
    <3> QED BY <1>w, <3>1, <3>2, JobMoves
  <2> QED BY <1>1, <2>2, <2>3, <2>4 DEF CubePage
<1>2. CASE Ask(p)
  <2>1. ASSUME NEW result, Finish(p, result)  PROVE JobInv'
    BY <1>w, <2>1, JobFinish
  <2>2. CASE job' = [job EXCEPT ![p].at = "count", ![p].time = importTime]
    <3> DEFINE a == [job[p] EXCEPT !.at = "count"]
               b == [a EXCEPT !.time = importTime]
    <3>1. job' = [job EXCEPT ![p] = b]
      BY <2>2 DEF JobInv
    <3>2. Held(a)
      BY <1>w, HeldGoto DEF Special
    <3> HIDE DEF a
    <3>3. Held(b)
      BY <3>2, HeldAlso DEF Plain
    <3> HIDE DEF b
    <3> QED BY <1>w, <3>1, <3>3, JobMoves
  <2> QED BY <1>2, <2>1, <2>2 DEF Ask
<1>3. CASE Count(p)
  <2>1. ASSUME NEW result, job' = [job EXCEPT ![p].at = "note", ![p].result = result]  PROVE JobInv'
    <3> DEFINE a == [job[p] EXCEPT !.at = "note"]
               b == [a EXCEPT !.result = result]
    <3>1. job' = [job EXCEPT ![p] = b]
      BY <2>1 DEF JobInv
    <3>2. Held(a)
      BY <1>w, HeldGoto DEF Special
    <3> HIDE DEF a
    <3>3. Held(b)
      BY <3>2, HeldAlso DEF Plain
    <3> HIDE DEF b
    <3> QED BY <1>w, <3>1, <3>3, JobMoves
  <2> QED BY <1>3, <2>1 DEF Count
<1>4. CASE Note(p)
  BY <1>4, <1>w, JobFinish DEF Note, NoteAt
<1> QED BY <1>1, <1>2, <1>3, <1>4

LEMMA JobNext ==
  ASSUME CardsAssumption, VersionsInv, JobInv, [Next]_vars  PROVE JobInv'
<1>1. ASSUME NEW p \in Procs, Work(p) \/ CompleteExpires(p)  PROVE JobInv'
  <2>1. CASE Start(p)
    BY <2>1, JobStart
  <2>2. CASE ScryfallSearch(p)
    BY <2>2, JobSearch
  <2>3. CASE NextIsTag(p) \/ MarkCards(p)
    BY <2>3, JobTags
  <2>4. CASE \/ DiscoverFails(p) \/ LockImport(p) \/ AfterSetup(p) \/ FetchRaised(p) \/ ImportCards(p)
             \/ Stamp(p) \/ ScoreCards(p) \/ SyncHierarchy(p) \/ ClearTags(p) \/ SetTags(p) \/ TagsDone(p) \/ EndImport(p)
             \/ ImportFound(p)
    BY <2>4, JobImport
  <2>5. CASE CubePage(p) \/ Ask(p) \/ Count(p) \/ Note(p)
    BY <2>5, JobAnswers
  <2>6. CASE SetUp(p) \/ Fetch(p) \/ ReadFails(p) \/ CompleteExpires(p)
    BY <2>6, JobStands DEF SetUp, Fetch, CompleteExpires, ReadFails, BulkFiles!ReadFails
  <2> QED BY <1>1, <2>1, <2>2, <2>3, <2>4, <2>5, <2>6 DEF Work
<1>2. CASE Restart
  <2>1. world' = world /\ setting' = setting /\ job' = [q \in Procs |-> Idle(setting.jobs[q])]
    BY <1>2 DEF Restart, setting
  <2>2. \A q \in Procs : Held(job'[q])
    BY <2>1, IdleHeld
  <2>3. \A q \in Procs : Held(job[q])' <=> Held(job'[q])
    BY <2>1 DEF Held
  <2> QED BY <2>1, <2>2, <2>3 DEF JobInv
<1>3. CASE RecentEnds \/ FilesChange \/ AllDone \/ UNCHANGED vars
  BY <1>3, JobStands DEF RecentEnds, FilesChange, AllDone, vars
<1> QED BY <1>1, <1>2, <1>3 DEF Next

LEMMA JobInitOK == ASSUME Init  PROVE JobInv
BY IdleHeld DEF Init, JobInv

-----------------------------------------------------------------------------
(* What a step may do to the table.                                        *)

(* One column of some rows gets another value.                             *)
Edited(t, u, c) ==
  /\ DOMAIN u = DOMAIN t
  /\ \A id \in DOMAIN t : DOMAIN u[id] = DOMAIN t[id] /\ \A d \in DOMAIN t[id] \ {c} : u[id][d] = t[id][d]
Grown(t, u) == \A id \in DOMAIN t : t[id]["card_is_tags"] \subseteq u[id]["card_is_tags"]
(* The operations beside the imports write one column.                     *)
OtherEdit ==
  \/ table' = table
  \/ \E c \in {"cubecobra_elo", "cubecobra_score"} : Edited(table, table', c)
  \/ Edited(table, table', "card_is_tags") /\ Grown(table, table')
TableEdit == OtherEdit \/ Edited(table, table', "card_oracle_tags")
TableStep ==
  \/ TableEdit
  \/ table' = NoTable
  \/ \E cards \in Seq(Cards) : table' = UpsertCards(table, cards, PageSize).table

LEMMA EditedGood ==
  ASSUME NEW t, NEW u, NEW c, c \notin ImportColumns, Good(t), Edited(t, u, c)  PROVE Good(u)
<1>1. ASSUME NEW id \in DOMAIN t  PROVE DOMAIN u[id] = Columns /\ \A d \in ImportColumns : u[id][d] = t[id][d]
  BY DEF Edited, Good, Columns
<1>2. ASSUME NEW id \in DOMAIN t  PROVE Admits(u[id])
  <2>1. Admits(t[id])
    BY DEF Good
  <2>2. {"card_types", "card_subtypes", "creature_power", "creature_power_text", "card_rarity_int"} \subseteq ImportColumns
    BY DEF ImportColumns
  <2>3. /\ u[id]["card_types"] = t[id]["card_types"] /\ u[id]["card_subtypes"] = t[id]["card_subtypes"]
        /\ u[id]["creature_power"] = t[id]["creature_power"] /\ u[id]["creature_power_text"] = t[id]["creature_power_text"]
        /\ u[id]["card_rarity_int"] = t[id]["card_rarity_int"]
    BY <1>1, <2>2
  <2> QED BY <2>1, <2>3 DEF Admits
<1> QED BY <1>1, <1>2 DEF Good, Edited

(* Steps that leave the table alone.                                       *)
AwayFromTable(p) ==
  \/ Start(p) \/ DiscoverFails(p) \/ LockImport(p) \/ AfterSetup(p) \/ Fetch(p) \/ ReadFails(p) \/ FetchRaised(p)
  \/ Stamp(p) \/ SyncHierarchy(p) \/ TagsDone(p) \/ EndImport(p) \/ ScryfallSearch(p) \/ NextIsTag(p)
  \/ Ask(p) \/ Count(p) \/ Note(p) \/ CompleteExpires(p)
LEMMA TableUntouched ==
  ASSUME NEW p, AwayFromTable(p) \/ RecentEnds \/ FilesChange \/ Restart \/ AllDone  PROVE table' = table
<1>1. CASE Start(p) \/ DiscoverFails(p) \/ LockImport(p) \/ AfterSetup(p) \/ Fetch(p) \/ ReadFails(p) \/ FetchRaised(p)
  BY <1>1 DEF Start, DiscoverFails, LockImport, AfterSetup, Fetch, ReadFails, FetchRaised
<1>2. CASE Stamp(p) \/ SyncHierarchy(p) \/ TagsDone(p) \/ EndImport(p) \/ ScryfallSearch(p) \/ NextIsTag(p)
  BY <1>2 DEF Stamp, SyncHierarchy, Dies, TagsDone, EndImport, ScryfallSearch, NextIsTag
<1>3. CASE Ask(p) \/ Count(p) \/ Note(p) \/ CompleteExpires(p) \/ RecentEnds \/ FilesChange \/ Restart \/ AllDone
  BY <1>3 DEF Ask, Count, Note, NoteAt, CompleteExpires, RecentEnds, FilesChange, Restart, AllDone, vars
<1> QED BY <1>1, <1>2, <1>3 DEF AwayFromTable

Edits(p) == ScoreCards(p) \/ ClearTags(p) \/ SetTags(p) \/ CubePage(p) \/ MarkCards(p)
LEMMA OtherEdits ==
  ASSUME Good(table), NEW p, ScoreCards(p) \/ CubePage(p) \/ MarkCards(p)  PROVE OtherEdit
<1>c. "card_is_tags" \in Columns
  BY DEF Columns, TagColumns
<1>1. CASE ScoreCards(p)
  <2>1. CASE table' = table
    BY <2>1 DEF OtherEdit
  <2>2. CASE table' # table
    <3>1. PICK s : table' = [id \in DOMAIN table |-> [table[id] EXCEPT !["cubecobra_score"] = s[id]]]
      BY <1>1, <2>2 DEF ScoreCards
    <3>2. Edited(table, table', "cubecobra_score")
      BY <3>1 DEF Edited
    <3> QED BY <3>2 DEF OtherEdit
  <2> QED BY <2>1, <2>2
<1>2. CASE CubePage(p)
  <2>1. CASE table' = table
    BY <2>1 DEF OtherEdit
  <2>2. CASE table' # table
    <3> DEFINE elo == setting.cube[job[p].page]
               of == job[p].left \cap DOMAIN elo
    <3>1. table' = [id \in DOMAIN table |-> IF table[id]["oracle_id"] \notin of THEN table[id]
                                                           ELSE [table[id] EXCEPT !["cubecobra_elo"] = elo[table[id]["oracle_id"]]]]
      BY <1>2, <2>2 DEF CubePage
    <3> HIDE DEF of, elo
    <3>2. Edited(table, table', "cubecobra_elo")
      BY <3>1 DEF Edited
    <3> QED BY <3>2 DEF OtherEdit
  <2> QED BY <2>1, <2>2
<1>3. CASE MarkCards(p)
  <2>1. CASE table' = table
    BY <2>1 DEF OtherEdit
  <2>2. CASE table' # table
    <3> DEFINE tag == Head(job[p].tags)
               x == CHOOSE y \in job[p].left : TRUE
               column == IF KindOf(tag) = "card" THEN "card_name" ELSE "scryfall_id"
    <3>1. table' = [id \in DOMAIN table |-> IF table[id][column] # x THEN table[id]
                                           ELSE [table[id] EXCEPT !["card_is_tags"] = @ \cup {tag}]]
      BY <1>3, <2>2 DEF MarkCards
    <3> HIDE DEF x, tag, column
    <3>2. Edited(table, table', "card_is_tags")
      BY <3>1 DEF Edited
    <3>3. "card_is_tags" \in Columns
      BY <1>c
    <3>4. Grown(table, table')
      BY <3>1, <3>3 DEF Grown, Good
    <3> QED BY <3>2, <3>4 DEF OtherEdit
  <2> QED BY <2>1, <2>2
<1> QED BY <1>1, <1>2, <1>3

LEMMA TableEdits ==
  ASSUME Good(table), NEW p, Edits(p)  PROVE TableEdit
<1>1. CASE ScoreCards(p) \/ CubePage(p) \/ MarkCards(p)
  BY <1>1, OtherEdits DEF TableEdit
<1>2. CASE ClearTags(p)
  <2>1. CASE table' = table
    BY <2>1 DEF TableEdit, OtherEdit
  <2>2. CASE table' # table
    <3> DEFINE keep == DOMAIN IdToTags(TagDump(p)) \cup {NULL}
    <3>1. table' = [id \in DOMAIN table |-> IF table[id]["oracle_id"] \in keep THEN table[id]
                                             ELSE [table[id] EXCEPT !["card_oracle_tags"] = {}]]
      BY <1>2, <2>2 DEF ClearTags, Dies
    <3> HIDE DEF keep
    <3>2. Edited(table, table', "card_oracle_tags")
      BY <3>1 DEF Edited
    <3> QED BY <3>2 DEF TableEdit
  <2> QED BY <2>1, <2>2
<1>3. CASE SetTags(p)
  <2>1. CASE table' = table
    BY <2>1 DEF TableEdit, OtherEdit
  <2>2. CASE table' # table
    <3> DEFINE o == CHOOSE x \in job[p].left : TRUE
               tags == IdToTags(TagDump(p))[o]
    <3>1. table' = [id \in DOMAIN table |-> IF table[id]["oracle_id"] # o THEN table[id]
                                                           ELSE [table[id] EXCEPT !["card_oracle_tags"] = tags]]
      BY <1>3, <2>2 DEF SetTags, Dies
    <3> HIDE DEF o, tags
    <3>2. Edited(table, table', "card_oracle_tags")
      BY <3>1 DEF Edited
    <3> QED BY <3>2 DEF TableEdit
  <2> QED BY <2>1, <2>2
<1> QED BY <1>1, <1>2, <1>3 DEF Edits

LEMMA TableMoves ==
  ASSUME IngestAssumption, CardsAssumption, FilesInv, VersionsInv, JobInv, Good(table), [Next]_vars
  PROVE  TableStep
<1>1. ASSUME NEW p \in Procs, Work(p) \/ CompleteExpires(p)  PROVE TableStep
  <2>1. CASE AwayFromTable(p)
    BY <2>1, TableUntouched DEF TableStep, TableEdit, OtherEdit
  <2>2. CASE SetUp(p)
    BY <2>2 DEF SetUp, TableStep, TableEdit, OtherEdit
  <2>3. CASE ImportCards(p)
    <3>1. CASE table' = table
      BY <3>1 DEF TableStep, TableEdit, OtherEdit
    <3>2. CASE table' # table
      <4>1. Committed(p, setting.cards[fetch[p].bytes]) /\ fetch[p].at = "read"
        BY <2>3, <3>2 DEF ImportCards
      <4>2. setting.cards[fetch[p].bytes] \in Seq(Cards)
        <5>1. published \in 1 .. Len(setting.cards) /\ fetch[p].bytes \in 1 .. published /\ Len(setting.cards) \in Nat
          BY <4>1, CardsAre DEF VersionsInv
        <5>2. fetch[p].bytes \in 1 .. Len(setting.cards)
          BY <5>1
        <5> QED BY <5>2, CardsAre DEF VersionsInv
      <4> QED BY <4>1, <4>2 DEF TableStep, Committed
    <3> QED BY <3>1, <3>2
  <2>4. CASE ImportFound(p)
    <3>1. job[p].found \in Seq(Cards)
      BY DEF JobInv, Held
    <3> QED BY <2>4, <3>1 DEF ImportFound, Committed, TableStep, TableEdit, OtherEdit
  <2>5. CASE Edits(p)
    BY <2>5, TableEdits DEF TableStep
  <2> QED BY <1>1, <2>1, <2>2, <2>3, <2>4, <2>5 DEF Work, AwayFromTable, Edits
<1>2. CASE RecentEnds \/ FilesChange \/ Restart \/ AllDone \/ UNCHANGED vars
  BY <1>2, TableUntouched DEF TableStep, TableEdit, OtherEdit, vars
<1> QED BY <1>1, <1>2 DEF Next

RowsInv == FilesInv /\ VersionsInv /\ JobInv /\ Good(table)

LEMMA NoTableGood == Good(NoTable) /\ DOMAIN NoTable = {}
BY DEF Good, NoTable
LEMMA RowsInitOK == ASSUME IngestAssumption, CardsAssumption, Init  PROVE RowsInv
<1>1. FilesInv /\ VersionsInv /\ JobInv
  BY FilesInitOK, VersionsInitOK, JobInitOK
<1>2. setting.before \in Seq(Cards) /\ table = UpsertCards(NoTable, setting.before, PageSize).table
  BY <1>1, CardsAre DEF VersionsInv, Init
<1>3. Good(table)
  BY <1>2, NoTableGood, UpsertKeeps
<1> QED BY <1>1, <1>3 DEF RowsInv
LEMMA RowsNext == ASSUME IngestAssumption, CardsAssumption, RowsInv, [Next]_vars  PROVE RowsInv'
<1>1. FilesInv' /\ VersionsInv' /\ JobInv'
  BY FilesNext, VersionsNext, JobNext DEF RowsInv
<1>2. TableStep
  BY TableMoves DEF RowsInv
<1>3. Good(table')
  <2>1. Good(table)
    BY DEF RowsInv
  <2>2. ASSUME NEW cards \in Seq(Cards), table' = UpsertCards(table, cards, PageSize).table  PROVE Good(table')
    BY <2>1, <2>2, UpsertKeeps
  <2>3. ASSUME NEW c \in {"card_oracle_tags", "cubecobra_elo", "cubecobra_score", "card_is_tags"}, Edited(table, table', c)
        PROVE  Good(table')
    <3>1. c \notin ImportColumns
      BY DEF ImportColumns
    <3> QED BY <2>1, <2>3, <3>1, EditedGood
  <2> QED BY <1>2, <2>1, <2>2, <2>3, NoTableGood DEF TableStep, TableEdit, OtherEdit
<1> QED BY <1>1, <1>3 DEF RowsInv, Good

(* What is stored never makes an import fail: over rows that satisfy the   *)
(* constraints a dump is admitted whenever an empty table admits it, since *)
(* every row sets the columns that a constraint relates.                   *)
THEOREM StoredRowsNeverBlock == Spec => []GoodDumpsLoad
<1>1. Init => RowsInv
  BY RowsInitOK, IngestAssumption, CardsAssumption
<1>2. RowsInv /\ [Next]_vars => RowsInv'
  BY RowsNext, IngestAssumption, CardsAssumption
<1>3. RowsInv => GoodDumpsLoad
  <2> SUFFICES ASSUME RowsInv, NEW p \in Procs, job[p].at = "cards", fetch[p].at = "read",
                      UpsertCards(NoTable, setting.cards[fetch[p].bytes], PageSize).status = "success"
               PROVE  UpsertCards(table, setting.cards[fetch[p].bytes], PageSize).status = "success"
    BY DEF GoodDumpsLoad
  <2>1. published \in 1 .. Len(setting.cards) /\ fetch[p].bytes \in 1 .. published /\ Len(setting.cards) \in Nat
    BY CardsAre, CardsAssumption DEF RowsInv, VersionsInv
  <2>2. fetch[p].bytes \in 1 .. Len(setting.cards)
    BY <2>1
  <2>3. setting.cards[fetch[p].bytes] \in Seq(Cards)
    BY <2>2, CardsAre, CardsAssumption DEF RowsInv, VersionsInv
  <2> QED BY <2>3, UpsertLoads, IngestAssumption, CardsAssumption DEF RowsInv
<1> QED BY <1>1, <1>2, <1>3, PTL DEF Spec

(* No step takes an is: tag from a card that stays: upserts extend the     *)
(* table and skip the tag columns, and the other writes are to other       *)
(* columns or add a tag.                                                   *)
THEOREM IsTagsAreNeverLost == Spec => IsTagsKept
<1> DEFINE A == \A id \in DOMAIN table \cap DOMAIN table' : table[id]["card_is_tags"] \subseteq table'[id]["card_is_tags"]
<1>1. Init => RowsInv
  BY RowsInitOK, IngestAssumption, CardsAssumption
<1>2. RowsInv /\ [Next]_vars => RowsInv'
  BY RowsNext, IngestAssumption, CardsAssumption
<1>3. RowsInv /\ [Next]_vars => A
  <2> SUFFICES ASSUME RowsInv, [Next]_vars  PROVE A
    OBVIOUS
  <2>1. TableStep /\ Good(table)
    BY TableMoves, IngestAssumption, CardsAssumption DEF RowsInv
  <2>2. CASE table' = table
    BY <2>2
  <2>3. CASE table' = NoTable
    BY <2>3, NoTableGood
  <2>4. ASSUME NEW cards \in Seq(Cards), table' = UpsertCards(table, cards, PageSize).table  PROVE A
    <3>1. Extends(table, table')
      BY <2>1, <2>4, UpsertKeeps, IngestAssumption, CardsAssumption
    <3>2. "card_is_tags" \in TagColumns
      BY DEF TagColumns
    <3> QED BY <3>1, <3>2 DEF Extends
  <2>5. ASSUME NEW c \in {"card_oracle_tags", "cubecobra_elo", "cubecobra_score"}, Edited(table, table', c)  PROVE A
    <3>1. "card_is_tags" \in Columns /\ "card_is_tags" # c
      BY DEF Columns, TagColumns
    <3> QED BY <2>1, <2>5, <3>1 DEF Edited, Good
  <2>6. CASE Grown(table, table')
    BY <2>6 DEF Grown
  <2> QED BY <2>1, <2>2, <2>3, <2>4, <2>5, <2>6 DEF TableStep, TableEdit, OtherEdit
<1>4. RowsInv /\ [Next]_vars => [A]_vars
  BY <1>3
<1> QED BY <1>1, <1>2, <1>4, PTL DEF Spec, IsTagsKept

-----------------------------------------------------------------------------
(* The rows of the last import.                                            *)

LEMMA LaterPages ==
  ASSUME NEW size \in Nat \ {0}, NEW n \in Nat \ {0}, NEW m \in Nat, n < m  PROVE Low(n, size) + size <= Low(m, size)
<1> DEFINE d == m - 1 - n
<1>1. d \in Nat /\ m - 1 = n + d
  OBVIOUS
<1> HIDE DEF d
<1>2. d * size \in Nat
  BY <1>1
<1>3. (n + d) * size = n * size + d * size
  BY <1>1
<1>4. (n - 1) * size + size = n * size
  OBVIOUS
<1> QED BY <1>1, <1>2, <1>3, <1>4 DEF Low

Followed == Kept \cap ImportColumns
LastOfId(rows, i) == \A j \in i + 1 .. Len(rows) : rows[j]["scryfall_id"] # rows[i]["scryfall_id"]
Carries(t, row) == /\ row["scryfall_id"] \in DOMAIN t
                   /\ \A c \in Followed : c \in DOMAIN row /\ t[row["scryfall_id"]][c] = row[c]
Follows(t, cards) ==
  \A i \in DOMAIN PreprocessAll(cards) : LastOfId(PreprocessAll(cards), i) => Carries(t, PreprocessAll(cards)[i])

(* The page of the last row of a card writes it, and no later one has a    *)
(* row of that card.                                                       *)
LEMMA UpsertFollows ==
  ASSUME IngestAssumption, CardsAssumption, NEW cards \in Seq(Cards), NEW t, Admitted(t, cards)
  PROVE  Follows(UpsertCards(t, cards, PageSize).table, cards)
<1> DEFINE rows == PreprocessAll(cards)
           P == PagesOf(cards)
           N == Len(P)
           a == After(t, cards)
<1>1. PICK S : rows \in Seq(S) /\ \A r \in S : Row(r)
  BY RowsAre
<1>2. /\ P \in Seq(Seq(S)) /\ N \in Nat
      /\ \A n \in 1 .. N : \A j \in DOMAIN P[n] :
           /\ Low(n, PageSize) \in Nat /\ j \in 1 .. PageSize /\ Low(n, PageSize) + j \in 1 .. Len(rows)
           /\ P[n][j] = rows[Low(n, PageSize) + j]
      /\ \A i \in 1 .. Len(rows) : \E n \in 1 .. N : \E j \in DOMAIN P[n] : i = Low(n, PageSize) + j
  BY <1>1, PagesAre DEF PagesOf, IngestAssumption
<1>3. /\ DOMAIN a = 0 .. N
      /\ \A n \in 1 .. N : a[n] = BulkUpsert(a[n - 1], P[n], TagColumns)
  BY AfterIs
<1>4. UpsertCards(t, cards, PageSize).table = a[N]
  BY UpsertCardsIs
<1>z. PageSize \in Nat \ {0}
  BY DEF IngestAssumption
<1> HIDE DEF rows, P, N, a
<1>n. N \in Nat
  BY <1>2
<1>p. ASSUME NEW n \in 1 .. N, NEW j \in DOMAIN P[n]
      PROVE  Low(n, PageSize) \in Nat /\ j \in Nat /\ P[n][j] = rows[Low(n, PageSize) + j]
  <2>1. Low(n, PageSize) \in Nat /\ j \in 1 .. PageSize /\ P[n][j] = rows[Low(n, PageSize) + j]
    BY <1>2
  <2> QED BY <1>z, <2>1
<1> SUFFICES ASSUME NEW i \in DOMAIN rows, LastOfId(rows, i)  PROVE Carries(a[N], rows[i])
  BY <1>4 DEF Follows, rows
<1>5. i \in 1 .. Len(rows) /\ Len(rows) \in Nat /\ rows[i] \in S /\ Row(rows[i])
  BY <1>1
<1> DEFINE id == rows[i]["scryfall_id"]
<1>6. PICK n \in 1 .. N : \E j \in DOMAIN P[n] : i = Low(n, PageSize) + j
  BY <1>2, <1>5
<1>7. PICK k \in DOMAIN P[n] : i = Low(n, PageSize) + k
  BY <1>6
<1>8. ASSUME NEW m \in 1 .. N, NEW j \in DOMAIN P[m], P[m][j]["scryfall_id"] = id
      PROVE  Low(m, PageSize) + j <= i
  <2>1. Low(m, PageSize) + j \in 1 .. Len(rows) /\ rows[Low(m, PageSize) + j]["scryfall_id"] = id
    BY <1>2, <1>8
  <2> QED BY <1>5, <2>1 DEF LastOfId
<1>s. \A m \in 1 .. N : P[m] \in Seq(S)
  BY <1>2 DEF N
<1>9. Followed \subseteq Columns \ TagColumns /\ Followed \subseteq DOMAIN rows[i]
  <2>1. ImportColumns \cap TagColumns = {}
    BY DEF ImportColumns, TagColumns
  <2> QED BY <1>5, <2>1 DEF Followed, Columns, Row
(* Its page has it.                                                        *)
<1>10. Carries(a[n], rows[i])
  <2> DEFINE page == DedupeRows(P[n])
  <2>1. P[n][k] = rows[i] /\ Low(n, PageSize) \in Nat /\ k \in Nat
    BY <1>p, <1>7
  <2>2. id \in DOMAIN page
    <3>1. DOMAIN page = {P[n][j]["scryfall_id"] : j \in DOMAIN P[n]}
      BY DEF DedupeRows
    <3> HIDE DEF page
    <3> QED BY <2>1, <3>1
  <2>3. PICK m \in DOMAIN P[n] : /\ P[n][m]["scryfall_id"] = id /\ page[id] = P[n][m]
                                 /\ \A j \in DOMAIN P[n] : P[n][j]["scryfall_id"] = id => j <= m
    BY <1>s, <2>2, DedupeIs
  <2>4. m = k
    <3>1. k <= m
      BY <2>1, <2>3
    <3>2. Low(n, PageSize) + m <= Low(n, PageSize) + k
      BY <1>7, <1>8, <2>3
    <3>3. m \in Nat
      BY <1>p
    <3> QED BY <2>1, <3>1, <3>2, <3>3
  <2>5. page[id] = rows[i]
    BY <2>1, <2>3, <2>4
  <2>6. UpsertsTo(a[n - 1], page, a[n])
    BY <1>3, UpsertedIs DEF BulkUpsert
  <2> HIDE DEF page, id
  <2>7. ASSUME NEW c \in Followed  PROVE c \in DOMAIN rows[i] /\ a[n][id][c] = rows[i][c]
    <3>1. c \in Columns /\ c \in DOMAIN page[id] \ TagColumns
      BY <1>9, <2>5, <2>7
    <3> QED BY <1>9, <2>2, <2>5, <2>6, <3>1 DEF UpsertsTo
  <2>8. id \in DOMAIN a[n]
    BY <2>2, <2>6 DEF UpsertsTo
  <2> QED BY <2>7, <2>8 DEF Carries, id
(* No later page has a row of the card.                                    *)
<1>11. ASSUME NEW m \in 1 .. N, n < m  PROVE id \notin DOMAIN DedupeRows(P[m])
  <2> SUFFICES ASSUME id \in DOMAIN DedupeRows(P[m])  PROVE FALSE
    OBVIOUS
  <2>1. PICK j \in DOMAIN P[m] : P[m][j]["scryfall_id"] = id
    <3>1. DOMAIN DedupeRows(P[m]) = {P[m][j]["scryfall_id"] : j \in DOMAIN P[m]}
      BY DEF DedupeRows
    <3> HIDE DEF id
    <3> QED BY <3>1
  <2>2. Low(m, PageSize) + j <= i /\ Low(m, PageSize) \in Nat /\ j \in 1 .. PageSize
    BY <1>2, <1>8, <2>1
  <2>3. Low(n, PageSize) + PageSize <= Low(m, PageSize)
    <3>1. n \in Nat \ {0} /\ m \in Nat
      BY <1>n
    <3> QED BY <1>11, <1>z, <3>1, LaterPages
  <2>4. i <= Low(n, PageSize) + PageSize /\ Low(n, PageSize) \in Nat
    <3>1. Low(n, PageSize) \in Nat /\ k \in 1 .. PageSize
      BY <1>2, <1>7
    <3> QED BY <1>7, <1>z, <3>1
  <2> QED BY <1>5, <1>z, <2>2, <2>3, <2>4
<1>12. ASSUME NEW m \in 1 .. N, n < m, Carries(a[m - 1], rows[i])  PROVE Carries(a[m], rows[i])
  <2> DEFINE page == DedupeRows(P[m])
  <2>1. UpsertsTo(a[m - 1], page, a[m])
    BY <1>3, UpsertedIs DEF BulkUpsert
  <2>2. id \notin DOMAIN page
    BY <1>11, <1>12
  <2> HIDE DEF page, id
  <2>3. id \in DOMAIN a[m - 1] /\ \A c \in Followed : c \in DOMAIN rows[i] /\ a[m - 1][id][c] = rows[i][c]
    BY <1>12 DEF Carries, id
  <2>4. \A c \in Followed : a[m][id][c] = a[m - 1][id][c]
    BY <1>9, <2>1, <2>2, <2>3 DEF UpsertsTo
  <2>5. id \in DOMAIN a[m]
    BY <2>1, <2>3 DEF UpsertsTo
  <2> QED BY <2>3, <2>4, <2>5 DEF Carries, id
<1> DEFINE G == {m \in 0 .. N : n <= m => Carries(a[m], rows[i])}
           c == [m \in 0 .. N |-> m]
<1>13. c[0] \in G
  BY <1>n
<1>14. ASSUME NEW m \in 1 .. N, c[m - 1] \in G  PROVE c[m] \in G
  <2>1. m - 1 \in 0 .. N /\ m \in 0 .. N /\ c[m - 1] = m - 1 /\ c[m] = m
    BY <1>n
  <2>2. n <= m - 1 => Carries(a[m - 1], rows[i])
    BY <1>14, <2>1
  <2>3. CASE n = m
    BY <1>10, <2>1, <2>3
  <2>4. CASE n < m
    <3>1. n <= m - 1
      BY <2>4
    <3>2. Carries(a[m], rows[i])
      BY <1>12, <2>2, <2>4, <3>1
    <3> QED BY <2>1, <3>2
  <2>5. CASE ~(n <= m)
    BY <2>1, <2>5
  <2> QED BY <2>3, <2>4, <2>5
<1> HIDE DEF G, c
<1>15. \A m \in 0 .. N : c[m] \in G
  BY <1>2, <1>13, <1>14, RangeInduction
<1>16. N \in 0 .. N /\ n <= N
  BY <1>n
<1> QED BY <1>15, <1>16 DEF G, c

LEMMA EditedFollows ==
  ASSUME NEW t, Good(t), NEW u, NEW c, c \notin ImportColumns, Edited(t, u, c), NEW cards, Follows(t, cards)
  PROVE  Follows(u, cards)
<1> SUFFICES ASSUME NEW row, Carries(t, row)  PROVE Carries(u, row)
  BY DEF Follows
<1> DEFINE id == row["scryfall_id"]
<1>1. id \in DOMAIN t /\ \A d \in Followed : d \in DOMAIN row /\ t[id][d] = row[d]
  BY DEF Carries
<1> HIDE DEF id
<1>2. DOMAIN t[id] = Columns /\ Followed \subseteq Columns \ {c}
  BY <1>1 DEF Good, Followed, Columns
<1>3. id \in DOMAIN u /\ \A d \in Followed : u[id][d] = t[id][d]
  BY <1>1, <1>2 DEF Edited
<1> QED BY <1>1, <1>3 DEF Carries, id

FollowInv ==
  /\ RowsInv /\ loaded \in 0 .. Len(setting.cards)
  /\ loaded # 0 => Follows(table, setting.cards[loaded])

(* An import that does not succeed changes nothing.                        *)
LEMMA UpsertFails ==
  ASSUME IngestAssumption, CardsAssumption, NEW t, NEW cards \in Seq(Cards), UpsertCards(t, cards, PageSize).status # "success"
  PROVE  UpsertCards(t, cards, PageSize).table = t
<1>1. CASE ~Admitted(t, cards)
  BY <1>1, UpsertCardsIs
<1>2. CASE Admitted(t, cards) /\ PreprocessAll(cards) = <<>>
  <2>1. Len(PagesOf(cards)) = 0
    <3>1. Len(<<>>) = 0 /\ (0 + PageSize - 1) \div PageSize = 0
      BY DEF IngestAssumption
    <3>2. PagesOf(cards) = [n \in 1 .. (Len(<<>>) + PageSize - 1) \div PageSize |->
             SubSeq(<<>>, (n - 1) * PageSize + 1, IF n * PageSize < Len(<<>>) THEN n * PageSize ELSE Len(<<>>))]
      BY Zenon, <1>2 DEF PagesOf, Pages
    <3>3. DOMAIN PagesOf(cards) = {}
      BY <3>1, <3>2
    <3>4. PICK S : PreprocessAll(cards) \in Seq(S)
      BY RowsAre
    <3>5. PagesOf(cards) \in Seq(Seq(S))
      BY <3>4, PagesAre DEF PagesOf, IngestAssumption
    <3> QED BY <3>3, <3>5
  <2>2. After(t, cards)[0] = t
    BY AfterIs
  <2> QED BY <1>2, <2>1, <2>2, UpsertCardsIs
<1> QED BY <1>1, <1>2, UpsertCardsIs

(* Every step writes none of the columns that an import sets, or forgets   *)
(* the import, or is one.                                                  *)
LEMMA FollowNext == ASSUME IngestAssumption, CardsAssumption, FollowInv, [Next]_vars  PROVE FollowInv'
<1>w. RowsInv' /\ setting' = setting /\ Len(setting.cards) \in Nat /\ RowsInv
  BY RowsNext, WorldKept, CardsAre DEF FollowInv, RowsInv, VersionsInv, setting
<1>g. Good(table)
  BY <1>w DEF RowsInv
<1>0. CASE loaded' = 0
  BY <1>0, <1>w DEF FollowInv
<1>s. ASSUME loaded' = loaded, TableEdit  PROVE FollowInv'
  <2>1. loaded \in 0 .. Len(setting.cards) /\ (loaded # 0 => Follows(table, setting.cards[loaded]))
    BY DEF FollowInv
  <2>2. ASSUME loaded # 0, NEW c \in {"card_oracle_tags", "cubecobra_elo", "cubecobra_score", "card_is_tags"}, Edited(table, table', c)
        PROVE  Follows(table', setting.cards[loaded])
    <3>1. c \notin ImportColumns
      BY DEF ImportColumns
    <3> QED BY <1>g, <2>1, <2>2, <3>1, EditedFollows
  <2>3. loaded # 0 => Follows(table', setting.cards[loaded])
    BY <1>s, <2>1, <2>2 DEF TableEdit, OtherEdit
  <2>4. Follows(table, setting.cards[loaded])' <=> Follows(table', setting.cards[loaded])
    BY <1>s, <1>w DEF Follows, Carries, LastOfId
  <2> QED BY <1>s, <1>w, <2>1, <2>3, <2>4 DEF FollowInv
<1>u. ASSUME loaded' = loaded, table' = table  PROVE FollowInv'
  BY <1>s, <1>u DEF TableEdit, OtherEdit
<1>1. ASSUME NEW p \in Procs, Work(p) \/ CompleteExpires(p)  PROVE FollowInv'
  <2>1. CASE AwayFromTable(p)
    <3>1. loaded' = loaded
      <4>1. CASE Start(p) \/ DiscoverFails(p) \/ LockImport(p) \/ AfterSetup(p) \/ Fetch(p) \/ ReadFails(p) \/ FetchRaised(p)
        BY <4>1 DEF Start, DiscoverFails, LockImport, AfterSetup, Fetch, ReadFails, FetchRaised
      <4>2. CASE Stamp(p) \/ SyncHierarchy(p) \/ TagsDone(p) \/ EndImport(p) \/ ScryfallSearch(p) \/ NextIsTag(p)
        BY <4>2 DEF Stamp, SyncHierarchy, TagsDone, EndImport, ScryfallSearch, NextIsTag
      <4>3. CASE Ask(p) \/ Count(p) \/ Note(p) \/ CompleteExpires(p)
        BY <4>3 DEF Ask, Count, Note, NoteAt, CompleteExpires
      <4> QED BY <2>1, <4>1, <4>2, <4>3 DEF AwayFromTable
    <3> QED BY <1>u, <2>1, <3>1, TableUntouched
  <2>2. CASE Edits(p)
    <3>1. loaded' = loaded
      BY <2>2 DEF Edits, ScoreCards, ClearTags, SetTags, CubePage, MarkCards
    <3> QED BY <1>g, <1>s, <2>2, <3>1, TableEdits
  <2>3. CASE SetUp(p)
    BY <1>0, <1>u, <2>3 DEF SetUp
  <2>4. CASE ImportFound(p)
    BY <1>0, <1>u, <2>4 DEF ImportFound
  <2>5. CASE ImportCards(p)
    <3> DEFINE b == fetch[p].bytes
               cards == setting.cards[b]
    <3>1. fetch[p].at = "read" /\ b \in 1 .. Len(setting.cards)
      <4>1. fetch[p].at = "read"
        BY <2>5 DEF ImportCards
      <4>2. published \in 1 .. Len(setting.cards) /\ b \in 1 .. published
        BY <1>w, <4>1 DEF RowsInv, VersionsInv
      <4> QED BY <1>w, <4>1, <4>2
    <3>2. cards \in Seq(Cards)
      BY <1>w, <3>1, CardsAre DEF RowsInv, VersionsInv
    <3>3. CASE UNCHANGED <<table, loaded>>
      BY <1>u, <3>3
    <3>4. CASE Committed(p, cards) /\ UpsertCards(table, cards, PageSize).status = "success" /\ loaded' = b
      <4>1. Admitted(table, cards)
        BY <3>4, UpsertCardsIs
      <4>2. table' = UpsertCards(table, cards, PageSize).table
        BY <3>4 DEF Committed
      <4> HIDE DEF cards
      <4>3. Follows(table', cards)
        BY <3>2, <4>1, <4>2, UpsertFollows
      <4>4. Follows(table, setting.cards[loaded])' <=> Follows(table', cards)
        BY <1>w, <3>4 DEF Follows, Carries, LastOfId, cards
      <4> QED BY <1>w, <3>1, <3>4, <4>3, <4>4 DEF FollowInv
    <3>5. CASE Committed(p, cards) /\ UpsertCards(table, cards, PageSize).status # "success" /\ UNCHANGED loaded
      <4>1. table' = UpsertCards(table, cards, PageSize).table
        BY <3>5 DEF Committed
      <4> HIDE DEF cards
      <4> QED BY <1>u, <3>2, <3>5, <4>1, UpsertFails
    <3> QED BY <2>5, <3>3, <3>4, <3>5 DEF ImportCards
  <2> QED BY <1>1, <2>1, <2>2, <2>3, <2>4, <2>5 DEF Work, AwayFromTable, Edits
<1>2. CASE RecentEnds \/ FilesChange \/ Restart \/ AllDone \/ UNCHANGED vars
  <2>1. loaded' = loaded
    BY <1>2 DEF RecentEnds, FilesChange, Restart, AllDone, vars
  <2>2. table' = table
    BY <1>2, TableUntouched DEF vars
  <2> QED BY <1>u, <2>1, <2>2
<1> QED BY <1>1, <1>2 DEF Next

(* The rows of the cards of the last import say what it brought, in every  *)
(* column it sets: for any size of pages, any card in several of them, and *)
(* whatever the other operations do in between.                            *)
THEOREM ImportedRowsFollow == Spec => []RowsFollowTheDump
<1>1. Init => FollowInv
  <2> SUFFICES ASSUME Init  PROVE FollowInv
    OBVIOUS
  <2>1. RowsInv /\ loaded = 0
    BY RowsInitOK, IngestAssumption, CardsAssumption DEF Init
  <2>2. Len(setting.cards) \in Nat
    BY <2>1, CardsAre, CardsAssumption DEF RowsInv, VersionsInv
  <2> QED BY <2>1, <2>2 DEF FollowInv
<1>2. FollowInv /\ [Next]_vars => FollowInv'
  BY FollowNext, IngestAssumption, CardsAssumption
<1>3. FollowInv => RowsFollowTheDump
  <2> SUFFICES ASSUME FollowInv, loaded # 0  PROVE RowsFollowTheDump
    BY DEF RowsFollowTheDump
  <2> DEFINE cards == setting.cards[loaded]
             rows == PreprocessAll(cards)
             superseded(i) == \E j \in i + 1 .. Len(rows) : rows[j]["scryfall_id"] = rows[i]["scryfall_id"]
  <2>1. Follows(table, cards)
    BY DEF FollowInv
  <2>2. DOMAIN Always(cards[1]) \cap ImportColumns = Followed
    BY AlwaysKept DEF Followed
  <2>3. ASSUME NEW i \in DOMAIN rows, ~superseded(i), NEW c \in Followed
        PROVE  /\ rows[i]["scryfall_id"] \in DOMAIN table
               /\ table[rows[i]["scryfall_id"]][c] = IF Has(rows[i], c) THEN rows[i][c] ELSE NULL
    <3>1. LastOfId(rows, i)
      BY <2>3 DEF LastOfId
    <3>2. Carries(table, rows[i])
      BY <2>1, <3>1 DEF Follows
    <3> QED BY <3>2 DEF Carries, Has
  <2> QED BY Zenon, <2>2, <2>3 DEF RowsFollowTheDump
<1> QED BY <1>1, <1>2, <1>3, PTL DEF Spec

(* One process goes on, with its job or to the next.                       *)
Alone(p) == DOMAIN job' = Procs /\ \A q \in Procs \ {p} : job'[q] = job[q]

LEMMA GotoAlone ==
  ASSUME JobInv, NEW p \in Procs, NEW where, Goto(p, where)
  PROVE  Alone(p) /\ job'[p].todo = job[p].todo /\ job'[p].at = where
BY DEF Goto, JobInv, Held, JobFields, Alone

LEMMA FinishAlone ==
  ASSUME JobInv, NEW p \in Procs, NEW result, Finish(p, result)
  PROVE  Alone(p) /\ job'[p].todo = Tail(job[p].todo) /\ job'[p].at = "rest"
<1> DEFINE i == Idle(Tail(job[p].todo))
           c == [i EXCEPT !.imported = job[p].imported, !.failed = job[p].failed, !.result = result]
<1>1. job' = [job EXCEPT ![p] = c]
  BY DEF Finish
<1>2. i.at = "rest" /\ i.todo = Tail(job[p].todo) /\ DOMAIN i = JobFields
  BY IdleHeld
<1> HIDE DEF i
<1>3. c.at = "rest" /\ c.todo = Tail(job[p].todo)
  BY <1>2 DEF JobFields
<1> HIDE DEF c
<1>4. Alone(p) /\ job'[p] = c
  BY <1>1 DEF JobInv, Alone
<1> QED BY <1>3, <1>4

LEMMA NextTagAlone ==
  ASSUME JobInv, NEW p \in Procs, NEW tag, NEW good, NextTag(p, tag, good)
  PROVE  Alone(p) /\ job'[p].todo = job[p].todo /\ job'[p].at = "istags"
<1> DEFINE i == Idle(job[p].todo)
           more == job[p].imported \cup (IF good THEN {tag} ELSE {})
           less == job[p].failed \cup (IF good THEN {} ELSE {tag})
           a == [i EXCEPT !.at = "istags", !.tags = Tail(job[p].tags)]
           c == [a EXCEPT !.imported = more, !.failed = less]
<1>1. job' = [job EXCEPT ![p] = c]
  BY DEF NextTag, JobInv
<1>2. i.todo = job[p].todo /\ DOMAIN i = JobFields
  BY IdleHeld
<1> HIDE DEF i, more, less
<1>3. a.at = "istags" /\ a.todo = job[p].todo /\ DOMAIN a = JobFields
  BY <1>2 DEF JobFields
<1> HIDE DEF a
<1>4. c.at = "istags" /\ c.todo = job[p].todo
  BY <1>3 DEF JobFields
<1> HIDE DEF c
<1>5. Alone(p) /\ job'[p] = c
  BY <1>1 DEF JobInv, Alone
<1> QED BY <1>4, <1>5

-----------------------------------------------------------------------------
(* Whether setup is complete.                                              *)

(* The jobs of a setting without imports by search or by name: a process   *)
(* that is not at rest is doing the first of them.                         *)
Calm(j) == /\ j.todo \in Seq(STRING \ {"search", "name"})
           /\ j.at # "rest" => j.todo # <<>>
           /\ j.at # "upsert"

(* A small table may still be called so, and a large one until the import  *)
(* that has made it large is stamped.                                      *)
Excused == ~ EnoughCards \/ \E q \in Procs : job[q].at = "stamp"

(* An answer was given under this time or an earlier one, and counts under *)
(* this one only.                                                          *)
Timely(time, incomplete) == time \in Nat /\ time <= importTime /\ (incomplete /\ time = importTime => Excused)
Counting(j) == /\ j.at \in {"count", "note"} => j.time \in Nat /\ j.time <= importTime
               /\ j.at = "note" => Timely(j.time, j.result \notin {"complete", "error"})
Cached(c) == c = NULL \/ Timely(c.time, ~c.result /\ ~c.error)
AnswersInv ==
  /\ importTime \in Nat /\ DOMAIN complete = Procs
  /\ \A p \in Procs : Calm(job[p]) /\ Counting(job[p]) /\ Cached(complete[p])

GoesOn(p) == Alone(p) /\ Calm(job'[p]) /\ job'[p].at \notin {"count", "note"}

LEMMA AnswersKept ==
  ASSUME AnswersInv, DOMAIN job = Procs, NEW p \in Procs, GoesOn(p) \/ job' = job,
         UNCHANGED <<importTime, complete>>, Excused => Excused'
  PROVE  AnswersInv'
<1>1. importTime' \in Nat /\ DOMAIN complete' = Procs
  BY DEF AnswersInv
<1>2. ASSUME NEW q \in Procs  PROVE Calm(job'[q]) /\ Counting(job[q])' /\ Cached(complete[q])'
  <2>1. Calm(job[q]) /\ Counting(job[q]) /\ Cached(complete[q])
    BY DEF AnswersInv
  <2>2. Cached(complete[q])'
    BY <2>1 DEF Cached, Timely
  <2>3. CASE job'[q] = job[q]
    BY <2>1, <2>2, <2>3 DEF Counting, Timely
  <2>4. CASE job'[q] # job[q]
    BY <2>2, <2>4 DEF GoesOn, Alone, Counting
  <2> QED BY <2>3, <2>4
<1> QED BY <1>1, <1>2 DEF AnswersInv, Calm

(* A stamp makes every answer one of an earlier time.                      *)
LEMMA AnswersStamped ==
  ASSUME AnswersInv, NEW p \in Procs, GoesOn(p), importTime' = importTime + 1,
         DOMAIN complete' = DOMAIN complete, \A q \in Procs : complete'[q] \in {complete[q], NULL}
  PROVE  AnswersInv'
<1>1. importTime \in Nat /\ importTime' \in Nat /\ DOMAIN complete' = Procs
  BY DEF AnswersInv
<1>2. ASSUME NEW q \in Procs  PROVE Calm(job'[q]) /\ Counting(job[q])' /\ Cached(complete[q])'
  <2>1. Calm(job[q]) /\ Counting(job[q]) /\ Cached(complete[q])
    BY DEF AnswersInv
  <2>2. Cached(complete[q])'
    BY <1>1, <2>1 DEF Cached, Timely
  <2>3. CASE job'[q] = job[q]
    BY <1>1, <2>1, <2>2, <2>3 DEF Counting, Timely
  <2>4. CASE job'[q] # job[q]
    BY <2>2, <2>4 DEF GoesOn, Alone, Counting
  <2> QED BY <2>3, <2>4
<1> QED BY <1>1, <1>2 DEF AnswersInv, Calm

LEMMA CalmJob ==
  ASSUME AnswersInv, JobInv, NEW p \in Procs, job[p].at # "rest" \/ job[p].todo # <<>>
  PROVE  /\ job[p].todo \in Seq(STRING \ {"search", "name"}) /\ job[p].todo # <<>>
         /\ Tail(job[p].todo) \in Seq(STRING \ {"search", "name"})
         /\ Op(p) \notin {"search", "name"} /\ job[p].at # "upsert"
<1> DEFINE s == job[p].todo
           T == STRING \ {"search", "name"}
<1>1. s \in Seq(T) /\ s # <<>> /\ job[p].at # "upsert"
  BY DEF AnswersInv, Calm
<1> HIDE DEF s, T
<1>2. Tail(s) \in Seq(T) /\ Head(s) \in T
  BY <1>1
<1> QED BY <1>1, <1>2 DEF s, T, Op

Apart == {"rest", "upsert", "count", "note"}
LEMMA Proceeds ==
  ASSUME AnswersInv, JobInv, NEW p \in Procs, job[p].at # "rest" \/ job[p].todo # <<>>,
         Alone(p), job'[p].todo = job[p].todo, job'[p].at \notin Apart
  PROVE  GoesOn(p)
BY CalmJob DEF GoesOn, Calm, Apart

LEMMA GotoProceeds ==
  ASSUME AnswersInv, JobInv, NEW p \in Procs, job[p].at # "rest" \/ job[p].todo # <<>>,
         NEW where, where \notin Apart, Goto(p, where)
  PROVE  GoesOn(p) /\ job'[p].at = where
BY GotoAlone, Proceeds

LEMMA FinishProceeds ==
  ASSUME AnswersInv, JobInv, NEW p \in Procs, job[p].at # "rest" \/ job[p].todo # <<>>, NEW result, Finish(p, result)
  PROVE  GoesOn(p)
BY FinishAlone, CalmJob DEF GoesOn, Calm

LEMMA NextTagProceeds ==
  ASSUME AnswersInv, JobInv, NEW p \in Procs, job[p].at # "rest", NEW tag, NEW good, NextTag(p, tag, good)
  PROVE  GoesOn(p)
BY NextTagAlone, Proceeds DEF Apart

LEMMA ExcusedStays ==
  ASSUME IngestAssumption, NEW p \in Procs, (Alone(p) /\ job[p].at # "stamp") \/ job' = job,
         DOMAIN table' = DOMAIN table \/ table' = NoTable, Excused
  PROVE  Excused'
<1>1. CASE table' = NoTable
  <2>1. DOMAIN table' = {}
    BY <1>1, NoTableGood
  <2>2. Cardinality(DOMAIN table') = 0 /\ MinCards \in Nat
    BY <2>1, FS_EmptySet DEF IngestAssumption
  <2> QED BY <2>2 DEF Excused, EnoughCards
<1>2. CASE DOMAIN table' = DOMAIN table
  BY <1>2 DEF Excused, EnoughCards, Alone
<1> QED BY <1>1, <1>2

(* The steps that neither stamp nor ask.                                   *)
LEMMA ImportProceeds ==
  ASSUME AnswersInv, JobInv, NEW p \in Procs,
         \/ DiscoverFails(p) \/ LockImport(p) \/ AfterSetup(p) \/ FetchRaised(p) \/ ScoreCards(p)
         \/ SyncHierarchy(p) \/ ClearTags(p) \/ SetTags(p) \/ TagsDone(p)
  PROVE  GoesOn(p) /\ job[p].at # "stamp"
<1>h. DOMAIN job = Procs /\ DOMAIN job[p] = JobFields
  BY DEF JobInv, Held
<1>f. ASSUME job[p].at # "rest", NEW result, Finish(p, result)  PROVE GoesOn(p)
  BY <1>f, FinishProceeds
<1>g. ASSUME job[p].at # "rest", NEW where, where \notin Apart, Goto(p, where)  PROVE GoesOn(p)
  BY <1>g, GotoProceeds
<1>1. CASE DiscoverFails(p) \/ LockImport(p) \/ FetchRaised(p)
  BY <1>1, <1>f, <1>g DEF DiscoverFails, LockImport, FetchRaised, Apart
<1>2. CASE AfterSetup(p)
  <2>1. job[p].at = "setup"
    BY <1>2 DEF AfterSetup
  <2>2. Op(p) \notin {"search", "name"}
    BY <2>1, CalmJob
  <2> QED BY <1>2, <1>f, <1>g, <2>1, <2>2 DEF AfterSetup, Apart
<1>3. CASE ScoreCards(p)
  BY <1>3, <1>f, <1>g DEF ScoreCards, Apart
<1>4. CASE SyncHierarchy(p)
  <2>1. job[p].at = "tags"
    BY <1>4 DEF SyncHierarchy
  <2>2. CASE job' = [job EXCEPT ![p].at = "clear", ![p].page = fetch[p].bytes]
    <3>1. Alone(p) /\ job'[p].todo = job[p].todo /\ job'[p].at = "clear"
      BY <1>h, <2>2 DEF Alone, JobFields
    <3> QED BY <2>1, <3>1, Proceeds DEF Apart
  <2> QED BY <1>4, <1>f, <2>1, <2>2 DEF SyncHierarchy, Dies
<1>5. CASE ClearTags(p)
  <2> DEFINE keep == DOMAIN IdToTags(TagDump(p))
  <2>1. job[p].at = "clear"
    BY <1>5 DEF ClearTags
  <2>2. CASE job' = [job EXCEPT ![p].at = "batch", ![p].left = keep]
    <3> HIDE DEF keep
    <3>1. Alone(p) /\ job'[p].todo = job[p].todo /\ job'[p].at = "batch"
      BY <1>h, <2>2 DEF Alone, JobFields
    <3> QED BY <2>1, <3>1, Proceeds DEF Apart
  <2> QED BY <1>5, <1>f, <2>1, <2>2 DEF ClearTags, Dies
<1>6. CASE SetTags(p)
  <2> DEFINE o == CHOOSE x \in job[p].left : TRUE
  <2>1. job[p].at = "batch"
    BY <1>6 DEF SetTags
  <2>2. CASE job' = [job EXCEPT ![p].left = @ \ {o}]
    <3> HIDE DEF o
    <3>1. Alone(p) /\ job'[p].todo = job[p].todo /\ job'[p].at = "batch"
      BY <1>h, <2>1, <2>2 DEF Alone, JobFields
    <3> QED BY <2>1, <3>1, Proceeds DEF Apart
  <2> QED BY <1>6, <1>f, <2>1, <2>2 DEF SetTags, Dies
<1>7. CASE TagsDone(p)
  BY <1>7, <1>f, <1>g DEF TagsDone, EndTags, Apart
<1> QED BY <1>1, <1>2, <1>3, <1>4, <1>5, <1>6, <1>7

LEMMA OthersProceed ==
  ASSUME AnswersInv, JobInv, NEW p \in Procs,
         ScryfallSearch(p) \/ NextIsTag(p) \/ MarkCards(p) \/ CubePage(p)
  PROVE  GoesOn(p) /\ job[p].at # "stamp"
<1>h. DOMAIN job = Procs /\ DOMAIN job[p] = JobFields
  BY DEF JobInv, Held
<1>a. job[p].at \notin {"rest", "stamp"}
  BY DEF ScryfallSearch, NextIsTag, MarkCards, CubePage
<1>f. ASSUME NEW result, Finish(p, result)  PROVE GoesOn(p)
  BY <1>a, <1>f, FinishProceeds
<1>g. ASSUME NEW where, where \notin Apart, Goto(p, where)  PROVE GoesOn(p)
  BY <1>a, <1>g, GotoProceeds
<1>t. ASSUME NEW tag, NEW good, NextTag(p, tag, good)  PROVE GoesOn(p)
  BY <1>a, <1>t, NextTagProceeds
<1>1. CASE ScryfallSearch(p)
  <2> DEFINE pages == setting.search[Query(p)]
             sofar == IF job[p].page > Len(pages) THEN job[p].found ELSE job[p].found \o pages[job[p].page]
  <2>1. ASSUME NEW found, SearchEnds(p, found)  PROVE GoesOn(p)
    <3>1. ASSUME NEW left, job' = [job EXCEPT ![p].at = "mark", ![p].left = left, ![p].found = found]
          PROVE  GoesOn(p)
      <4>1. Alone(p) /\ job'[p].todo = job[p].todo /\ job'[p].at = "mark"
        BY <1>h, <3>1 DEF Alone, JobFields
      <4> QED BY <1>a, <4>1, Proceeds DEF Apart
    <3>2. CASE job' = [job EXCEPT ![p].at = "setup", ![p].found = found]
      <4>1. Alone(p) /\ job'[p].todo = job[p].todo /\ job'[p].at = "setup"
        BY <1>h, <3>2 DEF Alone, JobFields
      <4> QED BY <1>a, <4>1, Proceeds DEF Apart
    <3> QED BY <1>f, <1>t, <2>1, <3>1, <3>2 DEF SearchEnds
  <2>2. CASE job' = [job EXCEPT ![p].page = @ + 1, ![p].found = sofar]
    <3> HIDE DEF sofar
    <3>1. Alone(p) /\ job'[p].todo = job[p].todo /\ job'[p].at = job[p].at /\ job[p].at = "search"
      BY <1>1, <1>h, <2>2 DEF Alone, JobFields, ScryfallSearch
    <3> QED BY <3>1, Proceeds DEF Apart
  <2> QED BY <1>1, <1>a, <1>f, <1>t, <2>1, <2>2 DEF ScryfallSearch
<1>2. CASE NextIsTag(p)
  BY <1>2, <1>a, <1>f, <1>g, <1>t DEF NextIsTag, Apart
<1>3. CASE MarkCards(p)
  <2> DEFINE x == CHOOSE y \in job[p].left : TRUE
  <2>1. CASE job' = [job EXCEPT ![p].left = @ \ {x}]
    <3> HIDE DEF x
    <3>1. Alone(p) /\ job'[p].todo = job[p].todo /\ job'[p].at = job[p].at /\ job[p].at = "mark"
      BY <1>3, <1>h, <2>1 DEF Alone, JobFields, MarkCards
    <3> QED BY <3>1, Proceeds DEF Apart
  <2> QED BY <1>3, <1>a, <1>f, <1>t, <2>1 DEF MarkCards
<1>4. CASE CubePage(p)
  <2>1. CASE job' = [job EXCEPT ![p].page = @ + 1]
    <3>1. Alone(p) /\ job'[p].todo = job[p].todo /\ job'[p].at = job[p].at /\ job[p].at = "cube"
      BY <1>4, <1>h, <2>1 DEF Alone, JobFields, CubePage
    <3> QED BY <3>1, Proceeds DEF Apart
  <2> QED BY <1>4, <1>a, <1>f, <1>g, <2>1 DEF CubePage, Apart
<1> QED BY <1>1, <1>2, <1>3, <1>4, <1>a

LEMMA StartProceeds == ASSUME AnswersInv, JobInv, NEW p \in Procs, Start(p)  PROVE GoesOn(p) /\ job[p].at # "stamp"
<1>h. DOMAIN job = Procs /\ DOMAIN job[p] = JobFields
  BY DEF JobInv, Held
<1>a. job[p].at = "rest" /\ job[p].todo # <<>>
  BY DEF Start
<1>b. Op(p) \notin {"search", "name"}
  BY <1>a, CalmJob
<1>1. ASSUME NEW where, where \notin Apart, Goto(p, where)  PROVE GoesOn(p)
  BY <1>1, <1>a, GotoProceeds
<1>2. CASE BeginImport(p)
  BY <1>1, <1>2, <1>a, FinishProceeds DEF BeginImport, Apart
<1>3. CASE BeginIsTags(p)
  <2>1. Alone(p) /\ job'[p].todo = job[p].todo /\ job'[p].at = "istags"
    BY <1>3, <1>h DEF BeginIsTags, Alone, JobFields
  <2> QED BY <1>a, <2>1, Proceeds DEF Apart
<1>4. CASE BeginCubecobra(p)
  <2>1. Alone(p) /\ job'[p].todo = job[p].todo /\ job'[p].at = "cube"
    BY <1>4, <1>h DEF BeginCubecobra, Alone, JobFields
  <2> QED BY <1>a, <2>1, Proceeds DEF Apart
<1> QED BY <1>1, <1>2, <1>3, <1>4, <1>a, <1>b DEF Start, Apart

(* The steps of the question.                                              *)
LEMMA QuestionKeeps ==
  ASSUME IngestAssumption, AnswersInv, JobInv, NEW p \in Procs, Ask(p) \/ Count(p) \/ Note(p)  PROVE AnswersInv'
<1>h. DOMAIN job = Procs /\ DOMAIN job[p] = JobFields /\ job[p].at \notin {"rest", "stamp"} /\ table' = table /\ importTime' = importTime
  BY DEF JobInv, Held, Ask, Count, Note, NoteAt, readyVars
<1>i. importTime \in Nat /\ Calm(job[p]) /\ Counting(job[p])
  BY DEF AnswersInv
<1>e. ASSUME Alone(p), Excused  PROVE Excused'
  BY <1>e, <1>h, ExcusedStays
(* One process moves to a place of the question, and nothing is noted.     *)
<1>m. ASSUME Alone(p), complete' = complete, job'[p].todo = job[p].todo, job'[p].at \in {"count", "note"}, Counting(job[p])'
      PROVE  AnswersInv'
  <2>1. ASSUME NEW q \in Procs  PROVE Calm(job'[q]) /\ Counting(job[q])' /\ Cached(complete[q])'
    <3>1. Calm(job[q]) /\ Counting(job[q]) /\ Cached(complete[q])
      BY DEF AnswersInv
    <3>2. Cached(complete[q])'
      BY <1>e, <1>h, <1>m, <3>1 DEF Cached, Timely
    <3>3. CASE q # p
      <4>1. job'[q] = job[q]
        BY <1>m, <3>3 DEF Alone
      <4> QED BY <1>e, <1>h, <1>m, <3>1, <3>2, <4>1 DEF Counting, Timely
    <3>4. CASE q = p
      <4>1. Calm(job'[p])
        BY <1>h, <1>i, <1>m DEF Calm
      <4> QED BY <1>m, <3>2, <3>4, <4>1
    <3> QED BY <3>3, <3>4
  <2> QED BY <1>h, <1>i, <1>m, <2>1 DEF AnswersInv, Calm
<1>1. CASE Ask(p)
  <2>1. ASSUME NEW result, Finish(p, result)  PROVE AnswersInv'
    <3>1. GoesOn(p)
      BY <1>h, <2>1, FinishProceeds
    <3>2. Excused => Excused'
      BY <1>e, <3>1 DEF GoesOn
    <3>3. complete' = complete
      BY <1>1 DEF Ask, readyVars
    <3> QED BY <1>h, <3>1, <3>2, <3>3, AnswersKept
  <2>2. CASE job' = [job EXCEPT ![p].at = "count", ![p].time = importTime]
    <3>1. Alone(p) /\ job'[p].todo = job[p].todo /\ job'[p].at = "count" /\ job'[p].time = importTime
      BY <1>h, <2>2 DEF Alone, JobFields
    <3>2. Counting(job[p])'
      BY <1>h, <1>i, <3>1 DEF Counting
    <3>3. complete' = complete
      BY <1>1 DEF Ask, readyVars
    <3> QED BY <1>m, <3>1, <3>2, <3>3
  <2> QED BY <1>1, <2>1, <2>2 DEF Ask
<1>2. CASE Count(p)
  <2>0. complete' = complete /\ job[p].at = "count" /\ job[p].time \in Nat /\ job[p].time <= importTime
    BY <1>2, <1>i DEF Count, Counting, readyVars
  <2>1. ASSUME NEW result, result \notin {"complete", "error"} => ~ EnoughCards,
               job' = [job EXCEPT ![p].at = "note", ![p].result = result]
        PROVE  AnswersInv'
    <3>1. /\ Alone(p) /\ job'[p].todo = job[p].todo /\ job'[p].at = "note" /\ job'[p].time = job[p].time
          /\ job'[p].result = result
      BY <1>h, <2>1 DEF Alone, JobFields
    <3>2. result \notin {"complete", "error"} => Excused'
      BY <1>h, <2>1 DEF Excused, EnoughCards
    <3>3. Counting(job[p])'
      BY <1>h, <2>0, <3>1, <3>2 DEF Counting, Timely
    <3> QED BY <1>m, <2>0, <3>1, <3>3
  <2>2. CASE EnoughCards
    BY <1>2, <2>1, <2>2 DEF Count
  <2>3. CASE ~ EnoughCards
    BY <1>2, <2>1, <2>3 DEF Count
  <2> QED BY <2>2, <2>3
<1>3. CASE Note(p)
  <2>0. /\ job[p].at = "note" /\ Finish(p, job[p].result)
        /\ complete' = [complete EXCEPT ![p] = [result |-> job[p].result = "complete", time |-> job[p].time,
                                                error |-> job[p].result = "error"]]
    BY <1>3 DEF Note, NoteAt
  <2>1. GoesOn(p)
    BY <1>h, <2>0, FinishProceeds
  <2>2. Excused => Excused'
    BY <1>e, <2>1 DEF GoesOn
  <2>3. ASSUME NEW q \in Procs  PROVE Calm(job'[q]) /\ Counting(job[q])' /\ Cached(complete[q])'
    <3>1. Calm(job[q]) /\ Counting(job[q]) /\ Cached(complete[q]) /\ DOMAIN complete = Procs
      BY DEF AnswersInv
    <3>2. CASE q # p
      <4>1. job'[q] = job[q] /\ complete'[q] = complete[q]
        BY <2>0, <2>1, <3>1, <3>2 DEF GoesOn, Alone
      <4> QED BY <1>h, <2>2, <3>1, <4>1 DEF Counting, Cached, Timely
    <3>3. CASE q = p
      <4>1. complete'[p].time = job[p].time /\ (~complete'[p].result /\ ~complete'[p].error => job[p].result \notin {"complete", "error"})
        BY <2>0, <3>1
      <4>2. Timely(job[p].time, job[p].result \notin {"complete", "error"})
        BY <1>i, <2>0 DEF Counting
      <4>3. Cached(complete[p])'
        BY <1>h, <2>2, <4>1, <4>2 DEF Cached, Timely
      <4> QED BY <2>1, <3>3, <4>3 DEF GoesOn, Counting
    <3> QED BY <3>2, <3>3
  <2> QED BY <1>h, <1>i, <2>0, <2>3 DEF AnswersInv, Calm
<1> QED BY <1>1, <1>2, <1>3

(* What the processes begin with, the first time and after a restart.      *)
LEMMA Beginning ==
  ASSUME OnlyBulk, NEW jobs, jobs = [p \in Procs |-> Idle(setting.jobs[p])]
  PROVE  \A p \in Procs : Calm(jobs[p]) /\ jobs[p].at = "rest"
<1> SUFFICES ASSUME NEW p \in Procs  PROVE Calm(jobs[p]) /\ jobs[p].at = "rest"
  OBVIOUS
<1>1. jobs[p].at = "rest" /\ jobs[p].todo = setting.jobs[p]
  BY IdleHeld
<1> QED BY <1>1 DEF Calm, OnlyBulk

(* Every step of a setting without imports by search or by name.           *)
LEMMA AnswersNext ==
  ASSUME IngestAssumption, CardsAssumption, RowsInv, AnswersInv, [Next]_vars, OnlyBulk  PROVE AnswersInv'
<1>h. JobInv /\ Good(table) /\ DOMAIN job = Procs
  BY DEF RowsInv, JobInv
(* The table does not grow, and no process leaves its stamp.               *)
<1>k. ASSUME NEW p \in Procs, (GoesOn(p) /\ job[p].at # "stamp") \/ job' = job,
             UNCHANGED <<importTime, complete>>, DOMAIN table' = DOMAIN table \/ table' = NoTable
      PROVE  AnswersInv'
  <2>1. Excused => Excused'
    BY <1>k, ExcusedStays DEF GoesOn
  <2> QED BY <1>h, <1>k, <2>1, AnswersKept
<1>1. ASSUME NEW p \in Procs, Work(p) \/ CompleteExpires(p)  PROVE AnswersInv'
  <2>1. CASE Start(p)
    <3>1. GoesOn(p) /\ job[p].at # "stamp"
      BY <1>h, <2>1, StartProceeds
    <3> QED BY <1>k, <2>1, <3>1 DEF Start, readyVars
  <2>2. CASE \/ DiscoverFails(p) \/ LockImport(p) \/ AfterSetup(p) \/ FetchRaised(p) \/ ScoreCards(p)
             \/ SyncHierarchy(p) \/ ClearTags(p) \/ SetTags(p) \/ TagsDone(p)
             \/ ScryfallSearch(p) \/ NextIsTag(p) \/ MarkCards(p) \/ CubePage(p)
    <3>1. GoesOn(p) /\ job[p].at # "stamp"
      BY <1>h, <2>2, ImportProceeds, OthersProceed
    <3>2. UNCHANGED <<importTime, complete>>
      <4>1. CASE DiscoverFails(p) \/ LockImport(p) \/ AfterSetup(p) \/ FetchRaised(p) \/ ScoreCards(p)
        BY <4>1 DEF DiscoverFails, LockImport, AfterSetup, FetchRaised, ScoreCards, readyVars
      <4>2. CASE SyncHierarchy(p) \/ ClearTags(p) \/ SetTags(p) \/ TagsDone(p)
        BY <4>2 DEF SyncHierarchy, ClearTags, SetTags, TagsDone, readyVars
      <4>3. CASE ScryfallSearch(p) \/ NextIsTag(p) \/ MarkCards(p) \/ CubePage(p)
        BY <4>3 DEF ScryfallSearch, NextIsTag, MarkCards, CubePage, readyVars
      <4> QED BY <2>2, <4>1, <4>2, <4>3
    <3>3. DOMAIN table' = DOMAIN table
      <4>1. CASE AwayFromTable(p)
        BY <4>1, TableUntouched
      <4>2. CASE Edits(p)
        BY <1>h, <4>2, TableEdits DEF TableEdit, OtherEdit, Edited
      <4> QED BY <2>2, <4>1, <4>2 DEF AwayFromTable, Edits
    <3> QED BY <1>k, <3>1, <3>2, <3>3
  <2>3. CASE SetUp(p)
    BY <1>k, <2>3 DEF SetUp, readyVars
  <2>4. CASE Fetch(p) \/ ReadFails(p)
    BY <1>k, <2>4 DEF Fetch, ReadFails, readyVars
  <2>5. CASE ImportCards(p)
    <3> DEFINE cards == setting.cards[fetch[p].bytes]
    <3>1. job[p].at = "cards" /\ fetch[p].at = "read" /\ UNCHANGED <<importTime, complete>>
      BY <2>5 DEF ImportCards, readyVars
    <3>2. cards \in Seq(Cards)
      <4>1. published \in 1 .. Len(setting.cards) /\ fetch[p].bytes \in 1 .. published /\ Len(setting.cards) \in Nat
        BY <3>1, CardsAre DEF RowsInv, VersionsInv
      <4>2. fetch[p].bytes \in 1 .. Len(setting.cards)
        BY <4>1
      <4> QED BY <4>2, CardsAre DEF RowsInv, VersionsInv
    <3>3. CASE Goto(p, "stamp")
      <4>1. GoesOn(p) /\ job'[p].at = "stamp"
        BY <1>h, <3>1, <3>3, GotoProceeds DEF Apart
      <4>2. Excused'
        BY <4>1 DEF Excused
      <4> QED BY <1>h, <3>1, <4>1, <4>2, AnswersKept
    <3>4. ASSUME NEW result, Finish(p, result), table' = table  PROVE AnswersInv'
      <4>1. GoesOn(p)
        BY <1>h, <3>1, <3>4, FinishProceeds
      <4> QED BY <1>k, <3>1, <3>4, <4>1
    <3>5. CASE Committed(p, cards) /\ UpsertCards(table, cards, PageSize).status # "success"
      <4>1. table' = table
        BY <3>2, <3>5, UpsertFails DEF Committed
      <4>2. ~Goto(p, "stamp") => \E result : Finish(p, result)
        BY <2>5 DEF ImportCards
      <4> QED BY <3>3, <3>4, <4>1, <4>2
    <3> QED BY <2>5, <3>3, <3>4, <3>5 DEF ImportCards
  <2>6. CASE ImportFound(p)
    BY <1>h, <2>6, CalmJob DEF ImportFound
  <2>7. CASE Stamp(p)
    <3>1. job[p].at = "stamp" /\ Goto(p, "scores") /\ importTime' = importTime + 1 /\ complete' = complete
      BY <2>7 DEF Stamp
    <3>2. GoesOn(p)
      BY <1>h, <3>1, GotoProceeds DEF Apart
    <3> QED BY <3>1, <3>2, AnswersStamped
  <2>8. CASE EndImport(p)
    <3>1. job[p].at = "end" /\ Finish(p, "success") /\ importTime' = importTime + 1 /\ complete' = [complete EXCEPT ![p] = NULL]
      BY <2>8 DEF EndImport
    <3>2. GoesOn(p)
      BY <1>h, <3>1, FinishProceeds
    <3>3. DOMAIN complete' = DOMAIN complete /\ \A q \in Procs : complete'[q] \in {complete[q], NULL}
      BY <3>1 DEF AnswersInv
    <3> QED BY <3>1, <3>2, <3>3, AnswersStamped
  <2>9. CASE Ask(p) \/ Count(p) \/ Note(p)
    BY <1>h, <2>9, QuestionKeeps
  <2>10. CASE CompleteExpires(p)
    <3>1. job' = job /\ importTime' = importTime /\ table' = table /\ complete' = [complete EXCEPT ![p] = NULL]
      BY <2>10 DEF CompleteExpires
    <3>2. ASSUME NEW q \in Procs  PROVE Calm(job'[q]) /\ Counting(job[q])' /\ Cached(complete[q])'
      <4>1. Calm(job[q]) /\ Counting(job[q]) /\ Cached(complete[q]) /\ complete'[q] \in {complete[q], NULL}
        BY <3>1 DEF AnswersInv
      <4>2. Excused' <=> Excused
        BY <3>1 DEF Excused, EnoughCards
      <4>3. Counting(job[q])'
        BY <3>1, <4>1, <4>2 DEF Counting, Timely
      <4>4. Cached(complete[q])'
        BY <3>1, <4>1, <4>2 DEF Cached, Timely
      <4> QED BY <3>1, <4>1, <4>3, <4>4
    <3>3. DOMAIN complete' = Procs /\ importTime' \in Nat
      BY <3>1 DEF AnswersInv
    <3> QED BY <3>2, <3>3 DEF AnswersInv, Calm
  <2> QED BY <1>1, <2>1, <2>2, <2>3, <2>4, <2>5, <2>6, <2>7, <2>8, <2>9, <2>10 DEF Work
<1>2. CASE RecentEnds \/ FilesChange \/ AllDone \/ UNCHANGED vars
  <2>1. job' = job /\ UNCHANGED <<importTime, complete, table>>
    BY <1>2 DEF RecentEnds, FilesChange, AllDone, vars, readyVars
  <2>2. Excused => Excused'
    BY <2>1 DEF Excused, EnoughCards
  <2>3. CASE \E p \in Procs : TRUE
    BY <1>k, <2>1, <2>3
  <2>4. CASE Procs = {}
    BY <2>1, <2>4 DEF AnswersInv
  <2> QED BY <2>3, <2>4
<1>3. CASE Restart
  <2>1. job' = [p \in Procs |-> Idle(setting.jobs[p])] /\ complete' = [p \in Procs |-> NULL] /\ importTime' = 0
    BY <1>3 DEF Restart
  <2>2. \A p \in Procs : Calm(job'[p]) /\ job'[p].at = "rest" /\ complete'[p] = NULL
    BY <2>1, Beginning
  <2>3. DOMAIN complete' = Procs /\ importTime' \in Nat
    BY <2>1
  <2> QED BY <2>2, <2>3 DEF AnswersInv, Counting, Cached, Calm
<1> QED BY <1>1, <1>2, <1>3 DEF Next

(* No server calls itself incomplete after the import that completed it:   *)
(* the time a count is noted under was read before the count, so a count   *)
(* that an import overtakes is noted under a time that no longer counts.   *)
(* For any number of processes and every order of their steps.             *)
THEOREM NoAnswerIsStale == Spec => []NoStaleIncomplete
<1> DEFINE Inv == RowsInv /\ (OnlyBulk => AnswersInv)
<1>1. Init => Inv
  <2> SUFFICES ASSUME Init, OnlyBulk  PROVE AnswersInv
    BY RowsInitOK, IngestAssumption, CardsAssumption
  <2>1. job = [p \in Procs |-> Idle(setting.jobs[p])] /\ complete = [p \in Procs |-> NULL] /\ importTime = 0
    BY DEF Init
  <2>2. \A p \in Procs : Calm(job[p]) /\ job[p].at = "rest" /\ complete[p] = NULL
    BY <2>1, Beginning
  <2> QED BY <2>1, <2>2 DEF AnswersInv, Counting, Cached
<1>2. Inv /\ [Next]_vars => Inv'
  <2> SUFFICES ASSUME Inv, [Next]_vars  PROVE Inv'
    OBVIOUS
  <2>1. RowsInv'
    BY RowsNext, IngestAssumption, CardsAssumption
  <2>2. OnlyBulk' <=> OnlyBulk
    BY WorldKept DEF OnlyBulk, setting
  <2> QED BY <2>1, <2>2, AnswersNext, IngestAssumption, CardsAssumption
<1>3. Inv => NoStaleIncomplete
  <2> SUFFICES ASSUME AnswersInv, NEW p \in Procs,
                      complete[p] # NULL, ~complete[p].result, ~complete[p].error, complete[p].time = importTime
               PROVE  Excused
    BY DEF NoStaleIncomplete, Excused
  <2>1. Cached(complete[p])
    BY DEF AnswersInv
  <2> QED BY <2>1 DEF Cached, Timely
<1> QED BY <1>1, <1>2, <1>3, PTL DEF Spec

-----------------------------------------------------------------------------
(* The graph of the tags.                                                  *)

(* A function that is defined from its value at the number before.         *)
LEMMA Series ==
  ASSUME NEW N \in Nat, NEW V, NEW first \in V, NEW step \in [V -> V]
  PROVE  \E a : a = [n \in 0 .. N |-> IF n = 0 THEN first ELSE step[a[n - 1]]] /\ \A n \in 0 .. N : a[n] \in V
<1> DEFINE Part(f, n) == /\ DOMAIN f = 0 .. n /\ f[0] = first
                         /\ \A i \in 1 .. n : f[i] = step[f[i - 1]]
                         /\ \A i \in 0 .. n : f[i] \in V
           G == {n \in 0 .. N : \E f : Part(f, n)}
           c == [n \in 0 .. N |-> n]
<1>1. c[0] \in G
  <2> DEFINE z == [i \in 0 .. 0 |-> first]
  <2>1. Part(z, 0)
    OBVIOUS
  <2> HIDE DEF z, Part
  <2> QED BY <2>1
<1>2. ASSUME NEW n \in 1 .. N, c[n - 1] \in G  PROVE c[n] \in G
  <2>1. n - 1 \in 0 .. N /\ n \in 0 .. N /\ c[n - 1] = n - 1 /\ c[n] = n
    OBVIOUS
  <2>2. PICK f : Part(f, n - 1)
    BY <1>2, <2>1
  <2> DEFINE g == [i \in 0 .. n |-> IF i = n THEN step[f[n - 1]] ELSE f[i]]
  <2>3. n - 1 \in 0 .. n - 1 /\ f[n - 1] \in V
    BY <2>1, <2>2
  <2>4. \A i \in 0 .. n - 1 : i # n /\ i \in 0 .. n /\ g[i] = f[i]
    OBVIOUS
  <2>5. g[n] = step[f[n - 1]] /\ g[n] \in V /\ DOMAIN g = 0 .. n
    BY <2>1, <2>3
  <2> HIDE DEF g
  <2>6. g[0] = first
    BY <2>2, <2>4
  <2>7. ASSUME NEW i \in 1 .. n  PROVE g[i] = step[g[i - 1]]
    <3>1. i - 1 \in 0 .. n - 1 /\ g[i - 1] = f[i - 1]
      BY <2>4
    <3>2. CASE i = n
      BY <2>5, <3>1, <3>2
    <3>3. CASE i # n
      <4>1. i \in 0 .. n - 1 /\ i \in 1 .. n - 1
        BY <3>3
      <4> QED BY <2>2, <2>4, <3>1, <4>1
    <3> QED BY <3>2, <3>3
  <2>8. ASSUME NEW i \in 0 .. n  PROVE g[i] \in V
    <3>1. i = n \/ i \in 0 .. n - 1
      OBVIOUS
    <3> QED BY <2>2, <2>4, <2>5, <3>1
  <2>9. Part(g, n)
    BY <2>5, <2>6, <2>7, <2>8
  <2> HIDE DEF Part
  <2> QED BY <2>1, <2>9
<1> HIDE DEF G, c
<1>3. \A n \in 0 .. N : c[n] \in G
  BY <1>1, <1>2, RangeInduction
<1>4. N \in 0 .. N /\ N \in G
  BY <1>3 DEF c
<1>5. PICK a : Part(a, N)
  BY <1>4 DEF G
<1> DEFINE b == [n \in 0 .. N |-> a[n]]
<1>6. ASSUME NEW n \in 0 .. N  PROVE b[n] = (IF n = 0 THEN first ELSE step[b[n - 1]]) /\ b[n] \in V
  <2>1. CASE n = 0
    BY <1>5, <2>1
  <2>2. CASE n # 0
    <3>1. n \in 1 .. N /\ n - 1 \in 0 .. N
      BY <2>2
    <3> QED BY <1>5, <2>2, <3>1
  <2> QED BY <2>1, <2>2
<1>7. b = [n \in 0 .. N |-> b[n]]
  OBVIOUS
<1> HIDE DEF b
<1>8. b = [n \in 0 .. N |-> IF n = 0 THEN first ELSE step[b[n - 1]]]
  BY <1>6, <1>7
<1> QED BY <1>6, <1>8

LEMMA SlugsAre ==
  ASSUME NEW tags, IsList(tags)
  PROVE  /\ IsFiniteSet(Slugs(tags)) /\ Cardinality(Slugs(tags)) \in Nat /\ Cardinality(Slugs(tags)) <= Len(tags)
         /\ Distinct(tags) => \A i, j \in DOMAIN tags : tags[i].slug = tags[j].slug => i = j
<1> DEFINE S == Slugs(tags)
           f == [i \in 1 .. Len(tags) |-> tags[i].slug]
<1>1. Len(tags) \in Nat /\ DOMAIN tags = 1 .. Len(tags)
  BY DEF IsList
<1>2. f \in Surjection(1 .. Len(tags), S)
  BY <1>1 DEF Surjection, Slugs
<1>3. IsFiniteSet(1 .. Len(tags)) /\ Cardinality(1 .. Len(tags)) = Len(tags)
  <2> DEFINE n == Len(tags)
  <2>1. 1 \in Int /\ n \in Int /\ n \in Nat
    BY <1>1
  <2> HIDE DEF n
  <2>2. IsFiniteSet(1 .. n) /\ Cardinality(1 .. n) = IF 1 > n THEN 0 ELSE n - 1 + 1
    BY <2>1, FS_Interval
  <2>3. (IF 1 > n THEN 0 ELSE n - 1 + 1) = n
    BY <2>1
  <2> QED BY <2>2, <2>3 DEF n
<1>4. IsFiniteSet(S) /\ Cardinality(S) <= Len(tags) /\ (Cardinality(S) = Len(tags) <=> f \in Injection(1 .. Len(tags), S))
  BY <1>2, <1>3, FS_Surjection
<1>5. Cardinality(S) \in Nat
  BY <1>4, FS_CardinalityType
<1>6. ASSUME f \in Injection(1 .. Len(tags), S), NEW i \in DOMAIN tags, NEW j \in DOMAIN tags, tags[i].slug = tags[j].slug  PROVE i = j
  BY <1>1, <1>6 DEF Injection, IsInjective
<1> QED BY <1>4, <1>5, <1>6 DEF Distinct

LEMMA LastOf ==
  ASSUME NEW tags, IsList(tags), NEW is, is \subseteq DOMAIN tags, is # {}
  PROVE  \E i \in is : \A j \in is : j <= i
<1>1. Len(tags) \in Nat /\ is \subseteq 0 .. Len(tags)
  BY DEF IsList
<1> QED BY <1>1, GreatestMember

LEMMA UuidsAre ==
  ASSUME NEW tags, IsList(tags)
  PROVE  /\ \A id \in DOMAIN UuidToSlug(tags) : UuidToSlug(tags)[id] \in Slugs(tags)
         /\ \A i \in DOMAIN tags : tags[i].id \in DOMAIN UuidToSlug(tags)
         /\ OwnIds(tags) => \A i \in DOMAIN tags : UuidToSlug(tags)[tags[i].id] = tags[i].slug
<1> DEFINE is(id) == {i \in DOMAIN tags : tags[i].id = id}
           last(id) == CHOOSE i \in is(id) : \A j \in is(id) : j <= i
<1>1. DOMAIN UuidToSlug(tags) = {tags[i].id : i \in DOMAIN tags}
  BY DEF UuidToSlug
<1>2. ASSUME NEW id \in DOMAIN UuidToSlug(tags)  PROVE UuidToSlug(tags)[id] = tags[last(id)].slug
  BY <1>1 DEF UuidToSlug
<1>3. ASSUME NEW id \in DOMAIN UuidToSlug(tags)  PROVE last(id) \in is(id)
  <2>1. is(id) # {} /\ is(id) \subseteq DOMAIN tags
    BY <1>1
  <2>2. \E i \in is(id) : \A j \in is(id) : j <= i
    BY <2>1, LastOf
  <2> HIDE DEF is
  <2> QED BY <2>2
<1> HIDE DEF last
<1>4. ASSUME NEW id \in DOMAIN UuidToSlug(tags)  PROVE UuidToSlug(tags)[id] \in Slugs(tags)
  BY <1>2, <1>3 DEF Slugs
<1>5. ASSUME OwnIds(tags), NEW i \in DOMAIN tags  PROVE UuidToSlug(tags)[tags[i].id] = tags[i].slug
  <2>1. tags[i].id \in DOMAIN UuidToSlug(tags)
    BY <1>1
  <2>2. last(tags[i].id) \in DOMAIN tags /\ tags[last(tags[i].id)].id = tags[i].id
    BY <1>3, <2>1
  <2>3. last(tags[i].id) = i
    BY <1>5, <2>2 DEF OwnIds
  <2> QED BY <1>2, <2>1, <2>3
<1> QED BY <1>1, <1>4, <1>5

LEMMA ParentsInDump ==
  ASSUME NEW tags, IsList(tags), NEW slug  PROVE ParentSlugs(tags, slug) \subseteq Slugs(tags)
<1>1. \A s \in ParentSlugs(tags, slug) : \E p \in DOMAIN UuidToSlug(tags) : s = UuidToSlug(tags)[p]
  BY DEF ParentSlugs
<1> QED BY <1>1, UuidsAre

(* With ids and slugs of their own, the two readings of a record agree:    *)
(* the one by the id, for the walk, and that of the pairs.                 *)
LEMMA ParentsAre ==
  ASSUME NEW tags, IsList(tags), OwnIds(tags), Distinct(tags), NEW i \in DOMAIN tags
  PROVE  ParentSlugs(tags, tags[i].slug) = {UuidToSlug(tags)[p] : p \in tags[i].parents \cap DOMAIN UuidToSlug(tags)}
<1> DEFINE is == {j \in DOMAIN tags : UuidToSlug(tags)[tags[j].id] = tags[i].slug}
           last == {j \in is : \A k \in is : k <= j}
<1>1. is = {i}
  <2>1. \A j \in DOMAIN tags : UuidToSlug(tags)[tags[j].id] = tags[j].slug
    BY UuidsAre
  <2>2. \A j \in DOMAIN tags : tags[j].slug = tags[i].slug => j = i
    BY SlugsAre
  <2> QED BY <2>1, <2>2
<1>2. last = {i}
  <2>1. i <= i
    BY DEF IsList
  <2> HIDE DEF is
  <2> QED BY <1>1, <2>1
<1>3. ParentSlugs(tags, tags[i].slug) = {UuidToSlug(tags)[p] : p \in (UNION {tags[j].parents : j \in last}) \cap DOMAIN UuidToSlug(tags)}
  BY DEF ParentSlugs
<1> HIDE DEF last
<1>4. UNION {tags[j].parents : j \in last} = tags[i].parents
  BY <1>2
<1> QED BY <1>3, <1>4

LEMMA RelatedAre ==
  ASSUME NEW tags, IsList(tags), OwnIds(tags), Distinct(tags)
  PROVE  /\ Related(tags) \subseteq Slugs(tags) \X Slugs(tags)
         /\ \A a, b \in Slugs(tags) : <<a, b>> \in Related(tags) <=> b \in ParentSlugs(tags, a) /\ b # a
<1> DEFINE parents(i) == {UuidToSlug(tags)[p] : p \in tags[i].parents \cap DOMAIN UuidToSlug(tags)}
<1>1. ASSUME NEW pair  PROVE pair \in HierarchyPairs(tags) <=> \E i \in DOMAIN tags : \E b \in parents(i) : pair = <<tags[i].slug, b>>
  BY DEF HierarchyPairs
<1>2. ASSUME NEW i \in DOMAIN tags  PROVE parents(i) = ParentSlugs(tags, tags[i].slug) /\ tags[i].slug \in Slugs(tags)
  BY ParentsAre DEF Slugs
<1> HIDE DEF parents
<1>3. ASSUME NEW pair \in Related(tags)  PROVE pair \in Slugs(tags) \X Slugs(tags)
  <2>1. PICK i \in DOMAIN tags : \E b \in parents(i) : pair = <<tags[i].slug, b>>
    BY <1>1 DEF Related
  <2> QED BY <1>2, <2>1, ParentsInDump
<1>4. ASSUME NEW a \in Slugs(tags), NEW b \in Slugs(tags)
      PROVE  <<a, b>> \in Related(tags) <=> b \in ParentSlugs(tags, a) /\ b # a
  <2>1. <<a, b>>[1] = a /\ <<a, b>>[2] = b
    OBVIOUS
  <2>2. <<a, b>> \in Related(tags) <=> <<a, b>> \in HierarchyPairs(tags) /\ a # b
    BY <2>1 DEF Related
  <2>3. ASSUME <<a, b>> \in HierarchyPairs(tags)  PROVE b \in ParentSlugs(tags, a)
    <3>1. PICK i \in DOMAIN tags : \E d \in parents(i) : <<a, b>> = <<tags[i].slug, d>>
      BY <1>1, <2>3
    <3> QED BY <1>2, <3>1
  <2>4. ASSUME b \in ParentSlugs(tags, a)  PROVE <<a, b>> \in HierarchyPairs(tags)
    <3>1. PICK i \in DOMAIN tags : a = tags[i].slug
      BY DEF Slugs
    <3> QED BY <1>1, <1>2, <2>4, <3>1
  <2> QED BY <2>2, <2>3, <2>4
<1> QED BY <1>3, <1>4

LEMMA JoinedType ==
  ASSUME NEW S, NEW q, q \subseteq S \X S  PROVE Joined(q) \subseteq S \X S /\ q \subseteq Joined(q)
BY DEF Joined

LEMMA JoinedHas ==
  ASSUME NEW S, NEW q, q \subseteq S \X S, NEW a, NEW b, NEW c, <<a, b>> \in q, <<b, c>> \in q  PROVE <<a, c>> \in Joined(q)
<1> DEFINE ab == <<<<a, b>>, <<b, c>>>>
<1>1. ab \in q \X q /\ ab[1][2] = ab[2][1] /\ <<ab[1][1], ab[2][2]>> = <<a, c>>
  OBVIOUS
<1> HIDE DEF ab
<1> QED BY <1>1 DEF Joined

(* A set that is closed under a relation is closed under its joins.        *)
LEMMA JoinedCloses ==
  ASSUME NEW S, NEW q, q \subseteq S \X S, NEW C, \A pair \in q : pair[1] \in C => pair[2] \in C
  PROVE  \A pair \in Joined(q) : pair[1] \in C => pair[2] \in C
<1> SUFFICES ASSUME NEW pair \in Joined(q), pair \notin q, pair[1] \in C  PROVE pair[2] \in C
  OBVIOUS
<1>1. PICK ab \in q \X q : ab[1][2] = ab[2][1] /\ pair = <<ab[1][1], ab[2][2]>>
  BY DEF Joined
<1>2. ab[1] \in q /\ ab[2] \in q /\ pair[1] = ab[1][1] /\ pair[2] = ab[2][2]
  BY <1>1
<1> QED BY <1>1, <1>2

LEMMA JoinsAre ==
  ASSUME NEW tags, IsList(tags), OwnIds(tags), Distinct(tags)
  PROVE  /\ Joins(tags)[0] = Related(tags)
         /\ \A n \in 1 .. Len(tags) : Joins(tags)[n] = Joined(Joins(tags)[n - 1])
         /\ \A n \in 0 .. Len(tags) : Joins(tags)[n] \subseteq Slugs(tags) \X Slugs(tags)
<1> DEFINE V == SUBSET (Slugs(tags) \X Slugs(tags))
           step == [q \in V |-> Joined(q)]
           first == Related(tags)
           N == Len(tags)
           Body(f) == [n \in 0 .. N |-> IF n = 0 THEN first ELSE Joined(f[n - 1])]
<1>1. N \in Nat /\ first \in V
  BY RelatedAre DEF IsList
<1>2. step \in [V -> V]
  BY JoinedType
<1> HIDE DEF first
<1>3. PICK a : a = [n \in 0 .. N |-> IF n = 0 THEN first ELSE step[a[n - 1]]] /\ \A n \in 0 .. N : a[n] \in V
  <2> HIDE DEF V, step, N
  <2> QED BY <1>1, <1>2, Series
<1>4. ASSUME NEW n \in 0 .. N  PROVE (IF n = 0 THEN first ELSE step[a[n - 1]]) = (IF n = 0 THEN first ELSE Joined(a[n - 1]))
  <2>1. CASE n # 0
    <3>1. n - 1 \in 0 .. N
      BY <1>1, <2>1
    <3>2. a[n - 1] \in V
      BY <1>3, <3>1
    <3> HIDE DEF V
    <3> QED BY <3>2
  <2> QED BY <2>1
<1>5. a = Body(a)
  <2> HIDE DEF V, step, N
  <2> QED BY <1>3, <1>4
<1> DEFINE F == CHOOSE f : f = Body(f)
<1>6. F = Body(F)
  <2> HIDE DEF Body
  <2> QED BY <1>5
<1>7. Joins(tags) = F
  BY DEF Joins, first
<1> HIDE DEF F
<1>8. DOMAIN F = 0 .. N /\ F[0] = first /\ \A n \in 1 .. N : F[n] = Joined(F[n - 1])
  <2> HIDE DEF N
  <2> QED BY <1>1, <1>6
<1> DEFINE G == {n \in 0 .. N : F[n] \in V}
           c == [n \in 0 .. N |-> n]
<1>9. c[0] \in G
  BY <1>1, <1>8
<1>10. ASSUME NEW n \in 1 .. N, c[n - 1] \in G  PROVE c[n] \in G
  <2>1. n - 1 \in 0 .. N /\ n \in 0 .. N /\ c[n - 1] = n - 1 /\ c[n] = n
    BY <1>1
  <2>2. F[n] = Joined(F[n - 1]) /\ F[n - 1] \subseteq Slugs(tags) \X Slugs(tags)
    BY <1>8, <1>10, <2>1
  <2>3. Joined(F[n - 1]) \subseteq Slugs(tags) \X Slugs(tags)
    BY <2>2, JoinedType
  <2>4. F[n] \in V
    BY <2>2, <2>3
  <2> HIDE DEF V
  <2> QED BY <2>1, <2>4
<1> HIDE DEF G, c
<1>11. \A n \in 0 .. N : c[n] \in G
  BY <1>1, <1>9, <1>10, RangeInduction
<1>12. \A n \in 0 .. N : F[n] \in V
  BY <1>11 DEF c, G
<1> QED BY <1>7, <1>8, <1>12 DEF first

LEMMA JoinsGrow ==
  ASSUME NEW tags, IsList(tags), OwnIds(tags), Distinct(tags), NEW n \in 0 .. Len(tags)
  PROVE  Related(tags) \subseteq Joins(tags)[n] /\ Joins(tags)[n] \subseteq Broader(tags)
<1> DEFINE N == Len(tags)
           r == Joins(tags)
           c == [i \in 0 .. N |-> i]
           d == [i \in 0 .. N |-> N - i]
           G == {i \in 0 .. N : Related(tags) \subseteq r[i]}
           H == {i \in 0 .. N : r[i] \subseteq r[N]}
<1>1. N \in Nat
  BY DEF IsList
<1>2. r[0] = Related(tags) /\ \A i \in 1 .. N : r[i] = Joined(r[i - 1]) /\ r[i - 1] \subseteq r[i]
  <2>1. r[0] = Related(tags) /\ \A i \in 1 .. N : r[i] = Joined(r[i - 1])
    BY JoinsAre
  <2>2. ASSUME NEW i \in 1 .. N  PROVE r[i - 1] \subseteq Joined(r[i - 1])
    <3>1. i - 1 \in 0 .. N
      BY <1>1
    <3>2. r[i - 1] \subseteq Slugs(tags) \X Slugs(tags)
      BY <3>1, JoinsAre
    <3> HIDE DEF r
    <3> QED BY <3>2, JoinedType
  <2> QED BY <2>1, <2>2
<1> HIDE DEF r
<1>3. c[0] \in G /\ d[0] \in H
  BY <1>1, <1>2
<1>4. ASSUME NEW i \in 1 .. N, c[i - 1] \in G  PROVE c[i] \in G
  <2>1. i - 1 \in 0 .. N /\ i \in 0 .. N /\ c[i - 1] = i - 1 /\ c[i] = i
    BY <1>1
  <2> QED BY <1>2, <1>4, <2>1
<1>5. ASSUME NEW i \in 1 .. N, d[i - 1] \in H  PROVE d[i] \in H
  <2>1. i - 1 \in 0 .. N /\ i \in 0 .. N /\ d[i - 1] = N - i + 1 /\ d[i] = N - i /\ N - i + 1 \in 1 .. N /\ N - i \in 0 .. N
    BY <1>1
  <2>2. r[N - i + 1] \subseteq r[N]
    BY <1>5, <2>1
  <2>3. N - i + 1 - 1 = N - i
    BY <1>1
  <2>4. r[N - i] \subseteq r[N - i + 1]
    BY <1>2, <2>1, <2>3
  <2> QED BY <2>1, <2>2, <2>4
<1> HIDE DEF G, H, c, d
<1>6. \A i \in 0 .. N : c[i] \in G
  BY <1>1, <1>3, <1>4, RangeInduction
<1>7. \A i \in 0 .. N : d[i] \in H
  BY <1>1, <1>3, <1>5, RangeInduction
<1>8. N - n \in 0 .. N /\ N - (N - n) = n /\ n \in 0 .. N
  BY <1>1
<1>9. n \in G /\ n \in H
  BY <1>6, <1>7, <1>8 DEF c, d
<1> QED BY <1>9 DEF G, H, r, Broader

LEMMA BroaderCloses ==
  ASSUME NEW tags, IsList(tags), OwnIds(tags), Distinct(tags), NEW C, \A pair \in Related(tags) : pair[1] \in C => pair[2] \in C
  PROVE  \A pair \in Broader(tags) : pair[1] \in C => pair[2] \in C
<1> DEFINE N == Len(tags)
           r == Joins(tags)
           c == [i \in 0 .. N |-> i]
           G == {i \in 0 .. N : \A pair \in r[i] : pair[1] \in C => pair[2] \in C}
<1>1. N \in Nat /\ r[0] = Related(tags)
  BY JoinsAre DEF IsList
<1>2. c[0] \in G
  BY <1>1
<1>3. ASSUME NEW i \in 1 .. N, c[i - 1] \in G  PROVE c[i] \in G
  <2>1. i - 1 \in 0 .. N /\ i \in 0 .. N /\ c[i - 1] = i - 1 /\ c[i] = i
    BY <1>1
  <2>2. r[i - 1] \subseteq Slugs(tags) \X Slugs(tags) /\ r[i] = Joined(r[i - 1])
    BY <2>1, JoinsAre
  <2>3. \A pair \in r[i - 1] : pair[1] \in C => pair[2] \in C
    BY <1>3, <2>1
  <2> HIDE DEF r
  <2>4. \A pair \in Joined(r[i - 1]) : pair[1] \in C => pair[2] \in C
    BY <2>2, <2>3, JoinedCloses
  <2> QED BY <2>1, <2>2, <2>4
<1> HIDE DEF G, c
<1>4. \A i \in 0 .. N : c[i] \in G
  BY <1>1, <1>2, <1>3, RangeInduction
<1>5. N \in 0 .. N /\ N \in G
  BY <1>1, <1>4 DEF c
<1> QED BY <1>5 DEF G, Broader

Walks(tags) == [queue : SUBSET Slugs(tags), visited : SUBSET Slugs(tags)]
LEMMA VisitIs ==
  ASSUME NEW tags, IsList(tags), NEW w \in Walks(tags)
  PROVE  /\ Visit(tags, w) \in Walks(tags)
         /\ w.queue = {} => Visit(tags, w) = w
         /\ w.queue # {} => \E s \in w.queue :
              /\ Visit(tags, w).visited = w.visited \cup {s}
              /\ Visit(tags, w).queue = (w.queue \ {s}) \cup (ParentSlugs(tags, s) \ (w.visited \cup {s}))
<1> DEFINE s == CHOOSE x \in w.queue : TRUE
           v == [queue |-> (w.queue \ {s}) \cup (ParentSlugs(tags, s) \ (w.visited \cup {s})), visited |-> w.visited \cup {s}]
<1>1. w.queue = {} => Visit(tags, w) = w
  BY DEF Visit
<1>2. w.queue # {} => Visit(tags, w) = v
  BY DEF Visit
<1>3. w.queue # {} => s \in w.queue
  OBVIOUS
<1>4. w.queue \subseteq Slugs(tags) /\ w.visited \subseteq Slugs(tags) /\ ParentSlugs(tags, s) \subseteq Slugs(tags)
  BY ParentsInDump DEF Walks
<1> HIDE DEF s
<1>5. w.queue # {} => v \in Walks(tags)
  BY <1>3, <1>4 DEF Walks
<1>6. v.visited = w.visited \cup {s} /\ v.queue = (w.queue \ {s}) \cup (ParentSlugs(tags, s) \ (w.visited \cup {s}))
  OBVIOUS
<1> HIDE DEF v
<1> QED BY <1>1, <1>2, <1>3, <1>5, <1>6

LEMMA VisitsAre ==
  ASSUME NEW tags, IsList(tags), NEW slug \in Slugs(tags)
  PROVE  /\ Visits(tags, slug)[0] = [queue |-> ParentSlugs(tags, slug) \ {slug}, visited |-> {slug}]
         /\ \A n \in 1 .. Cardinality(Slugs(tags)) : Visits(tags, slug)[n] = Visit(tags, Visits(tags, slug)[n - 1])
         /\ \A n \in 0 .. Cardinality(Slugs(tags)) : Visits(tags, slug)[n] \in Walks(tags)
<1> DEFINE V == Walks(tags)
           step == [w \in V |-> Visit(tags, w)]
           first == [queue |-> ParentSlugs(tags, slug) \ {slug}, visited |-> {slug}]
           N == Cardinality(Slugs(tags))
           Body(f) == [n \in 0 .. N |-> IF n = 0 THEN first ELSE Visit(tags, f[n - 1])]
<1>1. N \in Nat
  BY SlugsAre
<1>2. first \in V
  BY ParentsInDump DEF Walks
<1>3. step \in [V -> V]
  BY VisitIs
<1> HIDE DEF first
<1>4. PICK a : a = [n \in 0 .. N |-> IF n = 0 THEN first ELSE step[a[n - 1]]] /\ \A n \in 0 .. N : a[n] \in V
  <2> HIDE DEF V, step, N
  <2> QED BY <1>1, <1>2, <1>3, Series
<1>5. ASSUME NEW n \in 0 .. N  PROVE (IF n = 0 THEN first ELSE step[a[n - 1]]) = (IF n = 0 THEN first ELSE Visit(tags, a[n - 1]))
  <2>1. CASE n # 0
    <3>1. n - 1 \in 0 .. N
      BY <1>1, <2>1
    <3>2. a[n - 1] \in V
      BY <1>4, <3>1
    <3> HIDE DEF V
    <3> QED BY <3>2
  <2> QED BY <2>1
<1>6. a = Body(a)
  <2> HIDE DEF V, step, N
  <2> QED BY <1>4, <1>5
<1> DEFINE F == CHOOSE f : f = Body(f)
<1>7. F = Body(F)
  <2> HIDE DEF Body
  <2> QED BY <1>6
<1>8. Visits(tags, slug) = F
  BY DEF Visits, first
<1> HIDE DEF F
<1>9. DOMAIN F = 0 .. N /\ F[0] = first /\ \A n \in 1 .. N : F[n] = Visit(tags, F[n - 1])
  <2> HIDE DEF N
  <2> QED BY <1>1, <1>7
<1> DEFINE G == {n \in 0 .. N : F[n] \in V}
           c == [n \in 0 .. N |-> n]
<1>10. c[0] \in G
  BY <1>1, <1>2, <1>9
<1>11. ASSUME NEW n \in 1 .. N, c[n - 1] \in G  PROVE c[n] \in G
  <2>1. n - 1 \in 0 .. N /\ n \in 0 .. N /\ c[n - 1] = n - 1 /\ c[n] = n
    BY <1>1
  <2>2. F[n] = Visit(tags, F[n - 1]) /\ F[n - 1] \in V
    BY <1>9, <1>11, <2>1
  <2>3. F[n] \in V
    BY <2>2, VisitIs
  <2> HIDE DEF V
  <2> QED BY <2>1, <2>3
<1> HIDE DEF G, c
<1>12. \A n \in 0 .. N : c[n] \in G
  BY <1>1, <1>10, <1>11, RangeInduction
<1>13. \A n \in 0 .. N : F[n] \in V
  BY <1>12 DEF c, G
<1> QED BY <1>8, <1>9, <1>13 DEF first

(* The walk, after n visits: what it has visited has no parents but those  *)
(* it has visited or queued, it has visited n tags beside the first unless *)
(* it has ended, and all it has met is broader than the first.             *)
Walked(tags, slug, n, w) ==
  /\ slug \in w.visited /\ w.queue \cap w.visited = {}
  /\ \A s \in w.visited : ParentSlugs(tags, s) \subseteq w.visited \cup w.queue
  /\ w.queue = {} \/ n + 1 <= Cardinality(w.visited)
  /\ \A s \in (w.visited \cup w.queue) \ {slug} : <<slug, s>> \in Joins(tags)[n]

LEMMA WalkGoesOn ==
  ASSUME NEW tags, IsList(tags), OwnIds(tags), Distinct(tags), NEW slug \in Slugs(tags), NEW n \in 1 .. Len(tags),
         NEW w \in Walks(tags), Walked(tags, slug, n - 1, w)
  PROVE  Walked(tags, slug, n, Visit(tags, w))
<1> DEFINE v == Visit(tags, w)
           r == Joins(tags)[n - 1]
<1>0. n - 1 \in 0 .. Len(tags) /\ n - 1 + 1 = n
  BY DEF IsList
<1>1. r \subseteq Slugs(tags) \X Slugs(tags) /\ Joins(tags)[n] = Joined(r) /\ Related(tags) \subseteq r
  BY <1>0, JoinsAre, JoinsGrow
<1>2. r \subseteq Joined(r)
  BY <1>1, JoinedType
<1>3. \A s \in (w.visited \cup w.queue) \ {slug} : <<slug, s>> \in r
  BY DEF Walked
<1> HIDE DEF r
<1>4. CASE w.queue = {}
  <2>1. v = w
    BY <1>4, VisitIs
  <2> QED BY <1>1, <1>2, <1>3, <1>4, <2>1 DEF Walked
<1>5. CASE w.queue # {}
  <2>1. PICK s \in w.queue : v.visited = w.visited \cup {s} /\ v.queue = (w.queue \ {s}) \cup (ParentSlugs(tags, s) \ (w.visited \cup {s}))
    BY <1>5, VisitIs
  <2> HIDE DEF v
  <2>2. slug \in w.visited /\ s \notin w.visited /\ s # slug
    BY DEF Walked
  <2>3. slug \in v.visited /\ v.queue \cap v.visited = {}
    BY <2>1, <2>2 DEF Walked
  <2>4. \A x \in v.visited : ParentSlugs(tags, x) \subseteq v.visited \cup v.queue
    BY <2>1 DEF Walked
  <2>5. n + 1 <= Cardinality(v.visited)
    <3>1. IsFiniteSet(Slugs(tags)) /\ w.visited \subseteq Slugs(tags)
      BY SlugsAre DEF Walks
    <3>2. IsFiniteSet(w.visited)
      BY <3>1, FS_Subset
    <3>3. Cardinality(w.visited) \in Nat /\ Cardinality(w.visited \cup {s}) = Cardinality(w.visited) + 1
      BY <2>2, <3>2, FS_CardinalityType, FS_AddElement
    <3>4. n - 1 + 1 <= Cardinality(w.visited)
      BY <1>5 DEF Walked
    <3> QED BY <1>0, <2>1, <3>3, <3>4
  <2>6. ASSUME NEW x \in (v.visited \cup v.queue) \ {slug}  PROVE <<slug, x>> \in Joined(r)
    <3>1. CASE x \in w.visited \cup w.queue
      BY <1>2, <1>3, <2>6, <3>1
    <3>2. CASE x \notin w.visited \cup w.queue
      <4>1. x \in ParentSlugs(tags, s) /\ x # s
        BY <2>1, <2>6, <3>2
      <4>2. x \in Slugs(tags) /\ s \in Slugs(tags)
        BY <4>1, ParentsInDump DEF Walks
      <4>3. <<s, x>> \in Related(tags)
        BY <4>1, <4>2, RelatedAre
      <4>4. <<slug, s>> \in r
        BY <1>3, <2>2
      <4> QED BY <1>1, <4>3, <4>4, JoinedHas
    <3> QED BY <3>1, <3>2
  <2> QED BY <1>1, <2>3, <2>4, <2>5, <2>6 DEF Walked, v
<1> QED BY <1>4, <1>5

(* The ancestors of a tag are the tags that are broader.                   *)
LEMMA AncestorsAre ==
  ASSUME NEW tags, IsList(tags), OwnIds(tags), Distinct(tags), NEW slug \in Slugs(tags)
  PROVE  Ancestors(tags, slug) = {pair[2] : pair \in {q \in Broader(tags) : q[1] = slug}} \ {slug}
<1> DEFINE S == Slugs(tags)
           N == Cardinality(S)
           a == Visits(tags, slug)
           G == {n \in 0 .. N : Walked(tags, slug, n, a[n])}
           c == [n \in 0 .. N |-> n]
<1>1. N \in Nat /\ N <= Len(tags) /\ IsFiniteSet(S) /\ Len(tags) \in Nat
  BY SlugsAre DEF IsList
<1>2. /\ a[0] = [queue |-> ParentSlugs(tags, slug) \ {slug}, visited |-> {slug}]
      /\ \A n \in 1 .. N : a[n] = Visit(tags, a[n - 1])
      /\ \A n \in 0 .. N : a[n] \in Walks(tags)
  BY VisitsAre
<1> HIDE DEF a, N
<1>3. c[0] \in G
  <2>1. a[0].queue = ParentSlugs(tags, slug) \ {slug} /\ a[0].visited = {slug}
    BY <1>2
  <2>2. \A s \in ParentSlugs(tags, slug) \ {slug} : <<slug, s>> \in Joins(tags)[0]
    BY JoinsAre, RelatedAre, ParentsInDump
  <2>3. Cardinality(a[0].visited) = 1
    BY <2>1, FS_Singleton
  <2>4. Walked(tags, slug, 0, a[0])
    BY <2>1, <2>2, <2>3 DEF Walked
  <2> QED BY <1>1, <2>4
<1>4. ASSUME NEW n \in 1 .. N, c[n - 1] \in G  PROVE c[n] \in G
  <2>1. n - 1 \in 0 .. N /\ n \in 0 .. N /\ c[n - 1] = n - 1 /\ c[n] = n /\ n \in 1 .. Len(tags)
    BY <1>1
  <2>2. a[n - 1] \in Walks(tags) /\ a[n] = Visit(tags, a[n - 1]) /\ Walked(tags, slug, n - 1, a[n - 1])
    BY <1>2, <1>4, <2>1
  <2>3. Walked(tags, slug, n, a[n])
    BY <2>1, <2>2, WalkGoesOn
  <2> QED BY <2>1, <2>3
<1> HIDE DEF G, c
<1>5. \A n \in 0 .. N : c[n] \in G
  BY <1>1, <1>3, <1>4, RangeInduction
<1> DEFINE w == a[N]
<1>6. N \in 0 .. N /\ N \in 0 .. Len(tags)
  BY <1>1
<1>7. Walked(tags, slug, N, w) /\ w \in Walks(tags)
  BY <1>2, <1>5, <1>6 DEF c, G
<1>8. Ancestors(tags, slug) = w.visited \ {slug}
  BY DEF Ancestors, a, N
<1> HIDE DEF w
<1>9. w.queue = {}
  <2>1. w.visited \subseteq S
    BY <1>7 DEF Walks
  <2>2. Cardinality(w.visited) <= N /\ Cardinality(w.visited) \in Nat
    BY <1>1, <2>1, FS_Subset, FS_CardinalityType DEF N
  <2>3. ~(N + 1 <= Cardinality(w.visited))
    BY <1>1, <2>2
  <2> QED BY <1>7, <2>3 DEF Walked
<1>10. ASSUME NEW s \in w.visited, s # slug  PROVE <<slug, s>> \in Broader(tags)
  <2>1. <<slug, s>> \in Joins(tags)[N]
    BY <1>7, <1>10 DEF Walked
  <2> QED BY <1>6, <2>1, JoinsGrow
<1>11. ASSUME NEW pair \in Broader(tags), pair[1] = slug  PROVE pair[2] \in w.visited
  <2>1. slug \in w.visited /\ \A s \in w.visited : ParentSlugs(tags, s) \subseteq w.visited
    BY <1>7, <1>9 DEF Walked
  <2>2. ASSUME NEW q \in Related(tags), q[1] \in w.visited  PROVE q[2] \in w.visited
    <3>1. q \in S \X S
      BY RelatedAre
    <3>2. q = <<q[1], q[2]>> /\ q[1] \in S /\ q[2] \in S
      BY <3>1
    <3>3. q[2] \in ParentSlugs(tags, q[1])
      BY <2>2, <3>2, RelatedAre
    <3> QED BY <2>1, <2>2, <3>3
  <2>3. \A q \in Broader(tags) : q[1] \in w.visited => q[2] \in w.visited
    BY <2>2, BroaderCloses
  <2> QED BY <1>11, <2>1, <2>3
<1>12. ASSUME NEW s  PROVE s \in w.visited \ {slug} <=> s \in {pair[2] : pair \in {q \in Broader(tags) : q[1] = slug}} \ {slug}
  <2>1. ASSUME s \in w.visited \ {slug}  PROVE s \in {pair[2] : pair \in {q \in Broader(tags) : q[1] = slug}}
    <3>1. <<slug, s>> \in Broader(tags) /\ <<slug, s>>[1] = slug /\ <<slug, s>>[2] = s
      BY <1>10, <2>1
    <3> QED BY <3>1
  <2>2. ASSUME s \in {pair[2] : pair \in {q \in Broader(tags) : q[1] = slug}}  PROVE s \in w.visited
    BY <1>11, <2>2
  <2> QED BY <2>1, <2>2
<1> QED BY <1>8, <1>12

(* What the tables are synchronised with, card by card.                    *)
TagsOf(tags, o) == IF o \in DOMAIN IdToTags(tags) THEN IdToTags(tags)[o] ELSE {}
LEMMA TagsAreExpected ==
  ASSUME NEW tags, IsList(tags), OwnIds(tags), Distinct(tags), NEW o  PROVE TagsOf(tags, o) = Expected(tags, o)
<1> DEFINE has == {j \in DOMAIN tags : o \in tags[j].tags}
           direct == {tags[i].slug : i \in has}
           broader == {pair[2] : pair \in {q \in Broader(tags) : q[1] \in direct}}
           on(i) == {tags[i].slug} \cup Ancestors(tags, tags[i].slug)
<1>1. Expected(tags, o) = direct \cup broader
  BY DEF Expected
<1>2. DOMAIN IdToTags(tags) = UNION {tags[i].tags : i \in DOMAIN tags}
  BY DEF IdToTags
<1>3. o \in DOMAIN IdToTags(tags) <=> has # {}
  BY <1>2
<1>4. has # {} => IdToTags(tags)[o] = UNION {on(i) : i \in has}
  BY <1>2, <1>3 DEF IdToTags
<1>5. TagsOf(tags, o) = UNION {on(i) : i \in has}
  <2>1. CASE has = {}
    <3> HIDE DEF has
    <3> QED BY <1>3, <2>1 DEF TagsOf
  <2>2. CASE has # {}
    <3> HIDE DEF has, on
    <3> QED BY <1>3, <1>4, <2>2 DEF TagsOf
  <2> QED BY <2>1, <2>2
<1>6. ASSUME NEW i \in has  PROVE \A s : s \in on(i) <=> s = tags[i].slug \/ \E q \in Broader(tags) : q[1] = tags[i].slug /\ s = q[2]
  <2>1. tags[i].slug \in Slugs(tags)
    BY DEF Slugs
  <2>2. Ancestors(tags, tags[i].slug) = {pair[2] : pair \in {q \in Broader(tags) : q[1] = tags[i].slug}} \ {tags[i].slug}
    BY <2>1, AncestorsAre
  <2> QED BY <2>2
<1> HIDE DEF on
<1>7. ASSUME NEW s  PROVE s \in UNION {on(i) : i \in has} <=> s \in direct \cup broader
  <2>1. s \in UNION {on(i) : i \in has} <=> \E i \in has : s \in on(i)
    OBVIOUS
  <2>2. s \in direct <=> \E i \in has : s = tags[i].slug
    OBVIOUS
  <2>3. s \in broader <=> \E q \in Broader(tags) : s = q[2] /\ \E i \in has : q[1] = tags[i].slug
    OBVIOUS
  <2> HIDE DEF has, direct, broader
  <2> QED BY <1>6, <2>1, <2>2, <2>3
<1> QED BY <1>1, <1>5, <1>7

(* The cards that a tag import has still to do keep their old tags; all    *)
(* others have those of the dump, and no other import is writing them.     *)
Dump == setting.tags[synced.version]
Settled(left) ==
  \A id \in DOMAIN table : table[id]["oracle_id"] \notin left \cup {NULL} =>
    table[id]["card_oracle_tags"] = TagsOf(Dump, table[id]["oracle_id"])
AtWork(p) ==
  /\ Syncing(p) /\ job[p].page = synced.version /\ \A q \in Procs \ {p} : ~Syncing(q)
  /\ job[p].at = "batch" => job[p].left \subseteq DOMAIN IdToTags(Dump) /\ Settled(job[p].left)
TagsInv ==
  synced # Nobody =>
    /\ synced \in [by : Procs, version : DOMAIN setting.tags, done : BOOLEAN]
    /\ hierarchy.tags = Slugs(Dump) /\ Distinct(Dump)
    /\ synced.done => Settled({}) /\ \A q \in Procs : ~Syncing(q)
    /\ ~synced.done => AtWork(synced.by)

SameTags ==
  /\ DOMAIN table' = DOMAIN table
  /\ \A id \in DOMAIN table : \A c \in {"oracle_id", "card_oracle_tags"} : table'[id][c] = table[id][c]
AwayFromTags(q) == job'[q] = job[q] \/ (job[q].at \notin {"clear", "batch"} /\ job'[q].at \notin {"clear", "batch"})

LEMMA TagsKept ==
  ASSUME TagsInv, UNCHANGED <<world, synced, hierarchy>>, SameTags, \A q \in Procs : AwayFromTags(q)
  PROVE  TagsInv'
<1> SUFFICES ASSUME synced # Nobody  PROVE TagsInv'
  BY DEF TagsInv, Nobody
<1>1. setting' = setting /\ Dump' = Dump /\ synced' = synced /\ hierarchy' = hierarchy
  BY DEF setting, Dump
<1>2. ASSUME NEW left, Settled(left)
      PROVE  \A id \in DOMAIN table' : table'[id]["oracle_id"] \notin left \cup {NULL} =>
               table'[id]["card_oracle_tags"] = TagsOf(Dump, table'[id]["oracle_id"])
  BY <1>2 DEF SameTags, Settled
<1>3. \A q \in Procs : Syncing(q)' <=> Syncing(q)
  BY DEF Syncing, AwayFromTags
<1>4. synced.done => Settled({})' /\ \A q \in Procs : ~Syncing(q)'
  <2>1. ASSUME Settled({})  PROVE Settled({})'
    BY <1>1, <1>2, <2>1 DEF Settled
  <2> QED BY <1>3, <2>1 DEF TagsInv
<1>5. synced.by \in Procs
  BY DEF TagsInv
<1>6. ~synced.done => AtWork(synced.by)'
  <2> SUFFICES ASSUME ~synced.done  PROVE AtWork(synced.by)'
    OBVIOUS
  <2>1. AtWork(synced.by)
    BY DEF TagsInv
  <2>2. job'[synced.by] = job[synced.by]
    BY <1>5, <2>1 DEF AtWork, Syncing, AwayFromTags
  <2>3. ASSUME Settled(job[synced.by].left)  PROVE Settled(job[synced.by].left)'
    BY <1>1, <1>2, <2>2, <2>3 DEF Settled
  <2> QED BY <1>1, <1>3, <1>5, <2>1, <2>2, <2>3 DEF AtWork
<1> QED BY <1>1, <1>4, <1>6 DEF TagsInv

LEMMA TagsForgotten == ASSUME synced' = Nobody  PROVE TagsInv'
BY DEF TagsInv, Nobody

(* An edit of another column, and an upsert that leaves the rows' cards.   *)
LEMMA OtherTags ==
  ASSUME Good(table), OtherEdit  PROVE SameTags
<1>1. {"oracle_id", "card_oracle_tags"} \subseteq Columns
  BY DEF Columns, TagColumns, ImportColumns
<1>2. ASSUME NEW c, c \notin {"oracle_id", "card_oracle_tags"}, Edited(table, table', c)  PROVE SameTags
  BY <1>1, <1>2 DEF SameTags, Edited, Good
<1> QED BY <1>2 DEF OtherEdit, SameTags

LEMMA CommittedTags ==
  ASSUME IngestAssumption, CardsAssumption, Good(table), NEW p, NEW cards \in Seq(Cards), Committed(p, cards)
  PROVE  synced' = Nobody \/ (synced' = synced /\ SameTags)
<1> SUFFICES ASSUME synced' # Nobody  PROVE synced' = synced /\ SameTags
  OBVIOUS
<1>1. synced' = synced /\ DOMAIN table' = DOMAIN table /\ \A id \in DOMAIN table : table'[id]["oracle_id"] = table[id]["oracle_id"]
  BY DEF Committed
<1>2. Extends(table, table')
  BY UpsertKeeps DEF Committed
<1>3. "card_oracle_tags" \in TagColumns
  BY DEF TagColumns
<1> QED BY <1>1, <1>2, <1>3 DEF SameTags, Extends

(* The steps of a process that is not writing tags.                        *)
LEMMA AwayJobs ==
  ASSUME JobInv, NEW p \in Procs,
         \/ Start(p) \/ DiscoverFails(p) \/ LockImport(p) \/ AfterSetup(p) \/ FetchRaised(p) \/ ImportCards(p) \/ Stamp(p)
         \/ ScoreCards(p) \/ EndImport(p) \/ ScryfallSearch(p) \/ ImportFound(p) \/ NextIsTag(p) \/ MarkCards(p) \/ CubePage(p)
         \/ Ask(p) \/ Count(p) \/ Note(p)
  PROVE  \A q \in Procs : AwayFromTags(q)
<1> DEFINE Away == \A q \in Procs : AwayFromTags(q)
           Tagging == {"clear", "batch"}
<1>h. DOMAIN job = Procs /\ DOMAIN job[p] = JobFields
  BY DEF JobInv, Held
<1>0. ASSUME job[p].at \notin Tagging, Alone(p), job'[p].at \notin Tagging  PROVE Away
  BY <1>0 DEF Alone, AwayFromTags
<1>f. ASSUME job[p].at \notin Tagging, NEW result, Finish(p, result)  PROVE Away
  BY <1>0, <1>f, FinishAlone
<1>g. ASSUME job[p].at \notin Tagging, NEW where, where \notin Tagging, Goto(p, where)  PROVE Away
  BY <1>0, <1>g, GotoAlone
<1>t. ASSUME job[p].at \notin Tagging, NEW tag, NEW good, NextTag(p, tag, good)  PROVE Away
  BY <1>0, <1>t, NextTagAlone
<1> SUFFICES Away
  OBVIOUS
<1> HIDE DEF Away
<1>1. CASE Start(p)
  <2>0. job[p].at = "rest"
    BY <1>1 DEF Start
  <2>1. CASE BeginImport(p) \/ BeginByName(p)
    BY <1>f, <1>g, <2>0, <2>1 DEF BeginImport, BeginByName
  <2>2. CASE BeginIsTags(p)
    <3>1. Alone(p) /\ job'[p].at = "istags"
      BY <1>h, <2>2 DEF BeginIsTags, Alone, JobFields
    <3> QED BY <1>0, <2>0, <3>1
  <2>3. CASE BeginCubecobra(p)
    <3>1. Alone(p) /\ job'[p].at = "cube"
      BY <1>h, <2>3 DEF BeginCubecobra, Alone, JobFields
    <3> QED BY <1>0, <2>0, <3>1
  <2> QED BY <1>1, <1>g, <2>0, <2>1, <2>2, <2>3 DEF Start
<1>2. CASE DiscoverFails(p) \/ LockImport(p) \/ AfterSetup(p) \/ FetchRaised(p)
  BY <1>2, <1>f, <1>g DEF DiscoverFails, LockImport, AfterSetup, FetchRaised
<1>3. CASE ImportCards(p) \/ Stamp(p) \/ ScoreCards(p) \/ EndImport(p)
  BY <1>3, <1>f, <1>g DEF ImportCards, Stamp, ScoreCards, EndImport
<1>4. CASE ScryfallSearch(p)
  <2> DEFINE pages == setting.search[Query(p)]
             sofar == IF job[p].page > Len(pages) THEN job[p].found ELSE job[p].found \o pages[job[p].page]
  <2>0. job[p].at = "search"
    BY <1>4 DEF ScryfallSearch
  <2>1. ASSUME NEW found, SearchEnds(p, found)  PROVE Away
    <3>1. ASSUME NEW left, job' = [job EXCEPT ![p].at = "mark", ![p].left = left, ![p].found = found]  PROVE Away
      <4>1. Alone(p) /\ job'[p].at = "mark"
        BY <1>h, <3>1 DEF Alone, JobFields
      <4> QED BY <1>0, <2>0, <4>1
    <3>2. CASE job' = [job EXCEPT ![p].at = "setup", ![p].found = found]
      <4>1. Alone(p) /\ job'[p].at = "setup"
        BY <1>h, <3>2 DEF Alone, JobFields
      <4> QED BY <1>0, <2>0, <4>1
    <3> QED BY <1>f, <1>t, <2>0, <2>1, <3>1, <3>2 DEF SearchEnds
  <2>2. CASE job' = [job EXCEPT ![p].page = @ + 1, ![p].found = sofar]
    <3> HIDE DEF sofar
    <3>1. Alone(p) /\ job'[p].at = job[p].at
      BY <1>h, <2>2 DEF Alone, JobFields
    <3> QED BY <1>0, <2>0, <3>1
  <2> QED BY <1>4, <1>f, <1>t, <2>0, <2>1, <2>2 DEF ScryfallSearch
<1>5. CASE ImportFound(p) \/ NextIsTag(p)
  BY <1>5, <1>f, <1>g, <1>t DEF ImportFound, NextIsTag
<1>6. CASE MarkCards(p)
  <2> DEFINE x == CHOOSE y \in job[p].left : TRUE
  <2>1. CASE job' = [job EXCEPT ![p].left = @ \ {x}]
    <3> HIDE DEF x
    <3>1. Alone(p) /\ job'[p].at = job[p].at /\ job[p].at = "mark"
      BY <1>6, <1>h, <2>1 DEF Alone, JobFields, MarkCards
    <3> QED BY <1>0, <3>1
  <2> QED BY <1>6, <1>f, <1>t, <2>1 DEF MarkCards
<1>7. CASE CubePage(p)
  <2>1. CASE job' = [job EXCEPT ![p].page = @ + 1]
    <3>1. Alone(p) /\ job'[p].at = job[p].at /\ job[p].at = "cube"
      BY <1>7, <1>h, <2>1 DEF Alone, JobFields, CubePage
    <3> QED BY <1>0, <3>1
  <2> QED BY <1>7, <1>f, <1>g, <2>1 DEF CubePage
<1>8. CASE Ask(p)
  <2>1. CASE job' = [job EXCEPT ![p].at = "count", ![p].time = importTime]
    <3>1. Alone(p) /\ job'[p].at = "count" /\ job[p].at = "ask"
      BY <1>8, <1>h, <2>1 DEF Alone, JobFields, Ask
    <3> QED BY <1>0, <3>1
  <2> QED BY <1>8, <1>f, <2>1 DEF Ask
<1>9. CASE Count(p)
  <2>1. ASSUME NEW result, job' = [job EXCEPT ![p].at = "note", ![p].result = result]  PROVE Away
    <3>1. Alone(p) /\ job'[p].at = "note" /\ job[p].at = "count"
      BY <1>9, <1>h, <2>1 DEF Alone, JobFields, Count
    <3> QED BY <1>0, <3>1
  <2> QED BY <1>9, <2>1 DEF Count
<1>10. CASE Note(p)
  BY <1>10, <1>f DEF Note, NoteAt
<1> QED BY <1>1, <1>2, <1>3, <1>4, <1>5, <1>6, <1>7, <1>8, <1>9, <1>10

LEMMA TagDumpsAre ==
  ASSUME CardsAssumption, TagsAssumption, world \in DOMAIN Scenarios
  PROVE  DOMAIN setting.tags = 1 .. Len(setting.cards) /\ \A v \in DOMAIN setting.tags : IsList(setting.tags[v])
BY DEF TagsAssumption, setting

(* Whoever writes tags is the import that is remembered, or none is.       *)
LEMMA WriterIsRemembered ==
  ASSUME TagsInv, NEW p \in Procs, Syncing(p), synced # Nobody
  PROVE  /\ synced.by = p /\ ~synced.done /\ AtWork(p)
         /\ synced \in [by : Procs, version : DOMAIN setting.tags, done : BOOLEAN]
         /\ hierarchy.tags = Slugs(Dump) /\ Distinct(Dump)
<1>1. /\ synced \in [by : Procs, version : DOMAIN setting.tags, done : BOOLEAN] /\ hierarchy.tags = Slugs(Dump) /\ Distinct(Dump)
      /\ ~synced.done /\ AtWork(synced.by)
  BY DEF TagsInv
<1>2. synced.by = p
  BY <1>1 DEF AtWork
<1> QED BY <1>1, <1>2

LEMMA TagsDie ==
  ASSUME JobInv, TagsInv, world' = world, NEW p \in Procs, Dies(p), job[p].at \in {"tags", "clear", "batch"}  PROVE TagsInv'
<1>1. synced' \in {synced, Nobody} /\ (synced.by = p => synced' = Nobody) /\ table' = table /\ hierarchy' = hierarchy /\ Finish(p, "raised")
  BY DEF Dies
<1>2. CASE synced' = Nobody
  BY <1>2, TagsForgotten
<1>3. CASE synced' # Nobody
  <2>1. synced' = synced /\ synced # Nobody /\ synced.by # p
    BY <1>1, <1>3
  <2>2. ~Syncing(p)
    BY <2>1, WriterIsRemembered
  <2>3. \A q \in Procs : AwayFromTags(q)
    BY <1>1, <2>2, FinishAlone DEF Alone, AwayFromTags, Syncing
  <2>4. SameTags
    BY <1>1 DEF SameTags
  <2> QED BY <1>1, <2>1, <2>3, <2>4, TagsKept
<1> QED BY <1>2, <1>3

LEMMA TagsSync ==
  ASSUME CardsAssumption, TagsAssumption, VersionsInv, JobInv, TagsInv, world' = world, NEW p \in Procs, SyncHierarchy(p)
  PROVE  TagsInv'
<1> DEFINE v == fetch[p].bytes
           tags == setting.tags[v]
<1>1. job[p].at = "tags" /\ fetch[p].at = "read"
  BY DEF SyncHierarchy
<1>2. v \in DOMAIN setting.tags
  <2>1. published \in 1 .. Len(setting.cards) /\ v \in 1 .. published /\ Len(setting.cards) \in Nat
    BY <1>1, CardsAre DEF VersionsInv
  <2>2. v \in 1 .. Len(setting.cards)
    BY <2>1
  <2> QED BY <2>2, TagDumpsAre DEF VersionsInv
<1>3. CASE Dies(p)
  BY <1>1, <1>3, TagsDie
<1>4. CASE Finish(p, "raised") /\ UNCHANGED <<table, hierarchy, synced>>
  <2>1. \A q \in Procs : AwayFromTags(q)
    BY <1>1, <1>4, FinishAlone DEF Alone, AwayFromTags
  <2>2. SameTags
    BY <1>4 DEF SameTags
  <2> QED BY <1>4, <2>1, <2>2, TagsKept
<1>5. CASE /\ Accepted(tags) /\ hierarchy' = [tags |-> Slugs(tags), pairs |-> Related(tags)]
           /\ job' = [job EXCEPT ![p].at = "clear", ![p].page = v]
           /\ synced' = IF \E q \in Procs \ {p} : Syncing(q) THEN Nobody ELSE [by |-> p, version |-> v, done |-> FALSE]
  <2>1. CASE \E q \in Procs \ {p} : Syncing(q)
    BY <1>5, <2>1, TagsForgotten
  <2>2. CASE \A q \in Procs \ {p} : ~Syncing(q)
    <3>1. synced' = [by |-> p, version |-> v, done |-> FALSE] /\ setting' = setting
      BY <1>5, <2>2 DEF setting
    <3>2. Dump' = tags /\ hierarchy'.tags = Slugs(tags) /\ Distinct(tags)
      BY <1>5, <3>1 DEF Dump, Accepted
    <3>3. /\ DOMAIN job = Procs /\ DOMAIN job[p] = JobFields
      BY DEF JobInv, Held
    <3>4. job'[p].at = "clear" /\ job'[p].page = v /\ \A q \in Procs \ {p} : job'[q] = job[q]
      BY <1>5, <3>3 DEF JobFields
    <3>5. AtWork(p)'
      BY <2>2, <3>1, <3>4 DEF AtWork, Syncing
    <3>6. synced' \in [by : Procs, version : DOMAIN setting.tags, done : BOOLEAN] /\ ~synced'.done /\ synced'.by = p
      BY <1>2, <3>1
    <3> HIDE DEF tags
    <3> QED BY <3>1, <3>2, <3>5, <3>6 DEF TagsInv
  <2> QED BY <2>1, <2>2
<1> QED BY <1>3, <1>4, <1>5 DEF SyncHierarchy

LEMMA TagsClear ==
  ASSUME JobInv, TagsInv, Good(table), world' = world, NEW p \in Procs, ClearTags(p)  PROVE TagsInv'
<1> DEFINE keep == DOMAIN IdToTags(TagDump(p))
<1>1. job[p].at = "clear"
  BY DEF ClearTags
<1>2. CASE Dies(p)
  BY <1>1, <1>2, TagsDie
<1>3. CASE synced = Nobody /\ synced' = synced
  BY <1>3, TagsForgotten
<1>4. CASE /\ synced # Nobody /\ synced' = synced /\ hierarchy' = hierarchy
           /\ table' = [id \in DOMAIN table |-> IF table[id]["oracle_id"] \in keep \cup {NULL} THEN table[id]
                                                ELSE [table[id] EXCEPT !["card_oracle_tags"] = {}]]
           /\ job' = [job EXCEPT ![p].at = "batch", ![p].left = keep]
  <2>1. /\ synced.by = p /\ ~synced.done /\ AtWork(p)
        /\ synced \in [by : Procs, version : DOMAIN setting.tags, done : BOOLEAN]
        /\ hierarchy.tags = Slugs(Dump) /\ Distinct(Dump)
    BY <1>1, <1>4, WriterIsRemembered DEF Syncing
  <2>2. Dump' = Dump /\ setting' = setting /\ keep = DOMAIN IdToTags(Dump)
    BY <1>4, <2>1 DEF Dump, setting, AtWork, TagDump
  <2>3. {"oracle_id", "card_oracle_tags"} \subseteq Columns
    BY DEF Columns, ImportColumns, TagColumns
  <2>4. DOMAIN job = Procs /\ DOMAIN job[p] = JobFields
    BY DEF JobInv, Held
  <2> HIDE DEF keep
  <2>5. job'[p].at = "batch" /\ job'[p].left = keep /\ job'[p].page = job[p].page /\ \A q \in Procs \ {p} : job'[q] = job[q]
    BY <1>4, <2>4 DEF JobFields
  <2>6. ASSUME NEW id \in DOMAIN table', table'[id]["oracle_id"] \notin keep \cup {NULL}
        PROVE  table'[id]["card_oracle_tags"] = TagsOf(Dump, table'[id]["oracle_id"])
    <3>1. id \in DOMAIN table /\ DOMAIN table[id] = Columns
      BY <1>4, <2>6 DEF Good
    <3>2. table'[id]["oracle_id"] = table[id]["oracle_id"]
      BY <1>4, <2>3, <3>1
    <3>3. table'[id]["card_oracle_tags"] = {}
      BY <1>4, <2>3, <2>6, <3>1, <3>2
    <3> QED BY <2>2, <2>6, <3>3 DEF TagsOf
  <2>7. Settled(job[p].left)'
    BY <2>2, <2>5, <2>6 DEF Settled
  <2>8. AtWork(p)'
    BY <1>4, <2>1, <2>2, <2>5, <2>7 DEF AtWork, Syncing
  <2> QED BY <1>4, <2>1, <2>2, <2>8 DEF TagsInv
<1> QED BY <1>2, <1>3, <1>4 DEF ClearTags

LEMMA TagsSet ==
  ASSUME JobInv, TagsInv, Good(table), world' = world, NEW p \in Procs, SetTags(p)  PROVE TagsInv'
<1> DEFINE o == CHOOSE x \in job[p].left : TRUE
           tags == IdToTags(TagDump(p))[o]
<1>1. job[p].at = "batch" /\ job[p].left # {}
  BY DEF SetTags
<1>2. CASE Dies(p)
  BY <1>1, <1>2, TagsDie
<1>3. CASE synced = Nobody /\ synced' = synced
  BY <1>3, TagsForgotten
<1>4. CASE /\ synced # Nobody /\ synced' = synced /\ hierarchy' = hierarchy
           /\ table' = [id \in DOMAIN table |-> IF table[id]["oracle_id"] # o THEN table[id]
                                                ELSE [table[id] EXCEPT !["card_oracle_tags"] = tags]]
           /\ job' = [job EXCEPT ![p].left = @ \ {o}]
  <2>1. /\ synced.by = p /\ ~synced.done /\ AtWork(p)
        /\ synced \in [by : Procs, version : DOMAIN setting.tags, done : BOOLEAN]
        /\ hierarchy.tags = Slugs(Dump) /\ Distinct(Dump)
    BY <1>1, <1>4, WriterIsRemembered DEF Syncing
  <2>2. Dump' = Dump /\ setting' = setting
    BY <1>4 DEF Dump, setting
  <2>3. o \in job[p].left
    BY <1>1
  <2>4. job[p].left \subseteq DOMAIN IdToTags(Dump) /\ Settled(job[p].left)
    BY <1>1, <2>1 DEF AtWork
  <2>5. tags = TagsOf(Dump, o)
    <3>1. TagDump(p) = Dump
      BY <2>1 DEF TagDump, Dump, AtWork
    <3>2. o \in DOMAIN IdToTags(Dump)
      BY <2>3, <2>4
    <3> HIDE DEF o
    <3> QED BY <3>1, <3>2 DEF TagsOf
  <2>6. {"oracle_id", "card_oracle_tags"} \subseteq Columns
    BY DEF Columns, ImportColumns, TagColumns
  <2>7. DOMAIN job = Procs /\ DOMAIN job[p] = JobFields
    BY DEF JobInv, Held
  <2> HIDE DEF o, tags
  <2>8. /\ job'[p].at = job[p].at /\ job'[p].left = job[p].left \ {o} /\ job'[p].page = job[p].page
        /\ \A q \in Procs \ {p} : job'[q] = job[q]
    BY <1>4, <2>7 DEF JobFields
  <2>9. ASSUME NEW id \in DOMAIN table', table'[id]["oracle_id"] \notin (job[p].left \ {o}) \cup {NULL}
        PROVE  table'[id]["card_oracle_tags"] = TagsOf(Dump, table'[id]["oracle_id"])
    <3>1. id \in DOMAIN table /\ DOMAIN table[id] = Columns
      BY <1>4, <2>9 DEF Good
    <3>2. table'[id]["oracle_id"] = table[id]["oracle_id"]
      BY <1>4, <2>6, <3>1
    <3>3. CASE table[id]["oracle_id"] = o
      <4>1. table'[id]["card_oracle_tags"] = tags
        BY <1>4, <2>6, <3>1, <3>3
      <4> QED BY <2>5, <3>2, <3>3, <4>1
    <3>4. CASE table[id]["oracle_id"] # o
      <4>1. table'[id] = table[id] /\ table[id]["oracle_id"] \notin job[p].left \cup {NULL}
        BY <1>4, <2>9, <3>1, <3>2, <3>4
      <4> QED BY <2>4, <3>1, <4>1 DEF Settled
    <3> QED BY <3>3, <3>4
  <2>10. Settled(job[p].left)'
    BY <2>2, <2>8, <2>9 DEF Settled
  <2>11. AtWork(p)'
    BY <1>1, <1>4, <2>1, <2>2, <2>4, <2>8, <2>10 DEF AtWork, Syncing
  <2> QED BY <1>4, <2>1, <2>2, <2>11 DEF TagsInv
<1> QED BY <1>2, <1>3, <1>4 DEF SetTags

LEMMA TagsEnd ==
  ASSUME TagsAssumption, JobInv, TagsInv, world' = world, NEW p \in Procs, TagsDone(p)  PROVE TagsInv'
<1>1. /\ job[p].at = "batch" /\ job[p].left = {} /\ table' = table /\ hierarchy' = hierarchy
      /\ synced' = IF synced.by = p THEN [synced EXCEPT !.done = TRUE] ELSE synced
  BY DEF TagsDone
<1>2. CASE synced = Nobody
  <2>1. synced' = Nobody
    BY <1>1, <1>2 DEF Nobody, TagsAssumption
  <2> QED BY <2>1, TagsForgotten
<1>3. CASE synced # Nobody
  <2>1. /\ synced.by = p /\ ~synced.done /\ AtWork(p)
        /\ synced \in [by : Procs, version : DOMAIN setting.tags, done : BOOLEAN]
        /\ hierarchy.tags = Slugs(Dump) /\ Distinct(Dump)
    BY <1>1, <1>3, WriterIsRemembered DEF Syncing
  <2>2. /\ synced' \in [by : Procs, version : DOMAIN setting.tags, done : BOOLEAN]
        /\ synced'.by = p /\ synced'.version = synced.version /\ synced'.done
    BY <1>1, <2>1
  <2>3. Dump' = Dump /\ setting' = setting
    BY <2>2 DEF Dump, setting
  <2>4. Settled({})'
    <3>1. Settled({})
      BY <1>1, <2>1 DEF AtWork
    <3> QED BY <1>1, <2>3, <3>1 DEF Settled
  <2>5. Alone(p) /\ job'[p].at \in {"end", "rest"}
    BY GotoAlone, FinishAlone DEF TagsDone, EndTags
  <2>6. \A q \in Procs : ~Syncing(q)'
    BY <2>1, <2>5 DEF Alone, AtWork, Syncing
  <2> QED BY <1>1, <2>1, <2>2, <2>3, <2>4, <2>6 DEF TagsInv
<1> QED BY <1>2, <1>3

LEMMA TagsNext ==
  ASSUME IngestAssumption, CardsAssumption, TagsAssumption, RowsInv, TagsInv, [Next]_vars  PROVE TagsInv'
<1>h. world' = world /\ JobInv /\ VersionsInv /\ Good(table)
  BY WorldKept DEF RowsInv
<1>k. ASSUME UNCHANGED <<synced, hierarchy>>, SameTags, \A q \in Procs : AwayFromTags(q)  PROVE TagsInv'
  BY <1>h, <1>k, TagsKept
<1>u. ASSUME UNCHANGED <<synced, hierarchy, table, job>>  PROVE TagsInv'
  BY <1>k, <1>u DEF SameTags, AwayFromTags
<1>1. ASSUME NEW p \in Procs, Work(p) \/ CompleteExpires(p)  PROVE TagsInv'
  <2>1. CASE \/ Start(p) \/ DiscoverFails(p) \/ LockImport(p) \/ AfterSetup(p) \/ FetchRaised(p) \/ Stamp(p) \/ EndImport(p)
             \/ ScryfallSearch(p) \/ NextIsTag(p) \/ Ask(p) \/ Count(p) \/ Note(p)
    <3>1. UNCHANGED <<synced, hierarchy>>
      <4>1. CASE Start(p) \/ DiscoverFails(p) \/ LockImport(p) \/ AfterSetup(p) \/ FetchRaised(p) \/ Stamp(p) \/ EndImport(p)
        BY <4>1 DEF Start, DiscoverFails, LockImport, AfterSetup, FetchRaised, Stamp, EndImport
      <4>2. CASE ScryfallSearch(p) \/ NextIsTag(p) \/ Ask(p) \/ Count(p) \/ Note(p)
        BY <4>2 DEF ScryfallSearch, NextIsTag, Ask, Count, Note, NoteAt
      <4> QED BY <2>1, <4>1, <4>2
    <3>2. SameTags
      BY <2>1, TableUntouched DEF AwayFromTable, SameTags
    <3>3. \A q \in Procs : AwayFromTags(q)
      BY <1>h, <2>1, AwayJobs
    <3> QED BY <1>k, <3>1, <3>2, <3>3
  <2>2. CASE ScoreCards(p) \/ MarkCards(p) \/ CubePage(p)
    <3>1. UNCHANGED <<synced, hierarchy>>
      BY <2>2 DEF ScoreCards, MarkCards, CubePage
    <3>2. SameTags
      BY <1>h, <2>2, OtherEdits, OtherTags
    <3>3. \A q \in Procs : AwayFromTags(q)
      BY <1>h, <2>2, AwayJobs
    <3> QED BY <1>k, <3>1, <3>2, <3>3
  <2>3. CASE ImportCards(p) \/ ImportFound(p)
    <3>1. hierarchy' = hierarchy /\ \A q \in Procs : AwayFromTags(q)
      BY <1>h, <2>3, AwayJobs DEF ImportCards, ImportFound
    <3>2. ASSUME NEW cards \in Seq(Cards), Committed(p, cards)  PROVE TagsInv'
      <4>1. CASE synced' = Nobody
        BY <4>1, TagsForgotten
      <4>2. CASE synced' = synced /\ SameTags
        BY <1>k, <3>1, <4>2
      <4> QED BY <1>h, <3>2, <4>1, <4>2, CommittedTags
    <3>3. CASE UNCHANGED <<table, synced>>
      BY <1>k, <3>1, <3>3 DEF SameTags
    <3>4. CASE ImportCards(p)
      <4> DEFINE cards == setting.cards[fetch[p].bytes]
      <4>1. cards \in Seq(Cards)
        <5>1. published \in 1 .. Len(setting.cards) /\ fetch[p].bytes \in 1 .. published /\ Len(setting.cards) \in Nat
          BY <1>h, <3>4, CardsAre DEF VersionsInv, ImportCards
        <5>2. fetch[p].bytes \in 1 .. Len(setting.cards)
          BY <5>1
        <5> QED BY <1>h, <5>2, CardsAre DEF VersionsInv
      <4>2. Committed(p, cards) \/ UNCHANGED <<table, synced>>
        BY <3>4 DEF ImportCards
      <4> QED BY <3>2, <3>3, <4>1, <4>2
    <3>5. CASE ImportFound(p)
      <4>1. job[p].found \in Seq(Cards)
        BY <1>h DEF JobInv, Held
      <4>2. Committed(p, job[p].found) \/ UNCHANGED <<table, synced>>
        BY <3>5 DEF ImportFound
      <4> QED BY <3>2, <3>3, <4>1, <4>2
    <3> QED BY <2>3, <3>4, <3>5
  <2>4. CASE SetUp(p)
    <3>1. CASE synced' = Nobody
      BY <3>1, TagsForgotten
    <3>2. CASE synced' # Nobody
      BY <1>u, <2>4, <3>2 DEF SetUp
    <3> QED BY <3>1, <3>2
  <2>5. CASE Fetch(p) \/ ReadFails(p) \/ CompleteExpires(p)
    BY <1>u, <2>5 DEF Fetch, ReadFails, CompleteExpires
  <2>6. CASE SyncHierarchy(p)
    BY <1>h, <2>6, TagsSync
  <2>7. CASE ClearTags(p)
    BY <1>h, <2>7, TagsClear
  <2>8. CASE SetTags(p)
    BY <1>h, <2>8, TagsSet
  <2>9. CASE TagsDone(p)
    BY <1>h, <2>9, TagsEnd
  <2> QED BY <1>1, <2>1, <2>2, <2>3, <2>4, <2>5, <2>6, <2>7, <2>8, <2>9 DEF Work
<1>2. CASE RecentEnds \/ FilesChange \/ AllDone \/ UNCHANGED vars
  BY <1>2, <1>u DEF RecentEnds, FilesChange, AllDone, vars
<1>3. CASE Restart
  <2>1. /\ job' = [p \in Procs |-> Idle(setting.jobs[p])] /\ UNCHANGED <<table, hierarchy>>
        /\ synced' = IF synced.done THEN synced ELSE Nobody
    BY <1>3 DEF Restart
  <2>2. CASE ~synced.done
    BY <2>1, <2>2, TagsForgotten
  <2>3. CASE synced.done
    <3>1. \A q \in Procs : ~Syncing(q)
      BY <2>3 DEF TagsInv, Nobody
    <3>2. \A q \in Procs : job'[q].at = "rest"
      BY <2>1, IdleHeld
    <3>3. \A q \in Procs : AwayFromTags(q)
      BY <3>1, <3>2 DEF AwayFromTags, Syncing
    <3>4. SameTags
      BY <2>1 DEF SameTags
    <3> QED BY <1>k, <2>1, <2>3, <3>3, <3>4
  <2> QED BY <2>2, <2>3
<1> QED BY <1>1, <1>2, <1>3 DEF Next

(* A tag import that had the tables to itself leaves on every card the     *)
(* tags of its dump and all that are broader, whichever operations ran     *)
(* beside it and wherever others failed; and the walk that finds the       *)
(* broader ones finds them in every graph.                                 *)
THEOREM TagsFollowTheDump == Spec => []TagsSound
<1> DEFINE Inv == RowsInv /\ TagsInv
<1>1. Init => Inv
  BY RowsInitOK, IngestAssumption, CardsAssumption DEF Init, TagsInv
<1>2. Inv /\ [Next]_vars => Inv'
  BY RowsNext, TagsNext, IngestAssumption, CardsAssumption, TagsAssumption
<1>3. Inv => TagsSound
  <2> SUFFICES ASSUME Inv  PROVE TagsSound
    OBVIOUS
  <2>1. DOMAIN setting.tags = 1 .. Len(setting.cards) /\ \A v \in DOMAIN setting.tags : IsList(setting.tags[v])
    BY TagDumpsAre, CardsAssumption, TagsAssumption DEF RowsInv, VersionsInv
  <2>2. AncestorsAreClosure
    <3> SUFFICES ASSUME NEW v \in DOMAIN setting.tags, OwnIds(setting.tags[v]), Distinct(setting.tags[v]), NEW s \in Slugs(setting.tags[v])
                 PROVE  Ancestors(setting.tags[v], s) = {pair[2] : pair \in {q \in Broader(setting.tags[v]) : q[1] = s}} \ {s}
      BY DEF AncestorsAreClosure
    <3> QED BY <2>1, AncestorsAre
  <2>3. TagsSynced
    <3> SUFFICES ASSUME synced.done  PROVE TagsSynced
      BY DEF TagsSynced
    <3>1. /\ hierarchy.tags = Slugs(Dump) /\ Distinct(Dump) /\ Settled({}) /\ IsList(Dump)
      BY <2>1 DEF TagsInv, Nobody, Dump
    <3>2. ASSUME OwnIds(Dump), NEW id \in DOMAIN table, table[id]["oracle_id"] # NULL
          PROVE  table[id]["card_oracle_tags"] = Expected(Dump, table[id]["oracle_id"])
      <4>1. table[id]["card_oracle_tags"] = TagsOf(Dump, table[id]["oracle_id"])
        BY <3>1, <3>2 DEF Settled
      <4> QED BY <3>1, <3>2, <4>1, TagsAreExpected
    <3> QED BY <3>1, <3>2 DEF TagsSynced, Dump
  <2> QED BY <2>2, <2>3 DEF TagsSound
<1> QED BY <1>1, <1>2, <1>3, PTL DEF Spec
=============================================================================
