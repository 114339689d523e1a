------------------------------ MODULE Fetchers ------------------------------
(***************************************************************************)
(* Two programs that page through other people's sites.                    *)
(*   gatherer_import/fetch_gatherer_data.py keeps the sets of Gatherer, or *)
(*   the cards of one, in files.                                           *)
(*   scripts/find_missing_cards.py compares, query by query, the names     *)
(*   that Scryfall and the local server answer with, and has the server    *)
(*   import the difference.                                                *)
(* The sites are external: Gatherer may gain an item between two requests, *)
(* answers beyond its last page in one of three ways, and any request may  *)
(* fail.                                                                   *)
(***************************************************************************)
EXTENDS Integers, FiniteSets, Sequences, SequencesExt

CONSTANTS
  GathererItems,     \* what a listing of Gatherer has at first, in order
  GathererNews,      \* an item that it may gain
  GathererPageSize,
  MaxGathererPage,   \* bound: of the page that is asked for
  ScryfallPages,     \* query -> the pages of names that Scryfall has
  FinderQueries,     \* generate_search_queries(), in order
  LocalNames,        \* the names the local server has at first
  LocalLimit         \* "limit": 2000

ASSUME FetcherAssumption ==
  /\ GathererItems \in Seq(ToSet(GathererItems)) /\ GathererPageSize \in Nat \ {0}
  /\ FinderQueries \in Seq(DOMAIN ScryfallPages) \ {<<>>}
  /\ \A q \in DOMAIN ScryfallPages : ScryfallPages[q] \in Seq(ToSet(ScryfallPages[q]))

VARIABLES listing, ending,   \* Gatherer: the items, and what is beyond them
          gatherer,          \* the fetcher
          file,              \* what save_set_to_json() has left on the disk
          names,             \* of the cards in the local database
          finder

GathererVars == <<listing, ending, gatherer, file>>
FinderVars == <<names, finder>>
FetcherVars == <<GathererVars, FinderVars>>

Endings == {"not_found", "no_items", "empty"}
NoFile == [state |-> "none", cards |-> <<>>]
FetcherInit ==
  /\ listing = GathererItems /\ ending \in Endings /\ file = NoFile
  /\ gatherer = [pc |-> "rest"]
  /\ names = LocalNames
  /\ finder = [pc |-> "local", n |-> 1, local |-> {}, page |-> 1, found |-> {}, missing |-> {}, total_missing |-> 0,
               total_imported |-> 0, failed |-> {}, refused |-> {}, skipped |-> {}, cut |-> {}]

-----------------------------------------------------------------------------
(* fetch_all_sets() and fetch_set(): page after page from the first on.    *)
StartFetch ==
  /\ gatherer.pc = "rest" /\ file.state # "writing"
  /\ \E what \in {"sets", "cards"} :
       gatherer' = [pc |-> "get", what |-> what, page |-> 1, items |-> <<>>, began |-> ToSet(listing), garbled |-> FALSE]
  /\ UNCHANGED <<listing, ending, file, FinderVars>>

(* _extract_items_from_response() raises a ValueError for a page that has  *)
(* no array of items, or no end of it.                                     *)
PageOf(n) ==
  LET first == (n - 1) * GathererPageSize + 1
      last == n * GathererPageSize
  IN IF first > Len(listing) THEN [kind |-> ending]
     ELSE [kind |-> "items", items |-> SubSeq(listing, first, IF last > Len(listing) THEN Len(listing) ELSE last)]

Fetched(next) == IF gatherer.what = "sets" THEN "done" ELSE next

(* Only the listing of sets takes such a page for its end, and one without *)
(* items; the cards of a set end where a page is not found.                *)
NoItemsEndsBoth == "save"   \* mutant: that of a set's cards does too
NoItems == "raised"
Answered(answer) ==
  CASE answer.kind = "not_found" -> [gatherer EXCEPT !.pc = Fetched("save")]
    [] answer.kind = "no_items" -> [gatherer EXCEPT !.pc = Fetched(NoItems)]
    [] answer.kind = "empty" -> [gatherer EXCEPT !.pc = Fetched("get"), !.page = @ + 1]
    [] answer.kind = "items" -> [gatherer EXCEPT !.items = @ \o answer.items, !.page = @ + 1]

GetPage ==
  /\ gatherer.pc = "get" /\ gatherer.page <= MaxGathererPage
  /\ \/ gatherer' = Answered(PageOf(gatherer.page))
     \/ gatherer' = [Answered([kind |-> "no_items"]) EXCEPT !.garbled = TRUE]   \* a page that is cut
     \/ gatherer' = [gatherer EXCEPT !.pc = "raised"]                \* any other status
  /\ UNCHANGED <<listing, ending, file, FinderVars>>

ListingGrows ==
  /\ GathererNews \notin ToSet(listing) /\ gatherer.pc = "get"
  /\ \E i \in 1 .. Len(listing) + 1 : listing' = InsertAt(listing, i, GathererNews)
  /\ UNCHANGED <<ending, gatherer, file, FinderVars>>

(* save_set_to_json(): the file is opened, which empties it, and written.  *)
OpenFile ==
  /\ gatherer.pc = "save" /\ file.state # "writing"
  /\ file' = [state |-> "writing", cards |-> <<>>]
  /\ UNCHANGED <<listing, ending, gatherer, FinderVars>>
DumpCards ==
  /\ gatherer.pc = "save" /\ file.state = "writing"
  /\ file' = [state |-> "closed", cards |-> gatherer.items]
  /\ gatherer' = [gatherer EXCEPT !.pc = "done"]
  /\ UNCHANGED <<listing, ending, FinderVars>>
GathererKilled ==
  /\ gatherer.pc \in {"get", "save"}
  /\ gatherer' = [gatherer EXCEPT !.pc = "killed"]
  /\ file' = IF file.state = "writing" THEN [file EXCEPT !.state = "cut"] ELSE file
  /\ UNCHANGED <<listing, ending, FinderVars>>
NextFetch ==
  /\ gatherer.pc \in {"done", "raised", "killed"}
  /\ gatherer' = [pc |-> "rest"]
  /\ UNCHANGED <<listing, ending, file, FinderVars>>

GathererNext ==
  StartFetch \/ GetPage \/ ListingGrows \/ OpenFile \/ DumpCards \/ GathererKilled \/ NextFetch

-----------------------------------------------------------------------------
TheQuery == FinderQueries[finder.n]
Matching(q) == UNION {ScryfallPages[q][i] : i \in DOMAIN ScryfallPages[q]}
NextQuery(f) == [f EXCEPT !.pc = IF f.n = Len(FinderQueries) THEN "done" ELSE "local", !.n = @ + 1,
                          !.page = 1, !.found = {}, !.missing = {}]

(* search_local_database(): at most LocalLimit names.  Any error is logged *)
(* and is an empty set, and an empty set skips the query.                  *)
LocalAnswers(q) ==
  LET all == names \cap Matching(q)
  IN {s \in SUBSET all : Cardinality(s) = IF Cardinality(all) > LocalLimit THEN LocalLimit ELSE Cardinality(all)}
SearchLocalDatabase ==
  /\ finder.pc = "local"
  /\ \E local \in LocalAnswers(TheQuery) \cup {{}} :
       finder' = IF local = {} THEN NextQuery([finder EXCEPT !.skipped = @ \cup {TheQuery}])
                 ELSE [finder EXCEPT !.pc = "scryfall", !.local = local]
  /\ UNCHANGED <<names, GathererVars>>

(* search_scryfall(): a 404 ends the search with the names so far, another *)
(* status ends the program's loop, and an error without a response is an   *)
(* AttributeError, which nothing catches.                                  *)
CollectedLast(found, page) == page   \* mutant: of the last page
Collected(found, page) == found \cup page
Compare(f, found) ==
  LET missing == found \ f.local
  IN [f EXCEPT !.pc = "import", !.found = found, !.missing = missing, !.total_missing = @ + Cardinality(missing)]
SearchScryfall ==
  /\ finder.pc = "scryfall"
  /\ LET pages == ScryfallPages[TheQuery]
         found == Collected(finder.found, pages[finder.page])
     IN \/ finder' = IF finder.page = Len(pages) THEN Compare(finder, found)
                     ELSE [finder EXCEPT !.page = @ + 1, !.found = found]
        \/ finder' = Compare([finder EXCEPT !.cut = @ \cup {TheQuery}], finder.found)
        \/ finder' = [finder EXCEPT !.pc = "broken"]
        \/ finder' = [finder EXCEPT !.pc = "died"]
  /\ UNCHANGED <<names, GathererVars>>

(* import_missing_card(), in any order: the server loads the card, answers *)
(* well without loading it (not found, filtered), or fails.                *)
ImportMissingCard ==
  /\ finder.pc = "import"
  /\ \/ finder.missing = {} /\ finder' = NextQuery(finder) /\ UNCHANGED names
     \/ \E card \in finder.missing :
          \/ finder' = [finder EXCEPT !.missing = @ \ {card}, !.total_imported = @ + 1] /\ names' = names \cup {card}
          \/ /\ card \notin names /\ UNCHANGED names
             /\ finder' = [finder EXCEPT !.missing = @ \ {card}, !.total_imported = @ + 1, !.refused = @ \cup {card}]
          \/ finder' = [finder EXCEPT !.missing = @ \ {card}, !.failed = @ \cup {card}] /\ UNCHANGED names
  /\ UNCHANGED GathererVars

FinderNext == SearchLocalDatabase \/ SearchScryfall \/ ImportMissingCard

(***************************************************************************)
(* Properties                                                              *)
(***************************************************************************)
(* What is fetched has every item that was listed when the fetch began,    *)
(* though pages shift when the listing grows; only a list of sets may have *)
(* been ended early, by a page that was cut.  A closed file is such a      *)
(* fetch of cards.                                                         *)
FetchIsWhole ==
  /\ gatherer.pc \in {"save", "done"} /\ ~(gatherer.what = "sets" /\ gatherer.garbled) =>
       gatherer.began \subseteq ToSet(gatherer.items)
  /\ file.state = "closed" => ToSet(GathererItems) \subseteq ToSet(file.cards)

(* After a run to the end the local server has every card that Scryfall    *)
(* has for a query, unless it would not load it, the import failed, the    *)
(* query was skipped or a page was not found: a card that several queries  *)
(* find is accounted for in each of them.                                  *)
MissingCardsFound ==
  finder.pc = "done" =>
    \A i \in DOMAIN FinderQueries :
      LET q == FinderQueries[i]
      IN q \in finder.skipped \cup finder.cut \/ Matching(q) \subseteq names \cup finder.refused \cup finder.failed

(* Neither of the two reports an end without having seen everything.       *)
FetchersLeaveNothing == FetchIsWhole /\ MissingCardsFound
=============================================================================
