--------------------------- MODULE MCSearchServer ---------------------------
(* Two workers.  Both run the bulk import of their constructors; then the  *)
(* second searches or imports by search, or the first imports by search    *)
(* while the second searches.                                              *)
EXTENDS SearchServer, TLC

CONSTANTS w1, w2

SecondWorks == w1 :> {} @@ w2 :> {"search", "import_cards_by_search"}
ImportsAndSearches == w1 :> {"import_cards_by_search"} @@ w2 :> {"search"}
OneAndTwo == w1 :> 1 @@ w2 :> 2
NoneAndTwo == w1 :> 0 @@ w2 :> 2

Sound == {{}}
Disabled == {{"disabled"}}
Troubles == {{}, {"disabled", "count"}, {"engine"}, {"reload"}, {"tags"}}
=============================================================================
