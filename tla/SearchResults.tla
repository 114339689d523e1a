--------------------------- MODULE SearchResults ---------------------------
(***************************************************************************)
(* The page that a search gives for the printings that match: the          *)
(* statement of APIResource._search_sql(), which leaves ties to            *)
(* PostgreSQL, and the walk of the card engine over its stored order.      *)
(*                                                                         *)
(* A row has the columns of QuerySql and oracle_id, illustration_id,       *)
(* scryfall_id, name_rank (the place of its name in lower case),           *)
(* edhrec_rank, cubecobra_score and prefer_score; a nullable value is <<>> *)
(* or <<v>>.                                                               *)
(***************************************************************************)
EXTENDS Integers, FiniteSets, Sequences, SequencesExt, FiniteSetsExt

UniqueOn == {"card", "printing", "artwork"}
PreferOrder == {"default", "oldest", "newest", "usd_low", "usd_high", "promo"}
CardOrdering == {"cmc", "cubecobra", "edhrec", "name", "power", "rarity", "toughness", "usd"}
SortDirection == {"asc", "desc"}

(***************************************************************************)
(* SQL                                                                     *)
(***************************************************************************)
SqlOrderby == [o \in CardOrdering |->
  CASE o = "cmc" -> "cmc" [] o = "edhrec" -> "edhrec_rank" [] o = "name" -> "name_rank"
    [] o = "power" -> "creature_power" [] o = "rarity" -> "card_rarity_int"
    [] o = "toughness" -> "creature_toughness" [] o = "usd" -> "price_usd" [] o = "cubecobra" -> "cubecobra_score"]
PreferMapping == [p \in PreferOrder |->
  CASE p = "oldest" -> <<"released_at", "asc">> [] p = "newest" -> <<"released_at", "desc">>
    [] p = "usd_low" -> <<"price_usd", "asc">> [] p = "usd_high" -> <<"price_usd", "desc">>
    [] p = "promo" -> <<"edhrec_rank", "asc">> [] p = "default" -> <<"prefer_score", "desc">>]

(* ORDER BY of keys <<column, direction>>, each with NULLS LAST.           *)
Precedes(x, y, key) ==
  LET a == x[key[1]]
      b == y[key[1]]
  IN a # <<>> /\ (b = <<>> \/ IF key[2] = "asc" THEN a[1] < b[1] ELSE a[1] > b[1])
Before(keys, x, y) ==
  \E k \in DOMAIN keys : /\ Precedes(x, y, keys[k])
                         /\ \A j \in 1 .. k - 1 : x[keys[j][1]] = y[keys[j][1]]
OrderBy(r) == << <<SqlOrderby[r.orderby], r.direction>>, <<"edhrec_rank", "asc">>, <<"prefer_score", "desc">> >>

(* DISTINCT ON: NULL is a value like any other.                            *)
GroupsBy(rows, Key(_)) == {{y \in rows : Key(y) = Key(x)} : x \in rows}
DistinctOn(rows, unique) ==
  CASE unique = "printing" -> {{x} : x \in rows}
    [] unique = "card" -> GroupsBy(rows, LAMBDA x : x.oracle_id)
    [] unique = "artwork" -> GroupsBy(rows, LAMBDA x : x.illustration_id)
Kept(group, prefer) ==
  {x \in group : \A y \in group : ~Before(<<PreferMapping[prefer], <<"prefer_score", "desc">>>>, y, x)}

(* The sets of rows that distinct_cards may be.                            *)
SqlRows(rows, r) ==
  LET groups == DistinctOn(rows, r.unique)
  IN {{f[g] : g \in groups} : f \in {f \in [groups -> rows] : \A g \in groups : f[g] \in Kept(g, r.prefer)}}

(* LIMIT of the rows in the order of some keys.                            *)
IsPage(page, rows, keys, limit) ==
  /\ Len(page) = Min({limit, Cardinality(rows)})
  /\ IsInjective(page) /\ ToSet(page) \subseteq rows
  /\ \A i, j \in DOMAIN page : i < j => ~Before(keys, page[j], page[i])
  /\ \A x \in rows \ ToSet(page), y \in ToSet(page) : ~Before(keys, x, y)

(***************************************************************************)
(* The engine                                                              *)
(***************************************************************************)
Infinity == 99999999
Or(v, default) == IF v = <<>> THEN default ELSE v[1]
Lexicographic(s, t) ==
  \E k \in DOMAIN s : s[k] < t[k] /\ \A j \in 1 .. k - 1 : s[j] = t[j]

(* Printings are stored by card, and within it by their score.             *)
StoreKey(x) == <<x.oracle_id, -Or(x.prefer_score, 0), Or(x.illustration_id, 0), x.scryfall_id>>
StoredBefore(x, y) == Lexicographic(StoreKey(x), StoreKey(y))

(* prefer_score(): the higher the better.                                  *)
PreferScoreZero(x, prefer) ==   \* mutant: a missing price or date counts as zero throughout
  CASE prefer = "oldest" -> -Or(x.released_at, 0) [] prefer = "newest" -> Or(x.released_at, 0)
    [] prefer = "usd_low" -> -Or(x.price_usd, 0) [] prefer = "usd_high" -> Or(x.price_usd, 0)
    [] prefer = "promo" -> -Or(x.edhrec_rank, Infinity) [] prefer = "default" -> Or(x.prefer_score, 0)
PreferScore(x, prefer) ==
  CASE prefer = "oldest" -> -Or(x.released_at, Infinity) [] prefer = "newest" -> Or(x.released_at, 0)
    [] prefer = "usd_low" -> -Or(x.price_usd, Infinity) [] prefer = "usd_high" -> Or(x.price_usd, 0)
    [] prefer = "promo" -> -Or(x.edhrec_rank, Infinity) [] prefer = "default" -> Or(x.prefer_score, 0)

(* push_card_matches(): artworks are counted within a card.  The first     *)
(* printing of the best score stands for its group.                        *)
MatchGroups(rows, unique) ==
  CASE unique = "printing" -> {{x} : x \in rows}
    [] unique = "card" -> GroupsBy(rows, LAMBDA x : x.oracle_id)
    [] unique = "artwork" -> GroupsBy(rows, LAMBDA x : <<x.oracle_id, x.illustration_id>>)
Chosen(group, prefer) ==
  LET best == {x \in group : \A y \in group : PreferScore(y, prefer) <= PreferScore(x, prefer)}
  IN CHOOSE x \in best : \A y \in best \ {x} : StoredBefore(x, y)
EngineRows(rows, r) == {Chosen(g, r.prefer) : g \in MatchGroups(rows, r.unique)}

(* sort_key_bits() and page_cmp(): the score has no say across cards.      *)
SortKeyBits(x, r) ==
  LET v == x[SqlOrderby[r.orderby]]
  IN <<IF v = <<>> THEN Infinity ELSE IF r.direction = "desc" THEN -v[1] ELSE v[1], Or(x.edhrec_rank, Infinity)>>
EnginePage(rows, r) ==
  LET all == SortSeq(SetToSeq(EngineRows(rows, r)),
                     LAMBDA x, y : Lexicographic(SortKeyBits(x, r) \o StoreKey(x), SortKeyBits(y, r) \o StoreKey(y)))
  IN SubSeq(all, 1, Min({r.limit, Len(all)}))
EngineTotal(rows, r) == Cardinality(EngineRows(rows, r))
=============================================================================
