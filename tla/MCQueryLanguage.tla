-------------------------- MODULE MCQueryLanguage --------------------------
(* Texts, predicates and rows for the query language.                      *)
EXTENDS QueryLanguage

Run(l) == CASE l = "r" -> <<"r">> [] l = "c" -> <<"c">> [] l = "ur" -> <<"u", "r">>
            [] l = "rr" -> <<"r", "r">> [] l = "x" -> <<"x">> [] OTHER -> <<"_", l>>
MCLettersOf == [l \in Letters |-> Run(l)]
MCNumberOf == [d \in Digits \cup {"0"} |->
  CASE d = "0" -> 0 [] d = "1" -> 1 [] d = "2" -> 2 [] d = "3" -> 3 [] d = "1993" -> 1993 [] d = "2015" -> 2015]

(* Predicates that are plain expansions, one that names two of them, and   *)
(* two that name each other.                                               *)
MCExpansions ==
  (<<"is", <<"old">>>> :> <<"frame", ":", "1993", " ", "or", " ", "s", ":", "lea">>)
  @@ (<<"is", <<"new">>>> :> <<"frame", ":", "2015">>)
  @@ (<<"is", <<"both">>>> :> <<"is", ":", "old", " ", "is", ":", "new">>)
  @@ (<<"is", <<"loop">>>> :> <<"is", ":", "knot", " ", "or", " ", "bolt">>)
  @@ (<<"is", <<"knot">>>> :> <<"is", ":", "loop", " ", "t", ":", "elf">>)

Ops == {Eq, Ne, Lt, Gt, Le, Ge, Colon}
Leaf(a, ops, vs) == {neg \o <<a>> \o op \o v : neg \in {<<>>, <<"-">>}, op \in ops, v \in vs}
(* Every class of column.  Left out are the operators one of the two sides *)
(* refuses or does not look at: "!=" of years, and all but ":" of formats. *)
Leaves ==
  UNION {Leaf(a, Ops, {<<"r">>, <<"c">>, <<"ur">>, <<"red">>, <<"colorless">>}) :
           a \in {"c", "id", "produces"}}
  \cup UNION {Leaf(a, Ops, {<<"1">>, <<"cmc", "+", "1">>, <<"usd", "+", "1">>}) : a \in {"cmc", "pow", "usd", "cn"}}
  \cup UNION {Leaf(a, Ops, {<<"elf">>, <<"instant">>, <<"bolt">>}) :
                a \in {"t", "kw", "otag", "art", "is", "frame"}}
  \cup UNION {Leaf(a, {Eq, Ne, Colon}, {<<"elf">>, <<"bolt">>, <<"lea">>}) :
                a \in {"name", "o", "ft", "a", "s", "cn", "wm"}}
  \cup Leaf("r", Ops, {<<"rare">>, <<"u">>})
  \cup Leaf("year", Ops \ {Ne}, {<<"1993">>, <<"2015">>})
  \cup Leaf("date", Ops, {<<"1993", "-", "1", "-", "2">>})
  \cup UNION {Leaf(f, {Colon}, {<<"m">>, <<"vintage">>}) : f \in {"f", "banned"}}
  \cup Leaf("devotion", Ops, {<<"r">>, <<"{", "r", "/", "g", "}">>, <<"rr">>})
  \cup Leaf("m", {Colon, Eq, Ge, Le}, {<<"rr">>, <<"{", "1", "}", "r">>, <<"{", "x", "}">>})

MCAlphabets == [a \in {"balance", "words", "numbers", "rewrite", "conditions", "leaves", "mana", "search"} |->
  CASE a = "balance" -> {<<"(">>, <<")">>, <<"'">>, <<"\"">>, <<"bolt">>, <<" ">>}
    [] a = "words" -> {<<" ", "bolt">>, <<" ", "-", "(">>, <<" ", "(">>, <<")">>, <<" ", "or">>,
                       <<" ", "and">>, <<" ", "t", ":", "elf">>, <<" ", "-", "c", ":", "red">>}
    [] a = "numbers" -> {<<" ", "cmc">>, <<" ", "(">>, <<")">>, <<"<", "cmc">>, <<"+", "1">>, <<" ", "or">>}
    [] a = "rewrite" -> {<<" ", "is", ":", "both">>, <<" ", "is", ":", "loop">>, <<" ", "or">>,
                         <<" ", "-", "(">>, <<")">>, <<" ", "o", ":", "/", "elf", "/">>,
                         <<" ", "o", ":", "/", "e", ".", "/">>}
    [] a = "conditions" -> {<<" ", "pow", ">", "1">>, <<" ", "usd", "<", "2">>, <<" ", "t", ":", "elf">>,
                            <<" ", "-", "(">>, <<" ", "or">>, <<")">>}
    [] a = "leaves" -> Leaves
    [] a = "search" -> {<<" ", "bolt">>, <<" ", "-", "usd", "<", "3">>, <<" ", "or", " ", "pow", ">", "1">>, <<" ", "cmc", ">", "1">>}
    [] a = "mana" -> {<<"m", ">">>, <<"r">>, <<"{", "1", "}">>}]

Bolt(p) ==
  [ oracle_id |-> 1, name_rank |-> <<1>>, edhrec_rank |-> <<7>>, cubecobra_score |-> <<2>>, creature_toughness |-> <<>>,
    card_name |-> <<<<"bolt">>>>, oracle_text |-> <<<<"bolt", "elf">>>>, cmc |-> <<1>>, creature_power |-> <<>>,
    card_colors |-> {"r"}, card_color_identity |-> {"r"}, produced_mana |-> {},
    card_types |-> {<<"instant">>}, card_subtypes |-> {}, card_keywords |-> {}, card_oracle_tags |-> {<<"bolt">>},
    mana_cost_jsonb |-> (<<"r">> :> 1), devotion |-> EmptyBag, legality_divergent |-> TRUE ] @@ p
Elf(p) ==
  [ oracle_id |-> 2, name_rank |-> <<2>>, edhrec_rank |-> <<>>, cubecobra_score |-> <<>>, creature_toughness |-> <<1>>,
    card_name |-> <<<<"elf", "bolt">>>>, oracle_text |-> <<<<>>>>, cmc |-> <<2>>, creature_power |-> <<2>>,
    card_colors |-> {"u", "r"}, card_color_identity |-> {"u", "r"}, produced_mana |-> {"c", "r"},
    card_types |-> {<<"creature">>}, card_subtypes |-> {<<"elf">>}, card_keywords |-> {<<"elf">>, <<"bolt">>},
    card_oracle_tags |-> {}, mana_cost_jsonb |-> (<<"r", "/", "g">> :> 1) @@ (<<"r">> :> 1),
    devotion |-> ("r" :> 2) @@ ("g" :> 1), legality_divergent |-> FALSE ] @@ p
Rock(p) ==
  [ oracle_id |-> 3, name_rank |-> <<3>>, edhrec_rank |-> <<7>>, cubecobra_score |-> <<2>>, creature_toughness |-> <<1>>,
    card_name |-> <<<<"rock">>>>, oracle_text |-> <<<<"elf">>>>, cmc |-> <<2>>, creature_power |-> <<0>>,
    card_colors |-> {}, card_color_identity |-> {}, produced_mana |-> {"c"},
    card_types |-> {<<"creature">>, <<"instant">>}, card_subtypes |-> {}, card_keywords |-> {<<"elf">>},
    card_oracle_tags |-> {<<"elf">>}, mana_cost_jsonb |-> (<<"r">> :> 1), devotion |-> ("r" :> 1),
    legality_divergent |-> FALSE ] @@ p
Printing(usd, cn, date, rarity, words, legal) ==
  [ price_usd |-> usd, collector_number_int |-> cn, released_at |-> date, card_rarity_int |-> rarity,
    flavor_text |-> words, card_artist |-> words, card_watermark |-> words, collector_number |-> words,
    card_set_code |-> <<<<"lea">>>>, card_art_tags |-> {words[k] : k \in DOMAIN words},
    card_is_tags |-> {}, card_frame_data |-> {<<"bolt">>, <<"1993">>}, card_legalities |-> legal ]
Art(id, illustration, score) == [scryfall_id |-> id, illustration_id |-> illustration, prefer_score |-> score]
(* Two printings of a card with one score and two of one artwork.          *)
MCRows ==
  { Bolt(Art(1, <<1>>, <<5>>) @@ Printing(<<>>, <<1>>, <<19930102>>, <<2>>, <<<<"elf">>>>, {<<"modern", "legal">>})),
    Bolt(Art(2, <<2>>, <<5>>) @@ Printing(<<2>>, <<>>, <<20150101>>, <<1>>, <<>>, {<<"vintage", "banned">>})),
    Bolt(Art(3, <<1>>, <<>>) @@ Printing(<<3>>, <<1>>, <<19930102>>, <<2>>, <<<<"elf">>>>, {<<"modern", "legal">>})),
    Elf(Art(4, <<4>>, <<4>>)
        @@ Printing(<<1>>, <<2>>, <<>>, <<3>>, <<<<"bolt">>>>, {<<"modern", "legal">>, <<"vintage", "legal">>})),
    Rock(Art(5, <<>>, <<9>>) @@ Printing(<<3>>, <<3>>, <<19931231>>, <<>>, <<<<"elf", "bolt">>>>, {<<"modern", "banned">>})) }

MCMaxFragments == [a \in DOMAIN MCAlphabets |->
  CASE a = "leaves" -> 1 [] a = "search" -> 2 [] a \in {"words", "numbers", "rewrite"} -> 4 [] a = "mana" -> 3 [] OTHER -> 5]

MCRequests == [a \in DOMAIN MCAlphabets |->
  IF a = "search" THEN [unique : UniqueOn, prefer : PreferOrder, orderby : CardOrdering, direction : SortDirection, limit : {1, 3, 10}]
  ELSE {}]
=============================================================================
