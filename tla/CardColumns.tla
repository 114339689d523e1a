---------------------------- MODULE CardColumns ----------------------------
(***************************************************************************)
(* The columns a query can name, the type of each, the aliases that name   *)
(* it and the grammar its values follow (api/parsing/db_info.py), with the *)
(* tables that spell out abbreviated values.                               *)
(***************************************************************************)
EXTENDS FiniteSets

FieldInfo(c, type, aliases, pc) == [column |-> c, type |-> type, aliases |-> aliases, pc |-> pc]

TextColumns ==
  { FieldInfo("card_artist", "TEXT", {"artist", "a"}, "TEXT"),
    FieldInfo("card_name", "TEXT", {"name"}, "TEXT"),
    FieldInfo("oracle_text", "TEXT", {"oracle", "o"}, "TEXT"),
    FieldInfo("flavor_text", "TEXT", {"flavor", "ft"}, "TEXT"),
    FieldInfo("card_set_code", "TEXT", {"set", "s", "e"}, "TEXT"),
    FieldInfo("collector_number", "TEXT", {"number", "cn"}, "TEXT"),
    FieldInfo("card_layout", "TEXT", {"layout"}, "TEXT"),
    FieldInfo("card_border", "TEXT", {"border"}, "TEXT"),
    FieldInfo("card_watermark", "TEXT", {"watermark", "wm"}, "TEXT"),
    FieldInfo("released_at", "DATE", {"date"}, "DATE"),
    FieldInfo("released_at", "DATE", {"year"}, "YEAR") }

NumericColumns ==
  { FieldInfo("cmc", "NUMERIC", {"cmc", "mv", "manavalue"}, "NUMERIC"),
    FieldInfo("creature_power", "NUMERIC", {"power", "pow"}, "NUMERIC"),
    FieldInfo("creature_toughness", "NUMERIC", {"toughness", "tou"}, "NUMERIC"),
    FieldInfo("planeswalker_loyalty", "NUMERIC", {"loyalty", "loy"}, "NUMERIC"),
    FieldInfo("price_usd", "NUMERIC", {"usd"}, "NUMERIC"),
    FieldInfo("price_eur", "NUMERIC", {"eur"}, "NUMERIC"),
    FieldInfo("price_tix", "NUMERIC", {"tix"}, "NUMERIC"),
    FieldInfo("collector_number_int", "NUMERIC", {"number", "cn"}, "NUMERIC"),
    FieldInfo("card_rarity_int", "NUMERIC", {"rarity", "r"}, "RARITY") }

JsonColumns ==
  { FieldInfo("card_colors", "OBJECT", {"color", "colors", "c"}, "COLOR"),
    FieldInfo("card_color_identity", "OBJECT", {"color_identity", "coloridentity", "id", "identity"}, "COLOR"),
    FieldInfo("produced_mana", "OBJECT", {"produces"}, "COLOR"),
    FieldInfo("card_frame_data", "OBJECT", {"frame"}, "TEXT"),
    FieldInfo("card_keywords", "OBJECT", {"keyword", "kw"}, "TEXT"),
    FieldInfo("card_oracle_tags", "OBJECT", {"oracle_tags", "otag"}, "TEXT"),
    FieldInfo("card_art_tags", "OBJECT", {"art_tags", "art"}, "TEXT"),
    FieldInfo("card_is_tags", "OBJECT", {"is"}, "TEXT"),
    FieldInfo("card_legalities", "OBJECT", {"format", "f", "legal", "banned", "restricted"}, "LEGALITY"),
    FieldInfo("mana_cost_jsonb", "OBJECT", {"mana", "m"}, "MANA"),
    FieldInfo("devotion", "OBJECT", {"devotion"}, "MANA"),
    FieldInfo("card_subtypes", "ARRAY", {"subtype", "subtypes"}, "TEXT"),
    FieldInfo("card_types", "ARRAY", {"type", "types", "t"}, "TEXT") }

DB_COLUMNS == TextColumns \cup NumericColumns \cup JsonColumns

(* ALIAS_TO_FIELD_INFOS, and the one field of an alias that an attribute   *)
(* of a query stands for: an alias names two columns of different classes  *)
(* (a collector number and its integer), never two of one class.           *)
AliasToFieldInfos ==
  [a \in UNION {f.aliases : f \in DB_COLUMNS} |-> {f \in DB_COLUMNS : a \in f.aliases}]
AliasClasses == [a \in DOMAIN AliasToFieldInfos |-> {f.pc : f \in AliasToFieldInfos[a]}]
Column(attr) == CHOOSE f \in AliasToFieldInfos[attr.alias] : f.pc = attr.pc

ColorCodeToName == [c \in {"b", "c", "g", "r", "u", "w"} |->
  CASE c = "b" -> "black" [] c = "c" -> "colorless" [] c = "g" -> "green"
    [] c = "r" -> "red" [] c = "u" -> "blue" [] c = "w" -> "white"]
ColorNameToCode == [n \in {ColorCodeToName[c] : c \in DOMAIN ColorCodeToName} |->
  CHOOSE c \in DOMAIN ColorCodeToName : ColorCodeToName[c] = n]
FormatCodeToName == [c \in {"m", "s", "l", "p", "c", "v", "h"} |->
  CASE c = "m" -> "modern" [] c = "s" -> "standard" [] c = "l" -> "legacy"
    [] c = "p" -> "pauper" [] c = "c" -> "commander" [] c = "v" -> "vintage"
    [] c = "h" -> "historic"]

CardTypes == {"basic", "legendary", "snow", "world", "artifact", "conspiracy", "creature",
  "enchantment", "instant", "kindred", "land", "planeswalker", "sorcery", "tribal"}

RarityToNumber == [r \in {"common", "c", "uncommon", "u", "rare", "r", "mythic", "m",
                          "special", "s", "bonus", "b"} |->
  CASE r \in {"common", "c"} -> 0 [] r \in {"uncommon", "u"} -> 1 [] r \in {"rare", "r"} -> 2
    [] r \in {"mythic", "m"} -> 3 [] r \in {"special", "s"} -> 4 [] r \in {"bonus", "b"} -> 5]
=============================================================================
