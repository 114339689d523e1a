------------------------------ MODULE CardRows ------------------------------
(***************************************************************************)
(* From a card of a Scryfall dump to rows of magic.cards:                  *)
(* api/card_processing.py and api/db/bulk_upsert.py.                       *)
(*                                                                         *)
(* A card is a function from the keys it has, so that a key without a      *)
(* value is told from a key that is not there; a type line is a pair of    *)
(* sets, a name the sequence of its parts around "//".  Of the columns     *)
(* that are copied or converted alike one of each kind is kept: power for  *)
(* the four creature attributes, watermark for the keys that are set only  *)
(* when the card has them, mana for the ones that are always set.          *)
(***************************************************************************)
EXTENDS Integers, Sequences, SequencesExt

CONSTANT NULL  \* None, and SQL's NULL

NoCard == [k \in {} |-> NULL]
Has(card, key) == key \in DOMAIN card
Get(card, key, default) == IF Has(card, key) THEN card[key] ELSE default
Over(upper, lower) == [k \in DOMAIN upper \cup DOMAIN lower |-> IF Has(upper, k) THEN upper[k] ELSE lower[k]]
Without(card, key) == [k \in DOMAIN card \ {key} |-> card[k]]

-----------------------------------------------------------------------------
(* Conversions: maybe_int goes through float and gives None for what is no *)
(* number; rarity_text_to_int gives -1 for a word it does not know; the    *)
(* digits of a collector number may not fit a PostgreSQL integer.          *)
MaybeInt(text) ==
  CASE text = "2" -> 2 [] text = "1.5" -> 1 [] OTHER -> NULL
RarityTextToInt(text) ==
  CASE text = "common" -> 0 [] text = "uncommon" -> 1 [] text = "rare" -> 2 [] text = "mythic" -> 3
    [] text = "special" -> 4 [] text = "bonus" -> 5 [] OTHER -> -1
CollectorNumberInt(text) ==
  CASE text \in {"7", "7a", "A-7"} -> 7 [] OTHER -> NULL  \* no digits, or too many of them

PermanentCardTypes == {"Artifact", "Battle", "Creature", "Enchantment", "Land", "Planeswalker"}
HasPower(types, subtypes) == "Creature" \in types \/ {"Vehicle", "Spacecraft"} \cap subtypes # {}

(* The cards that preprocess_card() leaves out.                            *)
Unwanted(card) ==
  \/ {"legal", "restricted"} \cap card["legalities"] = {}
  \/ "playtest" \in Get(card, "promo_types", {})
  \/ "paper" \notin Get(card, "games", {})
  \/ Get(card, "set_type", NULL) = "funny"
  \/ Has(card, "type_line") /\ {"Card", "Token"} \cap card["type_line"][1] # {}
  \/ Len(card["name"]) = 2 /\ card["name"][1] = card["name"][2]

(* The single-face case: what is always set, and what only the card's own  *)
(* keys bring along.                                                       *)
Always(card) ==
  LET types == card["type_line"][1]
      creature == HasPower(types, card["type_line"][2])
      power == Get(card, "power", NULL)
  IN [k \in {"face_name", "face_idx", "flavor_text", "scryfall_id", "card_types", "card_subtypes",
             "creature_power", "creature_power_text", "mana_cost_text", "devotion", "collector_number_int",
             "card_oracle_tags", "card_is_tags"} |->
        CASE k = "face_name" -> Get(card, "face_name", card["name"])
          [] k = "face_idx" -> Get(card, "face_idx", 1)
          [] k = "flavor_text" -> Get(card, "flavor_text", "")
          [] k = "scryfall_id" -> card["id"]
          [] k = "card_types" -> types
          [] k = "card_subtypes" -> card["type_line"][2]
          [] k = "creature_power" -> IF creature THEN MaybeInt(power) ELSE NULL
          [] k = "creature_power_text" -> IF creature THEN power ELSE NULL
          [] k = "mana_cost_text" -> Get(card, "mana_cost", NULL)
          [] k = "devotion" -> IF PermanentCardTypes \cap types # {} THEN {Get(card, "mana_cost", NULL)} \ {NULL} ELSE {}
          [] k = "collector_number_int" -> CollectorNumberInt(Get(card, "collector_number", NULL))
          [] OTHER -> Get(card, k, {})]

Sometimes(card) ==
  [k \in (IF Has(card, "watermark") THEN {"card_watermark"} ELSE {})
         \cup (IF Has(card, "rarity") THEN {"card_rarity_text", "card_rarity_int"} ELSE {}) |->
     CASE k = "card_watermark" -> card["watermark"]
       [] k = "card_rarity_text" -> card["rarity"]
       [] OTHER -> RarityTextToInt(card["rarity"])]

(* Mutant of Single: the attributes of a card that is no creature are left *)
(* out instead of set to null.                                             *)
SingleUnset(card) ==
  LET set == Over(Always(card), Over(Sometimes(card), card))
  IN IF HasPower(card["type_line"][1], card["type_line"][2]) THEN set
     ELSE Without(Without(set, "creature_power"), "creature_power_text")

(* Mutant of Single: a mana cost the card has none of is left out.         *)
SingleSparse(card) ==
  LET set == Over(Always(card), Over(Sometimes(card), card))
  IN IF Has(card, "mana_cost") THEN set ELSE Without(set, "mana_cost_text")

Single(card) == Over(Always(card), Over(Sometimes(card), card))

(* preprocess_card: the name is lifted before the faces can clobber it; a  *)
(* face is merged over its card and processed by itself.                   *)
PreprocessFace(face) ==
  IF Unwanted(face) THEN <<>> ELSE <<Single(Over([k \in {"face_name"} |-> face["name"]], face))>>

PreprocessCard(card) ==
  LET named == Over([k \in {"card_name"} |-> card["name"]], card)
      faces == Get(card, "card_faces", <<>>)
      merged(i) == Without(Over([k \in {"face_idx"} |-> i], Over(faces[i], named)), "card_faces")
  IN IF Unwanted(card) THEN <<>>
     ELSE IF faces = <<>> THEN <<Single(named)>>
     ELSE FlattenSeq([i \in DOMAIN faces |-> PreprocessFace(merged(i))])

PreprocessAll(cards) == FlattenSeq([i \in DOMAIN cards |-> PreprocessCard(cards[i])])

-----------------------------------------------------------------------------
(* The columns of magic.cards, with what an insert gives the ones no row   *)
(* of its batch names.                                                     *)
TagColumns == {"card_oracle_tags", "card_is_tags"}
ImportColumns == {"scryfall_id", "oracle_id", "card_name", "card_types", "card_subtypes", "creature_power",
                  "creature_power_text", "flavor_text", "mana_cost_text", "devotion", "collector_number_int", "card_watermark",
                  "card_rarity_text", "card_rarity_int"}
Columns == ImportColumns \cup TagColumns \cup {"cubecobra_elo", "cubecobra_score"}
ColumnDefault(c) == IF c \in TagColumns THEN {} ELSE NULL

(* Constraints that a row of an import could break.                        *)
Admits(row) ==
  /\ HasPower(row["card_types"], row["card_subtypes"]) \/ (row["creature_power"] = NULL /\ row["creature_power_text"] = NULL)
  /\ row["card_rarity_int"] = NULL \/ row["card_rarity_int"] >= 0

(* _dedupe_rows: the last row of each key.                                 *)
Keyed(rows, id) == {i \in DOMAIN rows : rows[i]["scryfall_id"] = id}
DedupeRows(rows) ==
  [id \in {rows[i]["scryfall_id"] : i \in DOMAIN rows} |->
     rows[CHOOSE i \in Keyed(rows, id) : \A j \in Keyed(rows, id) : j <= i]]

(* bulk_upsert: a key that a row lacks falls back to the stored row; the   *)
(* columns to skip are inserted but never updated.  Its mutant updates     *)
(* them too.                                                               *)
Upserted(table, rows, skip) ==
  LET present == (UNION {DOMAIN rows[id] : id \in DOMAIN rows}) \cap Columns
      proposed(id, c) == IF Has(rows[id], c) THEN rows[id][c] ELSE IF Has(table, id) THEN table[id][c] ELSE NULL
  IN [id \in DOMAIN table \cup DOMAIN rows |->
        [c \in Columns |->
           IF ~Has(rows, id) THEN table[id][c]
           ELSE IF Has(table, id)
                THEN IF c \in present \ skip THEN proposed(id, c) ELSE table[id][c]
           ELSE IF c \in present THEN proposed(id, c) ELSE ColumnDefault(c)]]

BulkUpsertAll(table, page, skip) == Upserted(table, DedupeRows(page), {})
BulkUpsert(table, page, skip) == Upserted(table, DedupeRows(page), skip)

(* _upsert_cards: page after page in one transaction, which one row that   *)
(* breaks a constraint undoes.                                             *)
Pages(rows, size) ==
  [n \in 1 .. (Len(rows) + size - 1) \div size |->
     SubSeq(rows, (n - 1) * size + 1, IF n * size < Len(rows) THEN n * size ELSE Len(rows))]

UpsertPages(table, pages) ==
  LET t[n \in 0 .. Len(pages)] == IF n = 0 THEN table ELSE BulkUpsert(t[n - 1], pages[n], TagColumns)
  IN t

UpsertCards(table, cards, size) ==
  LET rows == PreprocessAll(cards)
      pages == Pages(rows, size)
      after == UpsertPages(table, pages)
      good == \A n \in DOMAIN after : \A id \in DOMAIN after[n] : Admits(after[n][id])
  IN [status |-> IF rows = <<>> THEN "no_cards" ELSE IF good THEN "success" ELSE "database_error",
      table |-> IF good THEN after[Len(pages)] ELSE table]
=============================================================================
