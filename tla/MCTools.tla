------------------------------- MODULE MCTools -------------------------------
(* Small instances of the tools.                                           *)
EXTENDS Tools

Row(card, face, png) == [card |-> card, face |-> face, png |-> png]
MCDbRows == {Row("bolt", 1, TRUE), Row("werewolf", 2, TRUE), Row("lost", 1, FALSE)}
MCImageSizes == <<"280", "745">>

MCWorkflows == <<"CI Monitor", "tests">>

MCVocabularies == {"type", "oracle"}
MCNumericColumns == [f \in {"usd", "pow", "released"} |->
  CASE f = "usd" -> [column |-> "price_usd", render |-> "money"]
    [] f = "pow" -> [column |-> "creature_power", render |-> "count"]
    [] f = "released" -> [column |-> "released_at", render |-> "date"]]
MCStructures == [s \in {"single", "or2", "and-or", "regex"} |->
  CASE s = "single" -> 1 [] s = "or2" -> 2 [] s = "and-or" -> 3 [] s = "regex" -> 2]
MCFallbackVocab == [f \in MCVocabularies |-> {"creature"}]
MCFallbackDeciles == [col \in {"price_usd", "creature_power", "released_at"} |->
  CASE col = "price_usd" -> <<0, 1, 9>> [] col = "creature_power" -> <<0, 2, 2>> [] OTHER -> <<4, 5, 9>>]

CorpusRow(types, words, power) ==
  [types |-> types, subtypes |-> {}, words |-> [f \in {"oracle"} |-> words],
   numbers |-> [col \in {"price_usd", "creature_power", "released_at"} |->
                  CASE col = "price_usd" -> <<>> [] col = "creature_power" -> <<power>> [] OTHER -> <<power + 5>>]]
(* Powers of -1 are the sentinel of "*"; no row has a price.               *)
MCCorpus == <<CorpusRow({"elf"}, {"draw", "card"}, -1), CorpusRow({"elf", "ape"}, {"draw"}, 2),
              CorpusRow({}, {"card", "tap"}, 1)>>
MCCorpora == {<<>>, MCCorpus}

MCGathererItems == <<"i1", "i2", "i3", "i4", "i5">>
MCScryfallPages == [q \in {"w0", "w1", "g0"} |->
  CASE q = "w0" -> <<{"a", "b"}, {"c"}>> [] q = "w1" -> <<{"c", "d"}, {"e"}>> [] OTHER -> <<{"f"}>>]
MCFinderQueries == <<"w0", "w1", "g0">>

AnyShape == [families |-> Unrestricted, structures |-> Unrestricted, predicates |-> 0, bounded |-> Unrestricted]
MCShapes == {[AnyShape EXCEPT !.families = {"type", "oracle", "pow", "tag"}, !.bounded = TRUE],
             [AnyShape EXCEPT !.families = {"usd", "released"}],
             [AnyShape EXCEPT !.families = {"usd", "cheap"}],
             [AnyShape EXCEPT !.families = {"pow"}, !.structures = {"and-or", "regex"}, !.predicates = 3]}
=============================================================================
