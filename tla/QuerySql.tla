------------------------------ MODULE QuerySql ------------------------------
(***************************************************************************)
(* What a parsed query means: the WHERE clause that                        *)
(* api/parsing/card_query_nodes.py generates, evaluated on a row with      *)
(* SQL's three-valued logic, and the filter that the card engine builds    *)
(* from the same tree (card_engine/src/filter.rs), evaluated first on a    *)
(* card and then, where that leaves it open, on each printing.             *)
(*                                                                         *)
(* A row maps columns to values.  A nullable value is <<>> or <<v>>; the   *)
(* keys of an object are a set, the symbols of a cost map to their counts, *)
(* a text is a sequence of words and a date is the integer yyyymmdd.  The  *)
(* rewriting of names and texts to their ids, the choice of a plan and     *)
(* ordering comparisons of texts are left out, and so is division, which   *)
(* needs fractions.                                                        *)
(***************************************************************************)
EXTENDS QueryParser, CardColumns, Bags, Integers

CONSTANTS NumberOf,   \* digit lexeme -> its value
          LettersOf   \* letter lexeme -> the sequence of its characters

Tri(b) == IF b THEN "T" ELSE "F"
And3(vs) == IF "F" \in vs THEN "F" ELSE IF "P" \in vs THEN "P" ELSE IF "N" \in vs THEN "N" ELSE "T"
Or3(vs) == IF "T" \in vs THEN "T" ELSE IF "P" \in vs THEN "P" ELSE IF "N" \in vs THEN "N" ELSE "F"
Not3(v) == CASE v = "T" -> "F" [] v = "F" -> "T" [] OTHER -> v

Eq == <<"=">>
Ne == <<"!", "=">>
Lt == <<"<">>
Gt == <<">">>
Le == <<"<", "=">>
Ge == <<">", "=">>
Colon == <<":">>

(* Comparisons of numbers, of sets and of bags, once ":" has been given    *)
(* its meaning.                                                            *)
CompareInt(op, a, b) ==
  CASE op = Eq -> a = b [] op = Ne -> a # b [] op = Lt -> a < b
    [] op = Gt -> a > b [] op = Le -> a <= b [] op = Ge -> a >= b
Compare(op, a, b, Sub(_, _)) ==
  CASE op = Eq -> a = b [] op = Ne -> a # b
    [] op = Le -> Sub(a, b) [] op = Lt -> Sub(a, b) /\ a # b
    [] op = Ge -> Sub(b, a) [] op = Gt -> Sub(b, a) /\ a # b
CompareSet(op, a, b) == Compare(op, a, b, \subseteq)
CompareBag(op, a, b) == Compare(op, a, b, \sqsubseteq)

Lift2(a, b, F(_, _)) == IF a = <<>> \/ b = <<>> THEN <<>> ELSE <<F(a[1], b[1])>>
LiftTri(a, b, F(_, _)) == IF a = <<>> \/ b = <<>> THEN "N" ELSE Tri(F(a[1], b[1]))

(***************************************************************************)
(* Values of a query                                                       *)
(***************************************************************************)
Number(v) == NumberOf[v[1]]
Chars(v) == FlattenSeq([k \in DOMAIN v |-> IF v[k] \in Letters THEN LettersOf[v[k]] ELSE <<v[k]>>])

(* get_colors_comparison_object(): letters, or the name of a colour.       *)
(* Colourless is the absence of colours, but a kind of mana.               *)
Colors(v, column) ==
  LET codes == IF ToSet(Chars(v)) \subseteq DOMAIN ColorCodeToName THEN ToSet(Chars(v))
               ELSE {ColorNameToCode[v[1]]}
  IN IF column = "produced_mana" THEN codes ELSE codes \ {"c"}

(* The symbols in braces, and the text outside of them.                    *)
ManaScan(v) ==
  LET step(s, c) ==
        CASE c = "{" -> [s EXCEPT !.in = TRUE, !.symbol = <<>>]
          [] c = "}" -> [s EXCEPT !.in = FALSE, !.braced = Append(@, s.symbol)]
          [] s.in /\ c \notin {"{", "}"} -> [s EXCEPT !.symbol = Append(@, c)]
          [] OTHER -> [s EXCEPT !.bare = Append(@, c)]
  IN FoldLeft(step, [in |-> FALSE, symbol |-> <<>>, braced |-> <<>>, bare |-> <<>>], Chars(v))
IsGeneric(symbol) == Len(symbol) = 1 /\ symbol[1] \in Digits

BagOf(xs) == [x \in ToSet(xs) |-> Cardinality({k \in DOMAIN xs : xs[k] = x})]

(* mana_cost_str_to_dict(): every symbol that is not a number, and the     *)
(* letters of colours and of X outside of braces.                          *)
ManaCostStrToDict(v) ==
  LET s == ManaScan(v)
      pip == {"w", "u", "b", "r", "g", "c", "x"}
  IN BagOf(SelectSeq(s.braced, LAMBDA x : ~IsGeneric(x))
           \o [k \in DOMAIN SelectSeq(s.bare, LAMBDA c : c \in pip) |->
                 <<SelectSeq(s.bare, LAMBDA c : c \in pip)[k]>>])

(* calculate_cmc(): a number counts for itself, X for nothing and every    *)
(* other symbol for one.  The engine's mana_cmc() takes numbers only in    *)
(* braces.                                                                 *)
Cmc(v, bareNumbers) ==
  LET s == ManaScan(v)
      braced(x) == IF IsGeneric(x) THEN NumberOf[x[1]] ELSE IF x = <<"x">> THEN 0 ELSE 1
      bare(c) == IF c \in Digits THEN (IF bareNumbers THEN NumberOf[c] ELSE 0)
                 ELSE IF c \in DOMAIN ColorCodeToName THEN 1 ELSE 0
  IN FoldLeft(LAMBDA n, x : n + braced(x), 0, s.braced) + FoldLeft(LAMBDA n, c : n + bare(c), 0, s.bare)
CalculateCmc(v) == Cmc(v, TRUE)
ManaCmc(v) == Cmc(v, FALSE)

(* calculate_devotion(): every colour letter, in a hybrid symbol too.      *)
CalculateDevotion(v) == BagOf(SelectSeq(Chars(v), LAMBDA c : c \in DOMAIN ColorCodeToName))

(* get_legality_comparison_object()                                        *)
FormatName(v) == IF v[1] \in DOMAIN FormatCodeToName THEN FormatCodeToName[v[1]] ELSE v[1]
Status(alias) == IF alias \in {"format", "f", "legal"} THEN "legal" ELSE alias

(* A date with all of its parts, which MonthDays writes with two digits.   *)
DateParts(v) == SelectSeq(v, LAMBDA c : c \in DOMAIN NumberOf /\ NumberOf[c] > 0)
DateOf(v) == LET d == [k \in 1 .. 3 |-> NumberOf[DateParts(v)[k]]] IN d[1] * 10000 + d[2] * 100 + d[3]

(* The words that a pattern looks for, in this order and with anything     *)
(* between them; the engine looks for the value as it stands.              *)
Words(v) == SelectSeq(v, LAMBDA c : c # " ")
RECURSIVE IsSubsequence(_, _)
IsSubsequence(v, t) ==
  \/ v = <<>>
  \/ t # <<>> /\ v[1] = t[1] /\ IsSubsequence(Tail(v), Tail(t))
  \/ t # <<>> /\ IsSubsequence(v, Tail(t))
IsSubstring(v, t) == \E i \in 1 .. Len(t) - Len(v) + 1 : SubSeq(t, i, i + Len(v) - 1) = v

ExactText == {"card_set_code", "card_layout", "card_border", "card_watermark", "collector_number"}

(***************************************************************************)
(* SQL                                                                     *)
(***************************************************************************)
RECURSIVE SqlNumber(_, _), Sql(_, _)

(* An arithmetic expression; a NULL in it makes it NULL.                   *)
Arithmetic(op, a, b) == CASE op = <<"+">> -> a + b [] op = <<"-">> -> a - b [] op = <<"*">> -> a * b
SqlNumber(n, row) ==
  CASE n.node = "value" -> <<Number(n.v)>>
    [] n.node = "attr" -> row[Column(n).column]
    [] n.node = "bin" -> Lift2(SqlNumber(n.lhs, row), SqlNumber(n.rhs, row),
                               LAMBDA a, b : Arithmetic(n.op, a, b))

(* _handle_jsonb_object(): containment both ways.  ":" asks for at least   *)
(* the colours, an identity for at most, and no colour for no colour.      *)
SqlColors(col, op, v, row) ==
  LET rhs == Colors(v, col)
      colon == IF col = "card_color_identity" THEN Le ELSE Ge
      o == IF op = Colon THEN colon ELSE op
  IN CompareSet(IF o = Ge /\ rhs = {} THEN Eq ELSE o, row[col], rhs)

SqlObject(n, row) ==
  LET col == Column(n.lhs).column
      v == n.rhs.v
      o == IF n.op = Colon THEN Ge ELSE n.op
  IN CASE col \in {"card_colors", "card_color_identity", "produced_mana"} -> SqlColors(col, n.op, v, row)
       [] col = "devotion" -> CompareBag(o, row[col], CalculateDevotion(v))
       [] col = "card_legalities" ->
            CompareSet(o, row[col], {<<FormatName(v), Status(n.lhs.alias)>>})
       [] OTHER -> CompareSet(o, row[col], {v})

(* _handle_jsonb_array(): a type is looked for among the types when there  *)
(* is one of that name, and among the subtypes otherwise.                  *)
TypeColumn(v) == IF v[1] \in CardTypes /\ Len(v) = 1 THEN "card_types" ELSE "card_subtypes"
SqlArray(n, row) ==
  CompareSet(IF n.op = Colon THEN Ge ELSE n.op, row[TypeColumn(n.rhs.v)], {n.rhs.v})

(* _handle_mana_cost_comparison(): the symbols and the mana value, and for *)
(* the strict comparisons other symbols.                                   *)
SqlMana(op, v, row) ==
  LET pips == ManaCostStrToDict(v)
      mine == row["mana_cost_jsonb"]
      cmc == row["cmc"][1]
  IN CASE op = Eq -> mine = pips /\ cmc = CalculateCmc(v)
       [] op = Le -> mine \sqsubseteq pips /\ cmc <= CalculateCmc(v)
       [] op = Lt -> mine \sqsubseteq pips /\ cmc <= CalculateCmc(v) /\ mine # pips
       [] op \in {Ge, Colon} -> pips \sqsubseteq mine /\ cmc >= CalculateCmc(v)
       [] op = Gt -> pips \sqsubseteq mine /\ cmc >= CalculateCmc(v) /\ mine # pips

(* _handle_year_search(): the first day of a year, or of the next one.     *)
SqlYear(op, y, date) ==
  LET first(x) == x * 10000 + 101
  IN CASE op \in {Eq, Colon} -> first(y) <= date /\ date < first(y + 1)
       [] op = Gt -> date >= first(y + 1)
       [] op = Lt -> date < first(y)
       [] op = Ge -> date >= first(y)
       [] op = Le -> date < first(y + 1)

SqlText(n, row) ==
  LET col == Column(n.lhs).column
      t == row[col]
      v == n.rhs.v
  IN CASE t = <<>> -> "N"
       [] t # <<>> /\ n.op = Colon /\ col \notin ExactText -> Tri(IsSubsequence(Words(v), t[1]))
       [] OTHER -> Tri((t[1] = Words(v)) = (n.op \in {Eq, Colon}))

(* _handle_card_attribute()                                                *)
SqlCondition(n, row) ==
  LET f == Column(n.lhs)
      numeric(x) == LiftTri(row[f.column], x,
                            LAMBDA a, b : CompareInt(IF n.op = Colon THEN Eq ELSE n.op, a, b))
  IN CASE f.column = "mana_cost_jsonb" -> Tri(SqlMana(n.op, n.rhs.v, row))
       [] f.pc = "DATE" -> numeric(<<DateOf(n.rhs.v)>>)
       [] f.pc = "YEAR" -> LiftTri(row[f.column], <<Number(n.rhs.v)>>,
                                   LAMBDA a, b : SqlYear(n.op, b, a))
       [] f.pc = "NUMERIC" -> numeric(SqlNumber(n.rhs, row))
       [] f.pc = "RARITY" -> numeric(<<RarityToNumber[n.rhs.v[1]]>>)
       [] f.type = "OBJECT" /\ f.column # "mana_cost_jsonb" -> Tri(SqlObject(n, row))
       [] f.type = "ARRAY" -> Tri(SqlArray(n, row))
       [] f.type = "TEXT" -> SqlText(n, row)

Sql(n, row) ==
  CASE n.node = "true" -> "T"
    [] n.node = "exact" -> Tri(row["card_name"][1] = Words(n.v))
    [] n.node = "and" -> And3({Sql(n.operands[k], row) : k \in DOMAIN n.operands})
    [] n.node = "or" -> Or3({Sql(n.operands[k], row) : k \in DOMAIN n.operands})
    [] n.node = "not" -> Not3(Sql(n.operand, row))
    [] n.node = "bin" /\ n.lhs.node = "attr" -> SqlCondition(n, row)
    [] OTHER -> LiftTri(SqlNumber(n.lhs, row), SqlNumber(n.rhs, row),
                        LAMBDA a, b : CompareInt(IF n.op = Colon THEN Eq ELSE n.op, a, b))

(***************************************************************************)
(* The card engine                                                         *)
(***************************************************************************)
(* The columns that differ between the printings of a card.  On the card   *)
(* alone they are unknown, and what depends on them is "P".                *)
PrintingColumns ==
  {"card_rarity_int", "collector_number_int", "price_usd", "price_eur", "price_tix",
   "card_art_tags", "card_is_tags", "card_frame_data", "flavor_text", "card_artist",
   "card_set_code", "card_border", "card_watermark", "collector_number", "released_at"}
Open(col, pass) == pass = "card" /\ col \in PrintingColumns

RECURSIVE FieldNum(_, _, _), Filter(_, _, _)

(* eval_arith_with() and numeric_cmp_tri(): a missing value decides, even  *)
(* where another value depends on the printing.                            *)
Unknown == <<"depends on", "the printing">>
NumOp(a, b, F(_, _)) ==
  IF a = <<>> \/ b = <<>> THEN <<>> ELSE IF Unknown \in {a, b} THEN Unknown ELSE <<F(a[1], b[1])>>
FieldNum(n, row, pass) ==
  CASE n.node = "value" -> <<Number(n.v)>>
    [] n.node = "attr" -> IF Open(Column(n).column, pass) THEN Unknown ELSE row[Column(n).column]
    [] n.node = "bin" -> NumOp(FieldNum(n.lhs, row, pass), FieldNum(n.rhs, row, pass),
                               LAMBDA a, b : Arithmetic(n.op, a, b))
NumericCmp(a, op, b) ==
  LET r == NumOp(a, b, LAMBDA x, y : Tri(CompareInt(IF op = Colon THEN Eq ELSE op, x, y)))
  IN IF r = <<>> THEN "N" ELSE IF r = Unknown THEN "P" ELSE r[1]

ColorCmpVacuous(op, bits, mask) ==   \* mutant: every card has at least no colour
  CASE op = Ge -> mask \subseteq bits
    [] op = Eq -> bits = mask
    [] op = Le -> bits \subseteq mask
    [] op = Lt -> bits \subseteq mask /\ bits # mask
    [] op = Gt -> mask \subseteq bits /\ bits # mask
    [] op = Ne -> bits # mask
ColorCmp(op, bits, mask) ==
  CASE op = Ge -> IF mask = {} THEN bits = {} ELSE mask \subseteq bits
    [] op = Eq -> bits = mask
    [] op = Le -> bits \subseteq mask
    [] op = Lt -> bits \subseteq mask /\ bits # mask
    [] op = Gt -> mask \subseteq bits /\ bits # mask
    [] op = Ne -> bits # mask

CollectionCmp(op, coll, v) ==
  LET one == Cardinality(coll) = 1 /\ v \in coll
  IN CASE op \in {Ge, Colon} -> v \in coll
       [] op = Eq -> one
       [] op = Gt -> v \in coll /\ Cardinality(coll) > 1
       [] op = Le -> \A x \in coll : x = v
       [] op = Lt -> coll = {}
       [] op = Ne -> ~one

(* card_types is a mask and v one bit of it.                               *)
TypeCmp(op, bits, v) ==
  CASE op \in {Ge, Colon} -> v \in bits
    [] op = Eq -> bits = {v}
    [] op = Le -> bits \subseteq {v}
    [] op = Lt -> bits \subseteq {v} /\ bits # {v}
    [] op = Gt -> v \in bits /\ bits # {v}
    [] op = Ne -> bits # {v}

(* The strict comparisons ask that the costs differ, in their mana value   *)
(* or in their symbols.                                                    *)
ManaCostCmp(op, v, row) ==
  LET pips == ManaCostStrToDict(v)
      mine == row["mana_cost_jsonb"]
      cmc == row["cmc"][1]
      ge == pips \sqsubseteq mine /\ cmc >= ManaCmc(v)
      le == mine \sqsubseteq pips /\ cmc <= ManaCmc(v)
      eq == mine = pips /\ cmc = ManaCmc(v)
  IN CASE op \in {Ge, Colon} -> ge [] op = Le -> le [] op = Eq -> eq
       [] op = Gt -> ge /\ ~eq [] op = Lt -> le /\ ~eq [] op = Ne -> ~eq

(* A card whose printings are legal in different formats leaves it to them.*)
Legality(n, row, pass) ==
  IF pass = "card" /\ row["legality_divergent"] THEN "P"
  ELSE Tri(<<FormatName(n.rhs.v), Status(n.lhs.alias)>> \in row["card_legalities"])

TextFilter(n, row, pass) ==
  LET col == Column(n.lhs).column
      t == row[col]
      v == Words(n.rhs.v)
  IN CASE Open(col, pass) -> "P"
       [] ~Open(col, pass) /\ t = <<>> -> "N"
       [] ~Open(col, pass) /\ t # <<>> /\ n.op = Colon /\ col \notin ExactText -> Tri(IsSubstring(v, t[1]))
       [] OTHER -> Tri((t[1] = v) = (n.op \in {Eq, Colon}))

(* build_binary() and the leaves of tri()                                  *)
Binary(n, row, pass) ==
  LET f == Column(n.lhs)
      col == f.column
      field == IF Open(col, pass) THEN Unknown ELSE row[col]
      v == n.rhs.v
  IN CASE f.pc = "NUMERIC" -> NumericCmp(field, n.op, FieldNum(n.rhs, row, pass))
       [] f.pc = "RARITY" -> NumericCmp(field, n.op, <<RarityToNumber[v[1]]>>)
       [] f.pc = "DATE" -> NumericCmp(field, n.op, <<DateOf(v)>>)
       [] f.pc = "YEAR" -> NumericCmp(IF Len(field) = 1 THEN <<field[1] \div 10000>> ELSE field,
                                      n.op, <<Number(v)>>)
       [] col = "mana_cost_jsonb" -> Tri(ManaCostCmp(n.op, v, row))
       [] col = "devotion" -> Tri(CompareBag(IF n.op = Colon THEN Ge ELSE n.op, row[col], CalculateDevotion(v)))
       [] f.pc = "COLOR" ->
            Tri(ColorCmp(CASE n.op # Colon -> n.op
                           [] n.op = Colon /\ col = "card_color_identity" -> Le
                           [] OTHER -> Ge, row[col], Colors(v, col)))
       [] f.pc = "LEGALITY" -> Legality(n, row, pass)
       [] f.type = "ARRAY" -> IF TypeColumn(v) = "card_types" THEN Tri(TypeCmp(n.op, row["card_types"], v))
                              ELSE Tri(CollectionCmp(n.op, row["card_subtypes"], v))
       [] f.type = "OBJECT" /\ f.pc = "TEXT" ->
            IF Open(col, pass) THEN "P" ELSE Tri(CollectionCmp(n.op, row[col], v))
       [] f.type = "TEXT" -> TextFilter(n, row, pass)

(* tri() on the card (pass = "card") or on one of its printings.           *)
Filter(n, row, pass) ==
  CASE n.node = "true" -> "T"
    [] n.node = "exact" -> Tri(row["card_name"][1] = Words(n.v))
    [] n.node = "and" -> And3({Filter(n.operands[k], row, pass) : k \in DOMAIN n.operands})
    [] n.node = "or" -> Or3({Filter(n.operands[k], row, pass) : k \in DOMAIN n.operands})
    [] n.node = "not" -> Not3(Filter(n.operand, row, pass))
    [] n.node = "bin" /\ n.lhs.node = "attr" -> Binary(n, row, pass)
    [] OTHER -> NumericCmp(FieldNum(n.lhs, row, pass), n.op, FieldNum(n.rhs, row, pass))

(* card_pass() and residual_matches(): whether the engine returns the      *)
(* printing.  A child of the topmost AND or OR that is decided on the card *)
(* is not looked at again.                                                 *)
Matches(n, row) ==
  LET children == IF n.node \in {"and", "or"} THEN ToSet(n.operands) ELSE {n}
      on(c) == Filter(c, row, "card")
      residual == {c \in children : on(c) = "P"}
      holds(c) == Filter(c, row, "printing") = "T"
  IN IF n.node = "or"
     THEN (\E c \in children : on(c) = "T") \/ \E c \in residual : holds(c)
     ELSE (\A c \in children : on(c) \in {"T", "P"}) /\ \A c \in residual : holds(c)
=============================================================================
