---------------------------- MODULE QueryParser ----------------------------
(***************************************************************************)
(* The recursive-descent parser of api/parsing/hand_parser.py, the tree it *)
(* builds (api/parsing/nodes.py) and the rewriting of that tree by         *)
(* api/parsing/rewrite.py.                                                 *)
(*                                                                         *)
(* A method of the parser is an operator of the tokens and a position; its *)
(* result holds the node and the position it leaves the parser at, or says *)
(* that a ParseError was raised.                                           *)
(***************************************************************************)
EXTENDS QueryLexer

CONSTANTS Aliases,       \* attribute alias -> the parser classes of its fields
          ColorNames,    \* lexemes that name a colour
          ColorLetters,  \* lexemes whose letters all are colour letters
          Years,         \* digit lexemes in _MIN_MTG_YEAR .. _MAX_YEAR
          MonthDays,     \* digit lexemes that are a month and a day, one digit each
          Expansions     \* <<alias, value>> -> the text it is derived from

(***************************************************************************)
(* Nodes                                                                   *)
(***************************************************************************)
Attr(a, pc) == [node |-> "attr", alias |-> a, pc |-> pc]
Value(kind, v) == [node |-> "value", kind |-> kind, v |-> v]
Bin(l, op, r) == [node |-> "bin", lhs |-> l, op |-> op, rhs |-> r]
Nary(k, xs) == [node |-> k, operands |-> xs]
Not(x) == [node |-> "not", operand |-> x]
ExactName(v) == [node |-> "exact", v |-> v]
TrueNode == [node |-> "true"]
NameNode(v) == Bin(Attr("name", "TEXT"), <<":">>, Value("string", v))

ArithTT == {"PLUS", "MINUS", "STAR", "SLASH"}
ArithOps == {<<"+">>, <<"-">>, <<"*">>, <<"/">>}
IsArith(n) == n.node = "bin" /\ n.op \in ArithOps

(* A list of one operand is that operand.                                  *)
Operands(k, xs) == IF Len(xs) = 1 THEN xs[1] ELSE Nary(k, xs)

(***************************************************************************)
(* The parser                                                              *)
(***************************************************************************)
Ok(n, i) == [ok |-> TRUE, n |-> n, i |-> i]
ParseError == [ok |-> FALSE, n |-> TrueNode, i |-> 0]
Then(r, F(_, _)) == IF r.ok THEN F(r.n, r.i) ELSE ParseError

Peek(ts, i) == ts[IF i > Len(ts) THEN Len(ts) ELSE i]
TT(ts, i) == Peek(ts, i).type
Spaced(ts, i) == Peek(ts, i).space_before
IsKeyword(ts, i, kw) == TT(ts, i) = "WORD" /\ Peek(ts, i).value = <<kw>>

IsAlias(v) == Len(v) = 1 /\ v[1] \in DOMAIN Aliases
ParserClasses(v) == IF IsAlias(v) THEN Aliases[v[1]] ELSE {}
IsNumeric(v) == "NUMERIC" \in ParserClasses(v)
IsDual(v) == {"NUMERIC", "TEXT"} \subseteq ParserClasses(v)
ParserClass(v) == IF IsNumeric(v) THEN "NUMERIC" ELSE CHOOSE pc \in ParserClasses(v) : TRUE

CanStartFactorByParen(ts, i) ==   \* mutant: an opening parenthesis starts no operand
  \/ TT(ts, i) = "WORD" /\ ~IsKeyword(ts, i, "or")
  \/ TT(ts, i) = "MINUS" /\ Spaced(ts, i)
  \/ TT(ts, i) \in {"NUMBER", "QUOTED", "REGEX", "MANA", "BANG"}
CanStartFactor(ts, i) ==
  \/ TT(ts, i) = "WORD" /\ ~IsKeyword(ts, i, "or")
  \/ TT(ts, i) = "MINUS" /\ Spaced(ts, i)
  \/ TT(ts, i) \in {"NUMBER", "QUOTED", "REGEX", "MANA", "LPAREN", "BANG"}

NumTermStart(ts, i) ==
  \/ TT(ts, i) \in {"NUMBER", "LPAREN"}
  \/ TT(ts, i) = "WORD" /\ IsNumeric(Peek(ts, i).value)

(* Whether the arithmetic operator at i continues the expression before    *)
(* it: without space before it (_arith_tail), with (_spaced_arith_tail),   *)
(* and in a value, where only "x -y" ends the expression.                  *)
Continues(ts, i, tail) ==
  /\ TT(ts, i) \in ArithTT
  /\ NumTermStart(ts, i + 1)
  /\ \/ tail = "tight" /\ ~Spaced(ts, i)
     \/ /\ tail = "spaced" /\ Spaced(ts, i)
        /\ TT(ts, i) = "MINUS" => Spaced(ts, i + 1)
     \/ /\ tail = "value"
        /\ ~(TT(ts, i) = "MINUS" /\ Spaced(ts, i) /\ ~Spaced(ts, i + 1))

RECURSIVE ParseOperands(_, _, _, _), ParsePrimary(_, _), ArithTail(_, _, _, _)

(* parse_expr() and parse_and_expr(): operands joined by OR, and by AND or *)
(* by nothing at all.                                                      *)
ParseExpr(ts, i) == ParseOperands(ts, i, "or", <<>>)

ParseFactor(ts, i) ==
  IF TT(ts, i) # "MINUS" THEN ParsePrimary(ts, i)
  ELSE Then(ParsePrimary(ts, i + 1),
            LAMBDA n, j : IF IsArith(n) THEN ParseError ELSE Ok(Not(n), j))

ParseOperands(ts, i, k, xs) ==
  Then(IF k = "or" THEN ParseOperands(ts, i, "and", <<>>) ELSE ParseFactor(ts, i),
       LAMBDA n, j :
         LET ys == Append(xs, n)
         IN CASE k = "or" /\ IsKeyword(ts, j, "or") -> ParseOperands(ts, j + 1, k, ys)
              [] k = "and" /\ CanStartFactor(ts, j) ->
                   ParseOperands(ts, IF IsKeyword(ts, j, "and") THEN j + 1 ELSE j, k, ys)
              [] OTHER -> Ok(Operands(k, ys), j))

ParseGroup(ts, i) ==
  IF TT(ts, i + 1) = "RPAREN" THEN ParseError
  ELSE Then(ParseExpr(ts, i + 1),
            LAMBDA n, j : IF TT(ts, j) = "RPAREN" THEN Ok(n, j + 1) ELSE ParseError)

ParseNumTerm(ts, i) ==
  CASE TT(ts, i) = "NUMBER" -> Ok(Value("numeric", Peek(ts, i).value), i + 1)
    [] TT(ts, i) = "WORD" /\ IsNumeric(Peek(ts, i).value) ->
         Ok(Attr(Peek(ts, i).value[1], "NUMERIC"), i + 1)
    [] TT(ts, i) = "LPAREN" -> ParseGroup(ts, i)
    [] OTHER -> ParseError

ArithTail(ts, i, lhs, tail) ==
  IF ~Continues(ts, i, tail) THEN Ok(lhs, i)
  ELSE Then(ParseNumTerm(ts, i + 1),
            LAMBDA n, j : ArithTail(ts, j, Bin(lhs, Peek(ts, i).value, n), tail))

ParseNumExprValue(ts, i) ==
  Then(ParseNumTerm(ts, i), LAMBDA n, j : ArithTail(ts, j, n, "value"))

(* The tails after a term, and the comparison it may be the left side of.  *)
AfterTerm(ts, i, lhs) ==
  Then(ArithTail(ts, i, lhs, "tight"), LAMBDA n, j : ArithTail(ts, j, n, "spaced"))

Comparison(ts, i, lhs) ==
  IF TT(ts, i) # "OP" THEN Ok(lhs, i)
  ELSE Then(ParseNumExprValue(ts, i + 1), LAMBDA n, j : Ok(Bin(lhs, Peek(ts, i).value, n), j))

(* The position after first and the "-word" and "-number" continuations    *)
(* that follow it without space.                                           *)
RECURSIVE HyphenEnd(_, _)
HyphenEnd(ts, i) ==
  IF /\ TT(ts, i) = "MINUS" /\ ~Spaced(ts, i)
     /\ TT(ts, i + 1) \in {"WORD", "NUMBER"} /\ ~Spaced(ts, i + 1)
  THEN HyphenEnd(ts, i + 2)
  ELSE i

Joined(ts, i, j) == FlattenSeq([k \in 1 .. j - i |-> ts[i + k - 1].value])
Hyphenated(ts, i) == Joined(ts, i, HyphenEnd(ts, i + 1))
ParseHyphenatedName(ts, i) == Ok(NameNode(Hyphenated(ts, i)), HyphenEnd(ts, i + 1))

ParseTextValue(ts, i) ==
  LET v == Peek(ts, i).value
  IN CASE TT(ts, i) = "QUOTED" -> Ok(Value("string", v), i + 1)
       [] TT(ts, i) = "REGEX" -> Ok(Value("regex", v), i + 1)
       [] TT(ts, i) \in {"WORD", "NUMBER"} ->
            Ok(Value("string", Hyphenated(ts, i)), HyphenEnd(ts, i + 1))
       [] OTHER -> ParseError

ParseStringValue(ts, i) ==
  IF TT(ts, i) \in {"QUOTED", "WORD"} THEN Ok(Value("string", Peek(ts, i).value), i + 1)
  ELSE ParseError

ParseColorValue(ts, i) ==
  LET v == Peek(ts, i).value
      color == \/ Len(v) = 1 /\ v[1] \in ColorNames
               \/ ToSet(v) \subseteq ColorLetters
  IN IF TT(ts, i) = "QUOTED" \/ (TT(ts, i) = "WORD" /\ color)
     THEN Ok(Value("string", v), i + 1)
     ELSE ParseError

(* Mana symbols, words and numbers without a gap.                          *)
ParseManaValue(ts, i) ==
  LET part(j) == TT(ts, j) \in {"MANA", "WORD", "NUMBER"} /\ (j > i => ~Spaced(ts, j))
      end == CHOOSE j \in i .. Len(ts) : ~part(j) /\ \A k \in i .. j - 1 : part(k)
  IN CASE TT(ts, i) = "QUOTED" -> Ok(Value("string", Peek(ts, i).value), i + 1)
       [] TT(ts, i) # "QUOTED" /\ end = i -> ParseError
       [] OTHER -> Ok(Value("mana", Joined(ts, i, end)), end)

(* _validate_mtg_year(), and a date with two more numbers tied to it by    *)
(* hyphens, which are read as integers and written with two digits.        *)
ValidYear(ts, i) == TT(ts, i) = "NUMBER" /\ \E y \in Years : Peek(ts, i).value = <<y>>
TwoDigits(v) == IF v[1] \in MonthDays THEN <<"0", v[1]>> ELSE <<v[1]>>

ParseDateValue(ts, i) ==
  LET year == Peek(ts, i).value
      pair(j) == HyphenEnd(ts, j) > j /\ TT(ts, j + 1) = "NUMBER"
      month == Peek(ts, i + 2).value
      day == Peek(ts, i + 4).value
      valid == \A v \in {month, day} : v[1] \in MonthDays /\ (Len(v) > 1 => v[2] = ".")
  IN CASE ~ValidYear(ts, i) -> ParseError
       [] ValidYear(ts, i) /\ pair(i + 1) /\ pair(i + 3) ->
            IF valid
            THEN Ok(Value("string", year \o <<"-">> \o TwoDigits(month) \o <<"-">> \o TwoDigits(day)), i + 5)
            ELSE ParseError
       [] ValidYear(ts, i) /\ pair(i + 1) /\ ~pair(i + 3) -> Ok(Value("string", year), i + 3)
       [] OTHER -> Ok(Value("string", year), i + 1)

ParseYearValue(ts, i) ==
  IF ValidYear(ts, i) THEN Ok(Value("string", Peek(ts, i).value), i + 1) ELSE ParseError

ParseValueForClass(ts, i, pc) ==
  CASE pc = "TEXT" -> ParseTextValue(ts, i)
    [] pc = "NUMERIC" -> ParseNumExprValue(ts, i)
    [] pc = "COLOR" -> ParseColorValue(ts, i)
    [] pc = "MANA" -> ParseManaValue(ts, i)
    [] pc \in {"RARITY", "LEGALITY"} -> ParseStringValue(ts, i)
    [] pc = "DATE" -> ParseDateValue(ts, i)
    [] pc = "YEAR" -> ParseYearValue(ts, i)

(* parse_word_primary(): the word at i is a keyword, an attribute that an  *)
(* operator or arithmetic follows, or a name.                              *)
ParseWordPrimary(ts, i) ==
  LET v == ts[i].value
      op == TT(ts, i + 1) = "OP"
      condition(pc) == Then(ParseValueForClass(ts, i + 2, pc),
                            LAMBDA n, j : Ok(Bin(Attr(v[1], pc), ts[i + 1].value, n), j))
      term == AfterTerm(ts, i + 1, Attr(v[1], "NUMERIC"))
      tight == TT(ts, i + 1) \in ArithTT /\ ~Spaced(ts, i + 1)
  IN CASE v \in {<<"and">>, <<"or">>} -> ParseError
       [] v \notin {<<"and">>, <<"or">>} /\ IsAlias(v) /\ op ->
            condition(IF IsDual(v) /\ TT(ts, i + 2) # "NUMBER" THEN "TEXT" ELSE ParserClass(v))
       [] IsNumeric(v) /\ ~op ->
            Then(term, LAMBDA n, j : IF n.node = "attr" /\ ~tight THEN Ok(NameNode(v), j)
                                     ELSE Comparison(ts, j, n))
       [] OTHER -> ParseHyphenatedName(ts, i)

ParsePrimary(ts, i) ==
  LET v == Peek(ts, i).value
      compared(r) == Then(r, LAMBDA n, j :
                       Then(AfterTerm(ts, j, n), LAMBDA m, k : Comparison(ts, k, m)))
  IN CASE TT(ts, i) = "LPAREN" -> compared(ParseGroup(ts, i))
       [] TT(ts, i) = "BANG" -> IF TT(ts, i + 1) \in {"QUOTED", "WORD"}
                                THEN Ok(ExactName(Peek(ts, i + 1).value), i + 2)
                                ELSE ParseError
       [] TT(ts, i) \in {"QUOTED", "MANA"} -> Ok(NameNode(v), i + 1)
       [] TT(ts, i) = "WORD" -> ParseWordPrimary(ts, i)
       [] TT(ts, i) = "NUMBER" -> compared(Ok(Value("numeric", v), i + 1))
       [] OTHER -> ParseError

(***************************************************************************)
(* flatten_nested_operations(): an AND below an AND, and an OR below an    *)
(* OR, is merged into it.                                                  *)
(***************************************************************************)
RECURSIVE Flatten(_)
Flatten(n) ==
  CASE n.node \in {"and", "or"} ->
         LET merge(xs, x) == LET f == Flatten(x)
                             IN IF f.node = n.node THEN xs \o f.operands ELSE Append(xs, f)
         IN Nary(n.node, FoldLeft(merge, <<>>, n.operands))
    [] n.node = "not" -> Not(Flatten(n.operand))
    [] OTHER -> n

(* Parser.parse() and parse_query(): every token must have been consumed.  *)
Parse(s) ==
  LET ts == Tokenize(s)
  IN CASE ToSet(s) \subseteq {" "} -> Ok(TrueNode, 0)
       [] ~(ToSet(s) \subseteq {" "}) /\ ts = LexError -> ParseError
       [] OTHER -> Then(ParseExpr(ts, 1), LAMBDA n, j :
                     IF TT(ts, j) = "EOF" THEN Ok(Flatten(n), j) ELSE ParseError)

(***************************************************************************)
(* rewrite.py                                                              *)
(***************************************************************************)
LeafKey(n) == <<n.lhs.alias, n.rhs.v>>
IsDerived(n) ==
  /\ n.node = "bin" /\ n.op = <<":">> /\ n.lhs.node = "attr" /\ n.rhs.node = "value"
  /\ n.rhs.kind # "numeric"
  /\ LeafKey(n) \in DOMAIN Expansions

(* _expand(): the tree with its derived leaves replaced, and whether there *)
(* were any.  A leaf that is being expanded already is left alone.         *)
RECURSIVE Expand(_, _)
ExpandLeafOnly(n, inProgress) ==   \* mutant: what a predicate expands to is left as it is
  CASE n.node \in {"and", "or"} ->
         LET es == [k \in DOMAIN n.operands |-> Expand(n.operands[k], inProgress)]
         IN [n |-> Nary(n.node, [k \in DOMAIN es |-> es[k].n]),
             changed |-> \E k \in DOMAIN es : es[k].changed]
    [] n.node = "not" ->
         LET e == Expand(n.operand, inProgress) IN [n |-> Not(e.n), changed |-> e.changed]
    [] n.node \notin {"and", "or", "not"} /\ IsDerived(n) ->
         [n |-> Parse(Expansions[LeafKey(n)]).n, changed |-> TRUE]
    [] OTHER -> [n |-> n, changed |-> FALSE]
Expand(n, inProgress) ==
  CASE n.node \in {"and", "or"} ->
         LET es == [k \in DOMAIN n.operands |-> Expand(n.operands[k], inProgress)]
         IN [n |-> Nary(n.node, [k \in DOMAIN es |-> es[k].n]),
             changed |-> \E k \in DOMAIN es : es[k].changed]
    [] n.node = "not" ->
         LET e == Expand(n.operand, inProgress) IN [n |-> Not(e.n), changed |-> e.changed]
    [] n.node \notin {"and", "or", "not"} /\ IsDerived(n) /\ LeafKey(n) \notin inProgress ->
         [n |-> Expand(Parse(Expansions[LeafKey(n)]).n, inProgress \cup {LeafKey(n)}).n,
          changed |-> TRUE]
    [] OTHER -> [n |-> n, changed |-> FALSE]

ExpandDerivedPredicatesUnflattened(n) == Expand(n, {}).n   \* mutant: no flattening
ExpandDerivedPredicates(n) ==
  LET e == Expand(n, {}) IN IF e.changed THEN Flatten(e.n) ELSE n

(* _regex_plain_literal(): a pattern without metacharacters and without an *)
(* escaped letter or digit matches what it spells; <<>> if there is no     *)
(* such text, or if it is empty.                                           *)
Meta == {".", "*", "+", "?", "(", ")", "[", "]", "{", "}", "|", "^", "$"}
RECURSIVE IsPlain(_)
IsPlain(p) ==
  \/ p = <<>>
  \/ p[1] = "\\" /\ Len(p) > 1 /\ p[2] \notin Letters \cup Digits /\ IsPlain(SubSeq(p, 3, Len(p)))
  \/ p[1] # "\\" /\ p[1] \notin Meta /\ IsPlain(Tail(p))
RegexPlainLiteral(p) == IF IsPlain(p) THEN Unescaped(p) ELSE <<>>

RECURSIVE LowerRegexLeaves(_)
LowerRegexLeaves(n) ==
  CASE n.node \in {"and", "or"} ->
         Nary(n.node, [k \in DOMAIN n.operands |-> LowerRegexLeaves(n.operands[k])])
    [] n.node = "not" -> Not(LowerRegexLeaves(n.operand))
    [] n.node = "bin" /\ n.op = <<":">> /\ n.rhs.node = "value" /\ n.rhs.kind = "regex" ->
         LET lit == RegexPlainLiteral(n.rhs.v)
         IN IF lit = <<>> THEN n ELSE [n EXCEPT !.rhs = Value("string", lit)]
    [] OTHER -> n

RewriteQuery(n) == LowerRegexLeaves(ExpandDerivedPredicates(n))

(* parse_scryfall_query()                                                  *)
ParseScryfallQuery(s) == Then(Parse(s), LAMBDA n, j : Ok(RewriteQuery(n), j))
=============================================================================
