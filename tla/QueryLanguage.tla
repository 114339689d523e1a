--------------------------- MODULE QueryLanguage ---------------------------
(***************************************************************************)
(* A query being typed: the text grows by one fragment of an alphabet at a *)
(* time, and is what the server gets at any moment.  The properties relate *)
(* what the balancer, the two parsers, the rewriter, the explanation and   *)
(* the two ways of running a query make of it.                             *)
(***************************************************************************)
EXTENDS QueryGrammar, QuerySql, SearchResults

CONSTANTS Alphabets,      \* name -> the fragments its texts are made of
          MaxFragments,   \* name -> the number of fragments a text may have
          Rows,           \* the printings of the database
          Requests        \* name -> what its texts are submitted with

(* A card's columns are the same in all of its printings, an illustration  *)
(* is of one card, and scores, prices and dates are positive.              *)
OwnColumns == PrintingColumns \cup {"card_legalities", "illustration_id", "scryfall_id", "prefer_score"}
ASSUME RowsOfCards ==
  \A r1, r2 \in Rows : r1.oracle_id = r2.oracle_id
    => \A col \in DOMAIN r1 \ OwnColumns : r1[col] = r2[col]
ASSUME IllustrationsOfCards ==
  \A r1, r2 \in Rows : r1.illustration_id = r2.illustration_id => r1.oracle_id = r2.oracle_id
ASSUME PositiveNumbers ==
  \A x \in Rows, col \in {"prefer_score", "price_usd", "released_at"} : x[col] = <<>> \/ x[col][1] > 0

VARIABLES alphabet, text, typed,
          request   \* what the text was submitted with, at the end

vars == <<alphabet, text, typed, request>>
NoRequest == [limit |-> -1]

Init == /\ alphabet \in DOMAIN Alphabets
        /\ text = <<>>
        /\ typed = 0
        /\ request = NoRequest

Type == /\ request = NoRequest
        /\ typed < MaxFragments[alphabet]
        /\ \E f \in Alphabets[alphabet] : text' = text \o f
        /\ typed' = typed + 1
        /\ UNCHANGED <<alphabet, request>>

Submit == /\ request = NoRequest
          /\ request' \in Requests[alphabet]
          /\ UNCHANGED <<alphabet, text, typed>>

Next == Type \/ Submit
Spec == Init /\ [][Next]_vars

(***************************************************************************)
(* What the text means                                                     *)
(***************************************************************************)
RECURSIVE Explain(_), IsNumber(_), IsCondition(_), Subtrees(_)

(* to_human_explanation(): the words of a condition are one leaf, and a    *)
(* condition on the empty string has none.                                 *)
Mark(w) == [word |-> w]
ExplainLeaf(n) ==
  IF n.node = "bin" /\ n.rhs = Value("string", <<>>) THEN <<>> ELSE <<[word |-> "leaf", leaf |-> n]>>
Join(parts, w) ==
  FlattenSeq([k \in DOMAIN parts |-> IF k = 1 THEN parts[k] ELSE <<Mark(w)>> \o parts[k]])
ExplainUngrouped(n) ==   \* mutant: an AND below an OR has no parentheses
  LET parts == [k \in DOMAIN n.operands |-> Explain(n.operands[k])]
  IN CASE n.node = "and" -> Join(parts, "and")
       [] n.node = "or" -> <<Mark("(")>> \o Join(parts, "or") \o <<Mark(")")>>
       [] n.node = "not" -> <<Mark("not"), Mark("(")>> \o Explain(n.operand) \o <<Mark(")")>>
       [] n.node = "true" -> <<>>
       [] OTHER -> ExplainLeaf(n)
Explain(n) ==
  LET part(op) == IF n.node = "or" /\ op.node = "and" THEN <<Mark("(")>> \o Explain(op) \o <<Mark(")")>>
                  ELSE Explain(op)
      parts == [k \in DOMAIN n.operands |-> part(n.operands[k])]
  IN CASE n.node = "and" -> Join(parts, "and")
       [] n.node = "or" -> <<Mark("(")>> \o Join(parts, "or") \o <<Mark(")")>>
       [] n.node = "not" -> <<Mark("not"), Mark("(")>> \o Explain(n.operand) \o <<Mark(")")>>
       [] n.node = "true" -> <<>>
       [] OTHER -> ExplainLeaf(n)

(* A number can stand where a condition should, and the other way round:   *)
(* PostgreSQL and the engine both refuse such a tree.                      *)
IsNumber(n) ==
  \/ n.node = "value" /\ n.kind = "numeric"
  \/ n.node = "attr" /\ n.pc = "NUMERIC"
  \/ IsArith(n) /\ IsNumber(n.lhs) /\ IsNumber(n.rhs)
IsCondition(n) ==
  CASE n.node \in {"and", "or"} -> \A k \in DOMAIN n.operands : IsCondition(n.operands[k])
    [] n.node = "not" -> IsCondition(n.operand)
    [] n.node = "bin" -> /\ ~IsArith(n)
                         /\ IF n.lhs.node = "attr" /\ n.lhs.pc # "NUMERIC"
                            THEN n.rhs.node = "value" /\ n.rhs.kind # "regex"
                            ELSE IsNumber(n.lhs) /\ IsNumber(n.rhs)
    [] OTHER -> n.node \in {"true", "exact"}

Subtrees(n) ==
  {n} \cup CASE n.node \in {"and", "or"} -> UNION {Subtrees(n.operands[k]) : k \in DOMAIN n.operands}
             [] n.node = "not" -> Subtrees(n.operand)
             [] OTHER -> {}

Using(names) == alphabet \in names

(***************************************************************************)
(* Properties: of the text after every step that extends or submits it     *)
(***************************************************************************)
Nests(s) ==
  LET ts == Tokenize(s)
      depth(k) == Cardinality({j \in 1 .. k : ts[j].type = "LPAREN"})
                  - Cardinality({j \in 1 .. k : ts[j].type = "RPAREN"})
  IN ts # LexError /\ (\A k \in DOMAIN ts : depth(k) >= 0) /\ depth(Len(ts)) = 0
Completions == UNION {[1 .. k -> {"(", ")"} \cup Quotes] : k \in 0 .. 2}

Balanced(t) ==
  Using({"balance"}) =>
    IF CanBalance(t)
    THEN OpenMarks(BalancePartialQuery(t)) = <<>> /\ Nests(BalancePartialQuery(t))
    ELSE \A c \in Completions : ~Nests(t \o c)

(* What balance_partial_query() appends completes the text of a query that *)
(* is still being typed: the lexer accepts it and its parentheses nest.    *)
(* The text is given up only if nothing that can be appended does that:    *)
(* marks inside of a string do not count, and those outside do.            *)
BalanceCompletes == [][Balanced(text')]_vars

ReadAlike(t) ==
  Using({"words", "numbers"}) =>
    LET new == Parse(t)
        old == ParseSearchQuery(t)
    IN new.ok = old.ok /\ (new.ok => new.n = old.n)

(* The hand-written parser reads every text as the grammar it replaced.    *)
ParsersAgree == [][ReadAlike(text')]_vars

(* No AND stands directly below an AND and no OR below an OR, neither      *)
(* after parsing nor after a derived predicate was replaced by its tree.   *)
Canonical(t) ==
  LET new == Parse(t)
      rewritten == ParseScryfallQuery(t)
  IN Using({"rewrite", "words"}) /\ new.ok =>
       \A m \in Subtrees(new.n) \cup Subtrees(rewritten.n) : m.node \in {"and", "or"} =>
         /\ Len(m.operands) > 1
         /\ \A k \in DOMAIN m.operands : m.operands[k].node # m.node

(* Rewriting ends and is complete: a derived predicate remains only if its *)
(* definition leads back to it, and no regex remains that is plain text.   *)
Refers(e) == {LeafKey(m) : m \in {x \in Subtrees(Parse(Expansions[e]).n) : IsDerived(x)}}
RECURSIVE Reached(_)
Reached(es) == LET more == es \cup UNION {Refers(e) : e \in es}
               IN IF more = es THEN es ELSE Reached(more)

Complete(t) ==
  LET rewritten == ParseScryfallQuery(t)
  IN Using({"rewrite"}) /\ rewritten.ok =>
       \A m \in Subtrees(rewritten.n) : m.node = "bin" =>
         /\ IsDerived(m) => LeafKey(m) \in Reached(Refers(LeafKey(m)))
         /\ m.rhs.node = "value" /\ m.rhs.kind = "regex" => RegexPlainLiteral(m.rhs.v) = <<>>

(* What the engine and the SQL get is the end of the rewriting: flat, and  *)
(* with nothing left to rewrite.                                           *)
RewritingIsSound == [][Canonical(text') /\ Complete(text')]_vars

RECURSIVE ReadTerm(_, _), ReadList(_, _, _)
ReadTerm(s, i) ==
  CASE s[i].word = "leaf" -> Ok(s[i].leaf, i + 1)
    [] s[i].word = "(" -> LET r == ReadList(s, i + 1, <<>>) IN Ok(r.n, r.i + 1)
    [] s[i].word = "not" -> LET r == ReadList(s, i + 2, <<>>) IN Ok(Not(r.n), r.i + 1)
ReadList(s, i, xs) ==
  LET r == ReadTerm(s, i)
      ys == Append(xs, r.n)
  IN IF r.i > Len(s) \/ s[r.i].word = ")"
     THEN Ok(Operands(IF xs # <<>> THEN s[i - 1].word ELSE "and", ys), r.i)
     ELSE ReadList(s, r.i + 1, ys)

Explained(t) ==
  LET new == Parse(t)
  IN Using({"rewrite", "words", "conditions"}) /\ new.ok /\ new.n.node # "true" =>
       ReadList(Explain(new.n), 1, <<>>).n = new.n

(* An explanation names one query: read with its parentheses, it has the   *)
(* structure that was parsed.                                              *)
ExplanationIsFaithful == [][Explained(text')]_vars

SelectedAlike(t) ==
  LET query == ParseScryfallQuery(t)
  IN Using({"conditions", "leaves"}) /\ query.ok /\ IsCondition(query.n) =>
       \A row \in Rows : Matches(query.n, row) <=> Sql(query.n, row) = "T"

(* The engine returns the printings that the WHERE clause selects: NULL,   *)
(* negation and the decisions taken on a card without its printings lose   *)
(* and add nothing.                                                        *)
EngineAgreesWithSql == [][SelectedAlike(text')]_vars

AnsweredAlike(t, r) ==
  LET query == ParseScryfallQuery(t)
      sql == {row \in Rows : Sql(query.n, row) = "T"}
      found == {row \in Rows : Matches(query.n, row)}
      page == EnginePage(found, r)
      keys == OrderBy(r)
  IN query.ok /\ IsCondition(query.n) =>
       /\ \E rows \in SqlRows(sql, r) :
            /\ EngineTotal(found, r) = Cardinality(rows)
            /\ IsPage(page, rows, SubSeq(keys, 1, 2), r.limit)
       /\ \A i, j \in DOMAIN page : i < j /\ page[i].oracle_id = page[j].oracle_id => ~Before(keys, page[j], page[i])

(* The engine's page is one that the statement can give: as many results,  *)
(* a printing that DISTINCT ON may keep for each, in the order of the sort *)
(* value and the EDHREC rank.  Scores, the last key of the statement, are  *)
(* only compared within a card.                                            *)
AnswersAgree == [][request' # NoRequest => AnsweredAlike(text', request')]_vars

StrictMana(t) ==
  LET n == Parse(t).n
      v == n.rhs.v
      same(row) == row["mana_cost_jsonb"] = ManaCostStrToDict(v) /\ row["cmc"][1] = CalculateCmc(v)
  IN Using({"mana"}) /\ n.node = "bin" /\ n.op = Gt =>
       \A row \in Rows :
         Sql(n, row) = "T" <=>
           /\ ManaCostStrToDict(v) \sqsubseteq row["mana_cost_jsonb"]
           /\ row["cmc"][1] >= CalculateCmc(v)
           /\ ~same(row)

(* "m>cost" selects what _handle_mana_cost_approximate_comparison() says:  *)
(* at least the symbols, at least the mana value, and not the same cost.   *)
StrictManaIsNotEqual == [][StrictMana(text')]_vars
=============================================================================
