---------------------------- MODULE QueryGrammar ----------------------------
(***************************************************************************)
(* The legacy parser, api/parsing/pyparsing_based.py: implicit ANDs are    *)
(* written into the text, and a grammar of ordered choices parses it.      *)
(*                                                                         *)
(* A parser element is an operator of the text and a position; it matches, *)
(* fails, so that the next choice is tried, or aborts the parse (a         *)
(* ValueError of a parse action, and a regular expression that stops       *)
(* inside a word, after which nothing can match).  Texts have neither      *)
(* braces nor decimal points nor mana aliases here: the elements that read *)
(* those are left out.                                                     *)
(***************************************************************************)
EXTENDS QueryParser

CONSTANT ColorStarts   \* letter lexemes that start with a colour letter

WordChars == Letters \cup Digits
ComparisonOps == {<<":">>, <<"=">>, <<"!", "=">>, <<">">>, <<"<">>, <<">", "=">>, <<"<", "=">>}
IsOperator(t) == t \in ComparisonOps \cup ArithOps
Keywords == {<<"and">>, <<"or">>}
At(s, i) == IF i \in DOMAIN s THEN s[i] ELSE " "

(***************************************************************************)
(* preprocess_implicit_and()                                               *)
(***************************************************************************)
(* The parts of a text between its spaces.                                 *)
RECURSIVE Parts(_)
Parts(s) ==
  LET j == RunEnd(s, 1, WordChars \cup {c \in ToSet(s) : c # " "})
  IN CASE s = <<>> -> <<>>
       [] s # <<>> /\ s[1] = " " -> Parts(Tail(s))
       [] OTHER -> <<SubSeq(s, 1, j - 1)>> \o Parts(SubSeq(s, j, Len(s)))

(* The fast path: no part could hide more than one operand.                *)
IsSimple(s) ==
  /\ ToSet(s) \cap {"(", ")", "\"", "'", "/", "{", "+", "*"} = {}
  /\ \A k \in DOMAIN Parts(s) : LET p == Parts(s)[k] IN
       \/ p \in Keywords
       \/ p[1] \notin {">", "<", "=", "!", ":"} /\ Last(p) \notin {">", "<", "=", "!", ":", "-"}

(* The last position of the word at i, hyphens inside it included.         *)
HyphenatedEnd(s, i) ==
  LET run == RunEnd(s, i, WordChars \cup {"-"})
  IN CHOOSE k \in i .. run - 1 : s[k] # "-" /\ \A m \in k + 1 .. run - 1 : s[m] = "-"

(* The token at i (_get_implicit_and_tokenizer): its end, 0 if there is    *)
(* none.                                                                   *)
TokenEnd(s, i) ==
  LET quoted == Closing(s, i + 1, s[i])
      keyword == s[i] \in {"and", "or"} /\ At(s, i - 1) \notin WordChars /\ At(s, i + 1) \notin WordChars
  IN CASE s[i] \in {"\"", "'"} -> quoted
       [] s[i] = "/" /\ quoted # 0 -> quoted
       [] keyword -> i
       [] s[i] \in {">", "<", "!"} /\ At(s, i + 1) = "=" -> i + 1
       [] s[i] \in WordChars /\ ~keyword -> HyphenatedEnd(s, i)
       [] OTHER -> IF s[i] \in {"(", ")", ":", "=", ">", "<", "+", "-", "*", "/", "!"} THEN i ELSE 0

NoTokens == <<<<"error">>>>
RECURSIVE ImplicitAndTokens(_, _)
ImplicitAndTokens(s, i) ==
  LET rest == ImplicitAndTokens(s, TokenEnd(s, i) + 1)
  IN CASE i > Len(s) -> <<>>
       [] i <= Len(s) /\ s[i] = " " -> ImplicitAndTokens(s, i + 1)
       [] i <= Len(s) /\ s[i] # " " /\ TokenEnd(s, i) = 0 -> NoTokens
       [] OTHER -> IF rest = NoTokens THEN NoTokens ELSE <<SubSeq(s, i, TokenEnd(s, i))>> \o rest

IsNumericOperand(t) == IsNumeric(t) \/ ToSet(t) \subseteq Digits
IsAndOperand(t) == t \notin {<<"(">>, <<")">>, <<"!">>} \cup Keywords /\ ~IsOperator(t)

(* A slash that is no division leaves a regex open.                        *)
SlashesDivide(ts) ==
  \A k \in DOMAIN ts : ts[k] = <<"/">> =>
    k > 1 /\ (IsNumericOperand(ts[k - 1]) \/ ts[k - 1] = <<")">>)

(* _rhs_introduces_comparison(): a comparison follows at the same depth,   *)
(* before AND, OR or the closing parenthesis.                              *)
RhsIntroducesComparison(ts, i) ==
  LET depth(j) == Len(SelectSeq(SubSeq(ts, i, j - 1), LAMBDA t : t = <<"(">>))
                - Len(SelectSeq(SubSeq(ts, i, j - 1), LAMBDA t : t = <<")">>))
  IN \E j \in i .. Len(ts) :
       /\ ts[j] \in ComparisonOps /\ depth(j) = 0
       /\ \A k \in i .. j - 1 : depth(k) = 0 => ts[k] \notin Keywords \cup {<<")">>}

NeedsAnd(ts, i) ==
  LET tok == ts[i]
      next == ts[i + 1]
      arithmeticMinus ==
        /\ next = <<"-">> /\ i + 2 <= Len(ts)
        /\ IsNumericOperand(tok) \/ tok = <<")">>
        /\ IsNumericOperand(ts[i + 2]) \/ ts[i + 2] = <<"(">>
        /\ ~(i > 1 /\ ts[i - 1] \in ComparisonOps /\ RhsIntroducesComparison(ts, i + 2))
  IN /\ IsAndOperand(tok) \/ tok = <<")">>
     /\ IsAndOperand(next) \/ next \in {<<"(">>, <<"-">>, <<"!">>}
     /\ ~arithmeticMinus

And == <<" ", "and", " ">>
WithAnds(ts) ==
  FlattenSeq([k \in DOMAIN ts |->
    (IF ts[k] \in Keywords THEN <<" ">> \o ts[k] \o <<" ">> ELSE ts[k])
    \o (IF k < Len(ts) /\ NeedsAnd(ts, k) THEN And ELSE <<>>)])

PreprocessImplicitAnd(s) ==
  LET ps == Parts(s)
  IN IF IsSimple(s)
     THEN FlattenSeq([k \in DOMAIN ps |->
            ps[k] \o (IF k < Len(ps) /\ {ps[k], ps[k + 1]} \cap Keywords = {} THEN And ELSE <<" ">>)])
     ELSE WithAnds(ImplicitAndTokens(s, 1))

(***************************************************************************)
(* Elements and how they combine                                           *)
(***************************************************************************)
Match(n, i) == [is |-> "match", n |-> n, i |-> i]
NoMatch == [is |-> "fail", n |-> TrueNode, i |-> 0]
Abort == [is |-> "abort", n |-> TrueNode, i |-> 0]
Also(r, F(_, _)) == IF r.is = "match" THEN F(r.n, r.i) ELSE r
a || b == IF a.is = "fail" THEN b ELSE a

(* Spaces before an element are skipped.                                   *)
Skip(s, i) == RunEnd(s, i, {" "})
Boundary(s, i, j) == At(s, i - 1) \notin WordChars /\ At(s, j + 1) \notin WordChars
Literal(s, i, c) == IF At(s, Skip(s, i)) = c THEN Match(c, Skip(s, i) + 1) ELSE NoMatch

Keyword(s, i, kw) ==
  LET j == Skip(s, i)
  IN IF At(s, j) = kw /\ Boundary(s, j, j) THEN Match(kw, j + 1) ELSE NoMatch

AttrWord(s, i, pc) ==
  LET j == Skip(s, i)
  IN IF Boundary(s, j, j) /\ pc \in ParserClasses(<<At(s, j)>>) THEN Match(Attr(s[j], pc), j + 1)
     ELSE NoMatch

AttrOp(s, i) ==
  LET j == Skip(s, i)
      two == <<At(s, j), At(s, j + 1)>>
  IN CASE two \in ComparisonOps -> Match(two, j + 2)
       [] two \notin ComparisonOps /\ <<At(s, j)>> \in ComparisonOps -> Match(<<s[j]>>, j + 1)
       [] OTHER -> NoMatch

Integer(s, i) ==
  LET j == Skip(s, i)
      k == RunEnd(s, j, Digits)
  IN IF k > j /\ Boundary(s, j, k - 1) THEN Match(Value("numeric", SubSeq(s, j, k - 1)), k)
     ELSE NoMatch

QuotedString(s, i, quotes, kind) ==
  LET j == Skip(s, i)
      k == IF At(s, j) \in quotes THEN Closing(s, j + 1, s[j]) ELSE 0
  IN IF k = 0 THEN NoMatch
     ELSE Match(Value(kind, IF kind = "regex" THEN UnescapedSlashes(SubSeq(s, j + 1, k - 1))
                            ELSE Unescaped(SubSeq(s, j + 1, k - 1))), k + 1)
Quoted(s, i) == QuotedString(s, i, {"\"", "'"}, "string")

StringWord(s, i) ==
  LET j == Skip(s, i)
      k == RunEnd(s, j, WordChars \cup {"-"})
  IN IF At(s, j) \in WordChars THEN Match(Value("string", SubSeq(s, j, k - 1)), k) ELSE NoMatch

(* A name may not be a keyword.                                            *)
Word(s, i) ==
  LET j == Skip(s, i)
      w == SubSeq(s, j, HyphenatedEnd(s, j))
  IN IF At(s, j) \notin Letters THEN NoMatch
     ELSE IF w \in Keywords THEN Abort
     ELSE Match(Value("string", w), HyphenatedEnd(s, j) + 1)

ColorValue(s, i) ==
  LET j == Skip(s, i)
      k == RunEnd(s, j, ColorLetters)
  IN CASE At(s, j) \in ColorNames /\ Boundary(s, j, j) -> Match(Value("string", <<s[j]>>), j + 1)
       [] ~(At(s, j) \in ColorNames /\ Boundary(s, j, j)) /\ At(s, k) \in ColorStarts -> Abort
       [] OTHER -> IF k > j THEN Match(Value("string", SubSeq(s, j, k - 1)), k) ELSE NoMatch

YearDigits(s, i) ==
  LET j == Skip(s, i)
  IN IF At(s, j) \in Years THEN Match(Value("string", <<s[j]>>), j + 1) ELSE NoMatch
DateDigits(s, i) ==
  Also(YearDigits(s, i), LAMBDA n, j :
    IF /\ At(s, j) = "-" /\ At(s, j + 3) = "-"
       /\ {At(s, j + 1), At(s, j + 2), At(s, j + 4), At(s, j + 5)} \subseteq MonthDays
    THEN Match(Value("string", n.v \o SubSeq(s, j, j + 5)), j + 6)
    ELSE Match(n, j))

(***************************************************************************)
(* The grammar                                                             *)
(***************************************************************************)
RECURSIVE Expr(_, _), AndExpr(_, _, _), OrExpr(_, _, _), MoreTerms(_, _, _)

ParenExprTerm(s, i) ==
  Also(Literal(s, i, "("), LAMBDA c, j : Also(Expr(s, j), LAMBDA n, k :
    Also(Literal(s, k, ")"), LAMBDA d, m : Match(n, m))))

ArithmeticOp(s, i) == Literal(s, i, "+") || Literal(s, i, "-") || Literal(s, i, "*") || Literal(s, i, "/")
ArithmeticTerm(s, i) == AttrWord(s, i, "NUMERIC") || Integer(s, i) || ParenExprTerm(s, i)
OpTerm(s, i, lhs) ==
  Also(ArithmeticOp(s, i), LAMBDA op, j :
    Also(ArithmeticTerm(s, j), LAMBDA n, k : Match(Bin(lhs, <<op>>, n), k)))
MoreTerms(s, i, lhs) ==
  LET r == OpTerm(s, i, lhs)
  IN IF r.is = "fail" THEN Match(lhs, i) ELSE Also(r, LAMBDA n, j : MoreTerms(s, j, n))
ArithmeticExpr(s, i) ==
  Also(ArithmeticTerm(s, i), LAMBDA t, j :
    Also(OpTerm(s, j, t), LAMBDA n, k : MoreTerms(s, k, n)))

ValueOf(s, i, pc) ==
  CASE pc = "NUMERIC" -> ArithmeticExpr(s, i) || ParenExprTerm(s, i)
                         || AttrWord(s, i, "NUMERIC") || Integer(s, i)
    [] pc = "COLOR" -> ColorValue(s, i) || Quoted(s, i)
    [] pc \in {"RARITY", "LEGALITY"} -> Quoted(s, i) || StringWord(s, i)
    [] pc = "DATE" -> DateDigits(s, i)
    [] pc = "YEAR" -> YearDigits(s, i)
    [] pc = "TEXT" -> QuotedString(s, i, {"/"}, "regex") || Quoted(s, i) || StringWord(s, i)

(* An attribute, an operator and a value; a comparison of numbers has an   *)
(* expression on its left as well.                                         *)
ConditionOf(s, i, pc) ==
  Also(IF pc = "NUMERIC" THEN ValueOf(s, i, pc) ELSE AttrWord(s, i, pc), LAMBDA a, j :
    Also(AttrOp(s, j), LAMBDA op, k :
      Also(ValueOf(s, k, pc), LAMBDA v, m : Match(Bin(a, op, v), m))))

AttrAttr(s, i) ==
  LET of(pc) == Also(AttrWord(s, i, pc), LAMBDA a, j :
                  Also(AttrOp(s, j), LAMBDA op, k :
                    Also(AttrWord(s, k, pc), LAMBDA b, m : Match(Bin(a, op, b), m))))
  IN of("NUMERIC") || of("RARITY") || of("LEGALITY") || of("COLOR") || of("TEXT")
     || of("DATE") || of("YEAR")

Condition(s, i) ==
  ConditionOf(s, i, "RARITY") || ConditionOf(s, i, "LEGALITY") || ConditionOf(s, i, "COLOR")
  || ConditionOf(s, i, "DATE") || ConditionOf(s, i, "YEAR") || ConditionOf(s, i, "NUMERIC")
  || ConditionOf(s, i, "TEXT") || AttrAttr(s, i)

ExactNameExpr(s, i) ==
  Also(Literal(s, i, "!"), LAMBDA c, j :
    Also(Quoted(s, j) || Word(s, j), LAMBDA n, k : Match(ExactName(n.v), k)))
ImplicitName(s, i) == Also(Quoted(s, i) || Word(s, i), LAMBDA n, j : Match(NameNode(n.v), j))
NegatablePrimary(s, i) ==
  AttrAttr(s, i) || Condition(s, i) || ParenExprTerm(s, i) || ExactNameExpr(s, i) || ImplicitName(s, i)

NegatableFactor(s, i) ==
  LET minus == Literal(s, i, "-")
  IN IF minus.is = "fail" THEN NegatablePrimary(s, i)
     ELSE Also(NegatablePrimary(s, minus.i), LAMBDA n, j :
            IF IsArith(n) THEN Abort ELSE Match(Not(n), j))

Factor(s, i) == Condition(s, i) || ArithmeticExpr(s, i) || NegatableFactor(s, i) || Integer(s, i)

(* ZeroOrMore(operator + operand): a failure after the operator leaves the *)
(* operator unread.                                                        *)
AndExpr(s, i, xs) ==
  LET r == Also(IF xs = <<>> THEN Match("and", i) ELSE Keyword(s, i, "and"),
                LAMBDA kw, j : Factor(s, j))
  IN IF r.is = "fail" /\ xs # <<>> THEN Match(Operands("and", xs), i)
     ELSE Also(r, LAMBDA n, j : AndExpr(s, j, Append(xs, n)))
OrExpr(s, i, xs) ==
  LET r == Also(IF xs = <<>> THEN Match("or", i) ELSE Keyword(s, i, "or"),
                LAMBDA kw, j : AndExpr(s, j, <<>>))
  IN IF r.is = "fail" /\ xs # <<>> THEN Match(Operands("or", xs), i)
     ELSE Also(r, LAMBDA n, j : OrExpr(s, j, Append(xs, n)))
Expr(s, i) == OrExpr(s, i, <<>>)

(* parse_search_query()                                                    *)
ParseSearchQuery(s) ==
  LET ts == ImplicitAndTokens(s, 1)
      text == PreprocessImplicitAnd(s)
      r == Expr(text, 1)
  IN CASE ToSet(s) \subseteq {" "} -> Ok(TrueNode, 0)
       [] ~(ToSet(s) \subseteq {" "}) /\ ~IsSimple(s) /\ (ts = NoTokens \/ ~SlashesDivide(ts)) -> ParseError
       [] OTHER -> IF r.is = "match" /\ Skip(text, r.i) > Len(text)
                   THEN Ok(RewriteQuery(Flatten(r.n)), 0)
                   ELSE ParseError
=============================================================================
