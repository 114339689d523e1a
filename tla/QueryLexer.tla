----------------------------- MODULE QueryLexer -----------------------------
(***************************************************************************)
(* The lexer of api/parsing/hand_parser.py and the balancing of partial    *)
(* queries of api/parsing/parsing_f.py.                                    *)
(*                                                                         *)
(* A query text is a sequence of lexemes.  A lexeme is a punctuation mark, *)
(* or a run of letters or of digits that the alphabet of an instance keeps *)
(* whole ("cmc", "2000"); lexemes that stand side by side form one word,   *)
(* as their characters do, so that <<"3", "bolt">> is the text 3bolt.      *)
(* Letter case is left out: the code lowers every word it looks up.        *)
(***************************************************************************)
EXTENDS Naturals, Sequences, SequencesExt

CONSTANTS Letters,   \* the lexemes made of letters
          Digits     \* the lexemes made of digits, without leading zeros

IsWordStart(c) == c \in Letters
IsWordCont(c) == c \in Letters \cup Digits \cup {"."}

Token(t, v, sp) == [type |-> t, value |-> v, space_before |-> sp]
LexError == <<Token("ERROR", <<>>, FALSE)>>
EOF(sp) == <<Token("EOF", <<>>, sp)>>

(* The first position from i on whose lexeme is outside S, Len(s) + 1 if   *)
(* there is none: the end of a "while" loop of the lexer.                  *)
RunEnd(s, i, S) ==
  LET j == SelectInSubSeq(s, i, Len(s), LAMBDA c : c \notin S)
  IN IF i > Len(s) \/ j = 0 THEN Len(s) + 1 ELSE j

(* The position of the delimiter q that closes what opened before i, a     *)
(* backslash taking the next character with it; 0 if nothing closes it.    *)
RECURSIVE Closing(_, _, _)
Closing(s, i, q) ==
  IF i > Len(s) THEN 0
  ELSE IF s[i] = "\\" /\ i < Len(s) THEN Closing(s, i + 2, q)
  ELSE IF s[i] = q THEN i
  ELSE Closing(s, i + 1, q)

(* A quoted string without the backslashes that escape; a regex keeps all  *)
(* of them but the ones before a slash.                                    *)
RECURSIVE Unescaped(_)
Unescaped(v) ==
  IF Len(v) < 2 THEN v
  ELSE IF v[1] = "\\" THEN <<v[2]>> \o Unescaped(SubSeq(v, 3, Len(v)))
  ELSE <<v[1]>> \o Unescaped(Tail(v))

RECURSIVE UnescapedSlashes(_)
UnescapedSlashes(v) ==
  IF Len(v) < 2 THEN v
  ELSE IF v[1] = "\\" /\ v[2] = "/" THEN <<"/">> \o UnescapedSlashes(SubSeq(v, 3, Len(v)))
  ELSE <<v[1]>> \o UnescapedSlashes(Tail(v))

(* The last position of the number at i: digits, and a fraction when a     *)
(* digit follows the point.                                                *)
NumberEnd(s, i) ==
  LET j == RunEnd(s, i, Digits)
  IN IF j < Len(s) /\ s[j] = "." /\ s[j + 1] \in Digits
     THEN RunEnd(s, j + 1, Digits) - 1
     ELSE j - 1

Single == [c \in {"+", "-", "*", "(", ")", "!", ">", "<", ":", "="} |->
  CASE c = "+" -> "PLUS" [] c = "-" -> "MINUS" [] c = "*" -> "STAR"
    [] c = "(" -> "LPAREN" [] c = ")" -> "RPAREN" [] c = "!" -> "BANG"
    [] OTHER -> "OP"]

RECURSIVE Lex(_, _, _)
Lex(s, i, sp) ==
  LET c == s[i]
      next == IF i < Len(s) THEN s[i + 1] ELSE " "
      upTo(t, v, j) == <<Token(t, v, sp)>> \o Lex(s, j + 1, FALSE)
      inside(j) == SubSeq(s, i + 1, j - 1)
      brace == SelectInSubSeq(s, i + 1, Len(s), LAMBDA x : x = "}")
      close == Closing(s, i + 1, c)
      num == NumberEnd(s, i)
      word(j) == RunEnd(s, j, Letters \cup Digits \cup {"."}) - 1
  IN IF i > Len(s) THEN EOF(sp)
     ELSE CASE c = " " -> Lex(s, i + 1, TRUE)
            [] c = "{" -> IF brace = 0 THEN LexError
                          ELSE upTo("MANA", SubSeq(s, i, brace), brace)
            [] c \in {"\"", "'"} -> IF close = 0 THEN LexError
                                    ELSE upTo("QUOTED", Unescaped(inside(close)), close)
            [] c \in {">", "<", "!"} /\ next = "=" -> upTo("OP", <<c, "=">>, i + 1)
            [] c = "/" -> IF close = 0 THEN upTo("SLASH", <<c>>, i)
                          ELSE upTo("REGEX", UnescapedSlashes(inside(close)), close)
            [] c \in DOMAIN Single /\ ~(c \in {">", "<", "!"} /\ next = "=") ->
                 upTo(Single[c], <<c>>, i)
            [] c \in Digits -> IF num < Len(s) /\ IsWordCont(s[num + 1])
                               THEN upTo("WORD", SubSeq(s, i, word(num + 1)), word(num + 1))
                               ELSE upTo("NUMBER", SubSeq(s, i, num), num)
            [] IsWordStart(c) -> upTo("WORD", SubSeq(s, i, word(i)), word(i))
            [] OTHER -> LexError

(* tokenize(): the tokens and an EOF; the whole text is refused when a     *)
(* character is unexpected or a delimiter is left open.                    *)
Tokenize(s) ==
  LET ts == Lex(s, 1, FALSE)
  IN IF ts[Len(ts)].type = "ERROR" THEN LexError ELSE ts

(***************************************************************************)
(* balance_partial_query()                                                 *)
(***************************************************************************)
Quotes == {"'", "\""}
Mirror == [c \in Quotes \cup {"(", ")"} |-> CASE c = "(" -> ")" [] c = ")" -> "(" [] OTHER -> c]
Unbalanced == <<"unbalanced">>

(* One character against the stack of the open ones.                       *)
BalanceStepInQuotes(stack, c) ==   \* mutant: a mark counts inside of a string too
  LET top == IF stack = <<>> THEN " " ELSE Last(stack)
  IN CASE stack = Unbalanced \/ c \notin DOMAIN Mirror -> stack
       [] OTHER -> IF top = Mirror[c] THEN Front(stack)
                   ELSE IF c = ")" THEN Unbalanced
                   ELSE Append(stack, c)
BalanceStep(stack, c) ==
  LET top == IF stack = <<>> THEN " " ELSE Last(stack)
  IN CASE stack = Unbalanced -> stack
       [] stack # Unbalanced /\ top \in Quotes -> IF c = top THEN Front(stack) ELSE stack
       [] stack # Unbalanced /\ top \notin Quotes /\ c \notin DOMAIN Mirror -> stack
       [] OTHER -> IF top = Mirror[c] THEN Front(stack)
                   ELSE IF c = ")" THEN Unbalanced
                   ELSE Append(stack, c)

OpenMarks(s) == FoldLeft(BalanceStep, <<>>, s)
CanBalance(s) == OpenMarks(s) # Unbalanced
BalancePartialQuery(s) ==
  s \o [j \in DOMAIN OpenMarks(s) |-> Mirror[Reverse(OpenMarks(s))[j]]]
=============================================================================
