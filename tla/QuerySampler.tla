---------------------------- MODULE QuerySampler ----------------------------
(***************************************************************************)
(* client/query_sampler.py: the query universe.  A sampler is made of a    *)
(* corpus, or of built-in tables without one, and a mode that only sets    *)
(* weights; a query is a connective structure filled with predicates of    *)
(* distinct families, drawn at random within a shape.                      *)
(***************************************************************************)
EXTENDS Integers, FiniteSets, Sequences, SequencesExt, FiniteSetsExt

CONSTANTS
  Vocabularies,      \* families whose values are words, "name" among them
  NumericColumns,    \* numeric family -> [column, render]
  StaticFamilies,    \* families with a closed list of values, "rarity" among them
  Structures,        \* structure -> its arity
  FallbackVocab,     \* family -> words, without a corpus
  FallbackDeciles,   \* column -> ascending values
  Corpora,           \* corpora: sequences of rows; the empty one stands for corpus=None
  Shapes,            \* the shapes queries are asked for with
  MIN_WORD_ROWS, MAX_VOCAB, MAX_FAMILY_DRAWS,
  Unrestricted,      \* None, in a field of a shape
  Steps              \* rng.random() is one of 0 .. Steps - 1, over Steps

(* Every column has built-in deciles in ascending order, and a corpus is a *)
(* list of rows with at most one number in a column.                       *)
ASSUME SamplerAssumption ==
  /\ Steps \in Nat \ {0}
  /\ StaticFamilies \cap DOMAIN NumericColumns = {}
  /\ \A s \in DOMAIN Structures : Structures[s] \in Nat
  /\ \A f \in DOMAIN NumericColumns :
       LET deciles == FallbackDeciles[NumericColumns[f].column]
       IN /\ deciles \in Seq(Int) /\ Len(deciles) >= 2
          /\ \A i, j \in DOMAIN deciles : i <= j => deciles[i] <= deciles[j]
  /\ \A c \in Corpora :
       /\ c \in Seq(ToSet(c))
       /\ \A i \in DOMAIN c, f \in DOMAIN NumericColumns : c[i].numbers[NumericColumns[f].column] \in Seq(Int)

VARIABLES corpus, mode, shape, query

SamplerVars == <<corpus, mode, shape, query>>
MODES == {"realistic", "uniform"}
Families == Vocabularies \cup DOMAIN NumericColumns \cup StaticFamilies

(***************************************************************************)
(* The values.  A counter gives each word the number of rows it is in.     *)
(***************************************************************************)
(* What a row adds to a vocabulary: types and subtypes are one, keywords   *)
(* that no lookup can find and formats a card is not legal in are none.    *)
IsQueryableKeyword(k) == k.title
CountRow(row, family) ==
  CASE family = "type" -> row.types \cup row.subtypes
    [] family = "keyword" -> {k.word : k \in {x \in row.keywords : IsQueryableKeyword(x)}}
    [] family = "legality" -> {f \in DOMAIN row.legalities : row.legalities[f] = "legal"}
    [] OTHER -> row.words[family]
CountedRows(c, family, word) == Cardinality({i \in DOMAIN c : word \in CountRow(c[i], family)})
CountedWords(c, family) == UNION {CountRow(c[i], family) : i \in DOMAIN c}

(* _vocab(): the words of at least `floor` rows among the `cap` most       *)
(* common ones.  Equally common words are cut in either order: the set of  *)
(* results.                                                                *)
FreeText == {"oracle", "flavor"}
MostCommon(c, family, cap) ==
  LET ws == CountedWords(c, family)
  IN {top \in kSubset(Min({cap, Cardinality(ws)}), ws) :
        \A w \in top, v \in ws \ top : CountedRows(c, family, w) >= CountedRows(c, family, v)}
VocabOf(c, family) ==
  LET ws == CountedWords(c, family)
      kept(top, floor) == LET long == {w \in top : CountedRows(c, family, w) >= floor}
                          IN IF long = {} THEN {"the"} ELSE long
  IN IF ws = {} THEN {FallbackVocab[family]}
     ELSE IF family \in FreeText THEN {kept(top, MIN_WORD_ROWS) : top \in MostCommon(c, family, MAX_VOCAB)}
     ELSE {kept(ws, 1)}

(* Weights: the table's in one mode, ones in the other.  rng.choices()     *)
(* gives a key of positive weight.                                         *)
WeightsOfCommon(table, m) ==   \* mutant: the realistic table leaves the rare values at zero
  IF m = "realistic" THEN [k \in DOMAIN table |-> IF table[k] > 1 THEN table[k] ELSE 0] ELSE [k \in DOMAIN table |-> 1]
Weights(table, m) == IF m = "realistic" THEN table ELSE [k \in DOMAIN table |-> 1]
Possible(weights) == {k \in DOMAIN weights : weights[k] > 0}
VocabWeights(c, family, vocab, m) ==
  Weights([w \in vocab |-> IF c = <<>> THEN 1 ELSE Max({1, CountedRows(c, family, w)})], m)
VocabChoices(c, family, m) == {Possible(VocabWeights(c, family, vocab, m)) : vocab \in VocabOf(c, family)}

(* A column the corpus does not carry takes its family with it.  The k-th  *)
(* smallest of values with repetitions: fewer than k are below it, and     *)
(* with itself and its equals there are k.                                 *)
KthSmallest(k, number) ==
  CHOOSE v \in {number[i] : i \in DOMAIN number} :
    /\ Cardinality({i \in DOMAIN number : number[i] < v}) < k
    /\ k <= Cardinality({i \in DOMAIN number : number[i] <= v})
Numbers(c, column) == [i \in {j \in DOMAIN c : c[j].numbers[column] # <<>>} |-> c[i].numbers[column][1]]
Sorted(c, column) ==
  LET number == Numbers(c, column)
  IN IF c = <<>> THEN FallbackDeciles[column]
     ELSE [k \in 1 .. Cardinality(DOMAIN number) |-> KthSmallest(k, number)]
MissingNumeric(c) == {f \in DOMAIN NumericColumns : Sorted(c, NumericColumns[f].column) = <<>>}
FamilyTable(c) == [f \in Families \ MissingNumeric(c) |-> 1]

(***************************************************************************)
(* Numbers.  All of them are multiples of 1/Steps; p is p/Steps.           *)
(***************************************************************************)
Quantile(c, column, p) ==
  LET values == Sorted(c, column)
      span == Len(values) - 1
      lo == Min({(p * span) \div Steps, span - 1})
  IN IF c # <<>> THEN values[1 + Min({(p * Len(values)) \div Steps, Len(values) - 1})] * Steps
     ELSE values[lo + 1] * Steps + (values[lo + 2] - values[lo + 1]) * (p * span - lo * Steps)

(* int() rounds to zero, and a count is not negative; two decimals and a   *)
(* year are rounded too.                                                   *)
Trunc(x) == IF x >= 0 THEN x \div Steps ELSE -((-x) \div Steps)
YearLength == 2
Render(f, x, as_year) ==
  CASE NumericColumns[f].render = "money" -> (x + Steps \div 2) \div Steps
    [] NumericColumns[f].render = "date" -> IF as_year THEN Trunc(x) \div YearLength ELSE Trunc(x)
    [] OTHER -> Max({0, Trunc(x)})

BoundsAsDrawn(p, q) == <<p, q>>   \* mutant: not sorted
Bounds(p, q) == <<Min({p, q}), Max({p, q})>>
Draws == 0 .. Steps - 1
AsYear(f) == IF NumericColumns[f].render = "date" THEN BOOLEAN ELSE {FALSE}
Threshold(c, f, p, as_year) == Render(f, Quantile(c, NumericColumns[f].column, p), as_year)
TwoSided(c, f) ==
  {[family |-> f, year |-> y, lo |-> Threshold(c, f, Bounds(p, q)[1], y), hi |-> Threshold(c, f, Bounds(p, q)[2], y)] :
     p \in Draws, q \in Draws, y \in AsYear(f)}
OneSided(c, f) == {[family |-> f, year |-> y, at |-> Threshold(c, f, p, y)] : p \in Draws, y \in AsYear(f)}
NumericPredicates(c, f, sh) ==
  (IF sh.bounded # FALSE THEN TwoSided(c, f) ELSE {}) \cup (IF sh.bounded # TRUE THEN OneSided(c, f) ELSE {})

Predicates(c, f, m, sh) ==
  IF f \in StaticFamilies THEN {[family |-> f]}
  ELSE IF f \in DOMAIN NumericColumns THEN NumericPredicates(c, f, sh)
  ELSE {[family |-> f, word |-> w] : w \in UNION VocabChoices(c, f, m)}

(***************************************************************************)
(* Queries                                                                 *)
(***************************************************************************)
Narrow(table, allowed) ==
  IF allowed = Unrestricted THEN table ELSE [k \in DOMAIN table \cap allowed |-> table[k]]
Pool == DOMAIN Narrow(FamilyTable(corpus), shape.families)

(* Shape(): names that do not exist and counts below one are refused.      *)
ShapeIsValid(sh) ==
  /\ sh.families = Unrestricted \/ sh.families \subseteq Families
  /\ sh.structures = Unrestricted \/ sh.structures \subseteq DOMAIN Structures
  /\ sh.predicates = 0 \/ sh.predicates >= 1

NoQuery == [pc |-> "none"]

SamplerInit ==
  /\ corpus \in Corpora /\ mode \in MODES
  /\ shape \in {sh \in Shapes : ShapeIsValid(sh)}
  /\ query = NoQuery

(* structured_query(), and query() as the structure "flat".                *)
Begin(structure, arity) ==
  query' = [pc |-> "draw", structure |-> structure, arity |-> arity, drawn |-> <<>>, tries |-> 0, parts |-> <<>>]
ChooseStructure ==
  /\ query.pc = "none"
  /\ \/ \E s \in DOMAIN Narrow(Structures, shape.structures) \ {"regex"} : Begin(s, Structures[s])
     \/ /\ "regex" \in DOMAIN Narrow(Structures, shape.structures)
        /\ \E anchors \in {0, 1} : Begin("regex", anchors)
     \/ \E n \in IF shape.predicates # 0 THEN {shape.predicates} ELSE 1 .. 2 : Begin("flat", n)
  /\ UNCHANGED <<corpus, mode, shape>>

(* _draw_families(): one more draw, which counts whether it is new or not. *)
MoreToDraw ==
  /\ query.tries < query.arity * MAX_FAMILY_DRAWS
  /\ Len(query.drawn) # query.arity /\ Len(query.drawn) # Cardinality(Pool)
Accept(f) == IF f \in ToSet(query.drawn) THEN query.drawn ELSE Append(query.drawn, f)
DrawFamily ==
  /\ query.pc = "draw" /\ MoreToDraw
  /\ \E f \in Possible(Weights(Narrow(FamilyTable(corpus), shape.families), mode)) :
       query' = [query EXCEPT !.tries = @ + 1, !.drawn = Accept(f)]
  /\ UNCHANGED <<corpus, mode, shape>>

(* A structure that is short of a family becomes a conjunction.            *)
SettledAsDrawn(q) == q   \* mutant: the template is formatted as it is
Settled(q) == IF q.structure \notin {"flat", "regex"} /\ Len(q.drawn) < q.arity
              THEN [q EXCEPT !.structure = "and", !.arity = Len(q.drawn)] ELSE q
EndDraw ==
  /\ query.pc = "draw" /\ ~MoreToDraw
  /\ query' = [Settled(query) EXCEPT !.pc = "parts"]
  /\ UNCHANGED <<corpus, mode, shape>>

DrawPredicate ==
  /\ query.pc = "parts" /\ Len(query.parts) < Len(query.drawn)
  /\ \E x \in Predicates(corpus, query.drawn[Len(query.parts) + 1], mode, shape) :
       query' = [query EXCEPT !.parts = Append(@, x)]
  /\ UNCHANGED <<corpus, mode, shape>>

QueryIsReady == query.pc = "parts" /\ Len(query.parts) = Len(query.drawn)
SamplerStep == ChooseStructure \/ DrawFamily \/ EndDraw \/ DrawPredicate

(***************************************************************************)
(* Properties                                                              *)
(***************************************************************************)
(* "They differ ONLY in weights, never in what can be produced": a query   *)
(* one mode can give is one the other can give, of this corpus.            *)
ModesReachTheSame ==
  /\ \A f \in Vocabularies : VocabChoices(corpus, f, "realistic") = VocabChoices(corpus, f, "uniform")
  /\ Possible(Weights(FamilyTable(corpus), "realistic")) = Possible(Weights(FamilyTable(corpus), "uniform"))

(* The template of a finished query has as many places as there are        *)
(* predicates, no two of one family, and all of families that the shape    *)
(* asks for and the corpus has values of.                                  *)
QueriesFillTheirTemplate ==
  QueryIsReady =>
    /\ query.structure \notin {"flat", "regex"} => Len(query.parts) = query.arity
    /\ IsInjective([i \in DOMAIN query.parts |-> query.parts[i].family])
    /\ {query.parts[i].family : i \in DOMAIN query.parts} \subseteq Pool

(* Rounding does not turn a range around, and no threshold is outside of   *)
(* the values that the column has.                                         *)
RangesAreSound ==
  QueryIsReady => \A i \in DOMAIN query.parts :
    LET x == query.parts[i]
        values == Sorted(corpus, NumericColumns[x.family].column)
        least == Render(x.family, values[1] * Steps, x.year)
        most == Render(x.family, values[Len(values)] * Steps, x.year)
    IN x.family \in DOMAIN NumericColumns =>
         IF "lo" \in DOMAIN x THEN least <= x.lo /\ x.lo <= x.hi /\ x.hi <= most
         ELSE least <= x.at /\ x.at <= most

(* The sampler's queries are well formed in every shape, and the two modes *)
(* are of the same queries.                                                *)
SamplerSound == ModesReachTheSame /\ QueriesFillTheirTemplate /\ RangesAreSound
=============================================================================
