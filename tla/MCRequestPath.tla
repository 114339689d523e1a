--------------------------- MODULE MCRequestPath ---------------------------
(* Instances of RequestPath.  A script is one or two kinds of request; the *)
(* pairs are those that differ in one thing a response may depend on.      *)
EXTENDS RequestPath

Arcane == <<"Arcane.example", "arcane.example">>
ArcaneLower == <<"arcane.example", "arcane.example">>
Sylvan == <<"sylvan.example", "sylvan.example">>

None0 == [n \in {} |-> Text(<<>>)]
Get(path) == [path |-> path, method |-> "GET", params |-> None0, accept |-> {}, host |-> Arcane, proxy |-> <<>>]
With(req, name, value) == [req EXCEPT !.params = Merge([n \in {name} |-> value], @)]

Goblins == With(Get(<<"search">>), "q", Text(<<"goblin">>))
AnyEncoding == {<<"gzip", "1.0">>, <<"br", "0.5">>}
RootPage == With(Get(<<>>), "q", Text(<<"goblin">>))
Operation == Get(<<"ingest_cubecobra">>)

Pairs ==
  { {Goblins, [Goblins EXCEPT !.accept = AnyEncoding]},
    {Goblins, Operation},
    {[Get(<<>>) EXCEPT !.proxy = Sylvan], [Get(<<>>) EXCEPT !.host = ArcaneLower]},
    {RootPage, Operation},
    {Get(<<"card", "neo", "1">>), [Get(<<"card", "neo", "1">>) EXCEPT !.host = ArcaneLower]} }

Singles ==
  { Get(p) : p \in UNION {h.paths : h \in Handlers} } \cup
  { Get(p) : p \in {<<"robots.txt", "x">>, <<"static", "x">>, <<"setup_schema", "x">>, <<"nowhere">>,
                    <<"card", "neo", "1", "2">>} } \cup
  { [Get(p) EXCEPT !.method = "POST"] : p \in {<<"search">>, <<"ingest_cubecobra">>, <<"nowhere">>} } \cup
  { With(Goblins, pair[1], pair[2]) :
      pair \in { <<"limit", Text(<<"-1">>)>>, <<"limit", Text(<<"many">>)>>, <<"limit", List(<<"1", "2">>)>>,
                 <<"fields", Text(<<"name", "", "set_code">>)>>, <<"fields", Text(<<"">>)>>,
                 <<"fields", List(<<"name", "name">>)>>, <<"fields", Text(<<"colour">>)>>,
                 <<"orderby", Text(<<"usd">>)>>, <<"orderby", List(<<"usd", "cmc">>)>>,
                 <<"shape", Text(<<"columnar">>)>>, <<"query", Text(<<"cmc+1">>)>>,
                 <<"falcon_response", Text(<<"x">>)>>, <<"noise", Text(<<"x">>)>>, <<"noise", List(<<"x", "y">>)>>} } \cup
  { With(RootPage, "query", Text(<<"cmc+1">>)), With(RootPage, "unique", Text(<<"set">>)),
    With(Get(<<>>), "q", List(<<"a", "b">>)),
    With(Get(<<"random_search">>), "num_cards", Text(<<"2">>)),
    With(Get(<<"card", "neo">>), "set_code", Text(<<"dmu">>)),
    With(Get(<<"import_card_by_name">>), "card_name", Text(<<"">>)),
    [Goblins EXCEPT !.method = "HEAD", !.accept = {<<"zstd", "0">>, <<"deflate", "1">>}] }

Calm == [script |-> {}, sends |-> 1, enabled |-> TRUE, shared |-> TRUE, faults |-> {}, crashes |-> 0,
         stops |-> FALSE, works |-> "works"]
AllFaults == {"refuse", "break", "unacknowledged", "connect", "credentials"}

(* Every route alone; two requests of a pair on the shared file or on a   *)
(* private cache, with a crash; a log under fire.                          *)
McScenarios ==
  { [Calm EXCEPT !.script = {req}, !.works = works] : req \in Singles, works \in DOMAIN Failures \cup {"works"} } \cup
  { [Calm EXCEPT !.script = pair, !.sends = 2, !.shared = shared, !.crashes = 1] : pair \in Pairs, shared \in BOOLEAN } \cup
  { [Calm EXCEPT !.script = {Goblins}, !.sends = 3, !.enabled = FALSE, !.faults = AllFaults, !.stops = TRUE] } \cup
  { [Calm EXCEPT !.script = {Get(<<"random_search">>)}, !.sends = 2] }

OperationScenarios == { [Calm EXCEPT !.script = {Operation}, !.sends = 2] }
=============================================================================
