------------------------------ MODULE Dispatch ------------------------------
(***************************************************************************)
(* From a request to a response, without the middlewares: the route table  *)
(* of api/utils/routing.py and APIResource.__init__, path resolution and   *)
(* error mapping of APIResource._handle, and what every handler answers.   *)
(*                                                                         *)
(* A path is the sequence of its segments.  The cards are the number of    *)
(* operations that changed them, 0 before the first import.  A body says   *)
(* which page it is and what it was computed from; the texts are left out. *)
(***************************************************************************)
EXTENDS ParamBinding, FiniteSets

(* @route: GET implies HEAD.                                               *)
Methods(declared) == declared \cup (IF "GET" \in declared THEN {"HEAD"} ELSE {})
Route(name, paths, params) ==
  [name |-> name, paths |-> paths, params |-> params, methods |-> Methods({"GET"}),
   varargs |-> FALSE, varkw |-> TRUE]

Keyword(name, hint) == Parameter(name, hint, FALSE, TRUE)
FalconResponse == Keyword("falcon_response", <<"Response", "None">>)
RequestHost == Keyword("request_host", <<"str">>)
SearchParams ==
  <<FalconResponse, Keyword("direction", <<"SortDirection">>), Keyword("fields", <<"Sequence[str]", "None">>),
    Keyword("limit", <<"int">>), Keyword("orderby", <<"CardOrdering">>), Keyword("prefer", <<"PreferOrder">>),
    Keyword("q", <<"str", "None">>), Keyword("query", <<"str", "None">>),
    Keyword("shape", <<"ResponseShape">>), Keyword("unique", <<"UniqueOn">>)>>
RootParams ==
  <<FalconResponse, RequestHost, Keyword("q", <<"str", "None">>), Keyword("query", <<"str", "None">>),
    Keyword("orderby", <<"CardOrdering", "None">>), Keyword("direction", <<"SortDirection", "None">>),
    Keyword("unique", <<"UniqueOn", "None">>), Keyword("prefer", <<"PreferOrder", "None">>)>>
CardParams ==
  <<Parameter("set_code", <<"str">>, TRUE, TRUE), Parameter("collector_number", <<"str">>, TRUE, TRUE),
    RequestHost, FalconResponse>>

(* Files served as text by _serve_static_file, and as bytes.               *)
StaticFiles ==
  { Route("styles_css", {<<"static", "styles.css">>}, <<FalconResponse>>),
    Route("app_js", {<<"static", "app.js">>}, <<FalconResponse>>),
    Route("app_min_js", {<<"static", "app.min.js">>}, <<FalconResponse>>),
    Route("card_js", {<<"static", "card.js">>}, <<FalconResponse>>),
    Route("robots_txt", {<<"robots.txt">>}, <<FalconResponse>>),
    Route("prefer_score_tuner", {<<"prefer_score_tuner">>}, <<FalconResponse>>) }
BinaryFiles ==
  { Route("favicon_ico", {<<"favicon.ico">>, <<"static", "favicon.ico">>}, <<FalconResponse>>),
    Route("social_preview_webp", {<<"static", "social-preview.webp">>}, <<FalconResponse>>) }

(* Handlers that change the schema or the cards.                           *)
Operations ==
  { [Route("setup_schema", {<<"setup_schema">>}, <<>>) EXCEPT !.varargs = TRUE] } \cup
  { Route(name, {<<name>>}, <<>>) :
      name \in {"import_data", "backfill_prefer_scores", "backfill_cubecobra_scores", "ingest_cubecobra",
                "import_oracle_tags", "import_art_tags", "import_all_is_tags"} } \cup
  { Route("import_card_by_name", {<<"import_card_by_name">>},
          <<Parameter("card_name", <<"str">>, FALSE, FALSE)>>),
    Route("import_cards_by_search", {<<"import_cards_by_search">>},
          <<Parameter("search_query", <<"str">>, FALSE, FALSE)>>) }
IsOperation(h) == h \in Operations

Reports ==
  { Route(name, {<<name>>}, <<>>) :
      name \in {"get_migrations", "get_common_keywords", "discover_is_tags_from_syntax"} } \cup
  { Route("get_catalog", {<<"get_catalog">>}, <<FalconResponse>>),
    Route("get_pid", {<<"get_pid">>}, <<FalconResponse>>) }

Search == [Route("search", {<<"search">>}, SearchParams) EXCEPT !.varkw = FALSE]
Root == Route("_root", {<<"_root">>}, RootParams)
RedirectToRoot == Route("_redirect_to_root", {<<"index">>, <<"index.html">>}, <<>>)
Card == Route("card", {<<"card">>}, CardParams)
RandomSearch ==
  Route("random_search", {<<"random_search">>},
        <<FalconResponse, Keyword("num_cards", <<"int">>), Keyword("shape", <<"ResponseShape">>)>>)

Handlers == {Search, Root, RedirectToRoot, Card, RandomSearch} \cup StaticFiles \cup BinaryFiles
            \cup Operations \cup Reports

(* APIResource.__init__ raises a RuntimeError for a path claimed twice.    *)
ASSUME RoutesDisjoint == \A h, k \in Handlers : h # k => h.paths \cap k.paths = {}

Nothing == [name |-> "nothing"]
RouteTable == [path \in UNION {h.paths : h \in Handlers} |-> CHOOSE h \in Handlers : path \in h.paths]
HandlerAt(path) == IF path \in DOMAIN RouteTable THEN RouteTable[path] ELSE Nothing

(* _max_positional_args: a handler with *args takes any number.            *)
Absorbs(h, n) == h.varargs \/ n <= Len(PositionalNames(h))

(* _resolve_action: a flat path first, then the first word with the rest   *)
(* as arguments.                                                           *)
ResolveAction(path) ==
  LET word == HandlerAt(<<path[1]>>)
  IN IF HandlerAt(path) # Nothing THEN [handler |-> HandlerAt(path), args |-> <<>>]
     ELSE IF word # Nothing /\ Absorbs(word, Len(path) - 1)
          THEN [handler |-> word, args |-> [i \in 1 .. Len(path) - 1 |-> Text(<<path[i + 1]>>)]]
     ELSE [handler |-> Nothing, args |-> <<>>]

-----------------------------------------------------------------------------
(* Responses.  cards is the media's card count, None where the media is    *)
(* not a dictionary; site is the name of the page's host; shows the number *)
(* of the operation whose cards are shown.                                 *)
None == -1
Body(page) == [page |-> page, size |-> "long", site |-> <<>>, shows |-> None, with |-> <<>>]
Reply(status, control, body, cards) ==
  [status |-> status, control |-> control, body |-> body, cards |-> cards, encoding |-> "identity"]

(* json_error_serializer: an error is a dictionary without cards.          *)
Error(status, control) == Reply(status, control, [Body("error") EXCEPT !.size = "short"], 0)
Page(control, body) == Reply(200, control, body, None)

Sent(args, n) == args[n].t # "default"
QueryOf(args) ==
  IF Sent(args, "query") /\ args["query"].v # <<"">> THEN args["query"].v
  ELSE IF Sent(args, "q") THEN args["q"].v ELSE <<"">>

(* parse_scryfall_query and the engine's or PostgreSQL's complaints.       *)
Malformed(query) == query = <<"cmc+1">>
ResultFields == {"name", "set_code", "oracle_text", "edhrec_rank"}

(* A repeated key arrives as a list, which neither binder converts and the *)
(* key of the search cache cannot hash.                                    *)
Hashed == {"direction", "orderby", "prefer", "unique"}
Unhashable(args) ==
  \/ \E n \in Hashed : args[n].t = "list"
  \/ args["query"].t = "list"
  \/ args["q"].t = "list" /\ (~ Sent(args, "query") \/ args["query"].v = <<"">>)

(* _search: what is refused, in the order of the code.                     *)
SearchError(args, cards) ==
  IF cards = 0 THEN 503
  ELSE IF Sent(args, "limit") /\ (args["limit"].t # "int" \/ args["limit"].v = <<"-1">>) THEN 400
  ELSE IF Sent(args, "fields") /\ (args["fields"].v = <<>> \/ ~ ToSet(args["fields"].v) \subseteq ResultFields) THEN 400
  ELSE IF Unhashable(args) \/ Malformed(QueryOf(args)) THEN 400 ELSE 0

(* The parameters a result depends on.                                     *)
Asked(args) ==
  <<QueryOf(args)>> \o
  [i \in 1 .. 6 |-> LET n == <<"direction", "fields", "limit", "orderby", "prefer", "unique">>[i]
                    IN IF n \in DOMAIN args /\ Sent(args, n) THEN args[n].v ELSE <<>>]

Shape(args) == IF args["shape"].t = "ResponseShape" THEN args["shape"].v ELSE <<"rows">>

SearchReply(args, cards) ==
  IF SearchError(args, cards) # 0 THEN Error(SearchError(args, cards), "public")
  ELSE Reply(200, "public", [Body("search") EXCEPT !.shows = cards, !.with = <<Shape(args)>> \o Asked(args)], cards)

(* _root serves the page without results when the search is refused, but   *)
(* lets a 503 and a TypeError through.                                     *)
RootReply(args, site, cards) ==
  LET page == [Body("index") EXCEPT !.site = site]
      searched == Merge(args, [n \in {"limit", "fields"} |-> Default(n)])
      error == SearchError(searched, cards)
  IN IF QueryOf(args) = <<"">> THEN Page("public", page)
     ELSE IF error = 503 THEN Error(503, "none")
     ELSE IF error = 400 THEN IF Unhashable(args) THEN Error(400, "none") ELSE Page("public", page)
     ELSE Page("public", [page EXCEPT !.shows = cards, !.with = Asked(searched)])

(* What may be wrong with a file, and the status of a text file for it.    *)
Failures == [missing |-> 404, forbidden |-> 403, broken |-> 500]

(* A text file that cannot be read is reported in the body, with the       *)
(* Cache-Control of the file; one read as bytes raises.                    *)
StaticReply(h, works) ==
  LET control == IF h.name \in {"robots_txt", "prefer_score_tuner"} THEN "none" ELSE "public"
  IN IF works = "works" THEN Page(control, Body(h.name))
     ELSE Reply(Failures[works], control, [Body(works) EXCEPT !.size = "short"], None)

BinaryReply(h, works) == IF works = "works" THEN Page("public", Body(h.name)) ELSE Error(500, "none")

CardReply(site) == Page("public", [Body("card") EXCEPT !.site = site])
Moved == Reply(301, "none", [Body("moved") EXCEPT !.size = "short"], None)

(* The number of cards is clamped to 1 .. 1000.                            *)
Clamped(args) == CASE args["num_cards"].v = <<"2">> -> 2 [] args["num_cards"].v = <<"100">> -> 100 [] OTHER -> 1
RandomReply(args, loaded) ==
  IF args["num_cards"].t = "list" THEN Error(400, "no-store")
  ELSE LET n == IF loaded THEN Clamped(args) ELSE 0
       IN Reply(200, "no-store", [Body("random") EXCEPT !.shows = n, !.with = <<Shape(args)>>], n)

(* An operation that fails, or lacks the name or query it is about,        *)
(* raises, and is a 500.                                                   *)
OperationReply(h, args, works) ==
  IF works = "works" /\ \A n \in DOMAIN args \cap {"card_name", "search_query"} : args[n].v # <<"">>
  THEN Reply(200, "none", [Body(h.name) EXCEPT !.size = "short"],
             IF h.name \in {"setup_schema", "import_data"} THEN None ELSE 0)
  ELSE Error(500, "none")

ReportReply(h, cards, loaded) ==
  CASE h.name = "get_pid" -> Reply(200, "no-store", [Body("pid") EXCEPT !.size = "short"], None)
    [] h.name = "get_catalog" ->
         IF ~ loaded THEN Error(503, "none") ELSE Reply(200, "public", [Body("catalog") EXCEPT !.shows = cards], 0)
    [] OTHER -> Page("none", [Body(h.name) EXCEPT !.shows = cards])

(* world: the cards, whether the engine has loaded them, and whether files *)
(* can be read and operations work or what is wrong with them.             *)
Answer(h, args, site, world) ==
  CASE h = Search -> SearchReply(args, world.cards)
    [] h = Root -> RootReply(args, site, world.cards)
    [] h = Card -> CardReply(site)
    [] h = RedirectToRoot -> Moved
    [] h = RandomSearch -> RandomReply(args, world.loaded)
    [] h \in StaticFiles -> StaticReply(h, world.works)
    [] h \in BinaryFiles -> BinaryReply(h, world.works)
    [] h \in Operations -> OperationReply(h, args, world.works)
    [] h \in Reports -> ReportReply(h, world.cards, world.loaded)

-----------------------------------------------------------------------------
(* X-Proxy-Host before Host, without regard to case.  A host is            *)
(* <<spelling, name>>: two spellings of one name are the same site.        *)
HostOf(req) == IF req.proxy # <<>> THEN req.proxy ELSE req.host
SiteName(host) == IF host = <<>> THEN <<>> ELSE <<host[2]>>

Injected(req) == [n \in {"falcon_response", "request_host"} |->
                    IF n = "falcon_response" THEN Object(n) ELSE Text(HostOf(req))]
Disallowed == {"falcon_response", "request_host"}

PathOf(req) == IF req.path = <<>> THEN <<"_root">> ELSE req.path
Resolved(req) == ResolveAction(PathOf(req)).handler
Arguments(req) ==
  LET found == ResolveAction(PathOf(req))
      kwargs == Merge(Injected(req), Only(req.params, DOMAIN req.params \ Disallowed))
  IN Called(found.handler, Bind(found.handler, found.args, kwargs))

Runs(req) == Resolved(req) # Nothing /\ req.method \in Resolved(req).methods /\ Arguments(req).error = "none"

(* _handle                                                                 *)
Handle(req, world) ==
  LET h == Resolved(req)
  IN IF h = Nothing THEN [Error(404, "none") EXCEPT !.body.size = "long"]
     ELSE IF req.method \notin h.methods THEN Error(405, "none")
     ELSE IF Arguments(req).error # "none" THEN Error(400, "none")
     ELSE Answer(h, Arguments(req).args, SiteName(HostOf(req)), world)
=============================================================================
