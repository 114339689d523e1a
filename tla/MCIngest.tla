------------------------------ MODULE MCIngest ------------------------------
(* Two worker processes on a few cards.                                    *)
EXTENDS Ingest

MCProcs == {"w1", "w2"}
MCKeys == {"default_cards", "oracle_tags"}

Printing(id, oracle, name, types) ==
  [k \in {"id", "oracle_id", "name", "type_line", "legalities", "games", "rarity", "collector_number", "mana_cost"} |->
     CASE k = "id" -> id [] k = "oracle_id" -> oracle [] k = "name" -> name [] k = "type_line" -> types
       [] k = "legalities" -> {"legal"} [] k = "games" -> {"paper"} [] k = "rarity" -> "rare"
       [] k = "collector_number" -> "7a" [] OTHER -> "{1}{G}"]
With(card, key, value) == Over([k \in {key} |-> value], card)

Bear == With(With(Printing("s1", "o1", <<"Bear">>, <<{"Creature"}, {}>>), "power", "2"), "watermark", "mirran")
Bear2 == With(Printing("s2", "o1", <<"Bear">>, <<{"Creature"}, {}>>), "power", "1.5")
(* An erratum: the same printing is an artifact now, without a cost.        *)
BearStatue == Without(Printing("s1", "o1", <<"Bear">>, <<{"Artifact"}, {}>>), "mana_cost")
Token == Printing("s9", "o9", <<"Bear">>, <<{"Token", "Creature"}, {}>>)
Face(name, types) == [k \in {"name", "type_line"} |-> IF k = "name" THEN name ELSE types]
Turncoat == With(Printing("s3", "o3", <<"Cub", "Den">>, <<{"Creature"}, {}>>), "card_faces",
                 <<With(Face(<<"Cub">>, <<{"Creature"}, {}>>), "power", "2"), Face(<<"Den">>, <<{"Land"}, {}>>)>>)
Odd == With(Bear2, "rarity", "unheard-of")

MCCards == {Bear, Bear2, BearStatue, Token, Turncoat, Odd}

Tag(id, slug, parents, on) == [id |-> id, slug |-> slug, parents |-> parents, tags |-> on]
Ramp == <<Tag(1, "ramp", {}, {}), Tag(2, "dork", {1}, {"o3"}), Tag(3, "elf", {2, 7}, {"o1"})>>
Ramp2 == <<Tag(1, "ramp", {3}, {}), Tag(3, "land", {}, {"o3"}), Tag(4, "own", {4}, {})>>
Loop == <<Tag(1, "ramp", {2}, {}), Tag(2, "dork", {1}, {"o3"})>>

M(name, sha) == [name |-> name, sha |-> sha]
Files == <<M("a", 1), M("b", 2)>>
MoreFiles == Files \o <<M("c", 3)>>
Edited == <<M("a", 1), M("b", 4), M("c", 3)>>

Jobs(a, b) == [p \in MCProcs |-> IF p = "w1" THEN a ELSE b]
Quiet == [jobs |-> Jobs(<<>>, <<>>), cards |-> <<<<Bear, Token, Turncoat>>>>, tags |-> <<Ramp>>, before |-> <<>>,
          applied |-> Files, deploys |-> <<Files>>, appended |-> TRUE, faults |-> 0,
          isTags |-> <<"bear", "promo", "historic">>,
          kinds |-> [t \in {"bear", "promo", "historic"} |-> IF t = "bear" THEN "card" ELSE IF t = "promo" THEN "printing" ELSE "custom"],
          search |-> [q \in {"bear", "promo", "historic", "search", "name"} |->
                        CASE q = "bear" -> <<<<Bear>>, <<Turncoat>>>> [] q = "promo" -> <<<<Bear2>>>>
                          [] q = "historic" -> <<>> [] q = "search" -> <<<<Bear>>, <<Bear2>>>> [] OTHER -> <<<<Turncoat>>>>],
          name |-> <<"Cub", "Den">>,
          cube |-> <<[o \in {"o1"} |-> 9], [o \in {"o3", "o8"} |-> 5]>>]

(* What deployments, imports, tag imports and the other operations meet.   *)
Deployments ==
  <<[Quiet EXCEPT !.jobs = Jobs(<<"setup">>, <<"setup">>), !.applied = <<>>, !.deploys = <<Files, MoreFiles, MoreFiles>>, !.faults = 1]>>

TwoDumps == <<<<Bear, Token, Turncoat>>, <<BearStatue, Bear2, Turncoat>>>>
Imports ==
  <<[Quiet EXCEPT !.jobs = Jobs(<<"import">>, <<"ready", "ready">>), !.faults = 1],
    [Quiet EXCEPT !.jobs = Jobs(<<"import", "import">>, <<"ready">>), !.before = <<Bear, Bear2>>, !.cards = TwoDumps, !.tags = <<Ramp, Ramp2>>],
    [Quiet EXCEPT !.jobs = Jobs(<<"import">>, <<"import">>), !.deploys = <<Files, Files>>],
    [Quiet EXCEPT !.jobs = Jobs(<<"import">>, <<"name", "name">>), !.cards = <<<<Bear, Odd>>>>],
    [Quiet EXCEPT !.jobs = Jobs(<<"import">>, <<"name">>), !.cards = <<<<Token>>>>]>>

TagImport(tags) ==
  [Quiet EXCEPT !.jobs = Jobs(<<"tags", "tags">>, <<"tags">>), !.before = <<Bear, Turncoat>>, !.tags = tags,
                !.cards = <<<<>>, <<>>>>]
TagImports == <<TagImport(<<Ramp, Ramp2>>), TagImport(<<Loop, Ramp>>),
                [TagImport(<<Ramp>>) EXCEPT !.jobs = Jobs(<<"tags">>, <<"tags">>), !.faults = 1, !.cards = <<<<>>>>]>>

Operation(other) ==
  [Quiet EXCEPT !.jobs = Jobs(<<"istags">>, <<other>>), !.before = <<Bear, Bear2, Turncoat>>, !.faults = 1]
Operations ==
  <<Operation("search"), Operation("cubecobra"), Operation("import"),
    [Quiet EXCEPT !.jobs = Jobs(<<"cubecobra">>, <<"import">>), !.before = <<Bear, Turncoat>>, !.faults = 1,
                  !.cards = <<<<Bear, Bear2, Turncoat>>>>],
    [Quiet EXCEPT !.jobs = Jobs(<<"cubecobra">>, <<"search">>), !.before = <<Bear>>, !.cube = <<>>]>>

(* Every graph of three tags, and every graph of four with a parent each.  *)
Slug(n) == <<"a", "b", "c", "d">>[n]
Graph(parents) == [n \in DOMAIN parents |-> Tag(n, Slug(n), parents[n], {})]
Parents == [1 .. 3 -> SUBSET (1 .. 3)] \cup [1 .. 4 -> {{}} \cup {{n} : n \in 1 .. 5}]

Listed == Deployments \o Imports \o TagImports \o Operations
MCScenarios ==
  [w \in ({"listed"} \X (DOMAIN Listed)) \cup ({"graph"} \X Parents) |->
     IF w[1] = "listed" THEN Listed[w[2]] ELSE [Quiet EXCEPT !.tags = <<Graph(w[2])>>]]
EditedScenarios ==
  <<[Quiet EXCEPT !.jobs = Jobs(<<"setup">>, <<>>), !.applied = <<>>, !.deploys = <<MoreFiles, Edited>>, !.appended = FALSE]>>
=============================================================================
