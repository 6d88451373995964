--------------------------- MODULE MCContextFiles ----------------------------
(* Instances of ContextFiles for TLC. *)
EXTENDS ContextFiles

CONSTANTS c1, c2, c3

Job(c, script, slug) ==
  [script |-> script, slug |-> slug, accepted |-> TRUE, item |-> <<c, 0>>, gaps |-> {}, kept |-> FALSE]

SomeTheme(slug) ==
  [slug |-> slug, context |-> FALSE, build |-> FALSE, behavior |-> FALSE, noun |-> FALSE,
   body |-> FALSE, outcome |-> FALSE, labelled |-> {}, phrased |-> {}, captures |-> TRUE, files |-> TRUE]

(* Software by its title, by what it does, context, and what the scripts       *)
(* refuse: a text that starts with "--", an idea that does.                    *)
Screen  == [SomeTheme("a") EXCEPT !.noun = TRUE, !.labelled = {"problem", "menu"}, !.phrased = {"person"}]
Flow    == [SomeTheme("a") EXCEPT !.body = TRUE, !.outcome = TRUE, !.phrased = {"result", "context"}]
Vision  == [SomeTheme("b") EXCEPT !.context = TRUE, !.noun = TRUE]
Rule    == [SomeTheme("b") EXCEPT !.build = TRUE, !.captures = FALSE]
Ruled   == [SomeTheme("b") EXCEPT !.build = TRUE, !.context = TRUE, !.files = FALSE]
Text(themes) == [blank |-> FALSE, sensitive |-> FALSE, themes |-> themes]
Importer(local, parent) == [script |-> "import", local |-> local, parent |-> parent]

SpecScenarios ==
  {(c1 :> Job(c1, "specify", "a") @@ c2 :> Job(c2, "specify", "b") @@ c3 :> Job(c3, "specify", "a")),
   (c1 :> Job(c1, "capture", "a") @@ c2 :> Job(c2, "capture", "a") @@ c3 :> Job(c3, "capture", "b")),
   (c1 :> Job(c1, "backlog", "a") @@ c2 :> Job(c2, "backlog", "a") @@ c3 :> Job(c3, "backlog", "b")),
   (c1 :> Importer(Text(<<Screen, Vision>>), NoText)
      @@ c2 :> Importer(NoText, Text(<<Flow>>)) @@ c3 :> Job(c3, "specify", "a")),
   (c1 :> Importer(Text(<<Flow, Rule>>), Text(<<Screen>>))
      @@ c2 :> Job(c2, "capture", "a") @@ c3 :> Job(c3, "backlog", "a")),
   (c1 :> Importer(Text(<<Vision, Ruled>>), NoText) @@ c2 :> Importer(NoText, NoText)
      @@ c3 :> [Job(c3, "specify", "b") EXCEPT !.accepted = FALSE]),
   (c1 :> Importer([Text(<<Screen>>) EXCEPT !.sensitive = TRUE], Text(<<Flow>>))
      @@ c2 :> Importer([Text(<<>>) EXCEPT !.blank = TRUE], NoText)
      @@ c3 :> Job(c3, "capture", "b"))}

ContextRun(script) ==
  [script |-> script, accepted |-> TRUE, row |-> <<"row", "price">>, section |-> "data", constitution |-> FALSE]
Refused  == [ContextRun("rule") EXCEPT !.accepted = FALSE]
Database == <<Note("1"), Opens("conversation"), <<"row", "load">>, Ends("conversation"), Note("2"),
              Opens("database"), <<"generated", "old">>, Ends("database"), Note("3")>>
Rules    == <<Note("1"), <<"heading", "data">>, Note("2"), <<"heading", "code">>, Note("3")>>
Readme   == <<Note("1"), Opens("documentator"), <<"generated", "old">>, Ends("documentator"), Note("2")>>
Torn     == <<Note("1"), Opens("speckit"), Note("2")>>

(* A row for each pattern, one that starts as the header does, and a rule with another in it. *)
Dollars == <<"row", "a">> :> "dollar" @@ <<"row", "b">> :> "found" @@ <<"row", "c">> :> "before" @@ <<"row", "d">> :> "behind"
Header  == <<"row", "header">>
Longer  == <<"row", "price and load">>
Priced  == <<Note("1"), Opens("conversation"), <<"row", "a">>, <<"row", "c">>, Ends("conversation"), Note("2")>>

ContextScenarios ==
  {[runs |-> c1 :> ContextRun("database") @@ c2 :> ContextRun("register")
             @@ c3 :> [ContextRun("register") EXCEPT !.row = <<"row", "load">>],
    docs |-> "DATABASE.md" :> Database],
   [runs |-> c1 :> ContextRun("build") @@ c2 :> ContextRun("check") @@ c3 :> ContextRun("build"),
    docs |-> "docs/README.md" :> Readme],
   [runs |-> c1 :> ContextRun("stack") @@ c2 :> ContextRun("stack") @@ c3 :> ContextRun("rule"),
    docs |-> "STACK.md" :> <<Note("1")>>],
   [runs |-> c1 :> ContextRun("rule") @@ c2 :> [ContextRun("rule") EXCEPT !.row = Longer]
             @@ c3 :> [ContextRun("rule") EXCEPT !.section = "more"],
    docs |-> "RULES.md" :> Rules],
   [runs |-> c1 :> [ContextRun("register") EXCEPT !.row = <<"row", "d">>]
             @@ c2 :> ContextRun("register") @@ c3 :> Refused,
    docs |-> "DATABASE.md" :> Priced],
   [runs |-> c1 :> [ContextRun("register") EXCEPT !.row = <<"row", "b">>]
             @@ c2 :> [ContextRun("register") EXCEPT !.row = Header] @@ c3 :> Refused,
    docs |-> <<>>],
   [runs |-> c1 :> [ContextRun("setup") EXCEPT !.constitution = TRUE] @@ c2 :> Job(c2, "specify", "a")
             @@ c3 :> Refused,
    docs |-> "RULES.md" :> Rules @@ "AGENTS.md" :> <<Note("1")>>],
   [runs |-> c1 :> [ContextRun("setup") EXCEPT !.constitution = TRUE] @@ c2 :> ContextRun("register")
             @@ c3 :> ContextRun("stack"),
    docs |-> "SPECKIT.md" :> Torn]}

EveryScenario == {[runs |-> r, docs |-> <<>>] : r \in SpecScenarios} \cup ContextScenarios

HeaderRows == {Header}
Phrases    == {<<Longer, <<"row", "price">>>>}

Finished == {<<"planned", 1, "a">>}
=============================================================================
