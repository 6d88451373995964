---------------------------- MODULE ContextFiles ----------------------------
(***************************************************************************)
(* The scripts that keep the documents of a project up to date, next to    *)
(* those of MvpImport: update_database.mjs, update_stack.mjs,              *)
(* registrar_dados_conversados.mjs, add_rule.mjs, build_documentation.mjs  *)
(* and setup_context.mjs with sync_speckit_context.mjs.  Each reads a      *)
(* document, replaces what is its own and writes the whole document back,  *)
(* without a lock: writeFile empties the file and then fills it.           *)
(***************************************************************************)
EXTENDS MvpImport, SequencesExt

CONSTANTS
  Scenarios,  \* what the calls of a behaviour run, and the documents at first
  Versions,   \* what the manifests, migrations and sources of the project say
  Patterns,   \* the rows with a pattern of String.replace, and which one it is
  Headers,    \* the rows that start as the header of their table does
  Wordings,   \* pairs of a piece and a rule whose words are in it
  MaxChanges  \* bound: changes of the project in a behaviour

Targets   == <<"docs/README.md", "PACKAGES.md">>              \* two of those of build_documentation.mjs
Templates == <<"STACK.md", "RULES.md", "DATABASE.md">>        \* those of setup_context.mjs others write
Docs      == {"DATABASE.md", "STACK.md", "RULES.md", "SPECKIT.md", "AGENTS.md",
              "docs/README.md", "PACKAGES.md"}
Blocks    == {"database", "conversation", "stack", "documentator", "framework", "speckit"}
Scripts   == {"database", "stack", "register", "rule", "build", "check", "setup"}

(* A call runs one script once; the rows and rules it is given have any shape. *)
ASSUME ScenariosAssumption ==
  \A s \in Scenarios :
    /\ s.runs = [c \in Calls |-> s.runs[c]]
    /\ \A c \in Calls : \/ s.runs[c] \in Jobs /\ s.runs[c].item = <<c, 0>>
                        \/ s.runs[c] \in Imports
                        \/ s.runs[c].script \in Scripts /\ s.runs[c].accepted \in BOOLEAN

(* A document is a sequence of pieces: people's notes, headings, the marks     *)
(* around the block of a script, what blocks list, and the text of a template. *)
(* The titles of new documents are left out.  A document that does not exist   *)
(* has no pieces and is not in `there`.                                        *)
Opens(b) == <<"start", b>>
Ends(b)  == <<"end", b>>
Note(x)  == <<"note", x>>

VARIABLES
  doc,     \* the pieces of every document
  there,   \* the documents that exist
  line,    \* how far each run is in what it has to write
  version, \* the project as each run has read it
  text,    \* the document as each run is going to write it
  stale,   \* the documents a check has found out of date
  project, \* what the project's manifests, migrations and sources say
  changes, \* changes of the project so far
  first,   \* for the properties: the documents at first
  damaged  \* for the properties: documents of overlapping or interrupted runs,
           \* and those a pattern in a row has put something into

contextVars == <<doc, there, line, version, text, stale, project, changes, first, damaged>>
allVars     == <<vars, contextVars>>

-----------------------------------------------------------------------------
(* What the scripts make of a text. *)

Where(t, piece)  == {i \in DOMAIN t : t[i] = piece}
Before(t, piece) == SubSeq(t, 1, Min(Where(t, piece)) - 1)
After(t, piece)  == SubSeq(t, Min(Where(t, piece)) + 1, Len(t))
Block(b, content)   == <<Opens(b)>> \o content \o <<Ends(b)>>

(* The pieces of t at places I, in their order. *)
Picked(t, I) ==
  LET upTo[n \in 0 .. Len(t)] ==
        IF n = 0 THEN <<>> ELSE IF n \in I THEN Append(upTo[n - 1], t[n]) ELSE upTo[n - 1]
  IN  upTo[Len(t)]
AllBut(t, piece) == Picked(t, {i \in DOMAIN t : t[i] # piece})

Appended(t, b, content) == t \o Block(b, content)

(* Mutant: the new block is put after the marks of the old one. *)
MergeAgain(t, b, content) == Appended(t, b, content)

(* merge: split(START)[0], the block, and what follows the first END. *)
Merge(t, b, content) ==
  IF Where(t, Opens(b)) # {} /\ Where(t, Ends(b)) # {}
  THEN Before(t, Opens(b)) \o Block(b, content) \o After(t, Ends(b))
  ELSE Appended(t, b, content)

(* Where the block is, from its mark to the first END that follows, what it    *)
(* lists, and what is behind it.                                               *)
From(t, b)     == Min(Where(t, Opens(b)))
Closings(t, b) == {j \in Where(t, Ends(b)) : j > From(t, b)}
To(t, b)       == Min(Closings(t, b))
HasBlock(t, b) == Where(t, Opens(b)) # {} /\ Closings(t, b) # {}
Rows(t, b)     == IF HasBlock(t, b) THEN SubSeq(t, From(t, b) + 1, To(t, b) - 1) ELSE <<>>
Behind(t, b)   == SubSeq(t, To(t, b) + 1, Len(t))

(* A row with a pattern in it, up to the pattern; it is still that information. *)
Begun(x) == <<"row", "begun", x>>

(* The rows registrar_dados_conversados.mjs keeps: not that of the same        *)
(* information, none that starts as the header does, and nothing but rows.     *)
Stays(x)     == x[1] = "row" /\ x \notin Headers
Kept(t, row) ==
  LET rows == Rows(t, "conversation") IN
  Picked(rows, {i \in DOMAIN rows : Stays(rows[i]) /\ rows[i] \notin {row, Begun(row)}})

(* String.replace takes "$$", "$&", "$`" and "$'" in a new row for a dollar,   *)
(* the block there was, and what is before and behind it.  What a row of two   *)
(* patterns becomes is left out.                                               *)
Spliced(x, t) ==
  LET b == "conversation" IN
  IF x \notin DOMAIN Patterns THEN <<x>>
  ELSE CASE Patterns[x] = "dollar" -> <<Begun(x)>>
         [] Patterns[x] = "found"  -> <<Begun(x)>> \o Block(b, Rows(t, b)) \o <<<<"rest", x>>>>
         [] Patterns[x] = "before" -> <<Begun(x)>> \o Before(t, Opens(b)) \o <<<<"rest", x>>>>
         [] Patterns[x] = "behind" -> <<Begun(x)>> \o Behind(t, b) \o <<<<"rest", x>>>>

(* The row of the same information is replaced, and the block with it.         *)
Splices(t, row) ==
  /\ HasBlock(t, "conversation")
  /\ \E x \in DOMAIN Patterns : x = row \/ Where(Kept(t, row), x) # {}
Register(t, row) ==
  LET b    == "conversation"
      rows == Kept(t, row) \o <<row>>
      new  == IF Splices(t, row) THEN FlattenSeq([i \in DOMAIN rows |-> Spliced(rows[i], t)]) ELSE rows
  IN IF HasBlock(t, b)
     THEN Before(t, Opens(b)) \o Block(b, new) \o Behind(t, b)
     ELSE Appended(t, b, rows)

(* Mutant: the stack is detected anew. *)
OldRowsForgotten(t) == <<>>

(* update_stack.mjs keeps the rows it has once detected. *)
OldRows(t) == IF Where(t, Opens("stack")) # {} /\ Where(t, Ends("stack")) # {}
                 THEN Rows(t, "stack") ELSE <<>>
Detected(t, v) == <<<<"row", v>>>> \o AllBut(OldRows(t), <<"row", v>>)

(* addRule: a rule whose words are anywhere in the text is not added; another  *)
(* goes to the end of its section, and a section that is not there to the end. *)
Saying(t, rule) == {i \in DOMAIN t : t[i] = rule \/ <<t[i], rule>> \in Wordings}
AddRule(t, section, rule) ==
  LET heading == <<"heading", section>>
      rest    == After(t, heading)
      later   == {i \in DOMAIN rest : rest[i][1] = "heading"}
      at      == IF later = {} THEN Len(t) ELSE Len(t) - Len(rest) + Min(later) - 1
  IN IF Saying(t, rule) # {} THEN t
     ELSE IF Where(t, heading) = {}
     THEN t \o <<heading, rule>>
     ELSE SubSeq(t, 1, at) \o <<rule>> \o SubSeq(t, at + 1, Len(t))

(* upsertManagedBlock: marks that do not match are refused. *)
Malformed(t) ==
  LET starts == Cardinality(Where(t, Opens("speckit")))
      ends   == Cardinality(Where(t, Ends("speckit")))
  IN starts # ends \/ starts > 1

(* People who edit a document take the marks around a block away together, if  *)
(* at all, and leave them in order.                                            *)
MarksInPairs(t, b) ==
  \/ Where(t, Opens(b)) = {} /\ Where(t, Ends(b)) = {}
  \/ \E i, j \in DOMAIN t : i < j /\ Where(t, Opens(b)) = {i} /\ Where(t, Ends(b)) = {j}

(* A document is in order if all its marks are, and if what is between two of  *)
(* them is neither a note nor a mark: people write outside of the blocks.      *)
Plain(x)   == x[1] \notin {"note", "start", "end"}
Marks      == UNION {{Opens(b), Ends(b)} : b \in Blocks}
InOrder(t) ==
  /\ \A i \in DOMAIN t : Plain(t[i]) \/ t[i][1] = "note" \/ t[i] \in Marks
  /\ \A b \in Blocks :
       /\ MarksInPairs(t, b)
       /\ \A i \in Where(t, Opens(b)), j \in Where(t, Ends(b)) : \A k \in i + 1 .. j - 1 : Plain(t[k])

NoBlockTwice(t) == \A i, j \in DOMAIN t : t[i][1] = "start" /\ t[i] = t[j] => i = j

(* The documents are in order at first, but for a projection of Spec Kit whose *)
(* marks do not match, and a row or a rule somebody confirms is no mark and no *)
(* rest of a row that had a pattern.                                           *)
ASSUME DocumentsAssumption ==
  \A s \in Scenarios :
    /\ DOMAIN s.docs \subseteq Docs
    /\ \A d \in DOMAIN s.docs :
         LET t == s.docs[d] IN
         /\ t \in Seq(Range(t))
         /\ InOrder(t) \/ (d = "SPECKIT.md" /\ Malformed(t) /\ NoBlockTwice(t))
    /\ \A c \in Calls : s.runs[c].script \in {"register", "rule"} =>
                       s.runs[c].row[1] = "row" /\ s.runs[c].row[2] # "begun"
ASSUME ProjectAssumption == Versions # {} /\ MaxChanges \in Nat
ASSUME PatternsAssumption == Patterns \in [DOMAIN Patterns -> {"dollar", "found", "before", "behind"}]

-----------------------------------------------------------------------------
(* What each run has to write, in order.                                       *)
Write(d, how, b) == [doc |-> d, how |-> how, block |-> b]

Plan(r) ==
  CASE r.script = "database" -> <<Write("DATABASE.md", "block", "database")>>
    [] r.script = "stack"    -> <<Write("STACK.md", "stack", "stack")>>
    [] r.script = "register" -> <<Write("DATABASE.md", "register", "conversation")>>
    [] r.script = "rule"     -> <<Write("RULES.md", "rule", "rules")>>
    [] r.script \in {"build", "check"} ->
         [i \in DOMAIN Targets |-> Write(Targets[i], "block", "documentator")]
    [] r.script = "setup" ->
         [i \in DOMAIN Templates |-> Write(Templates[i], "create", "template")]
         \o (IF r.constitution THEN <<Write("SPECKIT.md", "speckit", "speckit")>> ELSE <<>>)
         \o <<Write("AGENTS.md", "block", "framework")>>

Now(c) == Plan(request[c])[line[c]]

(* The projection of Spec Kit lists the constitution and every file below      *)
(* specs/, with its kind and what is in it.                                    *)
Sources ==
  <<"sources", {<<"constitution">>}
               \cup {<<"Spec", n, specs[n].text>> : n \in {n \in DOMAIN specs : specs[n].text # "none"}}
               \cup {<<"file", "inbox", n, inbox[n].whole>> : n \in DOMAIN inbox}
               \cup {<<"file", "backlog", n, backlog[n].text>> : n \in DOMAIN backlog}>>

(* The templates of the stack and of the data have the block of their script. *)
Template(d, v) ==
  LET own == <<<<"template", d>>>> IN
  CASE d = "STACK.md"    -> Appended(own, "stack", <<<<"generated", v>>>>)
    [] d = "DATABASE.md" -> Appended(own, "database", <<<<"generated", v>>>>)
    [] OTHER             -> own

(* What a run that reads t is going to write. *)
Updated(c, t) ==
  LET w == Now(c) IN
  CASE w.how = "block"    -> Merge(t, w.block, <<<<"generated", version[c]>>>>)
    [] w.how = "stack"    -> Merge(t, "stack", Detected(t, version[c]))
    [] w.how = "register" -> Register(t, request[c].row)
    [] w.how = "rule"     -> AddRule(t, request[c].section, request[c].row)
    [] w.how = "create"   -> Template(w.doc, version[c])
    [] w.how = "speckit"  -> Merge(t, "speckit", <<Sources>>)

-----------------------------------------------------------------------------
Contextual(c) == request[c].script \in Scripts
InStep(c, d)  == Contextual(c) /\ pc[c] \in {"write", "fill"} /\ Now(c).doc = d

(* The loop over what there is to write goes on, or is over; a check fails if  *)
(* it has found a document out of date.                                        *)
Advance(c, found) ==
  IF line[c] < Len(Plan(request[c]))
  THEN line' = [line EXCEPT ![c] = @ + 1] /\ Go(c, "open")
  ELSE /\ Go(c, IF request[c].script = "check" /\ found # {} THEN "failed" ELSE "done")
       /\ UNCHANGED line

(* The manifests, migrations and sources are read before any document is.      *)
Detect(c) ==
  /\ Contextual(c) /\ At(c, "detect")
  /\ version' = [version EXCEPT ![c] = project]
  /\ Go(c, "open")
  /\ UNCHANGED <<doc, there, line, text, stale, project, changes, first, damaged>>

(* Mutant: setup_context.mjs writes every document. *)
NeverThere(c) == FALSE

(* existsSync: a document there is is not created. *)
AlreadyThere(c) == Now(c).how = "create" /\ Now(c).doc \in there

(* Only registrar_dados_conversados.mjs writes what does not change as well.   *)
NothingNew(c, new) == new = doc[Now(c).doc] /\ Now(c).how # "register"

(* A document is read; a check only notes what would change.                   *)
Open(c) ==
  /\ Contextual(c) /\ At(c, "open")
  /\ \E d \in {Now(c).doc} : \E new \in {Updated(c, doc[d])} :
        \/ /\ Now(c).how = "speckit" /\ Malformed(doc[d])
           /\ Go(c, "failed") /\ UNCHANGED <<line, text, stale, damaged>>
        \/ /\ ~(Now(c).how = "speckit" /\ Malformed(doc[d]))
           /\ IF AlreadyThere(c) \/ NothingNew(c, new)
              THEN Advance(c, stale[c]) /\ UNCHANGED <<text, stale, damaged>>
              ELSE IF request[c].script = "check"
              THEN /\ stale' = [stale EXCEPT ![c] = @ \cup {d}]
                   /\ Advance(c, stale[c] \cup {d}) /\ UNCHANGED <<text, damaged>>
              ELSE /\ text' = [text EXCEPT ![c] = new] /\ Go(c, "write")
                   /\ damaged' = IF \/ \E o \in Calls \ {c} : InStep(o, d)
                                    \/ Now(c).how = "register" /\ Splices(doc[d], request[c].row)
                                 THEN damaged \cup {d} ELSE damaged
                   /\ UNCHANGED <<line, stale>>
  /\ UNCHANGED <<doc, there, version, project, changes, first>>

(* writeFile empties the file, or makes it ...                                 *)
Empty(c) ==
  /\ Contextual(c) /\ At(c, "write")
  /\ doc' = [doc EXCEPT ![Now(c).doc] = <<>>] /\ there' = there \cup {Now(c).doc}
  /\ Go(c, "fill")
  /\ UNCHANGED <<line, version, text, stale, project, changes, first, damaged>>

(* ... and fills it. *)
Fill(c) ==
  /\ Contextual(c) /\ At(c, "fill")
  /\ doc' = [doc EXCEPT ![Now(c).doc] = text[c]]
  /\ Advance(c, stale[c])
  /\ UNCHANGED <<there, version, text, stale, project, changes, first, damaged>>

ContextStep(c) ==
  /\ Detect(c) \/ Open(c) \/ Empty(c) \/ Fill(c)
  /\ UNCHANGED <<fileVarsButPc, request, milestone, stage, theme, orphans>>

(* Somebody works on the project; it only matters to runs that document it.    *)
Develop ==
  /\ \E c \in Calls : Contextual(c)
  /\ changes < MaxChanges /\ changes' = changes + 1
  /\ \E v \in Versions \ {project} : project' = v
  /\ UNCHANGED <<vars, doc, there, line, version, text, stale, first, damaged>>

(* A run is killed; one that has emptied a document leaves it so. *)
KillRun(c) ==
  /\ Kill(c)
  /\ damaged' = damaged \cup {d \in Docs : InStep(c, d) /\ At(c, "fill")}
  /\ UNCHANGED <<doc, there, line, version, text, stale, project, changes, first>>

Init ==
  \E s \in Scenarios :
    /\ Start(s.runs)
    /\ doc = [d \in Docs |-> IF d \in DOMAIN s.docs THEN s.docs[d] ELSE <<>>]
    /\ there = DOMAIN s.docs
    /\ line = [c \in Calls |-> 1]
    /\ project = CHOOSE v \in Versions : TRUE
    /\ version = [c \in Calls |-> project]
    /\ text = [c \in Calls |-> <<>>] /\ stale = [c \in Calls |-> {}]
    /\ changes = 0 /\ damaged = {} /\ first = doc

Step(c) == (Script(c) /\ UNCHANGED contextVars) \/ ContextStep(c)

(* Everybody is through. *)
Over == (\A c \in Calls : ~Running(c)) /\ UNCHANGED allVars

Next ==
  \/ \E c \in Calls : Step(c) \/ KillRun(c)
  \/ Environment /\ UNCHANGED contextVars
  \/ Develop
  \/ Over

(* The system goes on with every process that runs; nobody has to move a       *)
(* package or to change the project, and nothing has to fail.                  *)
Spec == Init /\ [][Next]_allVars /\ \A c \in Calls : WF_allVars(Step(c))

-----------------------------------------------------------------------------
(* The type of every variable, those of SpecFiles and MvpImport included.      *)
TypeOK ==
  /\ FilesTypeOK
  /\ there \subseteq Docs /\ damaged \subseteq Docs
  /\ \A d \in Docs : doc[d] # <<>> => d \in there
  /\ \A c \in Calls : Contextual(c) => line[c] \in 1 .. Len(Plan(request[c])) /\ stale[c] \subseteq Docs
  /\ project \in Versions /\ changes \in 0 .. MaxChanges

(* Every script ends, even if one that holds the lock is killed: the others    *)
(* give up after the last attempt, and a name that is taken is not tried       *)
(* again.                                                                      *)
EveryScriptEnds == <>[](\A c \in Calls : ~Running(c))

Notes(t) == Picked(t, {i \in DOMAIN t : t[i][1] = "note"})
Whole(d) == d \notin damaged /\ \A c \in Calls : ~(InStep(c, d) /\ At(c, "fill"))

(* Whatever runs one after the other, in any order: what people have written   *)
(* around the blocks stays, in its order ("sem sobrescrever notas humanas",    *)
(* build_documentation.mjs:2; "sem sobrescrever material do usuário",          *)
(* setup_context.mjs:2), and no script has two blocks in a document.  Excepted *)
(* are runs that overlap on a document, one killed while it writes, and the    *)
(* patterns of String.replace in a row, which repeat notes and blocks.         *)
NotesStay ==
  \A d \in Docs : Whole(d) =>
    /\ Notes(doc[d]) = Notes(first[d])
    /\ NoBlockTwice(doc[d])

(* Nor does what a run has put into a document get lost in the runs of the     *)
(* other scripts: the information somebody has confirmed is listed once,       *)
(* unless it starts as the header does; the rule is said, and not twice unless *)
(* people had it twice; and the stack still lists what it was.                 *)
ConfirmedRowsStay ==
  \A c \in Calls : Contextual(c) /\ At(c, "done") /\ Whole(Now(c).doc) =>
    LET t   == doc[Now(c).doc]
        row == request[c].row
    IN CASE request[c].script = "register" ->
              Stays(row) => Cardinality(Where(Rows(t, "conversation"), row)) = 1
         [] request[c].script = "rule"  ->
              /\ Saying(t, row) # {}
              /\ Cardinality(Where(t, row)) <= 1 \/ Cardinality(Where(first[Now(c).doc], row)) > 1
         [] request[c].script = "stack" -> Where(Rows(t, "stack"), <<"row", version[c]>>) # {}
         [] OTHER -> TRUE

(* After a build, a check of the same project finds nothing out of date, even  *)
(* if the documents were built before and people have added to them: building  *)
(* again changes nothing.  Builds of another version of the project, and runs  *)
(* that overlapped, are excepted.                                              *)
BuiltIsUpToDate ==
  LET builds == {c \in Calls : request[c].script = "build"} IN
  (/\ \E c \in builds : At(c, "done")
   /\ \A c \in builds : At(c, "detect") \/ version[c] = project) =>
  \A i \in DOMAIN Targets :
    Whole(Targets[i]) =>
      Merge(doc[Targets[i]], "documentator", <<<<"generated", project>>>>) = doc[Targets[i]]
=============================================================================
