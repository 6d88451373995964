----------------------------- MODULE MvpImport -----------------------------
(***************************************************************************)
(* importar_mvp.mjs: MVP.md becomes the milestone M01, and each of its     *)
(* themes an Inbox and, when it is software to develop, a backlog item and *)
(* a draft spec.  The files are made by the scripts of SpecFiles, which    *)
(* the import starts one after the other and waits for; it then rewrites   *)
(* what they made.  Runs of the scripts by themselves, and other imports,  *)
(* go on meanwhile.                                                        *)
(***************************************************************************)
EXTENDS SpecFiles

CONSTANT NoText \* MVP.md where there is none

(* The facts about a theme that the script tests.                              *)
Themes ==
  [slug     : Slugs,
   context  : BOOLEAN,       \* its title is one of nonDevelopmentHeadings
   build    : BOOLEAN,       \* a word of building: desenvolver, criar, ...
   behavior : BOOLEAN,       \* a system that must, allows, ...
   noun     : BOOLEAN,       \* one of developmentSignals in the title
   body     : BOOLEAN,       \* one of developmentSignals in the text
   outcome  : BOOLEAN,       \* resultado, entrega, capacidade or fluxo
   labelled : SUBSET Fields, \* "Problema: ...", or a heading and its lines
   phrased  : SUBSET Fields, \* a line with one of the patterns of the field
   captures : BOOLEAN,       \* arguments capturar_inbox.mjs accepts
   files    : BOOLEAN]       \* arguments iniciar_backlog.mjs accepts

Texts   == [blank : BOOLEAN, sensitive : BOOLEAN, themes : Seq(Themes)]
Imports == [script : {"import"}, local : Texts \cup {NoText}, parent : Texts \cup {NoText}]

ASSUME NoTextAssumption == NoText \notin Texts

VARIABLES
  request,   \* what each call runs
  milestone, \* specs/milestones/M01.md
  stage,     \* what each import does or waits for
  theme,     \* the theme it is at
  orphans    \* the imports that were killed while their child ran on

vars == <<fileVars, request, milestone, stage, theme, orphans>>

Importing(c) == request[c].script = "import"

(* readMvpSource: the file of the project, or else the one of its superproject. *)
Source(c)   == IF request[c].local # NoText THEN request[c].local ELSE request[c].parent
ThemesOf(c) == Source(c).themes

(* classifyTheme *)
Developable(t) ==
  \/ t.build \/ t.behavior
  \/ ~t.context /\ (t.noun \/ (t.body /\ t.outcome))

(* extractObviousValue: what stands under a label or in a plain phrase; what   *)
(* does not is a gap.  The context has a default instead (initialBacklogFields)*)
Asked   == {"problem", "person", "result", "menu"}
Gaps(t) == Asked \ (t.labelled \cup t.phrased)

(* What the two scripts get of it; neither has an argument for the menu.       *)
InboxFields == {"problem", "person", "result"}

Child(c, i, script) ==
  LET t == ThemesOf(c)[i] IN
  [script |-> script, slug |-> t.slug, item |-> <<c, i>>,
   accepted |-> CASE script = "capture" -> t.captures
                  [] script = "backlog" -> t.files
                  [] script = "specify" -> TRUE,
   gaps |-> Gaps(t) \cap InboxFields, kept |-> ~Developable(t)]

(* run: a child starts, and the import waits for it. *)
Run(c, i, script) ==
  /\ job' = [job EXCEPT ![c] = Child(c, i, script)]
  /\ Go(c, Entry(Child(c, i, script)))
  /\ stage' = [stage EXCEPT ![c] = script]

Stage(c, s)    == stage' = [stage EXCEPT ![c] = s]
Returned(c, s) == stage[c] = s /\ At(c, "done") /\ c \notin orphans
Awaits(c)      == stage[c] \in {"capture", "backlog", "specify"} /\ c \notin orphans

(* Mutant: the last theme is left out. *)
OneThemeLess(c, i) == i >= Len(ThemesOf(c))

NoThemeLeft(c, i) == i > Len(ThemesOf(c))

(* The loop goes on with theme i, or is over. *)
Continue(c, i) ==
  IF NoThemeLeft(c, i)
  THEN Stage(c, "done") /\ UNCHANGED <<job, pc, theme>>
  ELSE Run(c, i, "capture") /\ theme' = [theme EXCEPT ![c] = i]

-----------------------------------------------------------------------------
(* main *)

(* Without MVP.md, with an empty one or one that seems to hold a secret the    *)
(* import ends.                                                                *)
ReadMvpSource(c) ==
  /\ stage[c] = "source"
  /\ Stage(c, IF Source(c) = NoText THEN "failed"
              ELSE IF Source(c).blank \/ Source(c).sensitive THEN "failed" ELSE "milestone")
  /\ UNCHANGED <<fileVars, request, milestone, theme, orphans>>

(* createMilestone: flag wx, so that one import ever gets beyond it. *)
CreateMilestone(c) ==
  /\ stage[c] = "milestone"
  /\ IF milestone.by = Nobody
     THEN milestone' = [by |-> c, whole |-> FALSE] /\ Stage(c, "milestoneFill")
     ELSE Stage(c, "failed") /\ UNCHANGED milestone
  /\ UNCHANGED <<fileVars, request, theme, orphans>>

FillMilestone(c) ==
  /\ stage[c] = "milestoneFill"
  /\ milestone' = [milestone EXCEPT !.whole = TRUE]
  /\ Continue(c, 1)
  /\ UNCHANGED <<inbox, backlog, specs, lock, my, faults, moves, request, orphans>>

(* A theme that is not developable has its Inbox only. *)
InboxReturned(c) ==
  /\ Returned(c, "capture")
  /\ IF Developable(ThemesOf(c)[theme[c]])
     THEN Run(c, theme[c], "backlog") /\ UNCHANGED theme
     ELSE Continue(c, theme[c] + 1)
  /\ UNCHANGED <<inbox, backlog, specs, lock, my, faults, moves, request, milestone, orphans>>

(* The backlog item is rewritten with the evidence: writeFile empties the file *)
(* it has read and then fills it.                                              *)
BacklogReturned(c) ==
  /\ Returned(c, "backlog")
  /\ backlog' = [backlog EXCEPT ![BacklogName(c)].text = "empty"]
  /\ Stage(c, "evidence")
  /\ UNCHANGED <<inbox, specs, lock, job, pc, my, faults, moves, request, milestone, theme, orphans>>

WriteEvidence(c) ==
  /\ stage[c] = "evidence"
  /\ backlog' = [backlog EXCEPT ![BacklogName(c)].text = "evidenced"]
  /\ Run(c, theme[c], "specify")
  /\ UNCHANGED <<inbox, specs, lock, my, faults, moves, request, milestone, theme, orphans>>

(* createDraftSpec: so is the spec. *)
SpecReturned(c) ==
  /\ Returned(c, "specify")
  /\ specs' = [specs EXCEPT ![PackageName(c)].text = "empty"]
  /\ Stage(c, "draft")
  /\ UNCHANGED <<inbox, backlog, lock, job, pc, my, faults, moves, request, milestone, theme, orphans>>

(* renderDraftSpec: every gap becomes an open question. *)
WriteDraft(c) ==
  /\ stage[c] = "draft"
  /\ specs' = [specs EXCEPT ![PackageName(c)].text = "drafted",
                            ![PackageName(c)].gaps = Gaps(ThemesOf(c)[theme[c]])]
  /\ Stage(c, "promote")
  /\ UNCHANGED <<inbox, backlog, lock, job, pc, my, faults, moves, request, milestone, theme, orphans>>

(* The backlog item is rewritten once more, to name the spec. *)
OpenBacklog(c) ==
  /\ stage[c] = "promote"
  /\ backlog' = [backlog EXCEPT ![BacklogName(c)].text = "empty"]
  /\ Stage(c, "promotion")
  /\ UNCHANGED <<inbox, specs, lock, job, pc, my, faults, moves, request, milestone, theme, orphans>>

Promote(c) ==
  /\ stage[c] = "promotion"
  /\ backlog' = [backlog EXCEPT ![BacklogName(c)].text = "promoted",
                                ![BacklogName(c)].spec = my[c].number]
  /\ Continue(c, theme[c] + 1)
  /\ UNCHANGED <<inbox, specs, lock, my, faults, moves, request, milestone, orphans>>

(* A child that fails ends the import, whatever was made so far. *)
ChildFailed(c) ==
  /\ Awaits(c) /\ At(c, "failed")
  /\ Stage(c, "failed")
  /\ UNCHANGED <<fileVars, request, milestone, theme, orphans>>

ImportStep(c) ==
  \/ ReadMvpSource(c) \/ CreateMilestone(c) \/ FillMilestone(c) \/ InboxReturned(c)
  \/ BacklogReturned(c) \/ WriteEvidence(c) \/ SpecReturned(c) \/ WriteDraft(c)
  \/ OpenBacklog(c) \/ Promote(c) \/ ChildFailed(c)

-----------------------------------------------------------------------------
Ended == {"done", "failed", "killed"}
Running(c) == IF Importing(c)
              THEN stage[c] \notin Ended /\ (c \in orphans => pc[c] \notin Ended)
              ELSE pc[c] \notin Ended

(* A process is killed: one by itself, an import and its child (the end of the *)
(* child ends the import as well), or the import only, and its child runs on.  *)
Kill(c) ==
  /\ Running(c) /\ Fault
  /\ \/ /\ Go(c, "killed")
        /\ stage' = IF Importing(c) THEN [stage EXCEPT ![c] = "killed"] ELSE stage
        /\ UNCHANGED orphans
     \/ /\ Awaits(c) /\ pc[c] \notin Ended
        /\ orphans' = orphans \cup {c}
        /\ UNCHANGED <<pc, stage>>
  /\ UNCHANGED <<inbox, backlog, specs, lock, job, my, moves, request, milestone, theme>>

ImportWriteFails(c) ==
  /\ stage[c] \in {"milestoneFill", "evidence", "draft", "promotion"} /\ Fault
  /\ Stage(c, "failed")
  /\ UNCHANGED <<inbox, backlog, specs, lock, job, pc, my, moves, request, milestone, theme, orphans>>

(* The processes of a behaviour run what `runs` says. *)
Start(runs) ==
  /\ request = runs
  /\ inbox = <<>> /\ backlog = <<>> /\ lock = Nobody
  /\ specs = [n \in Packages |-> [item |-> Nobody, text |-> "drafted", gaps |-> {}]]
  /\ job = runs
  /\ pc = [c \in Calls |-> IF Importing(c) THEN "idle" ELSE Entry(runs[c])]
  /\ my = [c \in Calls |-> Idle]
  /\ faults = 0 /\ moves = 0
  /\ milestone = [by |-> Nobody, whole |-> FALSE]
  /\ stage = [c \in Calls |-> IF Importing(c) THEN "source" ELSE "done"]
  /\ theme = [c \in Calls |-> 0]
  /\ orphans = {}

Script(c) == (ScriptStep(c) /\ UNCHANGED <<request, milestone, stage, theme, orphans>>) \/ ImportStep(c)

Environment ==
  \/ \E c \in Calls : ImportWriteFails(c)
  \/ \E c \in Calls : WriteFails(c) /\ UNCHANGED <<request, milestone, stage, theme, orphans>>
  \/ \E name \in DOMAIN specs : Transition(name) /\ UNCHANGED <<request, milestone, stage, theme, orphans>>

-----------------------------------------------------------------------------
(* The types of the files and of the counters.                                 *)
FilesTypeOK ==
  /\ DOMAIN inbox \subseteq InboxNames /\ DOMAIN backlog \subseteq BacklogNames
  /\ DOMAIN specs \subseteq PackageNames
  /\ \A n \in DOMAIN inbox :
       inbox[n] \in [item : Items, whole : BOOLEAN, gaps : SUBSET Fields, kept : BOOLEAN]
  /\ \A n \in DOMAIN backlog :
       backlog[n] \in [item : Items, text : {"empty", "captured", "evidenced", "promoted"},
                       gaps : SUBSET Fields, spec : 0 .. MaxNumber]
  /\ \A n \in DOMAIN specs :
       specs[n] \in [item : Authors, gaps : SUBSET Fields,
                     text : {"none", "temporary", "template", "empty", "drafted"}]
  /\ lock \in Calls \cup {Nobody} /\ faults \in 0 .. MaxFaults /\ moves \in 0 .. MaxMoves
  /\ orphans \subseteq Calls
  /\ milestone \in [by : Calls \cup {Nobody}, whole : BOOLEAN]
  /\ \A c \in Calls : my[c].tries <= MaxAttempts /\ theme[c] \in Nat

(* No two packages have one number, however they are made and moved: the lock  *)
(* covers the scan and the mkdir, and a package that advances during the scan  *)
(* only goes to folders the scan has yet to read (iniciar_spec.mjs).           *)
SpecNumbersAreUnique == \A m, n \in DOMAIN specs : m[2] = n[2] => m = n

(* What a run has created stays what it is: no other run replaces or removes   *)
(* an Inbox, a backlog item, the milestone or a package, or gives a package    *)
(* another number; only the author of a package without spec.md removes it.    *)
FilesStayTheirAuthors ==
  [][/\ \A n \in DOMAIN inbox : n \in DOMAIN inbox' /\ inbox'[n].item = inbox[n].item
     /\ \A n \in DOMAIN backlog : n \in DOMAIN backlog' /\ backlog'[n].item = backlog[n].item
     /\ milestone.by # Nobody => milestone'.by = milestone.by
     /\ \A n \in DOMAIN specs :
          \/ \E m \in DOMAIN specs' : m[2] = n[2] /\ specs'[m].item = specs[n].item
          \/ specs[n].text \in {"none", "temporary"} /\ At(specs[n].item[1], "undo")]_vars

(* Only a fault leaves a half-made file behind, and not everywhere: the lock   *)
(* and a package without spec.md outlive a run only if it was killed, never    *)
(* one that failed; an empty Inbox, backlog item, spec or milestone outlives   *)
(* none that has met no fault.                                                 *)
OnlyFaultsLeaveDebris ==
  /\ lock # Nobody => pc[lock] \in {"scan", "make", "unlock", "killed"}
  /\ \A n \in DOMAIN specs : specs[n].text \in {"none", "temporary"} =>
       pc[specs[n].item[1]] \in {"unlock", "temporary", "rename", "undo", "killed"}
  /\ faults = 0 =>
       /\ \A n \in DOMAIN inbox : inbox[n].whole \/ Running(inbox[n].item[1])
       /\ \A n \in DOMAIN backlog : backlog[n].text # "empty" \/ Running(backlog[n].item[1])
       /\ \A n \in DOMAIN specs : specs[n].text # "empty" \/ Running(specs[n].item[1])
       /\ milestone.by # Nobody => milestone.whole \/ Running(milestone.by)

InboxOf(c, i)   == {n \in DOMAIN inbox : inbox[n].item = <<c, i>>}
BacklogOf(c, i) == {n \in DOMAIN backlog : backlog[n].item = <<c, i>>}
SpecOf(c, i)    == {n \in DOMAIN specs : specs[n].item = <<c, i>>}

(* The three files of a theme, each naming the one before it, asking for the   *)
(* same gaps; or the one file of a theme that is not developable.              *)
Imported(c, i) ==
  /\ \E n \in InboxOf(c, i) : inbox[n].whole /\ inbox[n].kept = ~Developable(ThemesOf(c)[i])
  /\ Developable(ThemesOf(c)[i]) =>
       \E b \in BacklogOf(c, i), n \in SpecOf(c, i) :
         /\ backlog[b].text = "promoted" /\ specs[n].text = "drafted"
         /\ backlog[b].spec = n[2]
         /\ backlog[b].gaps = specs[n].gaps \cap InboxFields

(* The trail of an import, at every moment and after every fault: only the     *)
(* import that made M01 has made anything; every theme before the current one  *)
(* is completely imported; a theme has no spec without a backlog item, no      *)
(* backlog item without an Inbox, nothing twice, and a theme whose Inbox says  *)
(* it is context has nothing else; an import that ends well has done it all.   *)
ImportLeavesATrail ==
  \A c \in Calls : Importing(c) =>
    /\ \A i \in 0 .. 3 :
         /\ milestone.by # c => InboxOf(c, i) = {}
         /\ SpecOf(c, i) # {} => BacklogOf(c, i) # {}
         /\ BacklogOf(c, i) # {} => \E n \in InboxOf(c, i) : ~inbox[n].kept
         /\ Cardinality(InboxOf(c, i)) <= 1 /\ Cardinality(BacklogOf(c, i)) <= 1
         /\ Cardinality(SpecOf(c, i)) <= 1
    /\ \A i \in 1 .. theme[c] - 1 : Imported(c, i)
    /\ stage[c] = "done" => \A i \in 1 .. Len(ThemesOf(c)) : Imported(c, i)
=============================================================================
