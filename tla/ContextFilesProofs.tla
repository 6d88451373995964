------------------------- MODULE ContextFilesProofs -------------------------
(***************************************************************************)
(* Theorems about the files that the skill scripts make, for any number of *)
(* processes, scripts, imports, faults and moves of packages, about the    *)
(* documents that are built, and about what people and scripts have put    *)
(* into all of them.  Up to those, the scripts of ContextFiles only pass   *)
(* from step to step.                                                      *)
(***************************************************************************)
EXTENDS ContextFiles, FiniteSetTheorems, SequenceTheorems, WellFoundedInduction, TLAPS

CaptureSteps == {"second", "captureCreate", "captureFill"}
BacklogSteps == {"backlogScan", "backlogCreate", "backlogFill"}
SpecifySteps == {"lock", "scan", "make", "unlock", "temporary", "rename", "undo"}
FileSteps    == CaptureSteps \cup BacklogSteps \cup SpecifySteps
ContextSteps == {"detect", "open", "write", "fill"}
Steps        == FileSteps \cup ContextSteps \cup {"idle", "done", "failed", "killed"}

(* An import at one of these stages is at a theme. *)
ThemeStages == {"capture", "backlog", "evidence", "specify", "draft", "promote", "promotion"}
Stages      == {"source", "milestone", "milestoneFill", "done", "failed", "killed"} \cup ThemeStages
AtTheme(c)  == Importing(c) /\ stage[c] \in ThemeStages

(* The script a process runs, as a child or by itself; the last child an       *)
(* import has started; and whether the job of a process is one of a script.    *)
ScriptOf(c) == IF Importing(c) THEN stage[c] ELSE request[c].script
ChildOf(s)  == IF s = "capture" THEN "capture"
               ELSE IF s \in {"backlog", "evidence"} THEN "backlog" ELSE "specify"
Working(c)  == pc[c] \in FileSteps \/ AtTheme(c)

Variables ==
  [second : Seconds, suffix : Nat, entry : 0 .. MaxNumber,
   number : 0 .. MaxNumber, tries : Nat, folder : Nat, top : 0 .. MaxNumber]

TypesFit ==
  /\ pc \in [Calls -> Steps] /\ stage \in [Calls -> Stages] /\ theme \in [Calls -> Nat]
  /\ my \in [Calls -> Variables] /\ DOMAIN job = Calls

RequestsFit ==
  \A c \in Calls : \/ request[c] \in Jobs /\ request[c].item = <<c, 0>>
                   \/ request[c] \in Imports
                   \/ Contextual(c)

(* A child is done, and nobody may be left to go on with what it made.         *)
Back(c, s) == stage[c] = s /\ pc[c] = "done"

(* A process is at the steps of its script, and an import waits for the child  *)
(* it has started.                                                             *)
StepsFit ==
  \A c \in Calls :
    /\ pc[c] \in CaptureSteps => ScriptOf(c) = "capture"
    /\ pc[c] \in BacklogSteps => ScriptOf(c) = "backlog"
    /\ pc[c] \in SpecifySteps => ScriptOf(c) = "specify"
    /\ pc[c] \in ContextSteps => Contextual(c)
    /\ ~Importing(c) => stage[c] = "done"
    /\ Importing(c) =>
         /\ stage[c] \in {"source", "milestone", "milestoneFill"} => pc[c] = "idle"
         /\ stage[c] \in {"evidence", "draft", "promote", "promotion"} => pc[c] = "done"
         /\ stage[c] \in {"capture", "backlog", "specify"} => pc[c] \in FileSteps \cup {"done", "failed"}

(* The last attempt at the lock ends a run. *)
TriesFit == \A c \in Calls : pc[c] \notin {"failed", "killed"} => my[c].tries < MaxAttempts

JobsFit ==
  \A c \in Calls :
    /\ ~Importing(c) => job[c] = request[c] /\ theme[c] = 0
    /\ Importing(c) /\ stage[c] \notin {"source", "failed", "killed"} => Source(c) \in Texts
    /\ AtTheme(c) => /\ theme[c] \in 1 .. Len(ThemesOf(c))
                     /\ job[c] = Child(c, theme[c], ChildOf(stage[c]))

(* Who is between mkdir and rm of the lock has it. *)
LockFits ==
  /\ \A c \in Calls : pc[c] \in {"scan", "make", "unlock"} => lock = c
  /\ lock # Nobody => pc[lock] \in {"scan", "make", "unlock", "killed"}

(* No package in a folder a scan has passed has a higher number than the scan  *)
(* has found.                                                                  *)
Passed(n, folder) == \E i \in 1 .. 6 : i < folder /\ n[1] = StateFolders[i]
ScansFit ==
  \A c \in Calls :
    /\ pc[c] = "scan" =>
         /\ my[c].folder \in 1 .. 6
         /\ \A n \in DOMAIN specs : Passed(n, my[c].folder) => n[2] <= my[c].top
    /\ pc[c] = "make" => \A n \in DOMAIN specs : n[2] <= my[c].top

NumbersFit ==
  /\ \A n \in DOMAIN specs : n[2] <= MaxNumber
  /\ \A n \in DOMAIN backlog : n[1] <= MaxNumber

(* A package without a spec.md of its own, or with one that an import is about *)
(* to replace, is where its author made it.                                    *)
Making(c)   == pc[c] \in {"temporary", "rename", "undo"} \/ (pc[c] = "unlock" /\ my[c].number # 0)
Drafting(c) == Importing(c) /\ (stage[c] = "draft" \/ Back(c, "specify"))
Has(c, files, name) == name \in DOMAIN files /\ files[name].item = job[c].item
PackagesFit ==
  \A c \in Calls :
    /\ Making(c) => /\ Has(c, specs, PackageName(c))
                    /\ specs[PackageName(c)].text \in {"none", "temporary"}
    /\ Drafting(c) => /\ Has(c, specs, PackageName(c))
                      /\ specs[PackageName(c)].text = IF stage[c] = "draft" THEN "empty" ELSE "template"

(* So are the item and the Inbox that a process is going to write.             *)
Filed(c) ==
  \/ pc[c] = "backlogFill"
  \/ Importing(c) /\ \/ Back(c, "backlog")
                     \/ stage[c] \in {"evidence", "specify", "draft", "promote", "promotion"}
BacklogsFit == \A c \in Calls : Filed(c) => Has(c, backlog, BacklogName(c))
InboxesFit  == \A c \in Calls : pc[c] = "captureFill" => Has(c, inbox, InboxName(c))

(* A package without spec.md has an author that is making it or was killed.    *)
UnspecifiedFit ==
  \A n \in DOMAIN specs : specs[n].text \in {"none", "temporary"} =>
    \E c \in Calls : /\ specs[n].item[1] = c
                     /\ pc[c] = "killed" \/ (Making(c) /\ n = PackageName(c))

(* Without faults, a file that is empty has an author about to fill it.        *)
Rewriting(c) == pc[c] = "backlogFill" \/ (Importing(c) /\ stage[c] \in {"evidence", "promotion"})
EmptyFit ==
  faults = 0 =>
    /\ orphans = {}
    /\ \A n \in DOMAIN inbox : ~inbox[n].whole =>
         \E c \in Calls : inbox[n].item[1] = c /\ pc[c] = "captureFill" /\ n = InboxName(c)
    /\ \A n \in DOMAIN backlog : backlog[n].text = "empty" =>
         \E c \in Calls : backlog[n].item[1] = c /\ Rewriting(c) /\ n = BacklogName(c)
    /\ \A n \in DOMAIN specs : specs[n].text = "empty" =>
         \E c \in Calls : specs[n].item[1] = c /\ Importing(c) /\ stage[c] = "draft" /\ n = PackageName(c)
    /\ milestone.by # Nobody /\ ~milestone.whole =>
         Importing(milestone.by) /\ stage[milestone.by] = "milestoneFill"

FilesInv ==
  /\ FilesTypeOK /\ TypesFit /\ RequestsFit /\ StepsFit /\ TriesFit /\ JobsFit /\ LockFits
  /\ ScansFit /\ NumbersFit /\ SpecNumbersAreUnique /\ PackagesFit /\ BacklogsFit /\ InboxesFit
  /\ UnspecifiedFit /\ EmptyFit

-----------------------------------------------------------------------------
(* Numbers and folders. *)

(* Some element of a set of naturals is the least. *)
LEMMA LeastNatural ==
  ASSUME NEW T, T \subseteq Nat, T # {}
  PROVE  \E x \in T : \A y \in T : x <= y
<1>1. PICK x \in T : \A y \in T : ~(<<y, x>> \in OpToRel(<, Nat))
  BY NatLessThanWellFounded, WFMin
<1>2. ASSUME NEW y \in T  PROVE x <= y
  <2>1. <<y, x>> \notin OpToRel(<, Nat)
    BY <1>1
  <2>2. ~(y < x)
    BY <2>1 DEF OpToRel
  <2> QED BY <2>2
<1> QED BY <1>2

(* A set of naturals with a bound has a greatest element, and Max finds it.    *)
LEMMA MaxOfBounded ==
  ASSUME NEW b \in Nat, NEW S, S \subseteq 0 .. b, S # {}
  PROVE  Max(S) \in S /\ \A y \in S : y <= Max(S)
<1> DEFINE T == {b - x : x \in S}
<1>1. PICK m \in T : \A y \in T : m <= y
  <2>1. \A x \in S : b - x \in Nat
    OBVIOUS
  <2>2. T \subseteq Nat /\ T # {}
    BY <2>1
  <2> HIDE DEF T
  <2> QED BY <2>2, LeastNatural
<1>2. PICK x \in S : m = b - x
  OBVIOUS
<1>3. ASSUME NEW y \in S  PROVE x >= y
  <2>1. m <= b - y
    BY <1>1
  <2> QED BY <2>1, <1>2
<1> QED BY <1>3 DEF Max

(* Every folder has one place in the list. *)
LEMMA FolderPlaces ==
  /\ Len(StateFolders) = 6
  /\ \A i \in 1 .. 6 : StateFolders[i] \in Folders
  /\ \A f \in Folders : \E i \in 1 .. 6 : f = StateFolders[i]
  /\ \A i, j \in 1 .. 6 : StateFolders[i] = StateFolders[j] => i = j
  /\ StateFolders[1] = "draft"
<1>1. Len(StateFolders) = 6
  BY DEF StateFolders
<1>2. \A i, j \in 1 .. 6 : StateFolders[i] = StateFolders[j] => i = j
  BY DEF StateFolders
<1>3. StateFolders[1] = "draft"
  BY DEF StateFolders
<1> QED BY <1>1, <1>2, <1>3 DEF Folders

-----------------------------------------------------------------------------
(* The steps, as far as the files can tell. *)

Passing(c) ==
  /\ Contextual(c) /\ pc[c] \in ContextSteps
  /\ \E s \in ContextSteps \cup {"done", "failed"} : Go(c, s)
  /\ UNCHANGED <<fileVarsButPc, request, milestone, stage, theme, orphans>>

(* A kill ends a process and its child, or makes an orphan of the child.       *)
Killed(c) ==
  /\ Running(c) /\ Fault /\ Go(c, "killed")
  /\ stage' = IF Importing(c) THEN [stage EXCEPT ![c] = "killed"] ELSE stage
  /\ UNCHANGED <<inbox, backlog, specs, lock, job, my, moves, request, milestone, theme, orphans>>

Orphaned(c) ==
  /\ Awaits(c) /\ Fault /\ orphans' = orphans \cup {c}
  /\ UNCHANGED <<inbox, backlog, specs, lock, job, pc, my, moves, request, milestone, stage, theme>>

Rest == <<request, milestone, stage, theme, orphans>>

FileNext ==
  \/ \E c \in Calls : ScriptStep(c) /\ UNCHANGED Rest
  \/ \E c \in Calls : ImportStep(c)
  \/ \E c \in Calls : Passing(c)
  \/ \E c \in Calls : Killed(c)
  \/ \E c \in Calls : Orphaned(c)
  \/ \E c \in Calls : ImportWriteFails(c)
  \/ \E c \in Calls : WriteFails(c) /\ UNCHANGED Rest
  \/ \E name \in DOMAIN specs : Transition(name) /\ UNCHANGED Rest
  \/ UNCHANGED vars

(* A script that keeps a document leaves the files alone. *)
LEMMA ContextsPass ==
  ASSUME NEW c, ContextStep(c)
  PROVE  Passing(c)
<1> DEFINE Ahead == \E s \in ContextSteps \cup {"done", "failed"} : Go(c, s)
<1>1. ASSUME NEW found, Advance(c, found)  PROVE Ahead
  BY <1>1 DEF Advance, ContextSteps
<1>2. CASE Detect(c)
  BY <1>2 DEF Detect, Passing, ContextStep, ContextSteps, At
<1>3. CASE Open(c)
  <2>1. Contextual(c) /\ pc[c] \in ContextSteps
    BY <1>3 DEF Open, At, ContextSteps
  <2>2. Ahead
    <3>1. Go(c, "failed") \/ Go(c, "write") \/ \E found : Advance(c, found)
      BY <1>3, Zenon DEF Open
    <3> QED BY <3>1, <1>1 DEF ContextSteps
  <2> QED BY <2>1, <2>2 DEF Passing, ContextStep
<1>4. CASE Empty(c)
  BY <1>4 DEF Empty, Passing, ContextStep, ContextSteps, At
<1>5. CASE Fill(c)
  <2>1. Contextual(c) /\ pc[c] \in ContextSteps /\ Ahead
    BY <1>5, <1>1 DEF Fill, At, ContextSteps
  <2> QED BY <2>1 DEF Passing, ContextStep
<1> QED BY <1>2, <1>3, <1>4, <1>5 DEF ContextStep

(* Every step of the specification is one of these. *)
LEMMA StepsAreFileSteps == [Next]_allVars => FileNext
<1> SUFFICES ASSUME [Next]_allVars PROVE FileNext
  OBVIOUS
<1>1. CASE UNCHANGED allVars
  BY <1>1 DEF allVars, FileNext
<1>2. ASSUME NEW c \in Calls, Step(c)  PROVE FileNext
  BY <1>2, ContextsPass DEF Step, Script, FileNext, Rest
<1>3. ASSUME NEW c \in Calls, KillRun(c)  PROVE FileNext
  BY <1>3 DEF KillRun, Kill, Killed, Orphaned, FileNext
<1>4. ASSUME Environment  PROVE FileNext
  BY <1>4 DEF Environment, FileNext, Rest
<1>5. ASSUME Develop \/ Over  PROVE FileNext
  BY <1>5 DEF Develop, Over, FileNext, allVars
<1> QED BY <1>1, <1>2, <1>3, <1>4, <1>5 DEF Next

(* A kill of an import whose child is at work is a fault. *)
LEMMA OrphansGrow ==
  ASSUME FileNext, orphans \subseteq Calls, faults \in Nat
  PROVE  orphans' \subseteq Calls /\ (faults' = faults => orphans' = orphans)
<1>1. ASSUME NEW c \in Calls, ImportStep(c)  PROVE orphans' = orphans
  BY <1>1 DEF ImportStep, ReadMvpSource, CreateMilestone, FillMilestone, InboxReturned, BacklogReturned,
     WriteEvidence, SpecReturned, WriteDraft, OpenBacklog, Promote, ChildFailed
<1>2. ASSUME NEW c \in Calls, Orphaned(c)  PROVE faults' = faults + 1 /\ orphans' \subseteq Calls
  BY <1>2 DEF Orphaned, Fault
<1>3. \/ orphans' = orphans
      \/ \E c \in Calls : Orphaned(c)
  BY <1>1 DEF FileNext, Rest, Passing, Killed, ImportWriteFails, vars
<1> QED BY <1>2, <1>3

-----------------------------------------------------------------------------
(* What the scripts of processes are. *)

(* A theme makes arguments a script can have. *)
LEMMA ChildIsAJob ==
  ASSUME NEW c \in Calls, NEW script \in {"capture", "backlog", "specify"},
         Source(c) \in Texts, NEW i \in 1 .. Len(ThemesOf(c))
  PROVE  /\ Child(c, i, script) \in Jobs
         /\ Child(c, i, script).script = script /\ Child(c, i, script).item = <<c, i>>
         /\ Child(c, i, script).slug = ThemesOf(c)[i].slug
<1> DEFINE t == ThemesOf(c)[i]
           kept == ~Developable(t)
<1>1. ThemesOf(c) \in Seq(Themes)
  BY DEF Texts, ThemesOf
<1>2. t \in Themes
  BY <1>1
<1>3. t.slug \in Slugs /\ t.captures \in BOOLEAN /\ t.files \in BOOLEAN
  BY <1>2 DEF Themes
<1>4. Gaps(t) \cap InboxFields \in SUBSET Fields
  BY DEF InboxFields, Fields
<1>5. <<c, i>> \in Items
  BY DEF Items
<1>6. kept \in BOOLEAN
  OBVIOUS
<1> DEFINE accepted == CASE script = "capture" -> t.captures
                         [] script = "backlog" -> t.files
                         [] script = "specify" -> TRUE
<1>7. accepted \in BOOLEAN
  BY <1>3
<1>8. Child(c, i, script) = [script |-> script, slug |-> t.slug, item |-> <<c, i>>, accepted |-> accepted,
                             gaps |-> Gaps(t) \cap InboxFields, kept |-> kept]
  BY DEF Child
<1> HIDE DEF t, kept, accepted
<1>9. Child(c, i, script) \in Jobs /\ Child(c, i, script).script = script
      /\ Child(c, i, script).item = <<c, i>> /\ Child(c, i, script).slug = t.slug
  BY <1>3, <1>4, <1>5, <1>6, <1>7, <1>8 DEF Jobs
<1> QED BY <1>9 DEF t

(* What a script is given while it is at work, or while an import looks at     *)
(* what it made.                                                               *)
LEMMA JobsAreTyped ==
  ASSUME TypesFit, RequestsFit, StepsFit, JobsFit, NEW c \in Calls, Working(c)
  PROVE  /\ job[c] \in Jobs /\ job[c].item = <<c, theme[c]>>
         /\ job[c].item \in Items /\ job[c].slug \in Slugs
<1>1. job[c] \in Jobs /\ job[c].item = <<c, theme[c]>>
  <2>1. CASE AtTheme(c)
    <3>1. Source(c) \in Texts /\ theme[c] \in 1 .. Len(ThemesOf(c)) /\ job[c] = Child(c, theme[c], ChildOf(stage[c]))
      BY <2>1 DEF JobsFit, AtTheme, ThemeStages
    <3>2. ChildOf(stage[c]) \in {"capture", "backlog", "specify"}
      BY DEF ChildOf
    <3> QED BY <3>1, <3>2, ChildIsAJob
  <2>2. CASE pc[c] \in FileSteps /\ ~AtTheme(c)
    <3>1. ScriptOf(c) \in {"capture", "backlog", "specify"}
      BY <2>2 DEF StepsFit, FileSteps
    <3>2. ~Importing(c)
      BY <2>2, <3>1 DEF ScriptOf, AtTheme, ThemeStages
    <3>3. request[c].script \in {"capture", "backlog", "specify"}
      BY <3>1, <3>2 DEF ScriptOf
    <3>4. request[c] \in Jobs /\ request[c].item = <<c, 0>>
      BY <3>2, <3>3 DEF RequestsFit, Imports, Importing, Contextual, Scripts
    <3> QED BY <3>2, <3>4 DEF JobsFit
  <2> QED BY <2>1, <2>2 DEF Working
<1> QED BY <1>1 DEF Jobs

(* A script with a step left is the child of an import that waits for it, or   *)
(* runs by itself.                                                             *)
LEMMA ScriptsAtWork ==
  ASSUME StepsFit, NEW c \in Calls, pc[c] \in FileSteps
  PROVE  /\ ~Contextual(c) /\ Working(c)
         /\ Importing(c) => AtTheme(c)
         /\ \/ pc[c] \in CaptureSteps /\ ScriptOf(c) = "capture"
            \/ pc[c] \in BacklogSteps /\ ScriptOf(c) = "backlog"
            \/ pc[c] \in SpecifySteps /\ ScriptOf(c) = "specify"
<1>1. \/ pc[c] \in CaptureSteps /\ ScriptOf(c) = "capture"
      \/ pc[c] \in BacklogSteps /\ ScriptOf(c) = "backlog"
      \/ pc[c] \in SpecifySteps /\ ScriptOf(c) = "specify"
  BY DEF StepsFit, FileSteps
<1>2. CASE Importing(c)
  BY <1>1, <1>2 DEF ScriptOf, Contextual, Scripts, Working, AtTheme, ThemeStages, Importing
<1>3. CASE ~Importing(c)
  <2>1. request[c].script \in {"capture", "backlog", "specify"}
    BY <1>1, <1>3 DEF ScriptOf
  <2> QED BY <1>1, <1>3, <2>1 DEF Contextual, Scripts, Working
<1> QED BY <1>2, <1>3

-----------------------------------------------------------------------------
(* At first nothing is there but finished packages. *)
LEMMA FilesInitially == Init => FilesInv
<1> SUFFICES ASSUME Init PROVE FilesInv
  OBVIOUS
<1> USE BoundsAssumption, NobodyAssumption, NoTextAssumption
<1>1. PICK s \in Scenarios : Start(s.runs)
  BY DEF Init
<1> DEFINE R == s.runs
<1>2. /\ request = R /\ inbox = <<>> /\ backlog = <<>> /\ lock = Nobody
      /\ specs = [n \in Packages |-> [item |-> Nobody, text |-> "drafted", gaps |-> {}]]
      /\ job = R /\ pc = [c \in Calls |-> IF Importing(c) THEN "idle" ELSE Entry(R[c])]
      /\ my = [c \in Calls |-> Idle] /\ faults = 0 /\ moves = 0
      /\ milestone = [by |-> Nobody, whole |-> FALSE]
      /\ stage = [c \in Calls |-> IF Importing(c) THEN "source" ELSE "done"]
      /\ theme = [c \in Calls |-> 0] /\ orphans = {}
  BY <1>1 DEF Start
<1>3. RequestsFit /\ DOMAIN job = Calls
  <2>1. R = [c \in Calls |-> R[c]]
    BY ScenariosAssumption
  <2>2. \A c \in Calls : \/ R[c] \in Jobs /\ R[c].item = <<c, 0>>
                         \/ R[c] \in Imports
                         \/ R[c].script \in Scripts
    BY ScenariosAssumption
  <2>3. RequestsFit
    BY <1>2, <2>2 DEF RequestsFit, Contextual
  <2> QED BY <1>2, <2>1, <2>3
<1>4. ASSUME NEW c \in Calls, ~Importing(c)
      PROVE  /\ R[c].accepted \in BOOLEAN
             /\ Contextual(c) => Entry(R[c]) \in {"detect", "failed"}
             /\ R[c].script = "capture" => Entry(R[c]) \in {"second", "failed"}
             /\ R[c].script = "backlog" => Entry(R[c]) \in {"backlogScan", "failed"}
             /\ R[c].script = "specify" => Entry(R[c]) \in {"lock", "failed"}
             /\ Contextual(c) \/ R[c].script \in {"capture", "backlog", "specify"}
  <2>1. Contextual(c) \/ R[c].script \in {"capture", "backlog", "specify"}
    BY <1>2, <1>3, <1>4 DEF RequestsFit, Jobs, Imports, Importing
  <2>2. R[c].accepted \in BOOLEAN
    BY <1>2, <1>4, ScenariosAssumption DEF Jobs, Imports, Importing
  <2> QED BY <1>2, <2>1, <2>2 DEF Entry, Contextual, Scripts
<1> HIDE DEF R
<1>5. Idle \in Variables /\ Idle.tries = 0
  BY DEF Idle, Variables
<1>6. ASSUME NEW c \in Calls
      PROVE  /\ Importing(c) => pc[c] = "idle" /\ stage[c] = "source"
             /\ ~Importing(c) => stage[c] = "done" /\ pc[c] \in {"detect", "second", "backlogScan", "lock", "failed"}
             /\ pc[c] = "detect" => Contextual(c)
             /\ pc[c] = "second" => ScriptOf(c) = "capture"
             /\ pc[c] = "backlogScan" => ScriptOf(c) = "backlog"
             /\ pc[c] = "lock" => ScriptOf(c) = "specify"
             /\ my[c] = Idle /\ theme[c] = 0
  BY <1>2, <1>4 DEF Contextual, Scripts, ScriptOf
<1>7. \A c \in Calls : pc[c] \in {"idle", "detect", "second", "backlogScan", "lock", "failed"}
  BY <1>6
<1>8. \A c \in Calls : stage[c] \in {"source", "done"}
  BY <1>6
<1>9. FilesTypeOK
  <2>1. DOMAIN specs \subseteq PackageNames
    BY <1>2, PackagesAssumption
  <2>2. \A n \in DOMAIN specs : specs[n] \in [item : Authors, gaps : SUBSET Fields,
                                text : {"none", "temporary", "template", "empty", "drafted"}]
    BY <1>2 DEF Authors
  <2>3. DOMAIN inbox = {} /\ DOMAIN backlog = {}
    BY <1>2
  <2>4. \A c \in Calls : my[c].tries <= MaxAttempts /\ theme[c] \in Nat
    BY <1>5, <1>6
  <2> QED BY <1>2, <2>1, <2>2, <2>3, <2>4 DEF FilesTypeOK
<1>10. TypesFit
  <2>1. pc \in [Calls -> Steps]
    BY <1>2, <1>7 DEF Steps, FileSteps, CaptureSteps, BacklogSteps, SpecifySteps, ContextSteps
  <2>2. stage \in [Calls -> Stages]
    BY <1>2 DEF Stages
  <2> QED BY <1>2, <1>3, <1>5, <2>1, <2>2 DEF TypesFit
<1>11. StepsFit
  BY <1>6, <1>7 DEF StepsFit, CaptureSteps, BacklogSteps, SpecifySteps, ContextSteps
<1>12. TriesFit
  BY <1>5, <1>6 DEF TriesFit
<1>13. JobsFit
  BY <1>2, <1>6 DEF JobsFit, AtTheme, ThemeStages
<1>14. LockFits /\ ScansFit
  BY <1>2, <1>7 DEF LockFits, ScansFit
<1>15. NumbersFit /\ SpecNumbersAreUnique
  BY <1>2, PackagesAssumption DEF NumbersFit, SpecNumbersAreUnique
<1>16. \A c \in Calls : ~Making(c) /\ ~Drafting(c) /\ ~Filed(c)
  BY <1>7, <1>8 DEF Making, Drafting, Filed, Returned, Back, At
<1>17. PackagesFit /\ BacklogsFit /\ InboxesFit
  BY <1>7, <1>16 DEF PackagesFit, BacklogsFit, InboxesFit
<1>18. UnspecifiedFit /\ EmptyFit
  BY <1>2 DEF UnspecifiedFit, EmptyFit
<1> QED BY <1>3, <1>9, <1>10, <1>11, <1>12, <1>13, <1>14, <1>15, <1>17, <1>18 DEF FilesInv

-----------------------------------------------------------------------------
(* What one step changes of the processes. *)

(* A scan finds a number no greater than MaxNumber, in a folder ... *)
LEMMA PackageNumbers ==
  ASSUME FilesTypeOK, NumbersFit, TypesFit, NEW c \in Calls, NEW folder
  PROVE  LET here == {n[2] : n \in {n \in DOMAIN specs : n[1] = folder}}
             top  == Max({my[c].top} \cup here)
         IN  top \in 0 .. MaxNumber /\ my[c].top <= top /\ \A x \in here : x <= top
<1> USE BoundsAssumption
<1> DEFINE here == {n[2] : n \in {n \in DOMAIN specs : n[1] = folder}}
<1>1. here \subseteq 0 .. MaxNumber
  BY DEF FilesTypeOK, NumbersFit, PackageNames
<1>2. my[c].top \in 0 .. MaxNumber
  BY DEF TypesFit, Variables
<1> HIDE DEF here
<1>3. {my[c].top} \cup here \subseteq 0 .. MaxNumber /\ {my[c].top} \cup here # {}
  BY <1>1, <1>2
<1>4. Max({my[c].top} \cup here) \in 0 .. MaxNumber /\ \A x \in {my[c].top} \cup here : x <= Max({my[c].top} \cup here)
  BY <1>3, MaxOfBounded
<1> QED BY <1>4 DEF here

(* ... and among the backlog items. *)
LEMMA BacklogNumbers ==
  ASSUME FilesTypeOK, NumbersFit
  PROVE  LET last == Max({0} \cup {n[1] : n \in DOMAIN backlog})
         IN  last \in 0 .. MaxNumber /\ \A n \in DOMAIN backlog : n[1] <= last
<1> USE BoundsAssumption
<1> DEFINE used == {n[1] : n \in DOMAIN backlog}
<1>1. used \subseteq 0 .. MaxNumber
  BY DEF FilesTypeOK, NumbersFit, BacklogNames
<1>2. \A n \in DOMAIN backlog : n[1] \in used
  OBVIOUS
<1> HIDE DEF used
<1>3. {0} \cup used \subseteq 0 .. MaxNumber /\ {0} \cup used # {}
  BY <1>1
<1>4. Max({0} \cup used) \in 0 .. MaxNumber /\ \A x \in {0} \cup used : x <= Max({0} \cup used)
  BY <1>3, MaxOfBounded
<1>5. \A n \in DOMAIN backlog : n[1] <= Max({0} \cup used)
  BY <1>2, <1>4
<1> QED BY <1>4, <1>5 DEF used

(* A step of a script is a step of its process alone. *)
LEMMA ScriptMoves ==
  ASSUME FilesTypeOK, TypesFit, TriesFit, ScansFit, NumbersFit, NEW c \in Calls, ScriptStep(c)
  PROVE  /\ pc' \in [Calls -> Steps] /\ my' \in [Calls -> Variables] /\ UNCHANGED job
         /\ \A o \in Calls \ {c} : pc'[o] = pc[o] /\ my'[o] = my[o]
         /\ \/ pc[c] \in CaptureSteps /\ pc'[c] \in CaptureSteps \cup {"done"}
            \/ pc[c] \in BacklogSteps /\ pc'[c] \in BacklogSteps \cup {"done", "failed"}
            \/ pc[c] \in SpecifySteps /\ pc'[c] \in SpecifySteps \cup {"done", "failed"}
         /\ my'[c].tries <= MaxAttempts /\ (pc'[c] # "failed" => my'[c].tries < MaxAttempts)
<1> USE BoundsAssumption
<1> DEFINE Moves ==
         /\ \/ pc[c] \in CaptureSteps /\ pc'[c] \in CaptureSteps \cup {"done"}
            \/ pc[c] \in BacklogSteps /\ pc'[c] \in BacklogSteps \cup {"done", "failed"}
            \/ pc[c] \in SpecifySteps /\ pc'[c] \in SpecifySteps \cup {"done", "failed"}
         /\ my'[c].tries <= MaxAttempts /\ (pc'[c] # "failed" => my'[c].tries < MaxAttempts)
         Frame == UNCHANGED job /\ \A o \in Calls \ {c} : pc'[o] = pc[o] /\ my'[o] = my[o]
         Typed == pc' = [o \in Calls |-> pc'[o]] /\ my' \in [Calls -> Variables]
<1> SUFFICES Moves /\ Frame /\ Typed
  <2> HIDE DEF Moves, Frame, Typed
  <2>1. ASSUME Moves /\ Frame /\ Typed
        PROVE  \A o \in Calls : pc'[o] \in Steps
    BY <2>1 DEF Moves, Frame, Typed, TypesFit, Steps, FileSteps
  <2> QED BY <2>1 DEF Moves, Frame, Typed
<1>1. /\ pc = [o \in Calls |-> pc[o]] /\ my \in [Calls -> Variables]
      /\ my[c].tries \in Nat /\ my[c].suffix \in Nat /\ my[c].folder \in Nat
      /\ pc[c] \notin {"failed", "killed"} => my[c].tries < MaxAttempts
  BY DEF TypesFit, Variables, TriesFit
<1>2. CASE ReadSecond(c)
  <2>1. PICK s \in Seconds : my' = [my EXCEPT ![c].second = s, ![c].suffix = 1]
    BY <1>2 DEF ReadSecond
  <2>2. /\ my' \in [Calls -> Variables] /\ my'[c].tries = my[c].tries
        /\ \A o \in Calls \ {c} : my'[o] = my[o]
    BY <1>1, <2>1 DEF Variables
  <2> QED BY <1>1, <1>2, <2>2 DEF ReadSecond, At, Go, CaptureSteps
<1>3. CASE CaptureCreate(c)
  BY <1>1, <1>3 DEF CaptureCreate, At, Go, Variables, CaptureSteps
<1>4. CASE CaptureFill(c)
  BY <1>1, <1>4 DEF CaptureFill, At, Go, CaptureSteps
<1>5. CASE BacklogScan(c)
  <2> DEFINE next == Max({0} \cup {n[1] : n \in DOMAIN backlog}) + 1
  <2>1. next \in Nat
    BY BacklogNumbers
  <2>2. \/ next > MaxNumber /\ Go(c, "failed") /\ UNCHANGED my
        \/ next <= MaxNumber /\ my' = [my EXCEPT ![c].entry = next] /\ Go(c, "backlogCreate")
    BY <1>5, <2>1 DEF BacklogScan
  <2>3. UNCHANGED job /\ pc[c] = "backlogScan"
    BY <1>5 DEF BacklogScan, At
  <2> HIDE DEF next
  <2>4. CASE Go(c, "failed") /\ UNCHANGED my
    BY <1>1, <2>3, <2>4 DEF Go, BacklogSteps
  <2>5. CASE next <= MaxNumber /\ my' = [my EXCEPT ![c].entry = next] /\ Go(c, "backlogCreate")
    <3>1. next \in 0 .. MaxNumber
      BY <2>1, <2>5
    <3>2. /\ my' \in [Calls -> Variables] /\ my'[c].tries = my[c].tries
          /\ \A o \in Calls \ {c} : my'[o] = my[o]
      BY <1>1, <2>5, <3>1 DEF Variables
    <3> QED BY <1>1, <2>3, <2>5, <3>2 DEF Go, BacklogSteps
  <2> QED BY <2>2, <2>4, <2>5
<1>6. CASE BacklogCreate(c)
  BY <1>1, <1>6 DEF BacklogCreate, At, Go, NumberAgain, BacklogSteps
<1>7. CASE BacklogFill(c)
  BY <1>1, <1>7 DEF BacklogFill, At, Go, BacklogSteps
<1>8. CASE TakeLock(c)
  <2>1. UNCHANGED job /\ pc[c] = "lock"
    BY <1>8 DEF TakeLock, At
  <2>2. CASE LockIsFree
    <3>1. my' = [my EXCEPT ![c].folder = 1, ![c].top = 0, ![c].tries = 0] /\ Go(c, "scan")
      BY <1>8, <2>2 DEF TakeLock
    <3>2. /\ my' \in [Calls -> Variables] /\ my'[c].tries = 0
          /\ \A o \in Calls \ {c} : my'[o] = my[o]
      <4> DEFINE half == [my EXCEPT ![c].folder = 1, ![c].top = 0]
      <4>0. 0 \in 0 .. MaxNumber /\ my \in [Calls -> Variables]
        BY <1>1
      <4>1. half \in [Calls -> Variables] /\ \A o \in Calls \ {c} : half[o] = my[o]
        BY <4>0 DEF Variables
      <4>2. my' = [half EXCEPT ![c].tries = 0]
        BY <1>1, <3>1
      <4> HIDE DEF half
      <4> QED BY <4>1, <4>2 DEF Variables
    <3> QED BY <1>1, <2>1, <3>1, <3>2 DEF Go, SpecifySteps
  <2>3. CASE ~LockIsFree
    <3>1. /\ my' = [my EXCEPT ![c].tries = @ + 1]
          /\ IF LastAttempt(c) THEN Go(c, "failed") ELSE UNCHANGED pc
      BY <1>8, <2>3 DEF TakeLock
    <3>2. /\ my' \in [Calls -> Variables] /\ my'[c].tries = my[c].tries + 1
          /\ \A o \in Calls \ {c} : my'[o] = my[o]
      BY <1>1, <3>1 DEF Variables
    <3> QED BY <1>1, <2>1, <3>1, <3>2 DEF Go, LastAttempt, SpecifySteps
  <2> QED BY <2>2, <2>3
<1>9. CASE ScanFolder(c)
  <2> DEFINE here == {n[2] : n \in {n \in DOMAIN specs : n[1] = StateFolders[my[c].folder]}}
             top  == Max({my[c].top} \cup here)
  <2>1. top \in 0 .. MaxNumber
    BY PackageNumbers
  <2>2. my' = [my EXCEPT ![c].top = top, ![c].folder = @ + 1] /\ UNCHANGED job /\ pc[c] = "scan"
    BY <1>9 DEF ScanFolder, At
  <2>3. Go(c, "make") \/ UNCHANGED pc
    <3>1. IF my[c].folder = Len(StateFolders) THEN Go(c, "make") ELSE UNCHANGED pc
      BY <1>9, Zenon DEF ScanFolder
    <3> QED BY <3>1
  <2> HIDE DEF top
  <2>4. /\ my' \in [Calls -> Variables] /\ my'[c].tries = my[c].tries
        /\ \A o \in Calls \ {c} : my'[o] = my[o]
    BY <1>1, <2>1, <2>2 DEF Variables
  <2> QED BY <1>1, <2>2, <2>3, <2>4 DEF Go, SpecifySteps
<1>10. CASE MakePackage(c)
  <2>1. my[c].top \in 0 .. MaxNumber
    BY <1>1 DEF Variables
  <2>2. \E number \in 0 .. MaxNumber : my' = [my EXCEPT ![c].number = number]
    BY <1>10, <2>1 DEF MakePackage
  <2>3. UNCHANGED job /\ pc[c] = "make" /\ Go(c, "unlock")
    BY <1>10 DEF MakePackage, At
  <2>4. /\ my' \in [Calls -> Variables] /\ my'[c].tries = my[c].tries
        /\ \A o \in Calls \ {c} : my'[o] = my[o]
    BY <1>1, <2>2 DEF Variables
  <2> QED BY <1>1, <2>3, <2>4 DEF Go, SpecifySteps
<1>11. CASE ReleaseLock(c)
  BY <1>1, <1>11 DEF ReleaseLock, At, Go, SpecifySteps
<1>12. CASE WriteTemporary(c)
  BY <1>1, <1>12 DEF WriteTemporary, At, Go, SpecifySteps
<1>13. CASE RenameSpec(c)
  BY <1>1, <1>13 DEF RenameSpec, At, Go, SpecifySteps
<1>14. CASE RemovePackage(c)
  BY <1>1, <1>14 DEF RemovePackage, At, Go, SpecifySteps
<1> QED BY <1>2, <1>3, <1>4, <1>5, <1>6, <1>7, <1>8, <1>9, <1>10, <1>11, <1>12, <1>13, <1>14 DEF ScriptStep

(* What an import does to itself: it waits for a child it has started ...      *)
Starts(c) ==
  \E script \in {"capture", "backlog", "specify"} :
    /\ pc[c] \in {"idle", "done"} /\ stage[c] \in {"milestoneFill", "capture", "evidence", "promotion"}
    /\ theme'[c] \in 1 .. Len(ThemesOf(c))
    /\ stage'[c] = script
    /\ job'[c] = Child(c, theme'[c], script) /\ pc'[c] = Entry(job'[c])

(* ... or goes from stage to stage.                                            *)
Advances(c) ==
  /\ pc'[c] = pc[c] /\ theme'[c] = theme[c] /\ job'[c] = job[c]
  /\ \/ stage[c] = "source" /\ stage'[c] = "failed"
     \/ stage[c] = "source" /\ stage'[c] = "milestone" /\ Source(c) \in Texts
     \/ stage[c] = "milestone" /\ stage'[c] \in {"milestoneFill", "failed"}
     \/ stage[c] \in {"milestoneFill", "capture", "promotion"} /\ pc[c] \in {"idle", "done"} /\ stage'[c] = "done"
     \/ Returned(c, "backlog") /\ stage'[c] = "evidence"
     \/ Returned(c, "specify") /\ stage'[c] = "draft"
     \/ stage[c] = "draft" /\ stage'[c] = "promote"
     \/ stage[c] = "promote" /\ stage'[c] = "promotion"
     \/ stage[c] \in {"capture", "backlog", "specify"} /\ pc[c] = "failed" /\ stage'[c] = "failed"

Others(c) ==
  \A o \in Calls \ {c} : pc'[o] = pc[o] /\ stage'[o] = stage[o] /\ theme'[o] = theme[o] /\ job'[o] = job[o]

(* A child starts with the first step of its script, or is refused at      *)
(* once.                                                                   *)
LEMMA EntriesAreSteps ==
  ASSUME NEW c \in Calls, NEW script \in {"capture", "backlog", "specify"},
         Source(c) \in Texts, NEW i \in 1 .. Len(ThemesOf(c))
  PROVE  LET first_ == Entry(Child(c, i, script))
         IN  /\ script = "capture" => first_ \in {"second", "failed"}
             /\ script = "backlog" => first_ \in {"backlogScan", "failed"}
             /\ script = "specify" => first_ \in {"lock", "failed"}
<1>1. Child(c, i, script).accepted \in BOOLEAN /\ Child(c, i, script).script = script
  BY ChildIsAJob DEF Jobs
<1> QED BY <1>1 DEF Entry

(* A step of an import starts a child or goes to the next stage, and is a  *)
(* step of its process alone.                                              *)
LEMMA ImportMoves ==
  ASSUME TypesFit, RequestsFit, StepsFit, JobsFit, NEW c \in Calls, ImportStep(c)
  PROVE  /\ Importing(c) /\ UNCHANGED <<inbox, lock, my, faults, moves, request>>
         /\ pc' = [o \in Calls |-> pc'[o]] /\ stage' = [o \in Calls |-> stage'[o]]
         /\ theme' = [o \in Calls |-> theme'[o]] /\ DOMAIN job' = Calls
         /\ Others(c) /\ (Starts(c) \/ Advances(c))
<1>1. /\ pc = [o \in Calls |-> pc[o]] /\ stage = [o \in Calls |-> stage[o]]
      /\ theme = [o \in Calls |-> theme[o]] /\ DOMAIN job = Calls /\ theme[c] \in Nat
  BY DEF TypesFit
<1> DEFINE Typed == /\ pc' = [o \in Calls |-> pc'[o]] /\ stage' = [o \in Calls |-> stage'[o]]
                    /\ theme' = [o \in Calls |-> theme'[o]] /\ DOMAIN job' = Calls
<1>2. UNCHANGED <<inbox, lock, my, faults, moves, request>>
  BY DEF ImportStep, ReadMvpSource, CreateMilestone, FillMilestone, InboxReturned, BacklogReturned,
         WriteEvidence, SpecReturned, WriteDraft, OpenBacklog, Promote, ChildFailed, fileVars, fileVarsButPc
<1>3. stage[c] # "done"
  BY DEF ImportStep, ReadMvpSource, CreateMilestone, FillMilestone, InboxReturned, BacklogReturned,
         WriteEvidence, SpecReturned, WriteDraft, OpenBacklog, Promote, ChildFailed, Awaits, Returned
<1>4. Importing(c)
  BY <1>3 DEF StepsFit
<1>5. stage[c] \in {"capture", "backlog", "evidence", "specify", "draft", "promote", "promotion"} =>
        theme[c] \in 1 .. Len(ThemesOf(c)) /\ Source(c) \in Texts
  BY <1>4 DEF JobsFit, AtTheme, ThemeStages
<1>6. ASSUME NEW i \in 1 .. Len(ThemesOf(c)), NEW script \in {"capture", "backlog", "specify"},
             Run(c, i, script), theme' = [theme EXCEPT ![c] = i], pc[c] \in {"idle", "done"},
             stage[c] \in {"milestoneFill", "capture", "evidence", "promotion"}
      PROVE  Typed /\ Others(c) /\ Starts(c)
  BY <1>1, <1>6 DEF Run, Go, Others, Starts
<1>7. ASSUME NEW i \in Nat \ {0}, Continue(c, i), pc[c] \in {"idle", "done"},
             stage[c] \in {"milestoneFill", "capture", "promotion"}
      PROVE  Typed /\ Others(c) /\ (Starts(c) \/ Advances(c))
  <2>1. CASE NoThemeLeft(c, i)
    <3>1. Stage(c, "done") /\ UNCHANGED <<job, pc, theme>>
      BY <1>7, <2>1 DEF Continue
    <3> QED BY <1>1, <1>7, <3>1 DEF Stage, Others, Advances
  <2>2. CASE ~NoThemeLeft(c, i)
    <3>1. Run(c, i, "capture") /\ theme' = [theme EXCEPT ![c] = i]
      BY <1>7, <2>2 DEF Continue
    <3>2. Source(c) \in Texts
      BY <1>4, <1>7 DEF JobsFit
    <3>3. Len(ThemesOf(c)) \in Nat
      BY <3>2 DEF Texts, ThemesOf
    <3>4. i \in 1 .. Len(ThemesOf(c))
      BY <1>7, <2>2, <3>3 DEF NoThemeLeft
    <3> QED BY <1>6, <1>7, <3>1, <3>4
  <2> QED BY <2>1, <2>2
<1>8. ASSUME NEW s, Stage(c, s), UNCHANGED <<job, pc, theme>>
      PROVE  Typed /\ Others(c) /\ stage'[c] = s /\ pc'[c] = pc[c] /\ theme'[c] = theme[c] /\ job'[c] = job[c]
  BY <1>1, <1>8 DEF Stage, Others
<1> SUFFICES Typed /\ Others(c) /\ (Starts(c) \/ Advances(c))
  BY <1>2, <1>4
<1> HIDE DEF Typed
<1>9. CASE ReadMvpSource(c)
  <2>1. stage[c] = "source" /\ UNCHANGED <<job, pc, theme>>
    BY <1>9 DEF ReadMvpSource, fileVars, fileVarsButPc
  <2>2. CASE Stage(c, "failed")
    BY <1>8, <2>1, <2>2 DEF Advances
  <2>3. CASE Source(c) # NoText /\ Stage(c, "milestone")
    <3>1. Source(c) \in Texts
      BY <1>4, <2>3 DEF RequestsFit, Importing, Source, Imports, Jobs, Contextual, Scripts
    <3> QED BY <1>8, <2>1, <2>3, <3>1 DEF Advances
  <2>4. Stage(c, "failed") \/ (Source(c) # NoText /\ Stage(c, "milestone"))
    BY <1>9 DEF ReadMvpSource
  <2> QED BY <2>2, <2>3, <2>4
<1>10. CASE CreateMilestone(c)
  <2>1. stage[c] = "milestone" /\ UNCHANGED <<job, pc, theme>> /\ (Stage(c, "milestoneFill") \/ Stage(c, "failed"))
    BY <1>10 DEF CreateMilestone, fileVars, fileVarsButPc
  <2> QED BY <1>8, <2>1 DEF Advances
<1>11. CASE FillMilestone(c)
  <2>1. stage[c] = "milestoneFill" /\ Continue(c, 1)
    BY <1>11 DEF FillMilestone
  <2>2. pc[c] = "idle"
    BY <1>4, <2>1 DEF StepsFit
  <2> QED BY <1>7, <2>1, <2>2
<1>12. CASE InboxReturned(c)
  <2>1. stage[c] = "capture" /\ pc[c] = "done"
    BY <1>12 DEF InboxReturned, Returned, Back, At
  <2>2. CASE Run(c, theme[c], "backlog") /\ UNCHANGED theme
    <3>1. theme' = [theme EXCEPT ![c] = theme[c]]
      BY <1>1, <2>2
    <3> QED BY <1>5, <1>6, <2>1, <2>2, <3>1
  <2>3. CASE Continue(c, theme[c] + 1)
    BY <1>1, <1>7, <2>1, <2>3
  <2> QED BY <1>12, <2>2, <2>3 DEF InboxReturned
<1>13. CASE BacklogReturned(c)
  BY <1>8, <1>13 DEF BacklogReturned, Advances
<1>14. CASE WriteEvidence(c)
  <2>1. stage[c] = "evidence" /\ Run(c, theme[c], "specify") /\ UNCHANGED theme
    BY <1>14 DEF WriteEvidence
  <2>2. pc[c] = "done"
    BY <1>4, <2>1 DEF StepsFit
  <2>3. theme' = [theme EXCEPT ![c] = theme[c]]
    BY <1>1, <2>1
  <2> QED BY <1>5, <1>6, <2>1, <2>2, <2>3
<1>15. CASE SpecReturned(c)
  BY <1>8, <1>15 DEF SpecReturned, Advances
<1>16. CASE WriteDraft(c)
  BY <1>8, <1>16 DEF WriteDraft, Advances
<1>17. CASE OpenBacklog(c)
  BY <1>8, <1>17 DEF OpenBacklog, Advances
<1>18. CASE Promote(c)
  <2>1. stage[c] = "promotion" /\ Continue(c, theme[c] + 1)
    BY <1>18 DEF Promote
  <2>2. pc[c] = "done"
    BY <1>4, <2>1 DEF StepsFit
  <2> QED BY <1>1, <1>7, <2>1, <2>2
<1>19. CASE ChildFailed(c)
  BY <1>8, <1>19 DEF ChildFailed, Advances, Awaits, At, fileVars, fileVarsButPc
<1> QED BY <1>9, <1>10, <1>11, <1>12, <1>13, <1>14, <1>15, <1>16, <1>17, <1>18, <1>19 DEF ImportStep

(* Processes stay at the steps of what they run, whoever acts. *)
ProcessesInv == TypesFit /\ RequestsFit /\ StepsFit /\ TriesFit /\ JobsFit

(* The processes stay at the steps of their scripts, with jobs that fit. *)
LEMMA ProcessesStay ==
  ASSUME FilesInv, FileNext  PROVE ProcessesInv'
<1> USE BoundsAssumption
<1>1. /\ FilesTypeOK /\ TypesFit /\ RequestsFit /\ StepsFit /\ TriesFit /\ JobsFit /\ ScansFit /\ NumbersFit
      /\ pc = [o \in Calls |-> pc[o]] /\ stage = [o \in Calls |-> stage[o]]
      /\ \A o \in Calls : pc[o] \in Steps /\ stage[o] \in Stages
  BY DEF FilesInv, TypesFit
<1> DEFINE StepsAt(c) ==
             /\ pc[c] \in CaptureSteps => ScriptOf(c) = "capture"
             /\ pc[c] \in BacklogSteps => ScriptOf(c) = "backlog"
             /\ pc[c] \in SpecifySteps => ScriptOf(c) = "specify"
             /\ pc[c] \in ContextSteps => Contextual(c)
             /\ ~Importing(c) => stage[c] = "done"
             /\ Importing(c) =>
                  /\ stage[c] \in {"source", "milestone", "milestoneFill"} => pc[c] = "idle"
                  /\ stage[c] \in {"evidence", "draft", "promote", "promotion"} => pc[c] = "done"
                  /\ stage[c] \in {"capture", "backlog", "specify"} => pc[c] \in FileSteps \cup {"done", "failed"}
           TriesAt(c) == pc[c] \notin {"failed", "killed"} => my[c].tries < MaxAttempts
           JobsAt(c) ==
             /\ ~Importing(c) => job[c] = request[c] /\ theme[c] = 0
             /\ Importing(c) /\ stage[c] \notin {"source", "failed", "killed"} => Source(c) \in Texts
             /\ AtTheme(c) => /\ theme[c] \in 1 .. Len(ThemesOf(c))
                              /\ job[c] = Child(c, theme[c], ChildOf(stage[c]))
           At_(c) == StepsAt(c) /\ TriesAt(c) /\ JobsAt(c)
           Others_(c) == \A o \in Calls \ {c} : /\ pc'[o] = pc[o] /\ stage'[o] = stage[o] /\ theme'[o] = theme[o]
                                                /\ job'[o] = job[o] /\ my'[o] = my[o]
           Typed == /\ pc' \in [Calls -> Steps] /\ stage' \in [Calls -> Stages] /\ theme' \in [Calls -> Nat]
                    /\ my' \in [Calls -> Variables] /\ DOMAIN job' = Calls
<1>2. \A c \in Calls : At_(c)
  BY <1>1 DEF StepsFit, TriesFit, JobsFit
<1>3. (\A c \in Calls : At_(c)') => StepsFit' /\ TriesFit' /\ JobsFit'
  BY DEF StepsFit, TriesFit, JobsFit
<1> HIDE DEF At_, Typed
<1>4. ASSUME NEW c \in Calls, UNCHANGED request, Others_(c), At_(c)', Typed
      PROVE  ProcessesInv'
  <2>1. ASSUME NEW o \in Calls, o # c  PROVE At_(o)'
    <3>1. At_(o)
      BY <1>2
    <3> QED BY <1>4, <2>1, <3>1 DEF At_, ScriptOf, Importing, Contextual, AtTheme, Source, ThemesOf, Child
  <2>2. \A o \in Calls : At_(o)'
    BY <1>4, <2>1
  <2>3. RequestsFit'
    BY <1>1, <1>4 DEF RequestsFit, Contextual
  <2>4. TypesFit'
    BY <1>4 DEF TypesFit, Typed
  <2> QED BY <1>3, <2>2, <2>3, <2>4 DEF ProcessesInv
<1>5. ASSUME NEW c \in Calls, ScriptStep(c), UNCHANGED Rest  PROVE ProcessesInv'
  <2>1. UNCHANGED request /\ UNCHANGED stage /\ UNCHANGED theme
    BY <1>5 DEF Rest
  <2>2. /\ pc' \in [Calls -> Steps] /\ my' \in [Calls -> Variables] /\ UNCHANGED job
        /\ \A o \in Calls \ {c} : pc'[o] = pc[o] /\ my'[o] = my[o]
        /\ \/ pc[c] \in CaptureSteps /\ pc'[c] \in CaptureSteps \cup {"done"}
           \/ pc[c] \in BacklogSteps /\ pc'[c] \in BacklogSteps \cup {"done", "failed"}
           \/ pc[c] \in SpecifySteps /\ pc'[c] \in SpecifySteps \cup {"done", "failed"}
        /\ my'[c].tries <= MaxAttempts /\ (pc'[c] # "failed" => my'[c].tries < MaxAttempts)
    BY <1>1, <1>5, ScriptMoves
  <2>3. Typed
    BY <1>1, <2>1, <2>2 DEF Typed, TypesFit
  <2>4. pc[c] \in FileSteps
    BY <2>2 DEF FileSteps
  <2>5. /\ ~Contextual(c) /\ (Importing(c) => AtTheme(c))
        /\ \/ pc[c] \in CaptureSteps /\ ScriptOf(c) = "capture"
           \/ pc[c] \in BacklogSteps /\ ScriptOf(c) = "backlog"
           \/ pc[c] \in SpecifySteps /\ ScriptOf(c) = "specify"
    BY <1>1, <2>4, ScriptsAtWork
  <2>6. StepsAt(c)'
    <3>1. ScriptOf(c)' = ScriptOf(c) /\ Importing(c)' = Importing(c)
      BY <2>1 DEF ScriptOf, Importing
    <3>2. ~Importing(c) => stage[c] = "done"
      BY <1>1 DEF StepsFit
    <3>3. Importing(c) => stage[c] = ScriptOf(c)
      BY DEF ScriptOf
    <3>4. \/ pc[c] \in CaptureSteps /\ pc'[c] \in CaptureSteps \cup {"done"} /\ ScriptOf(c) = "capture"
          \/ pc[c] \in BacklogSteps /\ pc'[c] \in BacklogSteps \cup {"done", "failed"} /\ ScriptOf(c) = "backlog"
          \/ pc[c] \in SpecifySteps /\ pc'[c] \in SpecifySteps \cup {"done", "failed"} /\ ScriptOf(c) = "specify"
      BY <2>2, <2>5 DEF CaptureSteps, BacklogSteps, SpecifySteps
    <3> QED BY <2>1, <3>1, <3>2, <3>3, <3>4 DEF CaptureSteps, BacklogSteps, SpecifySteps, ContextSteps, FileSteps
  <2>7. TriesAt(c)' /\ JobsAt(c)'
    BY <1>2, <2>1, <2>2 DEF At_, Importing, AtTheme, Source, ThemesOf, Child
  <2> QED BY <1>4, <2>1, <2>2, <2>3, <2>6, <2>7 DEF At_
<1>6. ASSUME NEW c \in Calls, ImportStep(c)  PROVE ProcessesInv'
  <2>1. /\ Importing(c) /\ UNCHANGED my /\ UNCHANGED request
        /\ pc' = [o \in Calls |-> pc'[o]] /\ stage' = [o \in Calls |-> stage'[o]]
        /\ theme' = [o \in Calls |-> theme'[o]] /\ DOMAIN job' = Calls
        /\ Others(c) /\ (Starts(c) \/ Advances(c))
    BY <1>1, <1>6, ImportMoves
  <2>2. Importing(c)' /\ Source(c)' = Source(c) /\ ThemesOf(c)' = ThemesOf(c) /\ ~Contextual(c)
    BY <2>1 DEF Importing, Source, ThemesOf, Contextual, Scripts
  <2>3. my[c].tries \in Nat /\ theme[c] \in Nat /\ \A o \in Calls : my[o] \in Variables /\ theme[o] \in Nat
    BY <1>1 DEF TypesFit, Variables
  <2>4. Others_(c)
    BY <2>1 DEF Others
  <2>5. CASE Starts(c)
    <3>1. PICK script \in {"capture", "backlog", "specify"} :
            /\ pc[c] \in {"idle", "done"} /\ stage[c] \in {"milestoneFill", "capture", "evidence", "promotion"}
            /\ theme'[c] \in 1 .. Len(ThemesOf(c))
            /\ stage'[c] = script
            /\ job'[c] = Child(c, theme'[c], script) /\ pc'[c] = Entry(job'[c])
      BY <2>5 DEF Starts
    <3>2. Source(c) \in Texts
      BY <1>1, <2>1, <3>1 DEF JobsFit
    <3>3. /\ script = "capture" => pc'[c] \in {"second", "failed"}
          /\ script = "backlog" => pc'[c] \in {"backlogScan", "failed"}
          /\ script = "specify" => pc'[c] \in {"lock", "failed"}
      BY <3>1, <3>2, EntriesAreSteps
    <3>4. theme'[c] \in Nat
      BY <3>1
    <3>5. Typed
      <4>1. \A o \in Calls : pc'[o] \in Steps /\ stage'[o] \in Stages /\ theme'[o] \in Nat
        BY <1>1, <2>3, <2>4, <3>1, <3>3, <3>4
           DEF Steps, Stages, ThemeStages, FileSteps, CaptureSteps, BacklogSteps, SpecifySteps
      <4> QED BY <1>1, <2>1, <4>1 DEF Typed, TypesFit
    <3>6. StepsAt(c)'
      BY <2>2, <3>1, <3>3 DEF ScriptOf, CaptureSteps, BacklogSteps, SpecifySteps, ContextSteps, FileSteps
    <3>7. TriesAt(c)'
      BY <1>1, <2>1, <3>1 DEF TriesFit
    <3>8. JobsAt(c)'
      <4>1. ChildOf(script) = script
        BY <3>1 DEF ChildOf
      <4>2. Child(c, theme'[c], script) = Child(c, theme[c], script)'
        BY <2>2 DEF Child
      <4>3. ChildOf(stage[c])' = script
        BY <3>1, <4>1 DEF ChildOf
      <4> QED BY <2>2, <3>1, <3>2, <4>2, <4>3
    <3> QED BY <1>4, <2>1, <2>4, <3>5, <3>6, <3>7, <3>8 DEF At_
  <2>6. CASE Advances(c)
    <3>1. /\ pc'[c] = pc[c] /\ theme'[c] = theme[c] /\ job'[c] = job[c]
          /\ \/ stage[c] = "source" /\ stage'[c] = "failed"
             \/ stage[c] = "source" /\ stage'[c] = "milestone" /\ Source(c) \in Texts
             \/ stage[c] = "milestone" /\ stage'[c] \in {"milestoneFill", "failed"}
             \/ /\ stage[c] \in {"milestoneFill", "capture", "promotion"} /\ pc[c] \in {"idle", "done"}
                /\ stage'[c] = "done"
             \/ stage[c] = "backlog" /\ pc[c] = "done" /\ stage'[c] = "evidence"
             \/ stage[c] = "specify" /\ pc[c] = "done" /\ stage'[c] = "draft"
             \/ stage[c] = "draft" /\ stage'[c] = "promote"
             \/ stage[c] = "promote" /\ stage'[c] = "promotion"
             \/ stage[c] \in {"capture", "backlog", "specify"} /\ pc[c] = "failed" /\ stage'[c] = "failed"
      BY <2>6 DEF Advances, Returned, Back, At
    <3>2. Typed
      <4>1. \A o \in Calls : pc'[o] \in Steps /\ stage'[o] \in Stages /\ theme'[o] \in Nat
        BY <1>1, <2>3, <2>4, <3>1 DEF Stages, ThemeStages
      <4> QED BY <1>1, <2>1, <4>1 DEF Typed, TypesFit
    <3>3. StepsAt(c)'
      <4>1. pc[c] \in {"idle", "done", "failed"}
        BY <1>1, <2>1, <3>1 DEF StepsFit
      <4> QED BY <1>1, <2>1, <2>2, <3>1, <4>1
              DEF StepsFit, ScriptOf, CaptureSteps, BacklogSteps, SpecifySteps, ContextSteps, FileSteps
    <3>4. TriesAt(c)'
      BY <1>1, <2>1, <3>1 DEF TriesFit
    <3>5. JobsAt(c)'
      <4>1. \A s : Child(c, theme[c], s)' = Child(c, theme[c], s)
        BY <2>2, <3>1 DEF Child
      <4>2. AtTheme(c)' => AtTheme(c) /\ ChildOf(stage'[c]) = ChildOf(stage[c])
        BY <2>1, <3>1 DEF AtTheme, ThemeStages, ChildOf
      <4>3. stage'[c] \notin {"source", "failed", "killed"} => Source(c) \in Texts
        BY <1>1, <2>1, <3>1 DEF JobsFit
      <4>4. AtTheme(c) => theme[c] \in 1 .. Len(ThemesOf(c)) /\ job[c] = Child(c, theme[c], ChildOf(stage[c]))
        BY <1>1 DEF JobsFit
      <4>5. AtTheme(c)' => job'[c] = Child(c, theme[c], ChildOf(stage[c]))'
        BY <3>1, <4>1, <4>2, <4>4
      <4> QED BY <2>2, <3>1, <4>2, <4>3, <4>4, <4>5
    <3> QED BY <1>4, <2>1, <2>4, <3>2, <3>3, <3>4, <3>5 DEF At_
  <2> QED BY <2>1, <2>5, <2>6
<1>7. ASSUME NEW c \in Calls, UNCHANGED <<my, job, request, theme>>,
             NEW s \in Steps, pc' = [pc EXCEPT ![c] = s],
             NEW t \in Stages, stage' = [stage EXCEPT ![c] = t], StepsAt(c)', TriesAt(c)',
             AtTheme(c)' => AtTheme(c) /\ t = stage[c],
             Importing(c) /\ t \notin {"source", "failed", "killed"} => t = stage[c]
      PROVE  ProcessesInv'
  <2>1. Others_(c) /\ UNCHANGED request /\ stage'[c] = t
    BY <1>1, <1>7
  <2>2. Typed
    BY <1>1, <1>7 DEF Typed, TypesFit
  <2>3. JobsAt(c)'
    <3>1. JobsAt(c)
      BY <1>2 DEF At_
    <3>2. Importing(c)' = Importing(c) /\ Source(c)' = Source(c) /\ ThemesOf(c)' = ThemesOf(c)
      BY <1>7 DEF Importing, Source, ThemesOf
    <3>3. \A s1 : Child(c, theme[c], s1)' = Child(c, theme[c], s1)
      BY <1>7, <3>2 DEF Child
    <3>4. job'[c] = job[c] /\ theme'[c] = theme[c] /\ request'[c] = request[c]
      BY <1>7
    <3>5. AtTheme(c)' => AtTheme(c) /\ ChildOf(stage[c])' = ChildOf(stage[c])
      BY <1>7, <2>1 DEF ChildOf
    <3>6. AtTheme(c)' => job'[c] = Child(c, theme[c], ChildOf(stage[c]))'
      BY <3>1, <3>3, <3>4, <3>5
    <3>7. Importing(c)' /\ stage'[c] \notin {"source", "failed", "killed"} => (Source(c) \in Texts)'
      BY <1>7, <2>1, <3>1, <3>2
    <3> QED BY <3>1, <3>2, <3>4, <3>5, <3>6, <3>7
  <2> QED BY <1>4, <1>7, <2>1, <2>2, <2>3 DEF At_
<1>8. ASSUME NEW c \in Calls, Passing(c)  PROVE ProcessesInv'
  <2>1. PICK s \in ContextSteps \cup {"done", "failed"} : pc' = [pc EXCEPT ![c] = s]
    BY <1>8 DEF Passing, Go
  <2>2. UNCHANGED <<my, job, request, theme>> /\ UNCHANGED stage /\ Contextual(c) /\ pc[c] \in ContextSteps
    BY <1>8 DEF Passing, fileVarsButPc
  <2>3. s \in Steps /\ stage[c] \in Stages /\ stage' = [stage EXCEPT ![c] = stage[c]] /\ pc'[c] = s
    BY <1>1, <2>1, <2>2 DEF Steps
  <2>4. ~Importing(c)
    BY <2>2 DEF Contextual, Importing, Scripts
  <2>5. StepsAt(c)'
    <3>1. stage'[c] = "done" /\ ~Importing(c)' /\ Contextual(c)'
      BY <1>1, <2>2, <2>4 DEF StepsFit, Importing, Contextual
    <3> QED BY <2>1, <2>3, <3>1 DEF CaptureSteps, BacklogSteps, SpecifySteps, ContextSteps
  <2>6. TriesAt(c)'
    BY <1>1, <2>2 DEF TriesFit, ContextSteps
  <2> QED BY <1>7, <2>1, <2>2, <2>3, <2>4, <2>5, <2>6 DEF AtTheme, Importing
<1>9. ASSUME NEW c \in Calls, Killed(c)  PROVE ProcessesInv'
  <2>1. /\ UNCHANGED <<my, job, request, theme>> /\ pc' = [pc EXCEPT ![c] = "killed"]
        /\ stage' = [stage EXCEPT ![c] = IF Importing(c) THEN "killed" ELSE stage[c]]
    BY <1>1, <1>9 DEF Killed, Go
  <2>2. "killed" \in Steps /\ "killed" \in Stages /\ pc'[c] = "killed" /\ Importing(c)' = Importing(c)
        /\ stage'[c] = IF Importing(c) THEN "killed" ELSE stage[c]
    BY <1>1, <2>1 DEF Steps, Stages, Importing
  <2>3. StepsAt(c)' /\ TriesAt(c)'
    BY <1>1, <2>2 DEF StepsFit, CaptureSteps, BacklogSteps, SpecifySteps, ContextSteps
  <2> QED BY <1>1, <1>7, <2>1, <2>2, <2>3 DEF AtTheme, ThemeStages
<1>10. ASSUME NEW c \in Calls, ImportWriteFails(c)  PROVE ProcessesInv'
  <2>1. /\ UNCHANGED <<my, job, request, theme>> /\ UNCHANGED pc /\ stage' = [stage EXCEPT ![c] = "failed"]
        /\ stage[c] \in {"milestoneFill", "evidence", "draft", "promotion"}
    BY <1>10 DEF ImportWriteFails, Stage
  <2>2. "failed" \in Stages /\ stage'[c] = "failed" /\ pc' = [pc EXCEPT ![c] = pc[c]]
        /\ Importing(c) /\ Importing(c)' /\ pc'[c] = pc[c] /\ pc[c] \in {"idle", "done"}
    BY <1>1, <2>1 DEF Stages, StepsFit, Importing
  <2>3. StepsAt(c)' /\ TriesAt(c)'
    BY <1>1, <2>1, <2>2 DEF TriesFit, CaptureSteps, BacklogSteps, SpecifySteps, ContextSteps
  <2> QED BY <1>1, <1>7, <2>1, <2>2, <2>3 DEF AtTheme, ThemeStages
<1>11. ASSUME NEW c \in Calls, WriteFails(c), UNCHANGED Rest  PROVE ProcessesInv'
  <2>1. /\ UNCHANGED <<my, job, request, theme>> /\ UNCHANGED stage
        /\ \/ pc[c] \in {"captureFill", "backlogFill"} /\ pc' = [pc EXCEPT ![c] = "failed"]
           \/ pc[c] \in {"temporary", "rename"} /\ pc' = [pc EXCEPT ![c] = "undo"]
    BY <1>11 DEF WriteFails, Rest, Go
  <2>2. PICK s \in {"failed", "undo"} :
          /\ pc' = [pc EXCEPT ![c] = s]
          /\ s = "undo" => pc[c] \in {"temporary", "rename"}
          /\ s = "failed" => pc[c] \in {"captureFill", "backlogFill"}
    BY <2>1
  <2>3. s \in Steps /\ pc'[c] = s /\ stage[c] \in Stages /\ stage' = [stage EXCEPT ![c] = stage[c]]
        /\ Importing(c)' = Importing(c) /\ stage'[c] = stage[c] /\ ScriptOf(c)' = ScriptOf(c)
    BY <1>1, <2>1, <2>2 DEF Steps, FileSteps, SpecifySteps, Importing, ScriptOf
  <2>4. pc[c] \in FileSteps /\ pc[c] \notin {"idle", "done"} /\ (s = "undo" => ScriptOf(c) = "specify")
    BY <1>1, <2>2 DEF FileSteps, CaptureSteps, BacklogSteps, SpecifySteps, StepsFit
  <2>5. StepsAt(c)'
    BY <1>1, <2>2, <2>3, <2>4 DEF StepsFit, CaptureSteps, BacklogSteps, SpecifySteps, ContextSteps, FileSteps
  <2>6. TriesAt(c)'
    BY <1>1, <2>1, <2>2, <2>3 DEF TriesFit
  <2> QED BY <1>1, <1>7, <2>1, <2>2, <2>3, <2>5, <2>6 DEF AtTheme, Importing
<1>12. ASSUME UNCHANGED <<pc, my, job>>, UNCHANGED <<request, milestone, stage, theme>>  PROVE ProcessesInv'
  <2>1. UNCHANGED request /\ UNCHANGED stage /\ UNCHANGED theme /\ UNCHANGED pc /\ UNCHANGED my /\ UNCHANGED job
    BY <1>12
  <2>2. TypesFit' /\ RequestsFit'
    BY <1>1, <2>1 DEF TypesFit, RequestsFit, Contextual
  <2>3. ASSUME NEW c \in Calls  PROVE At_(c)'
    <3>1. At_(c)
      BY <1>2
    <3> QED BY <2>1, <3>1 DEF At_, ScriptOf, Importing, Contextual, AtTheme, Source, ThemesOf, Child
  <2> QED BY <1>3, <2>2, <2>3 DEF ProcessesInv
<1>13. ASSUME NEW name \in DOMAIN specs, Transition(name), UNCHANGED Rest  PROVE ProcessesInv'
  BY <1>12, <1>13 DEF Transition, Rest
<1>14. ASSUME UNCHANGED vars  PROVE ProcessesInv'
  BY <1>12, <1>14 DEF vars, fileVars, fileVarsButPc, Rest
<1>15. ASSUME NEW c \in Calls, Orphaned(c)  PROVE ProcessesInv'
  BY <1>12, <1>15 DEF Orphaned
<1> QED BY <1>5, <1>6, <1>8, <1>9, <1>10, <1>11, <1>13, <1>14, <1>15 DEF FileNext

-----------------------------------------------------------------------------
(* What one step changes of the files. *)

(* Two steps change the Inboxes ... *)
LEMMA InboxChanges ==
  ASSUME FileNext
  PROVE  \/ UNCHANGED inbox
         \/ \E c \in Calls : (CaptureCreate(c) \/ CaptureFill(c)) /\ UNCHANGED Rest
<1>1. ASSUME NEW c \in Calls, ScriptStep(c), ~CaptureCreate(c), ~CaptureFill(c)  PROVE UNCHANGED inbox
  BY <1>1 DEF ScriptStep, ReadSecond, BacklogScan, BacklogCreate, BacklogFill, TakeLock, ScanFolder, MakePackage,
              ReleaseLock, WriteTemporary, RenameSpec, RemovePackage
<1>2. ASSUME NEW c \in Calls, ImportStep(c)  PROVE UNCHANGED inbox
  BY <1>2 DEF ImportStep, ReadMvpSource, CreateMilestone, FillMilestone, InboxReturned, BacklogReturned,
              WriteEvidence, SpecReturned, WriteDraft, OpenBacklog, Promote, ChildFailed, fileVars, fileVarsButPc
<1>3. ASSUME NEW c \in Calls, Passing(c) \/ Killed(c) \/ Orphaned(c) \/ ImportWriteFails(c) \/ WriteFails(c)
      PROVE  UNCHANGED inbox
  BY <1>3 DEF Passing, Killed, Orphaned, ImportWriteFails, WriteFails, fileVarsButPc
<1>4. ASSUME NEW name \in DOMAIN specs, Transition(name)  PROVE UNCHANGED inbox
  BY <1>4 DEF Transition
<1>5. UNCHANGED vars => UNCHANGED inbox
  BY DEF vars, fileVars, fileVarsButPc
<1> QED BY <1>1, <1>2, <1>3, <1>4, <1>5 DEF FileNext

(* ... six the backlog items ... *)
LEMMA BacklogChanges ==
  ASSUME FileNext
  PROVE  \/ UNCHANGED backlog
         \/ \E c \in Calls : (BacklogCreate(c) \/ BacklogFill(c)) /\ UNCHANGED Rest
         \/ \E c \in Calls : BacklogReturned(c) \/ WriteEvidence(c) \/ OpenBacklog(c) \/ Promote(c)
<1>1. ASSUME NEW c \in Calls, ScriptStep(c), ~BacklogCreate(c), ~BacklogFill(c)  PROVE UNCHANGED backlog
  BY <1>1 DEF ScriptStep, ReadSecond, CaptureCreate, CaptureFill, BacklogScan, TakeLock, ScanFolder, MakePackage,
              ReleaseLock, WriteTemporary, RenameSpec, RemovePackage
<1>2. ASSUME NEW c \in Calls, ImportStep(c), ~BacklogReturned(c), ~WriteEvidence(c), ~OpenBacklog(c), ~Promote(c)
      PROVE  UNCHANGED backlog
  BY <1>2 DEF ImportStep, ReadMvpSource, CreateMilestone, FillMilestone, InboxReturned,
              SpecReturned, WriteDraft, ChildFailed, fileVars, fileVarsButPc
<1>3. ASSUME NEW c \in Calls, Passing(c) \/ Killed(c) \/ Orphaned(c) \/ ImportWriteFails(c) \/ WriteFails(c)
      PROVE  UNCHANGED backlog
  BY <1>3 DEF Passing, Killed, Orphaned, ImportWriteFails, WriteFails, fileVarsButPc
<1>4. ASSUME NEW name \in DOMAIN specs, Transition(name)  PROVE UNCHANGED backlog
  BY <1>4 DEF Transition
<1>5. UNCHANGED vars => UNCHANGED backlog
  BY DEF vars, fileVars, fileVarsButPc
<1> QED BY <1>1, <1>2, <1>3, <1>4, <1>5 DEF FileNext

(* ... and seven the packages. *)
LEMMA SpecsChange ==
  ASSUME FileNext
  PROVE  \/ UNCHANGED specs
         \/ \E c \in Calls :
              (MakePackage(c) \/ WriteTemporary(c) \/ RenameSpec(c) \/ RemovePackage(c)) /\ UNCHANGED Rest
         \/ \E c \in Calls : SpecReturned(c) \/ WriteDraft(c)
         \/ \E name \in DOMAIN specs : Transition(name) /\ UNCHANGED Rest
<1>1. ASSUME NEW c \in Calls, ScriptStep(c), ~MakePackage(c), ~WriteTemporary(c), ~RenameSpec(c), ~RemovePackage(c)
      PROVE  UNCHANGED specs
  BY <1>1 DEF ScriptStep, ReadSecond, CaptureCreate, CaptureFill, BacklogScan, BacklogCreate, BacklogFill, TakeLock,
              ScanFolder, ReleaseLock
<1>2. ASSUME NEW c \in Calls, ImportStep(c), ~SpecReturned(c), ~WriteDraft(c)  PROVE UNCHANGED specs
  BY <1>2 DEF ImportStep, ReadMvpSource, CreateMilestone, FillMilestone, InboxReturned, BacklogReturned,
              WriteEvidence, OpenBacklog, Promote, ChildFailed, fileVars, fileVarsButPc
<1>3. ASSUME NEW c \in Calls, Passing(c) \/ Killed(c) \/ Orphaned(c) \/ ImportWriteFails(c) \/ WriteFails(c)
      PROVE  UNCHANGED specs
  BY <1>3 DEF Passing, Killed, Orphaned, ImportWriteFails, WriteFails, fileVarsButPc
<1>5. UNCHANGED vars => UNCHANGED specs
  BY DEF vars, fileVars, fileVarsButPc
<1> QED BY <1>1, <1>2, <1>3, <1>5 DEF FileNext

(* The lock, the counters and the milestone keep their types, and faults   *)
(* are never forgotten.                                                    *)
LEMMA RestChanges ==
  ASSUME FilesInv, FileNext
  PROVE  /\ lock' \in Calls \cup {Nobody} /\ faults' \in 0 .. MaxFaults /\ moves' \in 0 .. MaxMoves
         /\ faults <= faults'
         /\ milestone' \in [by : Calls \cup {Nobody}, whole : BOOLEAN]
         /\ \A c \in Calls : my'[c].tries <= MaxAttempts
         /\ orphans' \subseteq Calls
<1> USE BoundsAssumption
<1> DEFINE Untouched == UNCHANGED <<faults, moves>>
           Typed == milestone' \in [by : Calls \cup {Nobody}, whole : BOOLEAN]
<1>1. /\ FilesTypeOK /\ TypesFit /\ RequestsFit /\ StepsFit /\ TriesFit /\ JobsFit /\ ScansFit /\ NumbersFit
  BY DEF FilesInv
<1>2. /\ lock \in Calls \cup {Nobody} /\ faults \in 0 .. MaxFaults /\ moves \in 0 .. MaxMoves
      /\ milestone \in [by : Calls \cup {Nobody}, whole : BOOLEAN]
      /\ \A c \in Calls : my[c].tries <= MaxAttempts
  BY <1>1 DEF FilesTypeOK
<1> DEFINE Goal == /\ lock' \in Calls \cup {Nobody} /\ faults' \in 0 .. MaxFaults /\ moves' \in 0 .. MaxMoves
                   /\ faults <= faults' /\ Typed /\ \A c \in Calls : my'[c].tries <= MaxAttempts
<1>3. ASSUME NEW c \in Calls, ScriptStep(c), UNCHANGED Rest  PROVE Goal
  <2>1. lock' \in Calls \cup {Nobody} /\ Untouched
    BY <1>2, <1>3 DEF ScriptStep, ReadSecond, CaptureCreate, CaptureFill, BacklogScan, BacklogCreate, BacklogFill,
       TakeLock, ScanFolder, MakePackage, ReleaseLock, WriteTemporary, RenameSpec, RemovePackage
  <2>2. my'[c].tries <= MaxAttempts /\ \A o \in Calls \ {c} : my'[o] = my[o]
    BY <1>1, <1>3, ScriptMoves
  <2> QED BY <1>2, <1>3, <2>1, <2>2 DEF Rest
<1>4. ASSUME NEW c \in Calls, ImportStep(c)  PROVE Goal
  <2>1. UNCHANGED <<lock, my, faults, moves>>
    BY <1>1, <1>4, ImportMoves
  <2>2. Typed
    <3>1. UNCHANGED milestone \/ milestone' = [by |-> c, whole |-> FALSE] \/ milestone' = [milestone EXCEPT !.whole = TRUE]
      BY <1>4 DEF ImportStep, ReadMvpSource, CreateMilestone, FillMilestone, InboxReturned, BacklogReturned,
                  WriteEvidence, SpecReturned, WriteDraft, OpenBacklog, Promote, ChildFailed
    <3>2. CASE milestone' = [milestone EXCEPT !.whole = TRUE]
      <4>1. milestone \in [by : Calls \cup {Nobody}, whole : BOOLEAN]
        BY <1>2
      <4> QED BY <3>2, <4>1
    <3>3. CASE milestone' = [by |-> c, whole |-> FALSE]
      BY <3>3
    <3> QED BY <1>2, <3>1, <3>2, <3>3
  <2> QED BY <1>2, <2>1, <2>2
<1>5. ASSUME NEW c \in Calls, Passing(c)  PROVE Goal
  BY <1>2, <1>5 DEF Passing, fileVarsButPc
<1>6. ASSUME NEW c \in Calls, Killed(c) \/ Orphaned(c) \/ ImportWriteFails(c) \/ (WriteFails(c) /\ UNCHANGED Rest)
      PROVE  Goal
  <2>1. faults < MaxFaults /\ faults' = faults + 1 /\ UNCHANGED <<lock, my, moves, milestone>>
    BY <1>6 DEF Killed, Orphaned, ImportWriteFails, WriteFails, Fault, Rest
  <2> QED BY <1>2, <2>1
<1>7. ASSUME NEW name \in DOMAIN specs, Transition(name), UNCHANGED Rest  PROVE Goal
  <2>1. moves < MaxMoves /\ moves' = moves + 1 /\ UNCHANGED <<lock, my, faults, milestone>>
    BY <1>7 DEF Transition, Rest
  <2> QED BY <1>2, <2>1
<1>8. ASSUME UNCHANGED vars  PROVE Goal
  BY <1>2, <1>8 DEF vars, fileVars, fileVarsButPc
<1>9. orphans' \subseteq Calls
  BY <1>2, OrphansGrow DEF FilesInv, FilesTypeOK
<1> QED BY <1>3, <1>4, <1>5, <1>6, <1>7, <1>8, <1>9 DEF FileNext

(* The files have their types. *)
LEMMA InboxTyped ==
  ASSUME FilesInv, FileNext
  PROVE  /\ DOMAIN inbox' \subseteq InboxNames
         /\ \A n \in DOMAIN inbox' :
              inbox'[n] \in [item : Items, whole : BOOLEAN, gaps : SUBSET Fields, kept : BOOLEAN]
<1> DEFINE Content == [item : Items, whole : BOOLEAN, gaps : SUBSET Fields, kept : BOOLEAN]
<1>1. /\ FilesTypeOK /\ TypesFit /\ RequestsFit /\ StepsFit /\ TriesFit /\ JobsFit /\ InboxesFit
  BY DEF FilesInv
<1>2. DOMAIN inbox \subseteq InboxNames /\ \A n \in DOMAIN inbox : inbox[n] \in Content
  BY <1>1 DEF FilesTypeOK
<1>3. CASE UNCHANGED inbox
  BY <1>2, <1>3
<1>4. ASSUME NEW c \in Calls, CaptureCreate(c), ~UNCHANGED inbox
      PROVE  DOMAIN inbox' \subseteq InboxNames /\ \A n \in DOMAIN inbox' : inbox'[n] \in Content
  <2>1. pc[c] \in FileSteps
    BY <1>4 DEF CaptureCreate, At, FileSteps, CaptureSteps
  <2>2. job[c] \in Jobs /\ job[c].item \in Items /\ job[c].slug \in Slugs
    BY <1>1, <2>1, JobsAreTyped DEF Working
  <2>3. InboxName(c) \in InboxNames
    <3>1. my[c].second \in Seconds /\ my[c].suffix \in Nat
      BY <1>1 DEF TypesFit, Variables
    <3> QED BY <2>2, <3>1 DEF InboxName, InboxNames
  <2> DEFINE made == [item |-> job[c].item, whole |-> FALSE, gaps |-> job[c].gaps, kept |-> job[c].kept]
  <2>4. made \in Content
    BY <2>2 DEF Jobs
  <2>5. inbox' = With(inbox, InboxName(c), made)
    BY <1>4 DEF CaptureCreate
  <2> HIDE DEF made, Content
  <2> QED BY <1>2, <2>3, <2>4, <2>5 DEF With
<1>5. ASSUME NEW c \in Calls, CaptureFill(c)
      PROVE  DOMAIN inbox' \subseteq InboxNames /\ \A n \in DOMAIN inbox' : inbox'[n] \in Content
  <2>1. inbox' = [inbox EXCEPT ![InboxName(c)].whole = TRUE]
    BY <1>5 DEF CaptureFill
  <2> QED BY <1>2, <2>1
<1> QED BY <1>3, <1>4, <1>5, InboxChanges

(* So do the backlog items, whose numbers have four digits ... *)
LEMMA BacklogTyped ==
  ASSUME FilesInv, FileNext
  PROVE  /\ DOMAIN backlog' \subseteq BacklogNames /\ \A n \in DOMAIN backlog' : n[1] <= MaxNumber
         /\ \A n \in DOMAIN backlog' :
              backlog'[n] \in [item : Items, text : {"empty", "captured", "evidenced", "promoted"},
                               gaps : SUBSET Fields, spec : 0 .. MaxNumber]
<1> USE BoundsAssumption
<1> DEFINE Content == [item : Items, text : {"empty", "captured", "evidenced", "promoted"},
                       gaps : SUBSET Fields, spec : 0 .. MaxNumber]
           Goal == /\ DOMAIN backlog' \subseteq BacklogNames /\ \A n \in DOMAIN backlog' : n[1] <= MaxNumber
                   /\ \A n \in DOMAIN backlog' : backlog'[n] \in Content
<1>1. /\ FilesTypeOK /\ TypesFit /\ RequestsFit /\ StepsFit /\ TriesFit /\ JobsFit /\ NumbersFit
  BY DEF FilesInv
<1>2. /\ DOMAIN backlog \subseteq BacklogNames /\ \A n \in DOMAIN backlog : n[1] <= MaxNumber
      /\ \A n \in DOMAIN backlog : backlog[n] \in Content
  BY <1>1 DEF FilesTypeOK, NumbersFit
<1>3. CASE UNCHANGED backlog
  BY <1>2, <1>3
<1>4. ASSUME NEW c \in Calls, BacklogCreate(c), ~UNCHANGED backlog  PROVE Goal
  <2>1. pc[c] \in FileSteps
    BY <1>4 DEF BacklogCreate, At, FileSteps, BacklogSteps
  <2>2. job[c] \in Jobs /\ job[c].item \in Items /\ job[c].slug \in Slugs
    BY <1>1, <2>1, JobsAreTyped DEF Working
  <2>3. BacklogName(c) \in BacklogNames /\ BacklogName(c)[1] <= MaxNumber
    <3>1. my[c].entry \in 0 .. MaxNumber
      BY <1>1 DEF TypesFit, Variables
    <3> QED BY <2>2, <3>1 DEF BacklogName, BacklogNames
  <2> DEFINE made == [item |-> job[c].item, text |-> "empty", gaps |-> job[c].gaps, spec |-> 0]
  <2>4. made \in Content
    BY <2>2 DEF Jobs
  <2>5. backlog' = With(backlog, BacklogName(c), made)
    BY <1>4 DEF BacklogCreate
  <2> HIDE DEF made, Content
  <2> QED BY <1>2, <2>3, <2>4, <2>5 DEF With
<1>5. ASSUME NEW name, NEW s \in {"empty", "captured", "evidenced"}, backlog' = [backlog EXCEPT ![name].text = s]
      PROVE  Goal
  BY <1>2, <1>5
<1>6. ASSUME NEW c \in Calls, BacklogFill(c) \/ BacklogReturned(c) \/ WriteEvidence(c) \/ OpenBacklog(c)  PROVE Goal
  BY <1>5, <1>6 DEF BacklogFill, BacklogReturned, WriteEvidence, OpenBacklog
<1>7. ASSUME NEW c \in Calls, Promote(c)  PROVE Goal
  <2>1. backlog' = [backlog EXCEPT ![BacklogName(c)].text = "promoted", ![BacklogName(c)].spec = my[c].number]
    BY <1>7 DEF Promote
  <2>2. my[c].number \in 0 .. MaxNumber
    BY <1>1 DEF TypesFit, Variables
  <2> DEFINE half == [backlog EXCEPT ![BacklogName(c)].text = "promoted"]
  <2>3. DOMAIN half = DOMAIN backlog /\ \A n \in DOMAIN backlog : half[n] \in Content
    BY <1>2
  <2>4. backlog' = [half EXCEPT ![BacklogName(c)].spec = my[c].number]
    BY <2>1
  <2> HIDE DEF half
  <2> QED BY <1>2, <2>2, <2>3, <2>4
<1> QED BY <1>3, <1>4, <1>6, <1>7, BacklogChanges

(* ... and the packages, whose numbers have too. *)
LEMMA SpecsTyped ==
  ASSUME FilesInv, FileNext
  PROVE  /\ DOMAIN specs' \subseteq PackageNames /\ \A n \in DOMAIN specs' : n[2] <= MaxNumber
         /\ \A n \in DOMAIN specs' :
              specs'[n] \in [item : Authors, gaps : SUBSET Fields,
                             text : {"none", "temporary", "template", "empty", "drafted"}]
<1> USE BoundsAssumption
<1> DEFINE Content == [item : Authors, gaps : SUBSET Fields,
                       text : {"none", "temporary", "template", "empty", "drafted"}]
           Goal == /\ DOMAIN specs' \subseteq PackageNames /\ \A n \in DOMAIN specs' : n[2] <= MaxNumber
                   /\ \A n \in DOMAIN specs' : specs'[n] \in Content
<1>1. /\ FilesTypeOK /\ TypesFit /\ RequestsFit /\ StepsFit /\ TriesFit /\ JobsFit /\ NumbersFit
  BY DEF FilesInv
<1>2. /\ DOMAIN specs \subseteq PackageNames /\ \A n \in DOMAIN specs : n[2] <= MaxNumber
      /\ \A n \in DOMAIN specs : specs[n] \in Content
  BY <1>1 DEF FilesTypeOK, NumbersFit
<1>3. CASE UNCHANGED specs
  BY <1>2, <1>3
<1>4. ASSUME NEW c \in Calls, MakePackage(c), ~UNCHANGED specs  PROVE Goal
  <2>1. pc[c] \in FileSteps
    BY <1>4 DEF MakePackage, At, FileSteps, SpecifySteps
  <2>2. job[c].item \in Items /\ job[c].slug \in Slugs
    BY <1>1, <2>1, JobsAreTyped DEF Working
  <2>3. my[c].top \in 0 .. MaxNumber
    BY <1>1 DEF TypesFit, Variables
  <2> DEFINE name == <<"draft", my[c].top + 1, job[c].slug>>
             made == [item |-> job[c].item, text |-> "none", gaps |-> {}]
  <2>4. my[c].top + 1 <= MaxNumber /\ specs' = With(specs, name, made)
    BY <1>4, <2>3 DEF MakePackage
  <2>5. name \in PackageNames /\ name[2] <= MaxNumber
    <3>1. "draft" \in Folders
      BY FolderPlaces
    <3> QED BY <2>2, <2>3, <2>4, <3>1 DEF PackageNames
  <2>6. made \in Content
    BY <2>2 DEF Authors
  <2> HIDE DEF made, Content, name
  <2> QED BY <1>2, <2>4, <2>5, <2>6 DEF With
<1>5. ASSUME NEW name, NEW s \in {"temporary", "template", "empty"}, specs' = [specs EXCEPT ![name].text = s]
      PROVE  Goal
  BY <1>2, <1>5
<1>6. ASSUME NEW c \in Calls, WriteTemporary(c) \/ RenameSpec(c) \/ SpecReturned(c)  PROVE Goal
  BY <1>5, <1>6 DEF WriteTemporary, RenameSpec, SpecReturned
<1>7. ASSUME NEW c \in Calls, RemovePackage(c)  PROVE Goal
  <2>1. specs' = [n \in DOMAIN specs \ {PackageName(c)} |-> specs[n]]
    BY <1>7 DEF RemovePackage, WithoutPackage, Without, Restrict
  <2> QED BY <1>2, <2>1
<1>8. ASSUME NEW c \in Calls, WriteDraft(c)  PROVE Goal
  <2> DEFINE g == Gaps(ThemesOf(c)[theme[c]])
             half == [specs EXCEPT ![PackageName(c)].text = "drafted"]
  <2>1. specs' = [half EXCEPT ![PackageName(c)].gaps = g]
    BY <1>8 DEF WriteDraft
  <2>2. g \in SUBSET Fields
    BY DEF Gaps, Asked, Fields
  <2>3. DOMAIN half = DOMAIN specs /\ \A n \in DOMAIN specs : half[n] \in Content
    BY <1>2
  <2> HIDE DEF half, g
  <2> QED BY <1>2, <2>1, <2>2, <2>3
<1>9. ASSUME NEW name \in DOMAIN specs, Transition(name)  PROVE Goal
  <2>1. PICK i \in 1 .. 5 :
          specs' = With(Without(specs, name), <<StateFolders[i + 1], name[2], name[3]>>, specs[name])
    BY <1>9, FolderPlaces DEF Transition
  <2> DEFINE moved == <<StateFolders[i + 1], name[2], name[3]>>
  <2>2. moved \in PackageNames /\ moved[2] <= MaxNumber
    <3>1. StateFolders[i + 1] \in Folders
      BY FolderPlaces
    <3> QED BY <1>2, <3>1 DEF PackageNames
  <2>3. specs[name] \in Content
    BY <1>2
  <2> HIDE DEF moved, Content
  <2>4. DOMAIN specs' = (DOMAIN specs \ {name}) \cup {moved}
        /\ \A n \in DOMAIN specs' : specs'[n] = IF n = moved THEN specs[name] ELSE specs[n]
    BY <2>1 DEF moved, With, Without, Restrict
  <2> QED BY <1>2, <2>2, <2>3, <2>4
<1> QED BY <1>3, <1>4, <1>6, <1>7, <1>8, <1>9, SpecsChange

(* Together: the types of every file and counter. *)
LEMMA FileTypesStay ==
  ASSUME FilesInv, FileNext  PROVE FilesTypeOK' /\ NumbersFit'
<1>1. \A c \in Calls : theme'[c] \in Nat
  BY ProcessesStay DEF ProcessesInv, TypesFit
<1> QED BY <1>1, InboxTyped, BacklogTyped, SpecsTyped, RestChanges DEF FilesTypeOK, NumbersFit

-----------------------------------------------------------------------------
(* The lock, the scan and the numbers. *)

InLock == {"scan", "make", "unlock"}

(* A step of a process that neither has the lock nor takes it. *)
Calm(c) ==
  /\ pc[c] \notin InLock \cup {"killed"} /\ pc'[c] \notin InLock
  /\ \A o \in Calls \ {c} : pc'[o] = pc[o] /\ my'[o] = my[o]
  /\ UNCHANGED lock /\ DOMAIN specs' \subseteq DOMAIN specs

(* A process that starts a child is at no step of a script before, and at  *)
(* the first one of one, or refused, after.                                *)
LEMMA ChildrenStart ==
  ASSUME JobsFit, NEW c \in Calls, Importing(c), Starts(c)
  PROVE  pc[c] \in {"idle", "done"} /\ pc'[c] \in {"second", "backlogScan", "lock", "failed"}
<1>1. PICK script \in {"capture", "backlog", "specify"} :
        /\ pc[c] \in {"idle", "done"} /\ stage[c] \in {"milestoneFill", "capture", "evidence", "promotion"}
        /\ theme'[c] \in 1 .. Len(ThemesOf(c))
        /\ job'[c] = Child(c, theme'[c], script) /\ pc'[c] = Entry(job'[c])
  BY DEF Starts
<1>2. Source(c) \in Texts
  BY <1>1 DEF JobsFit
<1> QED BY <1>1, <1>2, EntriesAreSteps

(* Every step but six takes no lock, gives none back, makes no package and *)
(* moves none.                                                             *)
LEMMA MostStepsAreCalm ==
  ASSUME FilesInv, FileNext
  PROVE  \/ \E c \in Calls : (TakeLock(c) \/ ScanFolder(c) \/ MakePackage(c) \/ ReleaseLock(c)) /\ UNCHANGED Rest
         \/ \E c \in Calls : Killed(c) /\ UNCHANGED specs
         \/ \E name \in DOMAIN specs : Transition(name) /\ UNCHANGED Rest
         \/ \E c \in Calls : Calm(c)
         \/ UNCHANGED <<specs, lock, pc, my>>
<1>1. /\ FilesTypeOK /\ TypesFit /\ RequestsFit /\ StepsFit /\ TriesFit /\ JobsFit /\ ScansFit /\ NumbersFit
      /\ pc = [o \in Calls |-> pc[o]] /\ my = [o \in Calls |-> my[o]]
  BY DEF FilesInv, TypesFit
<1>2. ASSUME NEW c \in Calls, ScriptStep(c), UNCHANGED Rest,
             ~(TakeLock(c) \/ ScanFolder(c) \/ MakePackage(c) \/ ReleaseLock(c))
      PROVE  Calm(c)
  <2>1. \A o \in Calls \ {c} : pc'[o] = pc[o] /\ my'[o] = my[o]
    BY <1>1, <1>2, ScriptMoves
  <2>2. pc[c] \notin InLock \cup {"killed"} /\ pc'[c] \notin InLock /\ UNCHANGED lock
    BY <1>1, <1>2 DEF ScriptStep, ReadSecond, CaptureCreate, CaptureFill, BacklogScan, BacklogCreate, BacklogFill,
       WriteTemporary, RenameSpec, RemovePackage, InLock, At, Go, NumberAgain
  <2>3. DOMAIN specs' \subseteq DOMAIN specs
    BY <1>2 DEF ScriptStep, ReadSecond, CaptureCreate, CaptureFill, BacklogScan, BacklogCreate, BacklogFill,
       WriteTemporary, RenameSpec, RemovePackage, WithoutPackage, Without, Restrict
  <2> QED BY <2>1, <2>2, <2>3 DEF Calm
<1>3. ASSUME NEW c \in Calls, ImportStep(c)  PROVE Calm(c)
  <2>1. Importing(c) /\ UNCHANGED lock /\ UNCHANGED my /\ Others(c) /\ (Starts(c) \/ Advances(c))
    BY <1>1, <1>3, ImportMoves
  <2>2. pc[c] \in {"idle", "done", "failed"} /\ (pc'[c] = pc[c] \/ pc'[c] \in {"second", "backlogScan", "lock", "failed"})
    <3>1. CASE Starts(c)
      BY <1>1, <2>1, <3>1, ChildrenStart
    <3>2. CASE Advances(c)
      BY <1>1, <2>1, <3>2 DEF Advances, StepsFit, Returned, Back, At
    <3> QED BY <2>1, <3>1, <3>2
  <2>3. DOMAIN specs' \subseteq DOMAIN specs
    BY <1>3 DEF ImportStep, ReadMvpSource, CreateMilestone, FillMilestone, InboxReturned, BacklogReturned,
       WriteEvidence, SpecReturned, WriteDraft, OpenBacklog, Promote, ChildFailed, fileVars, fileVarsButPc
  <2> QED BY <2>1, <2>2, <2>3 DEF Calm, Others, InLock
<1>4. ASSUME NEW c \in Calls, Passing(c)  PROVE Calm(c)
  BY <1>1, <1>4 DEF Passing, Calm, Go, ContextSteps, InLock, fileVarsButPc
<1>5. ASSUME NEW c \in Calls, ImportWriteFails(c)  PROVE Calm(c)
  <2>1. Importing(c) /\ pc[c] \in {"idle", "done"}
    BY <1>1, <1>5 DEF ImportWriteFails, StepsFit
  <2> QED BY <1>5, <2>1 DEF ImportWriteFails, Calm, InLock
<1>6. ASSUME NEW c \in Calls, WriteFails(c)  PROVE Calm(c)
  BY <1>1, <1>6 DEF WriteFails, Calm, Go, InLock
<1>7. ASSUME NEW c \in Calls, Killed(c)  PROVE UNCHANGED specs
  BY <1>7 DEF Killed
<1>8. ASSUME UNCHANGED vars \/ \E c \in Calls : Orphaned(c)  PROVE UNCHANGED <<specs, lock, pc, my>>
  BY <1>8 DEF Orphaned, vars, fileVars, fileVarsButPc
<1> QED BY <1>2, <1>3, <1>4, <1>5, <1>6, <1>7, <1>8 DEF FileNext

(* Nobody is between mkdir and rm of the lock but its holder. *)
LEMMA LockStays ==
  ASSUME FilesInv, FileNext  PROVE LockFits'
<1>1. LockFits /\ pc = [o \in Calls |-> pc[o]] /\ lock \in Calls \cup {Nobody} /\ \A o \in Calls : o # Nobody
  BY NobodyAssumption DEF FilesInv, TypesFit, FilesTypeOK
<1>2. /\ \A o \in Calls : pc[o] \in {"scan", "make", "unlock"} => lock = o
      /\ lock # Nobody => pc[lock] \in {"scan", "make", "unlock", "killed"}
  BY <1>1 DEF LockFits
<1>3. ASSUME NEW c \in Calls, TakeLock(c)  PROVE LockFits'
  <2>1. CASE LockIsFree
    <3>1. lock = Nobody /\ lock' = c /\ pc' = [pc EXCEPT ![c] = "scan"]
      BY <1>3, <2>1 DEF TakeLock, Go, LockIsFree
    <3> QED BY <1>1, <1>2, <3>1 DEF LockFits
  <2>2. CASE ~LockIsFree
    <3>1. pc[c] = "lock" /\ UNCHANGED lock /\ (pc' = [pc EXCEPT ![c] = "failed"] \/ UNCHANGED pc)
      BY <1>3, <2>2 DEF TakeLock, Go, At
    <3> QED BY <1>1, <1>2, <3>1 DEF LockFits
  <2> QED BY <2>1, <2>2
<1>4. ASSUME NEW c \in Calls, ScanFolder(c) \/ MakePackage(c)  PROVE LockFits'
  <2>1. pc[c] \in {"scan", "make"} /\ UNCHANGED lock
    BY <1>4 DEF ScanFolder, MakePackage, At
  <2>2. (\E s \in {"make", "unlock"} : pc' = [pc EXCEPT ![c] = s]) \/ UNCHANGED pc
    <3>1. CASE MakePackage(c)
      BY <3>1 DEF MakePackage, Go
    <3>2. CASE ScanFolder(c)
      <4>1. IF my[c].folder = Len(StateFolders) THEN Go(c, "make") ELSE UNCHANGED pc
        BY <3>2, Zenon DEF ScanFolder
      <4> QED BY <4>1 DEF Go
    <3> QED BY <1>4, <3>1, <3>2
  <2> QED BY <1>1, <1>2, <2>1, <2>2 DEF LockFits
<1>5. ASSUME NEW c \in Calls, ReleaseLock(c)  PROVE LockFits'
  <2>1. pc[c] = "unlock" /\ lock' = Nobody /\ \E s \in {"failed", "temporary"} : pc' = [pc EXCEPT ![c] = s]
    BY <1>5 DEF ReleaseLock, At, Go
  <2> QED BY <1>1, <1>2, <2>1 DEF LockFits
<1>6. ASSUME NEW c \in Calls, Killed(c)  PROVE LockFits'
  <2>1. UNCHANGED lock /\ pc' = [pc EXCEPT ![c] = "killed"]
    BY <1>6 DEF Killed, Go
  <2> QED BY <1>1, <1>2, <2>1 DEF LockFits
<1>7. ASSUME NEW c \in Calls, Calm(c)  PROVE LockFits'
  BY <1>1, <1>2, <1>7 DEF LockFits, Calm, InLock
<1>8. ASSUME NEW name \in DOMAIN specs, Transition(name)  PROVE LockFits'
  BY <1>2, <1>8 DEF Transition, LockFits
<1>9. ASSUME UNCHANGED <<specs, lock, pc, my>>  PROVE LockFits'
  BY <1>2, <1>9 DEF LockFits
<1> QED BY <1>3, <1>4, <1>5, <1>6, <1>7, <1>8, <1>9, MostStepsAreCalm

(* `specsfy transition` moves a package by one folder. *)
LEMMA Moved ==
  ASSUME NEW name \in DOMAIN specs, Transition(name)
  PROVE  \E i \in 1 .. 5 : \E moved :
           /\ name[1] = StateFolders[i] /\ moved = <<StateFolders[i + 1], name[2], name[3]>> /\ moved[2] = name[2]
           /\ DOMAIN specs' = (DOMAIN specs \ {name}) \cup {moved}
           /\ \A n \in DOMAIN specs' : specs'[n] = IF n = moved THEN specs[name] ELSE specs[n]
<1>1. PICK i \in 1 .. 5 :
        /\ name[1] = StateFolders[i]
        /\ specs' = With(Without(specs, name), <<StateFolders[i + 1], name[2], name[3]>>, specs[name])
  BY FolderPlaces DEF Transition
<1> DEFINE moved == <<StateFolders[i + 1], name[2], name[3]>>
<1> HIDE DEF moved
<1>2. specs' = With(Without(specs, name), moved, specs[name])
  BY <1>1 DEF moved
<1>3. /\ DOMAIN specs' = (DOMAIN specs \ {name}) \cup {moved}
      /\ \A n \in DOMAIN specs' : specs'[n] = IF n = moved THEN specs[name] ELSE specs[n]
  BY <1>2 DEF With, Without, Restrict
<1>4. moved = <<StateFolders[i + 1], name[2], name[3]>> /\ moved[2] = name[2]
  BY DEF moved
<1>5. name[1] = StateFolders[i]
  BY <1>1
<1> WITNESS i \in 1 .. 5
<1> WITNESS moved
<1> QED BY <1>3, <1>4, <1>5

(* The same without the folders. *)
LEMMA MovedSimply ==
  ASSUME NEW name \in DOMAIN specs, Transition(name)
  PROVE  \E moved :
           /\ moved[2] = name[2] /\ DOMAIN specs' = (DOMAIN specs \ {name}) \cup {moved}
           /\ \A n \in DOMAIN specs' : specs'[n] = IF n = moved THEN specs[name] ELSE specs[n]
<1>1. PICK i \in 1 .. 5 : \E moved :
           /\ name[1] = StateFolders[i] /\ moved = <<StateFolders[i + 1], name[2], name[3]>> /\ moved[2] = name[2]
           /\ DOMAIN specs' = (DOMAIN specs \ {name}) \cup {moved}
           /\ \A n \in DOMAIN specs' : specs'[n] = IF n = moved THEN specs[name] ELSE specs[n]
  BY Moved, Zenon
<1> QED BY <1>1, Zenon

(* A scan misses no number: packages only advance to folders it has yet to     *)
(* read, and nobody makes one meanwhile.                                       *)
LEMMA ScansStay ==
  ASSUME FilesInv, FileNext  PROVE ScansFit'
<1> USE BoundsAssumption
<1>1. /\ FilesTypeOK /\ TypesFit /\ NumbersFit /\ ScansFit /\ LockFits /\ LockFits'
      /\ pc = [o \in Calls |-> pc[o]] /\ my = [o \in Calls |-> my[o]]
      /\ DOMAIN specs \subseteq PackageNames
  BY LockStays DEF FilesInv, TypesFit, FilesTypeOK
<1>2. \A o \in Calls :
        /\ pc[o] = "scan" =>
             /\ my[o].folder \in 1 .. 6
             /\ \A n \in DOMAIN specs : Passed(n, my[o].folder) => n[2] <= my[o].top
        /\ pc[o] = "make" => \A n \in DOMAIN specs : n[2] <= my[o].top
  BY <1>1 DEF ScansFit
<1>3. ASSUME NEW c \in Calls, DOMAIN specs' \subseteq DOMAIN specs,
             \A o \in Calls \ {c} : pc'[o] = pc[o] /\ my'[o] = my[o], pc'[c] \notin {"scan", "make"}
      PROVE  ScansFit'
  BY <1>2, <1>3 DEF ScansFit, Passed
<1>4. ASSUME NEW c \in Calls, pc[c] \in InLock \/ pc'[c] \in InLock,
             \A o \in Calls \ {c} : pc'[o] = pc[o], pc[c] # "unlock"
      PROVE  \A o \in Calls \ {c} : pc'[o] \notin {"scan", "make"}
  BY <1>1, <1>4 DEF LockFits, InLock
<1>5. ASSUME NEW c \in Calls, TakeLock(c)  PROVE ScansFit'
  <2>1. CASE LockIsFree
    <3>1. my' = [my EXCEPT ![c].folder = 1, ![c].top = 0, ![c].tries = 0] /\ pc' = [pc EXCEPT ![c] = "scan"]
          /\ UNCHANGED specs
      BY <1>5, <2>1 DEF TakeLock, Go
    <3>2. my[c] \in Variables
      BY <1>1 DEF TypesFit
    <3>3. my'[c].folder = 1 /\ pc'[c] = "scan"
      BY <1>1, <3>1, <3>2 DEF Variables
    <3>4. \A o \in Calls \ {c} : pc'[o] \notin {"scan", "make"}
      BY <1>1, <1>4, <3>1, <3>3 DEF InLock, LockFits
    <3>5. \A n : ~Passed(n, 1)
      BY DEF Passed
    <3> QED BY <3>3, <3>4, <3>5 DEF ScansFit, Passed
  <2>2. CASE ~LockIsFree
    <3>1. /\ pc[c] = "lock" /\ UNCHANGED specs /\ my' = [my EXCEPT ![c].tries = @ + 1]
          /\ pc' = [pc EXCEPT ![c] = "failed"] \/ UNCHANGED pc
      BY <1>5, <2>2 DEF TakeLock, Go, At
    <3> QED BY <1>1, <1>3, <3>1
  <2> QED BY <2>1, <2>2
<1>6. ASSUME NEW c \in Calls, ScanFolder(c)  PROVE ScansFit'
  <2> DEFINE folder == StateFolders[my[c].folder]
             here == {n[2] : n \in {n \in DOMAIN specs : n[1] = folder}}
             top  == Max({my[c].top} \cup here)
  <2>1. /\ pc[c] = "scan" /\ UNCHANGED specs
        /\ my' = [my EXCEPT ![c].top = top, ![c].folder = @ + 1]
    BY <1>6 DEF ScanFolder, At
  <2>2. IF my[c].folder = Len(StateFolders) THEN Go(c, "make") ELSE UNCHANGED pc
    BY <1>6, Zenon DEF ScanFolder
  <2>3. top \in 0 .. MaxNumber /\ my[c].top <= top /\ \A x \in here : x <= top
    <3>1. FilesTypeOK /\ NumbersFit /\ TypesFit
      BY <1>1
    <3> QED BY <3>1, PackageNumbers, Zenon
  <2>4. \A n \in DOMAIN specs : n[1] = folder => n[2] <= top
    BY <2>3
  <2>5. my[c].folder \in 1 .. 6 /\ my[c].top \in 0 .. MaxNumber /\ \A n \in DOMAIN specs : n[2] \in Nat
    BY <1>1, <1>2, <2>1 DEF TypesFit, Variables, PackageNames
  <2> HIDE DEF top, here
  <2>6. my'[c].top = top /\ my'[c].folder = my[c].folder + 1
    <3>1. my[c] \in Variables
      BY <1>1 DEF TypesFit
    <3> QED BY <1>1, <2>1, <3>1 DEF Variables
  <2>7. \A n \in DOMAIN specs : Passed(n, my[c].folder + 1) => n[2] <= top
    <3> SUFFICES ASSUME NEW n \in DOMAIN specs, NEW i \in 1 .. 6, i < my[c].folder + 1, n[1] = StateFolders[i]
                 PROVE  n[2] <= top
      BY DEF Passed
    <3>1. CASE i = my[c].folder
      BY <2>4, <3>1
    <3>2. CASE i < my[c].folder
      <4>1. n[2] <= my[c].top
        BY <1>2, <2>1, <3>2 DEF Passed
      <4> QED BY <2>3, <2>5, <4>1
    <3> QED BY <2>5, <3>1, <3>2
  <2>8. CASE my[c].folder = 6
    <3>1. pc' = [pc EXCEPT ![c] = "make"]
      BY <2>2, <2>8, FolderPlaces DEF Go
    <3>2. \A n \in DOMAIN specs : n[2] <= top
      <4> SUFFICES ASSUME NEW n \in DOMAIN specs PROVE n[2] <= top
        OBVIOUS
      <4>1. PICK i \in 1 .. 6 : n[1] = StateFolders[i]
        BY <1>1, FolderPlaces DEF PackageNames
      <4> QED BY <2>7, <2>8, <4>1 DEF Passed
    <3>3. \A o \in Calls \ {c} : pc'[o] \notin {"scan", "make"}
      BY <1>1, <1>4, <2>1, <3>1 DEF InLock
    <3>4. pc'[c] = "make"
      BY <1>1, <3>1
    <3> QED BY <2>1, <2>6, <3>2, <3>3, <3>4 DEF ScansFit
  <2>9. CASE my[c].folder # 6
    <3>1. UNCHANGED pc
      BY <2>2, <2>9, FolderPlaces
    <3>2. \A o \in Calls \ {c} : pc'[o] \notin {"scan", "make"}
      BY <1>1, <1>4, <2>1, <3>1 DEF InLock
    <3>3. my'[c].folder \in 1 .. 6
      BY <2>5, <2>6, <2>9
    <3> QED BY <2>1, <2>6, <2>7, <3>1, <3>2, <3>3 DEF ScansFit, Passed
  <2> QED BY <2>8, <2>9
<1>7. ASSUME NEW c \in Calls, MakePackage(c)  PROVE ScansFit'
  <2>1. pc[c] = "make" /\ pc' = [pc EXCEPT ![c] = "unlock"]
    BY <1>7 DEF MakePackage, At, Go
  <2>2. \A o \in Calls : pc'[o] \notin {"scan", "make"}
    BY <1>1, <1>4, <2>1 DEF InLock
  <2> QED BY <2>2 DEF ScansFit
<1>8. ASSUME NEW c \in Calls, ReleaseLock(c) \/ (Killed(c) /\ UNCHANGED specs)  PROVE ScansFit'
  <2>1. /\ UNCHANGED specs /\ UNCHANGED my
        /\ \E s \in {"failed", "temporary", "killed"} : pc' = [pc EXCEPT ![c] = s]
    BY <1>8 DEF ReleaseLock, Killed, Go
  <2> QED BY <1>1, <1>3, <2>1
<1>9. ASSUME NEW c \in Calls, Calm(c)  PROVE ScansFit'
  BY <1>3, <1>9 DEF Calm, InLock
<1>10. ASSUME NEW name \in DOMAIN specs, Transition(name)  PROVE ScansFit'
  <2>0. PICK i \in 1 .. 5 : \E moved :
          /\ name[1] = StateFolders[i] /\ moved = <<StateFolders[i + 1], name[2], name[3]>>
          /\ DOMAIN specs' = (DOMAIN specs \ {name}) \cup {moved}
    BY <1>10, Moved
  <2>1. PICK moved :
          /\ name[1] = StateFolders[i] /\ moved = <<StateFolders[i + 1], name[2], name[3]>>
          /\ DOMAIN specs' = (DOMAIN specs \ {name}) \cup {moved}
    BY <2>0
  <2>2. UNCHANGED pc /\ UNCHANGED my
    BY <1>10 DEF Transition
  <2>3. moved[1] = StateFolders[i + 1] /\ moved[2] = name[2]
    BY <2>1
  <2>4. ASSUME NEW k \in 1 .. 6, Passed(moved, k)  PROVE Passed(name, k)
    <3>1. PICK j \in 1 .. 6 : j < k /\ moved[1] = StateFolders[j]
      BY <2>4 DEF Passed
    <3>2. i + 1 \in 1 .. 6 /\ StateFolders[j] = StateFolders[i + 1]
      BY <2>3, <3>1
    <3>3. j = i + 1
      BY <3>2, FolderPlaces
    <3> QED BY <2>1, <2>4, <3>1, <3>3 DEF Passed
  <2>5. \A o \in Calls : pc[o] = "scan" => my[o].folder \in 1 .. 6
    BY <1>2
  <2> QED BY <1>2, <2>1, <2>2, <2>3, <2>4, <2>5 DEF ScansFit, Passed
<1>11. ASSUME UNCHANGED <<specs, lock, pc, my>>  PROVE ScansFit'
  BY <1>1, <1>11 DEF ScansFit, Passed
<1> QED BY <1>5, <1>6, <1>7, <1>8, <1>9, <1>10, <1>11, MostStepsAreCalm

(* So the number after the highest one found is new. *)
LEMMA NumbersStayUnique ==
  ASSUME FilesInv, FileNext  PROVE SpecNumbersAreUnique'
<1>1. /\ SpecNumbersAreUnique /\ ScansFit /\ DOMAIN specs \subseteq PackageNames /\ TypesFit
  BY DEF FilesInv, FilesTypeOK
<1>2. ASSUME DOMAIN specs' \subseteq DOMAIN specs  PROVE SpecNumbersAreUnique'
  BY <1>1, <1>2 DEF SpecNumbersAreUnique
<1>3. ASSUME NEW c \in Calls, MakePackage(c)  PROVE SpecNumbersAreUnique'
  <2> DEFINE name == <<"draft", my[c].top + 1, job[c].slug>>
  <2>1. \A n \in DOMAIN specs : n[2] <= my[c].top
    BY <1>1, <1>3 DEF MakePackage, At, ScansFit
  <2>2. my[c].top \in Nat /\ name[2] = my[c].top + 1 /\ \A n \in DOMAIN specs : n[2] \in Nat
    BY <1>1 DEF TypesFit, Variables, PackageNames
  <2>3. \A n \in DOMAIN specs : n[2] # name[2]
    BY <2>1, <2>2
  <2>4. UNCHANGED specs \/ DOMAIN specs' = DOMAIN specs \cup {name}
    BY <1>3 DEF MakePackage, With
  <2> HIDE DEF name
  <2> QED BY <1>1, <1>2, <2>3, <2>4 DEF SpecNumbersAreUnique
<1>4. ASSUME NEW name \in DOMAIN specs, Transition(name)  PROVE SpecNumbersAreUnique'
  <2>1. PICK moved : moved[2] = name[2] /\ DOMAIN specs' = (DOMAIN specs \ {name}) \cup {moved}
    BY <1>4, Moved
  <2> QED BY <1>1, <2>1 DEF SpecNumbersAreUnique
<1>5. ASSUME NEW c \in Calls, WriteTemporary(c) \/ RenameSpec(c) \/ RemovePackage(c) \/ SpecReturned(c) \/ WriteDraft(c)
      PROVE  DOMAIN specs' \subseteq DOMAIN specs
  BY <1>5 DEF WriteTemporary, RenameSpec, RemovePackage, SpecReturned, WriteDraft, WithoutPackage, Without, Restrict
<1> QED BY <1>2, <1>3, <1>4, <1>5, SpecsChange

-----------------------------------------------------------------------------
(* The files that a process is at work on. *)

Idles(c) == /\ pc'[c] = pc[c] /\ my'[c] = my[c] /\ job'[c] = job[c]
            /\ stage'[c] = stage[c] /\ theme'[c] = theme[c] /\ request'[c] = request[c]

(* A process that does not act stays as it is. *)
LEMMA ActsOrStays ==
  ASSUME FilesInv, FileNext, NEW c \in Calls
  PROVE  \/ Idles(c)
         \/ ScriptStep(c) /\ UNCHANGED Rest
         \/ ImportStep(c)
         \/ Passing(c)
         \/ Killed(c)
         \/ ImportWriteFails(c)
         \/ WriteFails(c) /\ UNCHANGED Rest
<1>1. /\ FilesTypeOK /\ TypesFit /\ RequestsFit /\ StepsFit /\ TriesFit /\ JobsFit /\ ScansFit /\ NumbersFit
      /\ pc = [o \in Calls |-> pc[o]] /\ stage = [o \in Calls |-> stage[o]]
  BY DEF FilesInv, TypesFit
<1>2. ASSUME NEW a \in Calls, a # c, ScriptStep(a), UNCHANGED Rest  PROVE Idles(c)
  <2>1. pc'[c] = pc[c] /\ my'[c] = my[c] /\ UNCHANGED job
    BY <1>1, <1>2, ScriptMoves
  <2> QED BY <1>2, <2>1 DEF Idles, Rest
<1>3. ASSUME NEW a \in Calls, a # c, ImportStep(a)  PROVE Idles(c)
  <2>1. Others(a) /\ UNCHANGED my /\ UNCHANGED request
    BY <1>1, <1>3, ImportMoves
  <2> QED BY <1>3, <2>1 DEF Idles, Others
<1>4. ASSUME NEW a \in Calls, a # c, Passing(a)  PROVE Idles(c)
  BY <1>1, <1>4 DEF Idles, Passing, Go, fileVarsButPc
<1>5. ASSUME NEW a \in Calls, a # c, Killed(a)  PROVE Idles(c)
  BY <1>1, <1>5 DEF Idles, Killed, Go
<1>6. ASSUME NEW a \in Calls, a # c, ImportWriteFails(a)  PROVE Idles(c)
  BY <1>1, <1>6 DEF Idles, ImportWriteFails, Stage
<1>7. ASSUME NEW a \in Calls, a # c, WriteFails(a), UNCHANGED Rest  PROVE Idles(c)
  BY <1>1, <1>7 DEF Idles, WriteFails, Go, Rest
<1>8. ASSUME NEW name \in DOMAIN specs, Transition(name), UNCHANGED Rest  PROVE Idles(c)
  BY <1>8 DEF Idles, Transition, Rest
<1>9. ASSUME UNCHANGED vars  PROVE Idles(c)
  BY <1>9 DEF Idles, vars, fileVars, fileVarsButPc
<1>10. ASSUME NEW a \in Calls, Orphaned(a)  PROVE Idles(c)
  BY <1>10 DEF Idles, Orphaned
<1> QED BY <1>2, <1>3, <1>4, <1>5, <1>6, <1>7, <1>8, <1>9, <1>10 DEF FileNext

(* A process that was killed does nothing more. *)
LEMMA KilledStay ==
  ASSUME FilesInv, FileNext, NEW c \in Calls, pc[c] = "killed"
  PROVE  pc'[c] = "killed"
<1>1. /\ FilesTypeOK /\ TypesFit /\ RequestsFit /\ StepsFit /\ TriesFit /\ JobsFit /\ ScansFit /\ NumbersFit
      /\ pc = [o \in Calls |-> pc[o]]
  BY DEF FilesInv, TypesFit
<1>2. ~ScriptStep(c)
  BY <1>1, ScriptMoves DEF CaptureSteps, BacklogSteps, SpecifySteps
<1>3. ASSUME ImportStep(c)  PROVE pc'[c] = "killed"
  BY <1>1, <1>3, ImportMoves DEF Starts, Advances
<1>4. ASSUME Passing(c)  PROVE FALSE
  BY <1>4 DEF Passing, ContextSteps
<1>5. ASSUME Killed(c)  PROVE pc'[c] = "killed"
  BY <1>1, <1>5 DEF Killed, Go
<1>6. ASSUME ImportWriteFails(c)  PROVE pc'[c] = "killed"
  BY <1>6 DEF ImportWriteFails
<1>7. ASSUME WriteFails(c)  PROVE FALSE
  BY <1>7 DEF WriteFails
<1> QED BY <1>2, <1>3, <1>4, <1>5, <1>6, <1>7, ActsOrStays DEF Idles

(* Between mkdir of a package and the rename of its spec.md a process has the  *)
(* same package.                                                               *)
LEMMA MakingsBegin ==
  ASSUME FilesInv, FileNext, NEW c \in Calls, Making(c)'
  PROVE  MakePackage(c) \/ (Making(c) /\ my'[c] = my[c] /\ job'[c] = job[c])
<1>1. /\ FilesTypeOK /\ TypesFit /\ RequestsFit /\ StepsFit /\ TriesFit /\ JobsFit /\ ScansFit /\ NumbersFit
      /\ pc = [o \in Calls |-> pc[o]] /\ my = [o \in Calls |-> my[o]]
  BY DEF FilesInv, TypesFit
<1>2. pc'[c] \in {"temporary", "rename", "undo", "unlock"} /\ (pc'[c] = "unlock" => my'[c].number # 0)
  BY DEF Making
<1>3. CASE Idles(c)
  BY <1>3 DEF Idles, Making
<1>4. CASE ScriptStep(c)
  <2>1. CASE TakeLock(c)
    BY <1>1, <1>2, <2>1 DEF TakeLock, At, Go
  <2>2. CASE ScanFolder(c)
    <3>1. pc[c] = "scan" /\ IF my[c].folder = Len(StateFolders) THEN Go(c, "make") ELSE UNCHANGED pc
      BY <2>2, Zenon DEF ScanFolder, At
    <3> QED BY <1>1, <1>2, <3>1 DEF Go
  <2>3. CASE ReleaseLock(c)
    BY <1>1, <1>2, <2>3 DEF ReleaseLock, At, Go, Making
  <2>4. CASE WriteTemporary(c)
    BY <2>4 DEF WriteTemporary, At, Making
  <2>5. CASE RenameSpec(c) \/ RemovePackage(c)
    BY <1>1, <1>2, <2>5 DEF RenameSpec, RemovePackage, Go
  <2>6. CASE pc[c] \in CaptureSteps \cup BacklogSteps
    BY <1>1, <1>2, <1>4, <2>6, ScriptMoves DEF CaptureSteps, BacklogSteps, SpecifySteps
  <2>7. ASSUME ReadSecond(c) \/ CaptureCreate(c) \/ CaptureFill(c) \/ BacklogScan(c) \/ BacklogCreate(c) \/ BacklogFill(c)
        PROVE  pc[c] \in CaptureSteps \cup BacklogSteps
    BY <2>7 DEF ReadSecond, CaptureCreate, CaptureFill, BacklogScan, BacklogCreate, BacklogFill, At,
                CaptureSteps, BacklogSteps
  <2> QED BY <1>4, <2>1, <2>2, <2>3, <2>4, <2>5, <2>6, <2>7 DEF ScriptStep
<1>5. CASE ImportStep(c)
  <2>1. Importing(c) /\ UNCHANGED my /\ (Starts(c) \/ Advances(c))
    BY <1>1, <1>5, ImportMoves
  <2>2. ~Starts(c)
    BY <1>1, <1>2, <2>1, ChildrenStart
  <2> QED BY <2>1, <2>2 DEF Advances, Making
<1>6. CASE Passing(c) \/ Killed(c)
  BY <1>1, <1>2, <1>6 DEF Passing, Killed, Go, ContextSteps
<1>7. CASE ImportWriteFails(c)
  BY <1>7 DEF ImportWriteFails, Making
<1>8. CASE WriteFails(c)
  BY <1>1, <1>2, <1>8 DEF WriteFails, Go, Making
<1> QED BY <1>3, <1>4, <1>5, <1>6, <1>7, <1>8, ActsOrStays

(* Its process is done with it when it is killed, has renamed spec.md or   *)
(* has removed the package.                                                *)
LEMMA MakingsEnd ==
  ASSUME FilesInv, FileNext, NEW c \in Calls, Making(c)
  PROVE  \/ Making(c)' /\ my'[c] = my[c] /\ job'[c] = job[c]
         \/ pc'[c] = "killed" \/ RenameSpec(c) \/ RemovePackage(c)
<1>1. /\ FilesTypeOK /\ TypesFit /\ RequestsFit /\ StepsFit /\ TriesFit /\ JobsFit /\ ScansFit /\ NumbersFit
      /\ pc = [o \in Calls |-> pc[o]] /\ my = [o \in Calls |-> my[o]]
  BY DEF FilesInv, TypesFit
<1>2. pc[c] \in {"temporary", "rename", "undo", "unlock"} /\ (pc[c] = "unlock" => my[c].number # 0)
  BY DEF Making
<1>3. CASE Idles(c)
  BY <1>3 DEF Idles, Making
<1>4. CASE ScriptStep(c)
  <2>1. CASE ReleaseLock(c)
    BY <1>1, <1>2, <2>1 DEF ReleaseLock, At, Go, Making
  <2>2. CASE WriteTemporary(c)
    BY <1>1, <2>2 DEF WriteTemporary, Go, Making
  <2>3. ReleaseLock(c) \/ WriteTemporary(c) \/ RenameSpec(c) \/ RemovePackage(c)
    BY <1>2, <1>4 DEF ScriptStep, ReadSecond, CaptureCreate, CaptureFill, BacklogScan, BacklogCreate, BacklogFill,
       TakeLock, ScanFolder, MakePackage, At
  <2> QED BY <2>1, <2>2, <2>3
<1>5. CASE ImportStep(c)
  <2>1. UNCHANGED my /\ (Starts(c) \/ Advances(c))
    BY <1>1, <1>5, ImportMoves
  <2>2. ~Starts(c)
    BY <1>2 DEF Starts
  <2> QED BY <2>1, <2>2 DEF Advances, Making
<1>6. CASE Passing(c) \/ Killed(c)
  BY <1>1, <1>2, <1>6 DEF Passing, Killed, Go, ContextSteps
<1>7. CASE ImportWriteFails(c)
  BY <1>7 DEF ImportWriteFails, Making
<1>8. CASE WriteFails(c)
  BY <1>1, <1>2, <1>8 DEF WriteFails, Go, Making
<1> QED BY <1>3, <1>4, <1>5, <1>6, <1>7, <1>8, ActsOrStays

(* An import drafts the package that its child has made. *)
LEMMA DraftingsBegin ==
  ASSUME FilesInv, FileNext, NEW c \in Calls, Drafting(c)'
  PROVE  \/ RenameSpec(c) \/ SpecReturned(c)
         \/ Drafting(c) /\ stage'[c] = stage[c] /\ my'[c] = my[c] /\ job'[c] = job[c]
<1>1. /\ FilesTypeOK /\ TypesFit /\ RequestsFit /\ StepsFit /\ TriesFit /\ JobsFit /\ ScansFit /\ NumbersFit
      /\ pc = [o \in Calls |-> pc[o]] /\ my = [o \in Calls |-> my[o]] /\ stage = [o \in Calls |-> stage[o]]
  BY DEF FilesInv, TypesFit
<1>2. Importing(c)' /\ (stage'[c] = "draft" \/ (stage'[c] = "specify" /\ pc'[c] = "done"))
  BY DEF Drafting, Returned, Back, At
<1>3. CASE Idles(c)
  BY <1>3 DEF Idles, Drafting, Returned, Back, At, Importing
<1>4. CASE ScriptStep(c) /\ UNCHANGED Rest
  <2>1. Importing(c) /\ stage'[c] = stage[c]
    BY <1>2, <1>4 DEF Rest, Importing
  <2>2. pc[c] \in FileSteps
    BY <1>1, <1>4, ScriptMoves DEF FileSteps
  <2>3. stage[c] = "specify" /\ pc'[c] = "done" /\ pc[c] \in SpecifySteps
    BY <1>1, <1>2, <2>1, <2>2, ScriptsAtWork DEF ScriptOf
  <2>4. CASE ScanFolder(c)
    <3>1. IF my[c].folder = Len(StateFolders) THEN Go(c, "make") ELSE UNCHANGED pc
      BY <2>4, Zenon DEF ScanFolder
    <3> QED BY <1>1, <2>3, <3>1 DEF Go, SpecifySteps
  <2>5. CASE ~ScanFolder(c)
    BY <1>1, <1>4, <2>3, <2>5 DEF ScriptStep, ReadSecond, CaptureCreate, CaptureFill, BacklogScan, BacklogCreate,
       BacklogFill, TakeLock, MakePackage, ReleaseLock, WriteTemporary, RemovePackage, At, Go, SpecifySteps
  <2> QED BY <2>4, <2>5
<1>5. CASE ImportStep(c)
  <2>1. Importing(c) /\ (Starts(c) \/ Advances(c))
    BY <1>1, <1>5, ImportMoves
  <2>2. ~Starts(c)
    <3>1. Starts(c) => pc'[c] # "done" /\ stage'[c] # "draft"
      BY <1>1, <2>1, ChildrenStart DEF Starts
    <3> QED BY <1>2, <3>1
  <2>3. Returned(c, "specify")
    BY <1>2, <2>1, <2>2 DEF Advances
  <2> QED BY <1>5, <2>3 DEF Returned, Back, At, ImportStep, ReadMvpSource, CreateMilestone, FillMilestone, InboxReturned,
          BacklogReturned, WriteEvidence, WriteDraft, OpenBacklog, Promote, ChildFailed
<1>6. CASE Passing(c)
  BY <1>2, <1>6 DEF Passing, Contextual, Importing, Scripts
<1>7. CASE Killed(c)
  BY <1>1, <1>2, <1>7 DEF Killed, Importing
<1>8. CASE ImportWriteFails(c)
  BY <1>1, <1>2, <1>8 DEF ImportWriteFails, Stage
<1>9. CASE WriteFails(c) /\ UNCHANGED Rest
  <2>1. Importing(c) /\ stage'[c] = stage[c] /\ pc[c] # "done"
    BY <1>2, <1>9 DEF WriteFails, Rest, Importing
  <2>2. stage[c] # "draft"
    BY <1>1, <2>1 DEF StepsFit
  <2> QED BY <1>1, <1>2, <1>9, <2>1, <2>2 DEF WriteFails, Go
<1> QED BY <1>3, <1>4, <1>5, <1>6, <1>7, <1>8, <1>9, ActsOrStays

(* What a process makes bears its name. *)
LEMMA PackagesHaveAuthors ==
  ASSUME FilesInv, NEW c \in Calls, Making(c) \/ Drafting(c)
  PROVE  /\ PackageName(c) \in DOMAIN specs
         /\ specs[PackageName(c)].item = job[c].item /\ job[c].item = <<c, theme[c]>> /\ job[c].item \in Items
         /\ job[c].item[1] = c /\ job[c].item[2] = theme[c]
         /\ Drafting(c) => theme[c] # 0 /\ pc[c] = "done"
<1>1. TypesFit /\ RequestsFit /\ StepsFit /\ JobsFit /\ PackagesFit
  BY DEF FilesInv
<1>2. Drafting(c) => AtTheme(c) /\ pc[c] = "done"
  BY <1>1 DEF Drafting, AtTheme, ThemeStages, StepsFit, Returned, Back, At
<1>3. Making(c) => pc[c] \in FileSteps
  BY DEF Making, FileSteps, SpecifySteps
<1>4. Working(c)
  BY <1>2, <1>3 DEF Working
<1>5. job[c].item = <<c, theme[c]>> /\ job[c].item \in Items
  BY <1>1, <1>4, JobsAreTyped
<1>6. PackageName(c) \in DOMAIN specs /\ specs[PackageName(c)].item = job[c].item
  BY <1>1 DEF PackagesFit, Has
<1>7. AtTheme(c) => theme[c] # 0
  BY <1>1 DEF JobsFit
<1> QED BY <1>2, <1>5, <1>6, <1>7

(* Only its author changes a package that is not drafted, and nobody moves it. *)
LEMMA PackagesAreLeftAlone ==
  ASSUME FilesInv, FileNext, NEW c \in Calls, NEW n \in DOMAIN specs, specs[n].item[1] = c,
         \/ specs[n].text \in {"none", "temporary", "empty"}
         \/ specs[n].text = "template" /\ specs[n].item[2] # 0
  PROVE  \/ n \in DOMAIN specs' /\ specs'[n] = specs[n]
         \/ WriteTemporary(c) \/ RenameSpec(c) \/ RemovePackage(c) \/ SpecReturned(c) \/ WriteDraft(c)
<1>1. SpecNumbersAreUnique /\ TypesFit /\ RequestsFit /\ StepsFit /\ JobsFit
  BY DEF FilesInv
<1> DEFINE Untouched == n \in DOMAIN specs' /\ specs'[n] = specs[n]
<1>2. CASE UNCHANGED specs
  BY <1>2
<1>3. ASSUME NEW a \in Calls, MakePackage(a), ~UNCHANGED specs  PROVE Untouched
  <2> DEFINE name == <<"draft", my[a].top + 1, job[a].slug>>
             made == [item |-> job[a].item, text |-> "none", gaps |-> {}]
  <2>1. name \notin DOMAIN specs /\ specs' = With(specs, name, made)
    BY <1>3 DEF MakePackage
  <2> HIDE DEF name, made
  <2> QED BY <2>1 DEF With
<1>4. ASSUME NEW a \in Calls, a # c, Making(a) \/ Drafting(a)  PROVE PackageName(a) # n
  BY <1>4, PackagesHaveAuthors
<1>5. ASSUME NEW a \in Calls, a # c, WriteTemporary(a) \/ RenameSpec(a) \/ RemovePackage(a) \/ SpecReturned(a) \/ WriteDraft(a)
      PROVE  Untouched
  <2>1. Making(a) \/ Drafting(a)
    <3>1. WriteTemporary(a) \/ RenameSpec(a) \/ RemovePackage(a) => Making(a)
      BY DEF WriteTemporary, RenameSpec, RemovePackage, Making, At
    <3>2. SpecReturned(a) \/ WriteDraft(a) => stage[a] # "done" /\ (stage[a] = "draft" \/ Back(a, "specify"))
      BY DEF SpecReturned, WriteDraft, Returned, Back, At
    <3>3. stage[a] # "done" => Importing(a)
      BY <1>1 DEF StepsFit
    <3> QED BY <1>5, <3>1, <3>2, <3>3 DEF Drafting
  <2>2. PackageName(a) # n
    BY <1>4, <1>5, <2>1
  <2> QED BY <1>5, <2>2 DEF WriteTemporary, RenameSpec, RemovePackage, WithoutPackage, Without, Restrict,
                            SpecReturned, WriteDraft
<1>6. ASSUME NEW name \in DOMAIN specs, Transition(name)  PROVE Untouched
  <2>1. n # name
    BY <1>6 DEF Transition
  <2>2. PICK moved : /\ moved[2] = name[2] /\ DOMAIN specs' = (DOMAIN specs \ {name}) \cup {moved}
                     /\ \A m \in DOMAIN specs' : specs'[m] = IF m = moved THEN specs[name] ELSE specs[m]
    BY <1>6, MovedSimply, Zenon
  <2>3. n # moved
    BY <1>1, <2>1, <2>2 DEF SpecNumbersAreUnique
  <2> QED BY <2>1, <2>2, <2>3
<1> QED BY <1>2, <1>3, <1>5, <1>6, SpecsChange

(* A package that is being made or drafted is where its author looks for   *)
(* it, with the text its author has left in it.                            *)
LEMMA PackagesStay ==
  ASSUME FilesInv, FileNext  PROVE PackagesFit'
<1>1. /\ FilesTypeOK /\ TypesFit /\ RequestsFit /\ StepsFit /\ TriesFit /\ JobsFit /\ ScansFit /\ NumbersFit /\ PackagesFit
      /\ pc = [o \in Calls |-> pc[o]] /\ my \in [Calls -> Variables] /\ stage = [o \in Calls |-> stage[o]]
  BY DEF FilesInv, TypesFit
<1>2. ASSUME NEW c \in Calls, Making(c)'
      PROVE  Has(c, specs, PackageName(c))' /\ specs'[PackageName(c)'].text \in {"none", "temporary"}
  <2>1. CASE MakePackage(c)
    <3>1. pc' = [pc EXCEPT ![c] = "unlock"] /\ UNCHANGED job
      BY <2>1 DEF MakePackage, Go
    <3>2. my'[c].number # 0
      BY <1>1, <1>2, <3>1 DEF Making
    <3> DEFINE name == <<"draft", my[c].top + 1, job[c].slug>>
               made == [item |-> job[c].item, text |-> "none", gaps |-> {}]
    <3>3. my[c].top \in Nat /\ my[c] \in Variables
      BY <1>1 DEF Variables
    <3>4. my' = [my EXCEPT ![c].number = my[c].top + 1] /\ specs' = With(specs, name, made)
      <4>1. my' # [my EXCEPT ![c].number = 0]
        BY <1>1, <3>2, <3>3 DEF Variables
      <4> QED BY <2>1, <4>1 DEF MakePackage
    <3>5. my'[c].number = my[c].top + 1
      BY <1>1, <3>3, <3>4 DEF Variables
    <3>6. PackageName(c)' = name
      BY <3>1, <3>5 DEF PackageName
    <3> HIDE DEF name
    <3>7. name \in DOMAIN specs' /\ specs'[name] = made
      BY <3>4 DEF With
    <3> QED BY <3>1, <3>6, <3>7 DEF Has
  <2>2. CASE Making(c) /\ my'[c] = my[c] /\ job'[c] = job[c]
    <3>1. /\ PackageName(c) \in DOMAIN specs /\ specs[PackageName(c)].item = job[c].item /\ job[c].item[1] = c
          /\ specs[PackageName(c)].text \in {"none", "temporary"}
      BY <1>1, <2>2, PackagesHaveAuthors DEF PackagesFit
    <3>2. PackageName(c)' = PackageName(c)
      BY <2>2 DEF PackageName
    <3>3. CASE PackageName(c) \in DOMAIN specs' /\ specs'[PackageName(c)] = specs[PackageName(c)]
      BY <2>2, <3>1, <3>2, <3>3 DEF Has
    <3>4. CASE WriteTemporary(c)
      <4>1. specs' = [specs EXCEPT ![PackageName(c)].text = "temporary"]
        BY <3>4 DEF WriteTemporary
      <4>2. specs[PackageName(c)] \in [item : Authors, gaps : SUBSET Fields,
                                       text : {"none", "temporary", "template", "empty", "drafted"}]
        BY <1>1, <3>1 DEF FilesTypeOK
      <4> DEFINE p == PackageName(c)
      <4> HIDE DEF p
      <4>3. p \in DOMAIN specs' /\ specs'[p].text = "temporary" /\ specs'[p].item = specs[p].item
        BY <3>1, <4>1, <4>2 DEF p
      <4> QED BY <2>2, <3>1, <3>2, <4>3 DEF Has, p
    <3>5. ~RenameSpec(c) /\ ~RemovePackage(c)
      BY <1>1, <1>2 DEF RenameSpec, RemovePackage, Go, Making
    <3>6. ~SpecReturned(c) /\ ~WriteDraft(c)
      <4>1. stage[c] = "draft" => pc[c] = "done"
        BY <1>1 DEF StepsFit
      <4> QED BY <2>2, <4>1 DEF SpecReturned, WriteDraft, Returned, Back, At, Making
    <3> QED BY <3>1, <3>3, <3>4, <3>5, <3>6, PackagesAreLeftAlone
  <2> QED BY <1>2, <2>1, <2>2, MakingsBegin
<1>3. ASSUME NEW c \in Calls, Drafting(c)'
      PROVE  /\ Has(c, specs, PackageName(c))'
             /\ specs'[PackageName(c)'].text = IF stage'[c] = "draft" THEN "empty" ELSE "template"
  <2>1. ASSUME Making(c) \/ Drafting(c), NEW s, specs' = [specs EXCEPT ![PackageName(c)].text = s],
               my'[c] = my[c], job'[c] = job[c]
        PROVE  Has(c, specs, PackageName(c))' /\ specs'[PackageName(c)'].text = s
    <3> DEFINE p == PackageName(c)
    <3>1. p \in DOMAIN specs /\ specs[p].item = job[c].item
      BY <2>1, PackagesHaveAuthors
    <3>2. PackageName(c)' = p
      BY <2>1 DEF PackageName
    <3>3. specs[p] \in [item : Authors, gaps : SUBSET Fields,
                        text : {"none", "temporary", "template", "empty", "drafted"}]
      BY <1>1, <3>1 DEF FilesTypeOK
    <3>4. specs' = [specs EXCEPT ![p].text = s]
      BY <2>1
    <3> HIDE DEF p
    <3>5. p \in DOMAIN specs' /\ specs'[p].text = s /\ specs'[p].item = specs[p].item
      BY <3>1, <3>3, <3>4
    <3> QED BY <2>1, <3>1, <3>2, <3>5 DEF Has
  <2>2. CASE RenameSpec(c)
    <3>1. Making(c) /\ specs' = [specs EXCEPT ![PackageName(c)].text = "template"] /\ UNCHANGED my /\ UNCHANGED job
          /\ pc[c] = "rename"
      BY <2>2 DEF RenameSpec, Making, At
    <3>2. stage'[c] # "draft"
      <4>1. pc'[c] = "done" /\ stage[c] # "draft"
        BY <1>1, <2>2, <3>1, ScriptsAtWork DEF RenameSpec, Go, StepsFit, FileSteps, SpecifySteps, ScriptOf
      <4>2. stage'[c] = "draft" => ~(ScriptStep(c) /\ UNCHANGED Rest)
        BY <4>1 DEF Rest
      <4>3. ~ImportStep(c) /\ ~Passing(c) /\ ~Killed(c) /\ ~ImportWriteFails(c) /\ ~WriteFails(c) /\ ~Idles(c)
        <5>1. ~ImportStep(c)
          BY <1>1, <3>1, ImportMoves DEF Starts, Advances, StepsFit, Returned, Back, At
        <5>2. ~Passing(c) /\ ~Killed(c) /\ ~WriteFails(c) /\ ~Idles(c)
          BY <1>1, <3>1, <4>1 DEF Passing, ContextSteps, Killed, WriteFails, Idles, Go
        <5>3. ~ImportWriteFails(c)
          BY <3>1, <4>1 DEF ImportWriteFails
        <5> QED BY <5>1, <5>2, <5>3
      <4> QED BY <4>2, <4>3, ActsOrStays
    <3> QED BY <2>1, <3>1, <3>2
  <2>3. CASE SpecReturned(c)
    <3>1. /\ specs' = [specs EXCEPT ![PackageName(c)].text = "empty"] /\ UNCHANGED my /\ UNCHANGED job
          /\ stage' = [stage EXCEPT ![c] = "draft"] /\ Returned(c, "specify") /\ stage[c] = "specify"
          /\ UNCHANGED request
      BY <2>3 DEF SpecReturned, Stage, Returned, Back
    <3>2. Drafting(c)
      BY <1>1, <3>1 DEF Drafting, StepsFit, Returned, Back, At
    <3>3. stage'[c] = "draft"
      BY <1>1, <3>1
    <3> QED BY <2>1, <3>1, <3>2, <3>3
  <2>4. CASE Drafting(c) /\ stage'[c] = stage[c] /\ my'[c] = my[c] /\ job'[c] = job[c]
    <3>1. /\ PackageName(c) \in DOMAIN specs /\ specs[PackageName(c)].item = job[c].item
          /\ job[c].item[1] = c /\ job[c].item[2] # 0 /\ pc[c] = "done"
          /\ specs[PackageName(c)].text = IF stage[c] = "draft" THEN "empty" ELSE "template"
      BY <1>1, <2>4, PackagesHaveAuthors DEF PackagesFit
    <3>2. PackageName(c)' = PackageName(c)
      BY <2>4 DEF PackageName
    <3>3. ~WriteTemporary(c) /\ ~RenameSpec(c) /\ ~RemovePackage(c)
      BY <3>1 DEF WriteTemporary, RenameSpec, RemovePackage, At
    <3>4. ~SpecReturned(c) /\ ~WriteDraft(c)
      BY <1>1, <2>4 DEF SpecReturned, WriteDraft, Returned, Back, Stage
    <3>5. PackageName(c) \in DOMAIN specs' /\ specs'[PackageName(c)] = specs[PackageName(c)]
      BY <3>1, <3>3, <3>4, PackagesAreLeftAlone
    <3> QED BY <2>4, <3>1, <3>2, <3>5 DEF Has
  <2> QED BY <1>3, <2>2, <2>3, <2>4, DraftingsBegin
<1> QED BY <1>2, <1>3 DEF PackagesFit

(* A package without spec.md is new, or was there without it. *)
LEMMA UnspecifiedBegin ==
  ASSUME FilesInv, FileNext, NEW n \in DOMAIN specs', specs'[n].text \in {"none", "temporary"}
  PROVE  \/ n \in DOMAIN specs /\ specs'[n] = specs[n]
         \/ \E c \in Calls : /\ MakePackage(c) \/ WriteTemporary(c)
                             /\ Making(c)' /\ n = PackageName(c)'
<1>1. /\ FilesTypeOK /\ TypesFit /\ SpecNumbersAreUnique /\ PackagesFit /\ StepsFit
      /\ pc = [o \in Calls |-> pc[o]] /\ my \in [Calls -> Variables]
  BY DEF FilesInv, TypesFit
<1> DEFINE Untouched == n \in DOMAIN specs /\ specs'[n] = specs[n]
           Content == [item : Authors, gaps : SUBSET Fields,
                       text : {"none", "temporary", "template", "empty", "drafted"}]
<1>2. \A m \in DOMAIN specs : specs[m] \in Content
  BY <1>1 DEF FilesTypeOK
<1>3. ASSUME NEW c \in Calls, MakePackage(c), ~Untouched  PROVE Making(c)' /\ n = PackageName(c)'
  <2> DEFINE name == <<"draft", my[c].top + 1, job[c].slug>>
             made == [item |-> job[c].item, text |-> "none", gaps |-> {}]
  <2>1. ~UNCHANGED specs
    BY <1>3
  <2>2. /\ specs' = With(specs, name, made) /\ my' = [my EXCEPT ![c].number = my[c].top + 1]
        /\ pc' = [pc EXCEPT ![c] = "unlock"] /\ UNCHANGED job
    BY <1>3, <2>1 DEF MakePackage, Go
  <2>3. my[c].top \in Nat /\ my[c] \in Variables
    BY <1>1 DEF Variables
  <2>4. my'[c].number = my[c].top + 1 /\ pc'[c] = "unlock"
    BY <1>1, <2>2, <2>3 DEF Variables
  <2>5. PackageName(c)' = name
    BY <2>2, <2>4 DEF PackageName
  <2> HIDE DEF name, made
  <2>6. n = name
    BY <1>3, <2>2 DEF With
  <2> QED BY <2>3, <2>4, <2>5, <2>6 DEF Making
<1>4. ASSUME NEW c \in Calls, WriteTemporary(c), ~Untouched  PROVE Making(c)' /\ n = PackageName(c)'
  <2>1. /\ specs' = [specs EXCEPT ![PackageName(c)].text = "temporary"] /\ pc' = [pc EXCEPT ![c] = "rename"]
        /\ UNCHANGED my /\ UNCHANGED job
    BY <1>4 DEF WriteTemporary, Go
  <2>2. n = PackageName(c)
    BY <1>4, <2>1
  <2> QED BY <1>1, <2>1, <2>2 DEF Making, PackageName
<1>5. ASSUME NEW name, NEW s \in {"template", "empty"}, specs' = [specs EXCEPT ![name].text = s]  PROVE Untouched
  <2>1. name \in DOMAIN specs => specs'[name].text = s
    BY <1>2, <1>5
  <2> QED BY <1>5, <2>1
<1>6. ASSUME NEW c \in Calls, RenameSpec(c) \/ SpecReturned(c)  PROVE Untouched
  BY <1>5, <1>6 DEF RenameSpec, SpecReturned
<1>7. ASSUME NEW c \in Calls, RemovePackage(c)  PROVE Untouched
  BY <1>7 DEF RemovePackage, WithoutPackage, Without, Restrict
<1>8. ASSUME NEW c \in Calls, WriteDraft(c)  PROVE Untouched
  <2> DEFINE p == PackageName(c)
             half == [specs EXCEPT ![p].text = "drafted"]
             g == Gaps(ThemesOf(c)[theme[c]])
  <2>1. specs' = [half EXCEPT ![p].gaps = g]
    BY <1>8 DEF WriteDraft
  <2>2. DOMAIN half = DOMAIN specs /\ \A m \in DOMAIN specs : m # p => half[m] = specs[m]
    OBVIOUS
  <2>3. p \in DOMAIN specs => half[p].text = "drafted" /\ half[p] \in [item : Authors, gaps : SUBSET Fields,
                       text : {"none", "temporary", "template", "empty", "drafted"}]
    BY <1>2
  <2> HIDE DEF half, g, p
  <2>4. p \in DOMAIN specs => specs'[p].text = "drafted"
    BY <2>1, <2>2, <2>3
  <2> QED BY <2>1, <2>2, <2>4
<1>9. ASSUME NEW name \in DOMAIN specs, Transition(name)  PROVE Untouched
  <2>1. PICK moved : /\ moved[2] = name[2] /\ DOMAIN specs' = (DOMAIN specs \ {name}) \cup {moved}
                     /\ \A m \in DOMAIN specs' : specs'[m] = IF m = moved THEN specs[name] ELSE specs[m]
    BY <1>9, MovedSimply, Zenon
  <2>2. specs[name].text \notin {"none", "temporary"}
    BY <1>9 DEF Transition
  <2>3. n # moved
    BY <2>1, <2>2
  <2> QED BY <2>1, <2>3
<1>10. UNCHANGED specs => Untouched
  OBVIOUS
<1> HIDE DEF Untouched
<1>11. \/ Untouched
       \/ \E c \in Calls : (MakePackage(c) \/ WriteTemporary(c)) /\ Making(c)' /\ n = PackageName(c)'
  BY <1>3, <1>4, <1>6, <1>7, <1>8, <1>9, <1>10, SpecsChange
<1> QED BY <1>11 DEF Untouched

(* Its author is making it, or was killed. *)
LEMMA UnspecifiedStay ==
  ASSUME FilesInv, FileNext  PROVE UnspecifiedFit'
<1>1. UnspecifiedFit /\ PackagesFit' /\ ProcessesInv' /\ FilesTypeOK
  BY PackagesStay, ProcessesStay DEF FilesInv
<1> SUFFICES ASSUME NEW n \in DOMAIN specs', specs'[n].text \in {"none", "temporary"}
             PROVE  \E c \in Calls : /\ specs'[n].item[1] = c
                                     /\ pc'[c] = "killed" \/ (Making(c)' /\ n = PackageName(c)')
  BY DEF UnspecifiedFit
<1>2. TypesFit /\ RequestsFit /\ StepsFit /\ JobsFit
  BY DEF FilesInv
<1>3. ASSUME NEW c \in Calls, MakePackage(c) \/ WriteTemporary(c), Making(c)', n = PackageName(c)'
      PROVE  specs'[n].item[1] = c
  <2>1. specs'[n].item = job'[c].item /\ UNCHANGED job
    BY <1>1, <1>3 DEF PackagesFit, Has, MakePackage, WriteTemporary
  <2>2. Working(c)
    BY <1>3 DEF MakePackage, WriteTemporary, At, Working, FileSteps, SpecifySteps
  <2>3. job[c].item = <<c, theme[c]>>
    BY <1>2, <2>2, JobsAreTyped
  <2> QED BY <2>1, <2>3
<1>4. CASE n \in DOMAIN specs /\ specs'[n] = specs[n]
  <2>1. PICK c \in Calls : specs[n].item[1] = c /\ (pc[c] = "killed" \/ (Making(c) /\ n = PackageName(c)))
    BY <1>1, <1>4 DEF UnspecifiedFit
  <2>3. CASE pc[c] = "killed"
    <3>1. pc'[c] = "killed"
      BY <2>3, KilledStay
    <3> QED BY <1>4, <2>1, <3>1
  <2>4. CASE Making(c) /\ n = PackageName(c)
    <3>1. CASE Making(c)' /\ my'[c] = my[c] /\ job'[c] = job[c]
      BY <1>4, <2>1, <2>4, <3>1 DEF PackageName
    <3>2. CASE pc'[c] = "killed"
      BY <1>4, <2>1, <3>2
    <3>3. ~RenameSpec(c)
      <4>1. RenameSpec(c) => specs' = [specs EXCEPT ![n].text = "template"]
        BY <2>4 DEF RenameSpec
      <4>2. specs[n] \in [item : Authors, gaps : SUBSET Fields,
                          text : {"none", "temporary", "template", "empty", "drafted"}]
        BY <1>1, <1>4 DEF FilesTypeOK
      <4> QED BY <1>4, <4>1, <4>2
    <3>4. ~RemovePackage(c)
      BY <2>4 DEF RemovePackage, WithoutPackage, Without, Restrict
    <3> QED BY <2>4, <3>1, <3>2, <3>3, <3>4, MakingsEnd
  <2> QED BY <2>1, <2>3, <2>4
<1> QED BY <1>3, <1>4, UnspecifiedBegin

-----------------------------------------------------------------------------
(* The backlog items and the Inboxes that a process is at work on. *)

(* Nobody takes an Inbox or a backlog item away, or gives it to another theme. *)
LEMMA InboxesAreKept ==
  ASSUME FilesInv, FileNext, NEW n \in DOMAIN inbox
  PROVE  n \in DOMAIN inbox' /\ inbox'[n].item = inbox[n].item
<1>1. inbox[n] \in [item : Items, whole : BOOLEAN, gaps : SUBSET Fields, kept : BOOLEAN]
  BY DEF FilesInv, FilesTypeOK
<1>2. ASSUME NEW c \in Calls, CaptureCreate(c), ~UNCHANGED inbox
      PROVE  n \in DOMAIN inbox' /\ inbox'[n].item = inbox[n].item
  <2> DEFINE made == [item |-> job[c].item, whole |-> FALSE, gaps |-> job[c].gaps, kept |-> job[c].kept]
  <2>1. InboxName(c) \notin DOMAIN inbox /\ inbox' = With(inbox, InboxName(c), made)
    BY <1>2 DEF CaptureCreate, NameIsTaken
  <2> HIDE DEF made
  <2> QED BY <2>1 DEF With
<1>3. ASSUME NEW c \in Calls, CaptureFill(c)
      PROVE  n \in DOMAIN inbox' /\ inbox'[n].item = inbox[n].item
  BY <1>1, <1>3 DEF CaptureFill
<1> QED BY <1>2, <1>3, InboxChanges

(* The same of backlog items. *)
LEMMA BacklogItemsAreKept ==
  ASSUME FilesInv, FileNext, NEW n \in DOMAIN backlog
  PROVE  n \in DOMAIN backlog' /\ backlog'[n].item = backlog[n].item
<1>1. backlog[n] \in [item : Items, text : {"empty", "captured", "evidenced", "promoted"},
                      gaps : SUBSET Fields, spec : 0 .. MaxNumber]
  BY DEF FilesInv, FilesTypeOK
<1> DEFINE Untouched == n \in DOMAIN backlog' /\ backlog'[n].item = backlog[n].item
<1>2. ASSUME NEW c \in Calls, BacklogCreate(c), ~UNCHANGED backlog  PROVE Untouched
  <2> DEFINE made == [item |-> job[c].item, text |-> "empty", gaps |-> job[c].gaps, spec |-> 0]
  <2>1. BacklogName(c) \notin DOMAIN backlog /\ backlog' = With(backlog, BacklogName(c), made)
    BY <1>2 DEF BacklogCreate
  <2> HIDE DEF made
  <2> QED BY <2>1 DEF With
<1>3. ASSUME NEW name, NEW s, backlog' = [backlog EXCEPT ![name].text = s]  PROVE Untouched
  BY <1>1, <1>3
<1>4. ASSUME NEW c \in Calls, BacklogFill(c) \/ BacklogReturned(c) \/ WriteEvidence(c) \/ OpenBacklog(c)  PROVE Untouched
  BY <1>3, <1>4 DEF BacklogFill, BacklogReturned, WriteEvidence, OpenBacklog
<1>5. ASSUME NEW c \in Calls, Promote(c)  PROVE Untouched
  <2> DEFINE half == [backlog EXCEPT ![BacklogName(c)].text = "promoted"]
  <2>1. DOMAIN half = DOMAIN backlog /\ half[n].item = backlog[n].item /\ half[n] \in
          [item : Items, text : {"empty", "captured", "evidenced", "promoted"}, gaps : SUBSET Fields, spec : 0 .. MaxNumber]
    BY <1>1
  <2>2. backlog' = [half EXCEPT ![BacklogName(c)].spec = my[c].number]
    BY <1>5 DEF Promote
  <2> HIDE DEF half
  <2> QED BY <2>1, <2>2
<1>6. UNCHANGED backlog => Untouched
  OBVIOUS
<1> HIDE DEF Untouched
<1>7. Untouched
  BY <1>2, <1>4, <1>5, <1>6, BacklogChanges
<1> QED BY <1>7 DEF Untouched

(* Only a script of backlog items gives its process another number of one.     *)
LEMMA EntriesAreKept ==
  ASSUME FilesInv, NEW c \in Calls, ScriptStep(c), pc[c] \in SpecifySteps
  PROVE  my'[c].entry = my[c].entry
<1>1. my \in [Calls -> Variables] /\ my[c] \in Variables
  BY DEF FilesInv, TypesFit
<1>2. UNCHANGED my => my'[c].entry = my[c].entry
  OBVIOUS
<1>3. CASE TakeLock(c)
  <2>1. my' = [my EXCEPT ![c].folder = 1, ![c].top = 0, ![c].tries = 0] \/ my' = [my EXCEPT ![c].tries = @ + 1]
    BY <1>3, Zenon DEF TakeLock
  <2> QED BY <1>1, <2>1 DEF Variables
<1>4. CASE ScanFolder(c)
  <2> DEFINE top == Max({my[c].top} \cup {n[2] : n \in {n \in DOMAIN specs : n[1] = StateFolders[my[c].folder]}})
  <2>1. my' = [my EXCEPT ![c].top = top, ![c].folder = @ + 1]
    BY <1>4 DEF ScanFolder
  <2> HIDE DEF top
  <2> QED BY <1>1, <2>1 DEF Variables
<1>5. CASE MakePackage(c)
  <2>1. my' = [my EXCEPT ![c].number = 0] \/ my' = [my EXCEPT ![c].number = my[c].top + 1]
    BY <1>5, Zenon DEF MakePackage
  <2> QED BY <1>1, <2>1 DEF Variables
<1>6. TakeLock(c) \/ ScanFolder(c) \/ MakePackage(c) \/ UNCHANGED my
  BY DEF ScriptStep, ReadSecond, CaptureCreate, CaptureFill, BacklogScan, BacklogCreate, BacklogFill, ReleaseLock,
         WriteTemporary, RenameSpec, RemovePackage, At, SpecifySteps
<1> QED BY <1>2, <1>3, <1>4, <1>5, <1>6

(* What an import does to its backlog item goes on with the same one. *)
LEMMA FilingsBegin ==
  ASSUME FilesInv, FileNext, NEW c \in Calls, Filed(c)'
  PROVE  \/ BacklogCreate(c) /\ pc'[c] = "backlogFill"
         \/ /\ Filed(c) /\ my'[c].entry = my[c].entry
            /\ job'[c].slug = job[c].slug /\ job'[c].item = job[c].item
<1>1. /\ FilesTypeOK /\ TypesFit /\ RequestsFit /\ StepsFit /\ TriesFit /\ JobsFit /\ ScansFit /\ NumbersFit
      /\ pc = [o \in Calls |-> pc[o]] /\ my = [o \in Calls |-> my[o]] /\ stage = [o \in Calls |-> stage[o]]
  BY DEF FilesInv, TypesFit
<1>2. \/ pc'[c] = "backlogFill"
      \/ Importing(c)' /\ stage'[c] = "backlog" /\ pc'[c] = "done"
      \/ Importing(c)' /\ stage'[c] \in {"evidence", "specify", "draft", "promote", "promotion"}
  BY DEF Filed, Returned, Back, At
<1>3. CASE Idles(c)
  BY <1>3 DEF Idles, Filed, Returned, Back, At, Importing
<1>4. CASE ScriptStep(c) /\ UNCHANGED Rest
  <2>1. UNCHANGED job /\ pc[c] \in FileSteps /\ stage'[c] = stage[c] /\ Importing(c)' = Importing(c)
    <3>1. UNCHANGED job /\ pc[c] \in FileSteps
      BY <1>1, <1>4, ScriptMoves DEF FileSteps
    <3> QED BY <1>4, <3>1 DEF Rest, Importing
  <2>2. CASE pc[c] \in CaptureSteps
    <3>1. pc'[c] \in CaptureSteps \cup {"done"}
      BY <1>1, <1>4, <2>2, ScriptMoves DEF CaptureSteps, BacklogSteps, SpecifySteps
    <3>2. Importing(c) => stage[c] = "capture"
      BY <1>1, <2>2 DEF StepsFit, ScriptOf
    <3> QED BY <1>2, <2>1, <3>1, <3>2 DEF CaptureSteps
  <2>3. CASE pc[c] \in BacklogSteps
    <3>1. Importing(c) => stage[c] = "backlog"
      BY <1>1, <2>3 DEF StepsFit, ScriptOf
    <3>2. pc'[c] = "backlogFill" \/ pc'[c] = "done"
      BY <1>2, <2>1, <3>1
    <3>3. BacklogScan(c) \/ BacklogCreate(c) \/ BacklogFill(c)
      BY <1>4, <2>3 DEF ScriptStep, ReadSecond, CaptureCreate, CaptureFill, TakeLock, ScanFolder, MakePackage,
         ReleaseLock, WriteTemporary, RenameSpec, RemovePackage, At, BacklogSteps
    <3>4. ~BacklogScan(c)
      <4>1. BacklogScan(c) => Go(c, "failed") \/ Go(c, "backlogCreate")
        BY Zenon DEF BacklogScan
      <4> QED BY <1>1, <3>2, <4>1 DEF Go
    <3>5. BacklogCreate(c) => pc'[c] = "backlogFill"
      BY <1>1, <3>2 DEF BacklogCreate, Go, NumberAgain
    <3>6. BacklogFill(c) => Filed(c) /\ UNCHANGED my
      BY DEF BacklogFill, Filed, At
    <3> QED BY <2>1, <3>3, <3>4, <3>5, <3>6
  <2>4. CASE pc[c] \in SpecifySteps
    <3>1. Importing(c) => stage[c] = "specify"
      BY <1>1, <2>4 DEF StepsFit, ScriptOf
    <3>2. pc'[c] # "backlogFill"
      BY <1>1, <1>4, <2>4, ScriptMoves DEF CaptureSteps, BacklogSteps, SpecifySteps
    <3>3. Filed(c)
      BY <1>2, <2>1, <3>1, <3>2 DEF Filed
    <3> QED BY <1>4, <2>1, <2>4, <3>3, EntriesAreKept
  <2> QED BY <2>1, <2>2, <2>3, <2>4 DEF FileSteps
<1>5. CASE ImportStep(c)
  <2>1. Importing(c) /\ UNCHANGED my /\ UNCHANGED request /\ (Starts(c) \/ Advances(c))
    BY <1>1, <1>5, ImportMoves
  <2>2. CASE Starts(c)
    <3>1. pc'[c] \in {"second", "backlogScan", "lock", "failed"} /\ stage'[c] = "specify"
      <4>1. pc'[c] \in {"second", "backlogScan", "lock", "failed"} /\ stage'[c] \in {"capture", "backlog", "specify"}
        BY <1>1, <2>1, <2>2, ChildrenStart DEF Starts
      <4> QED BY <1>2, <4>1
    <3>2. WriteEvidence(c)
      <4>1. ASSUME NEW i, Continue(c, i)  PROVE FALSE
        BY <1>1, <3>1, <4>1 DEF Continue, Run, Stage
      <4>2. ~InboxReturned(c)
        BY <1>1, <3>1, <4>1 DEF InboxReturned, Run
      <4>3. ~FillMilestone(c) /\ ~Promote(c)
        BY <4>1 DEF FillMilestone, Promote
      <4>4. ~ReadMvpSource(c) /\ ~CreateMilestone(c) /\ ~BacklogReturned(c) /\ ~SpecReturned(c) /\ ~WriteDraft(c)
            /\ ~OpenBacklog(c) /\ ~ChildFailed(c)
        BY <1>1, <3>1 DEF ReadMvpSource, CreateMilestone, BacklogReturned, SpecReturned, WriteDraft, OpenBacklog,
                          ChildFailed, Stage
      <4> QED BY <1>5, <4>2, <4>3, <4>4 DEF ImportStep
    <3>3. stage[c] = "evidence" /\ job'[c] = Child(c, theme[c], "specify")
      BY <1>1, <3>2 DEF WriteEvidence, Run, TypesFit
    <3>4. Source(c) \in Texts /\ theme[c] \in 1 .. Len(ThemesOf(c)) /\ job[c] = Child(c, theme[c], "backlog")
      BY <1>1, <2>1, <3>3 DEF JobsFit, AtTheme, ThemeStages, ChildOf
    <3>5. job'[c].slug = job[c].slug /\ job'[c].item = job[c].item
      <4>1. job'[c].slug = ThemesOf(c)[theme[c]].slug /\ job'[c].item = <<c, theme[c]>>
        BY <3>3, <3>4, ChildIsAJob
      <4>2. job[c].slug = ThemesOf(c)[theme[c]].slug /\ job[c].item = <<c, theme[c]>>
        BY <3>4, ChildIsAJob
      <4> QED BY <4>1, <4>2
    <3> QED BY <2>1, <3>3, <3>5 DEF Filed
  <2>3. CASE Advances(c)
    <3>1. pc[c] # "backlogFill"
      BY <1>1, <2>1, <2>3 DEF Advances, StepsFit, Returned, Back, At
    <3>2. Filed(c)
      BY <1>2, <2>1, <2>3, <3>1 DEF Advances, Filed, Returned, Back, At
    <3> QED BY <2>1, <2>3, <3>2 DEF Advances
  <2> QED BY <2>1, <2>2, <2>3
<1>6. CASE Passing(c)
  <2>1. ~Importing(c) /\ UNCHANGED request /\ pc'[c] # "backlogFill"
    BY <1>1, <1>6 DEF Passing, Contextual, Importing, Scripts, Go, ContextSteps
  <2> QED BY <1>2, <2>1 DEF Importing
<1>7. CASE Killed(c)
  BY <1>1, <1>2, <1>7 DEF Killed, Importing, Go
<1>8. CASE ImportWriteFails(c)
  <2>1. stage'[c] = "failed" /\ UNCHANGED <<pc, my, job>>
    BY <1>1, <1>8 DEF ImportWriteFails, Stage
  <2> QED BY <1>2, <2>1 DEF Filed
<1>9. CASE WriteFails(c) /\ UNCHANGED Rest
  <2>1. pc'[c] \in {"failed", "undo"} /\ UNCHANGED <<my, job>> /\ UNCHANGED Rest
    BY <1>1, <1>9 DEF WriteFails, Go
  <2> QED BY <1>2, <2>1 DEF Filed, Rest, Importing
<1> QED BY <1>3, <1>4, <1>5, <1>6, <1>7, <1>8, <1>9, ActsOrStays

(* The item a process is going to write is there, and its own. *)
LEMMA BacklogsStay ==
  ASSUME FilesInv, FileNext  PROVE BacklogsFit'
<1>1. /\ FilesTypeOK /\ TypesFit /\ RequestsFit /\ StepsFit /\ TriesFit /\ JobsFit /\ BacklogsFit
      /\ pc = [o \in Calls |-> pc[o]]
  BY DEF FilesInv, TypesFit
<1> SUFFICES ASSUME NEW c \in Calls, Filed(c)'
             PROVE  BacklogName(c)' \in DOMAIN backlog' /\ backlog'[BacklogName(c)'].item = job'[c].item
  BY DEF BacklogsFit, Has
<1>2. CASE BacklogCreate(c) /\ pc'[c] = "backlogFill"
  <2> DEFINE made == [item |-> job[c].item, text |-> "empty", gaps |-> job[c].gaps, spec |-> 0]
  <2>1. backlog' = With(backlog, BacklogName(c), made) /\ UNCHANGED my /\ UNCHANGED job
    BY <1>1, <1>2 DEF BacklogCreate, Go, NumberAgain
  <2>2. made.item = job[c].item
    OBVIOUS
  <2>3. BacklogName(c)' = BacklogName(c)
    BY <2>1 DEF BacklogName
  <2> HIDE DEF made
  <2> QED BY <2>1, <2>2, <2>3 DEF With
<1>3. CASE Filed(c) /\ my'[c].entry = my[c].entry /\ job'[c].slug = job[c].slug /\ job'[c].item = job[c].item
  <2>1. BacklogName(c)' = BacklogName(c)
    BY <1>3 DEF BacklogName
  <2>2. BacklogName(c) \in DOMAIN backlog /\ backlog[BacklogName(c)].item = job[c].item
    BY <1>1, <1>3 DEF BacklogsFit, Has
  <2>3. BacklogName(c) \in DOMAIN backlog' /\ backlog'[BacklogName(c)].item = backlog[BacklogName(c)].item
    BY <2>2, BacklogItemsAreKept
  <2> QED BY <1>3, <2>1, <2>2, <2>3
<1> QED BY <1>2, <1>3, FilingsBegin

(* A process is about to fill the Inbox it has just created. *)
LEMMA CapturesBegin ==
  ASSUME FilesInv, FileNext, NEW c \in Calls, pc'[c] = "captureFill"
  PROVE  CaptureCreate(c) \/ (pc[c] = "captureFill" /\ my'[c] = my[c] /\ job'[c] = job[c])
<1>1. /\ FilesTypeOK /\ TypesFit /\ RequestsFit /\ StepsFit /\ TriesFit /\ JobsFit /\ ScansFit /\ NumbersFit
      /\ pc = [o \in Calls |-> pc[o]]
  BY DEF FilesInv, TypesFit
<1>2. CASE ScriptStep(c)
  <2>1. pc[c] \in CaptureSteps
    BY <1>1, <1>2, ScriptMoves DEF CaptureSteps, BacklogSteps, SpecifySteps
  <2>2. ReadSecond(c) \/ CaptureCreate(c) \/ CaptureFill(c)
    BY <1>2, <2>1 DEF ScriptStep, BacklogScan, BacklogCreate, BacklogFill, TakeLock, ScanFolder, MakePackage,
       ReleaseLock, WriteTemporary, RenameSpec, RemovePackage, At, CaptureSteps
  <2> QED BY <1>1, <2>2 DEF ReadSecond, CaptureFill, Go
<1>3. CASE ImportStep(c)
  <2>1. UNCHANGED my /\ (Starts(c) \/ Advances(c)) /\ Importing(c)
    BY <1>1, <1>3, ImportMoves
  <2>2. ~Starts(c)
    BY <1>1, <2>1, ChildrenStart
  <2> QED BY <2>1, <2>2 DEF Advances
<1>4. CASE Passing(c) \/ Killed(c) \/ Orphaned(c) \/ WriteFails(c)
  BY <1>1, <1>4 DEF Passing, ContextSteps, Killed, Orphaned, WriteFails, Go
<1>5. CASE ImportWriteFails(c)
  BY <1>5 DEF ImportWriteFails
<1> QED BY <1>2, <1>3, <1>4, <1>5, ActsOrStays DEF Idles

(* The Inbox a process is going to fill is there, and its own. *)
LEMMA InboxesStay ==
  ASSUME FilesInv, FileNext  PROVE InboxesFit'
<1>1. InboxesFit /\ pc = [o \in Calls |-> pc[o]]
  BY DEF FilesInv, TypesFit
<1> SUFFICES ASSUME NEW c \in Calls, pc'[c] = "captureFill"
             PROVE  InboxName(c)' \in DOMAIN inbox' /\ inbox'[InboxName(c)'].item = job'[c].item
  BY DEF InboxesFit, Has
<1>2. CASE CaptureCreate(c) /\ pc[c] # "captureFill"
  <2> DEFINE made == [item |-> job[c].item, whole |-> FALSE, gaps |-> job[c].gaps, kept |-> job[c].kept]
  <2>1. inbox' = With(inbox, InboxName(c), made) /\ UNCHANGED my /\ UNCHANGED job
    BY <1>1, <1>2 DEF CaptureCreate
  <2>2. made.item = job[c].item
    OBVIOUS
  <2>3. InboxName(c)' = InboxName(c)
    BY <2>1 DEF InboxName
  <2> HIDE DEF made
  <2> QED BY <2>1, <2>2, <2>3 DEF With
<1>3. CASE pc[c] = "captureFill" /\ my'[c] = my[c] /\ job'[c] = job[c]
  <2>1. InboxName(c)' = InboxName(c)
    BY <1>3 DEF InboxName
  <2>2. InboxName(c) \in DOMAIN inbox /\ inbox[InboxName(c)].item = job[c].item
    BY <1>1, <1>3 DEF InboxesFit, Has
  <2>3. InboxName(c) \in DOMAIN inbox' /\ inbox'[InboxName(c)].item = inbox[InboxName(c)].item
    BY <2>2, InboxesAreKept
  <2> QED BY <1>3, <2>1, <2>2, <2>3
<1>4. CaptureCreate(c) => pc[c] # "captureFill"
  BY DEF CaptureCreate, At
<1> QED BY <1>2, <1>3, <1>4, CapturesBegin

-----------------------------------------------------------------------------
(* The files that are empty while their authors write them. *)

(* In a step without a fault a process goes on, or stays as it is.             *)
LEMMA NoFaults ==
  ASSUME FilesInv, FileNext, faults' = faults, NEW c \in Calls
  PROVE  \/ Idles(c) \/ (ScriptStep(c) /\ UNCHANGED Rest) \/ ImportStep(c) \/ Passing(c)
<1>1. faults \in Nat
  BY BoundsAssumption DEF FilesInv, FilesTypeOK
<1>2. ~Killed(c) /\ ~ImportWriteFails(c) /\ ~WriteFails(c)
  BY <1>1 DEF Killed, ImportWriteFails, WriteFails, Fault
<1> QED BY <1>2, ActsOrStays

(* Without a fault a process fills the Inbox it has created. *)
LEMMA CapturesEnd ==
  ASSUME FilesInv, FileNext, faults' = faults, NEW c \in Calls, pc[c] = "captureFill"
  PROVE  CaptureFill(c) \/ (pc'[c] = "captureFill" /\ InboxName(c)' = InboxName(c))
<1>1. /\ FilesTypeOK /\ TypesFit /\ RequestsFit /\ StepsFit /\ TriesFit /\ JobsFit
  BY DEF FilesInv
<1>2. ScriptStep(c) => CaptureFill(c)
  BY DEF ScriptStep, ReadSecond, CaptureCreate, BacklogScan, BacklogCreate, BacklogFill, TakeLock, ScanFolder,
         MakePackage, ReleaseLock, WriteTemporary, RenameSpec, RemovePackage, At
<1>3. ~ImportStep(c)
  BY <1>1, ImportMoves DEF Starts, Advances, StepsFit, Returned, Back, At
<1>4. ~Passing(c)
  BY DEF Passing, ContextSteps
<1> QED BY <1>2, <1>3, <1>4, NoFaults DEF Idles, InboxName

(* An Inbox that is not filled was so before, or is new. *)
LEMMA InboxesBegin ==
  ASSUME FilesInv, FileNext, NEW n \in DOMAIN inbox', ~inbox'[n].whole
  PROVE  \/ n \in DOMAIN inbox /\ inbox'[n] = inbox[n]
         \/ \E c \in Calls : /\ pc'[c] = "captureFill" /\ n = InboxName(c)' /\ inbox'[n].item[1] = c
<1>1. /\ FilesTypeOK /\ TypesFit /\ RequestsFit /\ StepsFit /\ JobsFit /\ pc = [o \in Calls |-> pc[o]]
  BY DEF FilesInv, TypesFit
<1> DEFINE Untouched == n \in DOMAIN inbox /\ inbox'[n] = inbox[n]
<1>2. ASSUME NEW c \in Calls, CaptureCreate(c), ~Untouched
      PROVE  pc'[c] = "captureFill" /\ n = InboxName(c)' /\ inbox'[n].item[1] = c
  <2> DEFINE made == [item |-> job[c].item, whole |-> FALSE, gaps |-> job[c].gaps, kept |-> job[c].kept]
  <2>1. ~UNCHANGED inbox
    BY <1>2
  <2>2. inbox' = With(inbox, InboxName(c), made) /\ UNCHANGED my /\ UNCHANGED job /\ pc' = [pc EXCEPT ![c] = "captureFill"]
    BY <1>2, <2>1 DEF CaptureCreate, Go
  <2>3. Working(c)
    BY <1>2 DEF CaptureCreate, At, Working, FileSteps, CaptureSteps
  <2>4. job[c].item = <<c, theme[c]>>
    BY <1>1, <2>3, JobsAreTyped
  <2>5. made.item = <<c, theme[c]>>
    BY <2>4
  <2>6. InboxName(c)' = InboxName(c)
    BY <2>2 DEF InboxName
  <2> HIDE DEF made
  <2>7. n = InboxName(c) /\ inbox'[n] = made
    BY <1>2, <2>2 DEF With
  <2> QED BY <1>1, <2>2, <2>5, <2>6, <2>7
<1>3. ASSUME NEW c \in Calls, CaptureFill(c)  PROVE Untouched
  <2>1. inbox' = [inbox EXCEPT ![InboxName(c)].whole = TRUE]
    BY <1>3 DEF CaptureFill
  <2>2. n \in DOMAIN inbox /\ inbox[n] \in [item : Items, whole : BOOLEAN, gaps : SUBSET Fields, kept : BOOLEAN]
    BY <1>1, <2>1 DEF FilesTypeOK
  <2>3. n # InboxName(c)
    BY <2>1, <2>2
  <2> QED BY <2>1, <2>2, <2>3
<1>4. UNCHANGED inbox => Untouched
  OBVIOUS
<1> HIDE DEF Untouched
<1>5. Untouched \/ \E c \in Calls : /\ pc'[c] = "captureFill" /\ n = InboxName(c)' /\ inbox'[n].item[1] = c
  BY <1>2, <1>3, <1>4, InboxChanges
<1> QED BY <1>5 DEF Untouched

(* Without a fault a process fills the backlog item it has emptied. *)
LEMMA RewritingsEnd ==
  ASSUME FilesInv, FileNext, faults' = faults, NEW c \in Calls, Rewriting(c)
  PROVE  \/ Rewriting(c)' /\ BacklogName(c)' = BacklogName(c)
         \/ BacklogFill(c) \/ WriteEvidence(c) \/ Promote(c)
<1>1. /\ FilesTypeOK /\ TypesFit /\ RequestsFit /\ StepsFit /\ TriesFit /\ JobsFit
  BY DEF FilesInv
<1>2. \/ pc[c] = "backlogFill"
      \/ Importing(c) /\ stage[c] \in {"evidence", "promotion"} /\ pc[c] = "done"
  BY <1>1 DEF Rewriting, StepsFit
<1>3. ScriptStep(c) => BacklogFill(c)
  BY <1>2 DEF ScriptStep, ReadSecond, CaptureCreate, CaptureFill, BacklogScan, BacklogCreate, TakeLock, ScanFolder,
         MakePackage, ReleaseLock, WriteTemporary, RenameSpec, RemovePackage, At
<1>4. ImportStep(c) => stage[c] \in {"evidence", "promotion"}
  <2>1. ImportStep(c) => Importing(c) /\ (Starts(c) \/ Advances(c))
    BY <1>1, ImportMoves
  <2>2. Starts(c) \/ (Advances(c) /\ Importing(c)) => pc[c] # "backlogFill"
    BY <1>1 DEF Starts, Advances, StepsFit, Returned, Back, At
  <2> QED BY <1>2, <2>1, <2>2
<1>5. ImportStep(c) => WriteEvidence(c) \/ Promote(c)
  BY <1>4 DEF ImportStep, ReadMvpSource, CreateMilestone, FillMilestone, InboxReturned, BacklogReturned,
         SpecReturned, WriteDraft, OpenBacklog, ChildFailed, Awaits, Returned
<1>6. ~Passing(c)
  BY <1>2 DEF Passing, ContextSteps, Contextual, Importing, Scripts
<1>7. Idles(c) => Rewriting(c)' /\ BacklogName(c)' = BacklogName(c)
  BY DEF Idles, Rewriting, BacklogName, Importing
<1> QED BY <1>3, <1>5, <1>6, <1>7, NoFaults

(* A backlog item that is empty was so before, or its author has just      *)
(* created or emptied it.                                                  *)
LEMMA RewritingsBegin ==
  ASSUME FilesInv, FileNext, NEW n \in DOMAIN backlog', backlog'[n].text = "empty"
  PROVE  \/ n \in DOMAIN backlog /\ backlog'[n] = backlog[n]
         \/ \E c \in Calls : /\ Rewriting(c)' /\ n = BacklogName(c)' /\ backlog'[n].item[1] = c
<1>1. /\ FilesTypeOK /\ TypesFit /\ RequestsFit /\ StepsFit /\ JobsFit /\ BacklogsFit
      /\ pc = [o \in Calls |-> pc[o]] /\ stage = [o \in Calls |-> stage[o]]
  BY DEF FilesInv, TypesFit
<1> DEFINE Untouched == n \in DOMAIN backlog /\ backlog'[n] = backlog[n]
           SoStarted(c) == Rewriting(c)' /\ n = BacklogName(c)' /\ backlog'[n].item[1] = c
           Content == [item : Items, text : {"empty", "captured", "evidenced", "promoted"},
                       gaps : SUBSET Fields, spec : 0 .. MaxNumber]
<1>2. \A m \in DOMAIN backlog : backlog[m] \in Content
  BY <1>1 DEF FilesTypeOK
<1>3. ASSUME NEW c \in Calls, BacklogCreate(c), ~Untouched  PROVE SoStarted(c)
  <2> DEFINE made == [item |-> job[c].item, text |-> "empty", gaps |-> job[c].gaps, spec |-> 0]
  <2>1. ~UNCHANGED backlog
    BY <1>3
  <2>2. backlog' = With(backlog, BacklogName(c), made) /\ UNCHANGED my /\ UNCHANGED job /\ pc' = [pc EXCEPT ![c] = "backlogFill"]
    BY <1>3, <2>1 DEF BacklogCreate, Go
  <2>3. Working(c)
    BY <1>3 DEF BacklogCreate, At, Working, FileSteps, BacklogSteps
  <2>4. job[c].item = <<c, theme[c]>>
    BY <1>1, <2>3, JobsAreTyped
  <2>5. made.item = <<c, theme[c]>>
    BY <2>4
  <2>6. BacklogName(c)' = BacklogName(c)
    BY <2>2 DEF BacklogName
  <2> HIDE DEF made
  <2>7. n = BacklogName(c) /\ backlog'[n] = made
    BY <1>3, <2>2 DEF With
  <2> QED BY <1>1, <2>2, <2>5, <2>6, <2>7 DEF Rewriting
<1>4. ASSUME NEW c \in Calls, BacklogReturned(c) \/ OpenBacklog(c), ~Untouched  PROVE SoStarted(c)
  <2>1. /\ backlog' = [backlog EXCEPT ![BacklogName(c)].text = "empty"]
        /\ \E s \in {"evidence", "promotion"} : stage' = [stage EXCEPT ![c] = s]
        /\ UNCHANGED <<my, job, request>> /\ stage[c] \in {"backlog", "promote"}
    BY <1>4 DEF BacklogReturned, OpenBacklog, Stage, Returned, Back
  <2>2. Importing(c)
    BY <1>1, <2>1 DEF StepsFit
  <2>3. Rewriting(c)' /\ BacklogName(c)' = BacklogName(c)
    BY <1>1, <2>1, <2>2 DEF Rewriting, Importing, BacklogName
  <2>4. n = BacklogName(c) /\ n \in DOMAIN backlog
    BY <1>4, <2>1
  <2>5. Filed(c)
    BY <1>4, <2>2 DEF Filed, BacklogReturned, OpenBacklog, Returned, Back, At
  <2>6. Working(c)
    BY <2>1, <2>2 DEF Working, AtTheme, ThemeStages
  <2>7. backlog[n].item = <<c, theme[c]>>
    <3>1. job[c].item = <<c, theme[c]>>
      BY <1>1, <2>6, JobsAreTyped
    <3> QED BY <1>1, <2>4, <2>5, <3>1 DEF BacklogsFit, Has
  <2>8. backlog'[n].item = backlog[n].item
    BY <1>2, <2>1, <2>4
  <2> QED BY <2>3, <2>4, <2>7, <2>8
<1>5. ASSUME NEW name, NEW s \in {"captured", "evidenced"}, backlog' = [backlog EXCEPT ![name].text = s]
      PROVE  Untouched
  <2>1. name \in DOMAIN backlog => backlog'[name].text = s
    BY <1>2, <1>5
  <2> QED BY <1>5, <2>1
<1>6. ASSUME NEW c \in Calls, BacklogFill(c) \/ WriteEvidence(c)  PROVE Untouched
  BY <1>5, <1>6 DEF BacklogFill, WriteEvidence
<1>7. ASSUME NEW c \in Calls, Promote(c)  PROVE Untouched
  <2> DEFINE p == BacklogName(c)
             half == [backlog EXCEPT ![p].text = "promoted"]
  <2>1. backlog' = [half EXCEPT ![p].spec = my[c].number]
    BY <1>7 DEF Promote
  <2>2. DOMAIN half = DOMAIN backlog /\ \A m \in DOMAIN backlog : m # p => half[m] = backlog[m]
    OBVIOUS
  <2>3. p \in DOMAIN backlog => half[p].text = "promoted" /\ half[p] \in
          [item : Items, text : {"empty", "captured", "evidenced", "promoted"}, gaps : SUBSET Fields, spec : 0 .. MaxNumber]
    BY <1>2
  <2> HIDE DEF half, p
  <2>4. p \in DOMAIN backlog => backlog'[p].text = "promoted"
    BY <2>1, <2>2, <2>3
  <2> QED BY <2>1, <2>2, <2>4
<1>8. UNCHANGED backlog => Untouched
  OBVIOUS
<1> HIDE DEF Untouched, SoStarted
<1>9. Untouched \/ \E c \in Calls : SoStarted(c)
  BY <1>3, <1>4, <1>6, <1>7, <1>8, BacklogChanges
<1> QED BY <1>9 DEF Untouched, SoStarted

(* Without a fault an import fills the spec it has emptied. *)
LEMMA DraftingsEnd ==
  ASSUME FilesInv, FileNext, faults' = faults, NEW c \in Calls, Importing(c), stage[c] = "draft"
  PROVE  \/ WriteDraft(c)
         \/ Importing(c)' /\ stage'[c] = "draft" /\ PackageName(c)' = PackageName(c)
<1>1. /\ FilesTypeOK /\ TypesFit /\ RequestsFit /\ StepsFit /\ TriesFit /\ JobsFit
  BY DEF FilesInv
<1>2. pc[c] = "done"
  BY <1>1 DEF StepsFit
<1>3. ~ScriptStep(c)
  BY <1>2 DEF ScriptStep, ReadSecond, CaptureCreate, CaptureFill, BacklogScan, BacklogCreate, BacklogFill, TakeLock,
     ScanFolder, MakePackage, ReleaseLock, WriteTemporary, RenameSpec, RemovePackage, At
<1>4. ImportStep(c) => WriteDraft(c)
  BY DEF ImportStep, ReadMvpSource, CreateMilestone, FillMilestone, InboxReturned, BacklogReturned, WriteEvidence,
         SpecReturned, OpenBacklog, Promote, ChildFailed, Awaits, Returned
<1>5. ~Passing(c)
  BY <1>2 DEF Passing, ContextSteps
<1> QED BY <1>3, <1>4, <1>5, NoFaults DEF Idles, PackageName, Importing

(* A spec that is empty was so before, or an import has just emptied it. *)
LEMMA EmptySpecsBegin ==
  ASSUME FilesInv, FileNext, NEW n \in DOMAIN specs', specs'[n].text = "empty"
  PROVE  \/ n \in DOMAIN specs /\ specs'[n] = specs[n]
         \/ \E c \in Calls : SpecReturned(c) /\ n = PackageName(c)
<1>1. \A m \in DOMAIN specs : specs[m] \in
        [item : Authors, gaps : SUBSET Fields, text : {"none", "temporary", "template", "empty", "drafted"}]
  BY DEF FilesInv, FilesTypeOK
<1> DEFINE Untouched == n \in DOMAIN specs /\ specs'[n] = specs[n]
<1>2. ASSUME NEW c \in Calls, MakePackage(c)  PROVE Untouched
  <2> DEFINE name == <<"draft", my[c].top + 1, job[c].slug>>
             made == [item |-> job[c].item, text |-> "none", gaps |-> {}]
  <2>1. UNCHANGED specs \/ specs' = With(specs, name, made)
    BY <1>2 DEF MakePackage
  <2>2. made.text = "none"
    OBVIOUS
  <2> HIDE DEF name, made
  <2> QED BY <2>1, <2>2 DEF With
<1>3. ASSUME NEW name, NEW s \in {"temporary", "template"}, specs' = [specs EXCEPT ![name].text = s]  PROVE Untouched
  <2>1. name \in DOMAIN specs => specs'[name].text = s
    BY <1>1, <1>3
  <2> QED BY <1>3, <2>1
<1>4. ASSUME NEW c \in Calls, WriteTemporary(c) \/ RenameSpec(c)  PROVE Untouched
  BY <1>3, <1>4 DEF WriteTemporary, RenameSpec
<1>5. ASSUME NEW c \in Calls, SpecReturned(c), n # PackageName(c)  PROVE Untouched
  BY <1>5 DEF SpecReturned
<1>6. ASSUME NEW c \in Calls, RemovePackage(c)  PROVE Untouched
  BY <1>6 DEF RemovePackage, WithoutPackage, Without, Restrict
<1>7. ASSUME NEW c \in Calls, WriteDraft(c)  PROVE Untouched
  <2> DEFINE p == PackageName(c)
             half == [specs EXCEPT ![p].text = "drafted"]
             g == Gaps(ThemesOf(c)[theme[c]])
  <2>1. specs' = [half EXCEPT ![p].gaps = g]
    BY <1>7 DEF WriteDraft
  <2>2. DOMAIN half = DOMAIN specs /\ \A m \in DOMAIN specs : m # p => half[m] = specs[m]
    OBVIOUS
  <2>3. p \in DOMAIN specs => half[p].text = "drafted" /\ half[p] \in [item : Authors, gaps : SUBSET Fields,
                       text : {"none", "temporary", "template", "empty", "drafted"}]
    BY <1>1
  <2> HIDE DEF half, g, p
  <2>4. p \in DOMAIN specs => specs'[p].text = "drafted"
    BY <2>1, <2>2, <2>3
  <2> QED BY <2>1, <2>2, <2>4
<1>8. ASSUME NEW name \in DOMAIN specs, Transition(name)  PROVE Untouched
  <2>1. PICK moved : /\ moved[2] = name[2] /\ DOMAIN specs' = (DOMAIN specs \ {name}) \cup {moved}
                     /\ \A m \in DOMAIN specs' : specs'[m] = IF m = moved THEN specs[name] ELSE specs[m]
    BY <1>8, MovedSimply, Zenon
  <2>2. specs[name].text # "empty"
    BY <1>8 DEF Transition
  <2>3. n # moved
    BY <2>1, <2>2
  <2> QED BY <2>1, <2>3
<1>9. UNCHANGED specs => Untouched
  OBVIOUS
<1> HIDE DEF Untouched
<1>10. Untouched \/ \E c \in Calls : SpecReturned(c) /\ n = PackageName(c)
  BY <1>2, <1>4, <1>5, <1>6, <1>7, <1>8, <1>9, SpecsChange
<1> QED BY <1>10 DEF Untouched

(* Two steps change the milestone. *)
LEMMA MilestoneChanges ==
  ASSUME FilesInv, FileNext
  PROVE  \/ UNCHANGED milestone
         \/ \E c \in Calls : (CreateMilestone(c) \/ FillMilestone(c)) /\ Importing(c)
<1>1. ASSUME NEW c \in Calls, ImportStep(c), ~CreateMilestone(c), ~FillMilestone(c)  PROVE UNCHANGED milestone
  BY <1>1 DEF ImportStep, ReadMvpSource, InboxReturned, BacklogReturned, WriteEvidence, SpecReturned, WriteDraft,
              OpenBacklog, Promote, ChildFailed
<1>2. ASSUME NEW c \in Calls, CreateMilestone(c) \/ FillMilestone(c)  PROVE Importing(c)
  BY <1>2 DEF CreateMilestone, FillMilestone, FilesInv, StepsFit
<1>3. UNCHANGED Rest => UNCHANGED milestone
  BY DEF Rest
<1>4. ASSUME NEW c \in Calls, Passing(c) \/ Killed(c) \/ Orphaned(c) \/ ImportWriteFails(c)  PROVE UNCHANGED milestone
  BY <1>4 DEF Passing, Killed, Orphaned, ImportWriteFails
<1>5. UNCHANGED vars => UNCHANGED milestone
  BY DEF vars
<1> QED BY <1>1, <1>2, <1>3, <1>4, <1>5 DEF FileNext

(* As long as nothing fails, whoever has emptied a file is about to fill   *)
(* it.                                                                     *)
LEMMA EmptyStay ==
  ASSUME FilesInv, FileNext  PROVE EmptyFit'
<1>1. /\ FilesTypeOK /\ TypesFit /\ RequestsFit /\ StepsFit /\ JobsFit /\ BacklogsFit /\ PackagesFit /\ EmptyFit
      /\ faults \in Nat /\ faults' \in Nat /\ faults <= faults' /\ stage = [o \in Calls |-> stage[o]]
  BY BoundsAssumption, RestChanges DEF FilesInv, FilesTypeOK, TypesFit
<1> DEFINE Captured(n) == \E c \in Calls : inbox[n].item[1] = c /\ pc[c] = "captureFill" /\ n = InboxName(c)
           Rewritten(n) == \E c \in Calls : backlog[n].item[1] = c /\ Rewriting(c) /\ n = BacklogName(c)
           Drafted(n) == \E c \in Calls : specs[n].item[1] = c /\ Importing(c) /\ stage[c] = "draft" /\ n = PackageName(c)
<1> SUFFICES ASSUME faults' = 0
             PROVE  /\ orphans' = {}
                    /\ \A n \in DOMAIN inbox' : ~inbox'[n].whole =>
                         \E c \in Calls : inbox'[n].item[1] = c /\ pc'[c] = "captureFill" /\ n = InboxName(c)'
                    /\ \A n \in DOMAIN backlog' : backlog'[n].text = "empty" =>
                         \E c \in Calls : backlog'[n].item[1] = c /\ Rewriting(c)' /\ n = BacklogName(c)'
                    /\ \A n \in DOMAIN specs' : specs'[n].text = "empty" =>
                         \E c \in Calls : specs'[n].item[1] = c /\ Importing(c)' /\ stage'[c] = "draft" /\ n = PackageName(c)'
                    /\ milestone'.by # Nobody /\ ~milestone'.whole =>
                         Importing(milestone.by)' /\ stage'[milestone'.by] = "milestoneFill"
  BY DEF EmptyFit
<1>2. faults = 0 /\ faults' = faults
  BY <1>1
<1>8. orphans' = {}
  BY <1>1, <1>2, OrphansGrow DEF EmptyFit
<1>3. /\ \A n \in DOMAIN inbox : ~inbox[n].whole => Captured(n)
      /\ \A n \in DOMAIN backlog : backlog[n].text = "empty" => Rewritten(n)
      /\ \A n \in DOMAIN specs : specs[n].text = "empty" => Drafted(n)
      /\ milestone.by # Nobody /\ ~milestone.whole => Importing(milestone.by) /\ stage[milestone.by] = "milestoneFill"
  BY <1>1, <1>2 DEF EmptyFit
<1>4. ASSUME NEW n \in DOMAIN inbox', ~inbox'[n].whole
      PROVE  \E c \in Calls : inbox'[n].item[1] = c /\ pc'[c] = "captureFill" /\ n = InboxName(c)'
  <2>1. CASE n \in DOMAIN inbox /\ inbox'[n] = inbox[n]
    <3>1. PICK c \in Calls : inbox[n].item[1] = c /\ pc[c] = "captureFill" /\ n = InboxName(c)
      BY <1>3, <1>4, <2>1
    <3>2. ~CaptureFill(c)
      <4>1. inbox[n] \in [item : Items, whole : BOOLEAN, gaps : SUBSET Fields, kept : BOOLEAN]
        BY <1>1, <2>1 DEF FilesTypeOK
      <4>2. CaptureFill(c) => inbox' = [inbox EXCEPT ![n].whole = TRUE]
        BY <3>1 DEF CaptureFill
      <4> QED BY <1>4, <2>1, <4>1, <4>2
    <3>3. pc'[c] = "captureFill" /\ InboxName(c)' = InboxName(c)
      BY <1>2, <3>1, <3>2, CapturesEnd
    <3> QED BY <2>1, <3>1, <3>3
  <2> QED BY <1>4, <2>1, InboxesBegin
<1>5. ASSUME NEW n \in DOMAIN backlog', backlog'[n].text = "empty"
      PROVE  \E c \in Calls : backlog'[n].item[1] = c /\ Rewriting(c)' /\ n = BacklogName(c)'
  <2>1. CASE n \in DOMAIN backlog /\ backlog'[n] = backlog[n]
    <3>1. PICK c \in Calls : backlog[n].item[1] = c /\ Rewriting(c) /\ n = BacklogName(c)
      BY <1>3, <1>5, <2>1
    <3>2. backlog[n] \in [item : Items, text : {"empty", "captured", "evidenced", "promoted"},
                          gaps : SUBSET Fields, spec : 0 .. MaxNumber]
      BY <1>1, <2>1 DEF FilesTypeOK
    <3>3. ~BacklogFill(c) /\ ~WriteEvidence(c)
      <4>1. BacklogFill(c) => backlog' = [backlog EXCEPT ![n].text = "captured"]
        BY <3>1 DEF BacklogFill
      <4>2. WriteEvidence(c) => backlog' = [backlog EXCEPT ![n].text = "evidenced"]
        BY <3>1 DEF WriteEvidence
      <4> QED BY <1>5, <2>1, <3>2, <4>1, <4>2
    <3>4. ~Promote(c)
      <4> DEFINE half == [backlog EXCEPT ![n].text = "promoted"]
      <4>1. Promote(c) => backlog' = [half EXCEPT ![n].spec = my[c].number]
        BY <3>1 DEF Promote
      <4>2. n \in DOMAIN half /\ half[n].text = "promoted" /\ half[n] \in
              [item : Items, text : {"empty", "captured", "evidenced", "promoted"}, gaps : SUBSET Fields, spec : 0 .. MaxNumber]
        BY <2>1, <3>2
      <4> HIDE DEF half
      <4> QED BY <1>5, <4>1, <4>2
    <3>5. Rewriting(c)' /\ BacklogName(c)' = BacklogName(c)
      BY <1>2, <3>1, <3>3, <3>4, RewritingsEnd
    <3> QED BY <2>1, <3>1, <3>5
  <2> QED BY <1>5, <2>1, RewritingsBegin
<1>6. ASSUME NEW n \in DOMAIN specs', specs'[n].text = "empty"
      PROVE  \E c \in Calls : specs'[n].item[1] = c /\ Importing(c)' /\ stage'[c] = "draft" /\ n = PackageName(c)'
  <2>1. CASE n \in DOMAIN specs /\ specs'[n] = specs[n] /\ specs[n].text = "empty"
    <3>1. PICK c \in Calls : specs[n].item[1] = c /\ Importing(c) /\ stage[c] = "draft" /\ n = PackageName(c)
      BY <1>3, <2>1
    <3>2. ~WriteDraft(c)
      <4> DEFINE half == [specs EXCEPT ![n].text = "drafted"]
                 g == Gaps(ThemesOf(c)[theme[c]])
      <4>1. WriteDraft(c) => specs' = [half EXCEPT ![n].gaps = g]
        BY <3>1 DEF WriteDraft
      <4>2. specs[n] \in [item : Authors, gaps : SUBSET Fields, text : {"none", "temporary", "template", "empty", "drafted"}]
        BY <1>1, <2>1 DEF FilesTypeOK
      <4>3. n \in DOMAIN half /\ half[n].text = "drafted"
            /\ half[n] \in [item : Authors, gaps : SUBSET Fields, text : {"none", "temporary", "template", "empty", "drafted"}]
        BY <2>1, <4>2
      <4> HIDE DEF half, g
      <4> QED BY <1>6, <4>1, <4>3
    <3>3. Importing(c)' /\ stage'[c] = "draft" /\ PackageName(c)' = PackageName(c)
      BY <1>2, <3>1, <3>2, DraftingsEnd
    <3> QED BY <2>1, <3>1, <3>3
  <2>2. ASSUME NEW c \in Calls, SpecReturned(c), n = PackageName(c)
        PROVE  specs'[n].item[1] = c /\ Importing(c)' /\ stage'[c] = "draft" /\ n = PackageName(c)'
    <3>1. /\ specs' = [specs EXCEPT ![n].text = "empty"] /\ stage' = [stage EXCEPT ![c] = "draft"]
          /\ stage[c] = "specify" /\ Returned(c, "specify") /\ UNCHANGED <<my, job, request>>
      BY <2>2 DEF SpecReturned, Stage, Returned, Back
    <3>2. Importing(c) /\ Drafting(c)
      BY <1>1, <3>1 DEF StepsFit, Drafting, Returned, Back, At
    <3>3. n \in DOMAIN specs /\ specs[n].item = job[c].item /\ job[c].item[1] = c
      BY <2>2, <3>2, PackagesHaveAuthors
    <3>4. specs'[n].item = specs[n].item
      <4>1. specs[n] \in [item : Authors, gaps : SUBSET Fields, text : {"none", "temporary", "template", "empty", "drafted"}]
        BY <1>1, <3>3 DEF FilesTypeOK
      <4> QED BY <3>1, <3>3, <4>1
    <3>5. Importing(c)' /\ stage'[c] = "draft" /\ n = PackageName(c)'
      BY <1>1, <2>2, <3>1, <3>2 DEF Importing, PackageName
    <3> QED BY <3>3, <3>4, <3>5
  <2>3. \/ n \in DOMAIN specs /\ specs'[n] = specs[n]
        \/ \E c \in Calls : SpecReturned(c) /\ n = PackageName(c)
    BY <1>6, EmptySpecsBegin
  <2> QED BY <1>6, <2>1, <2>2, <2>3
<1>7. ASSUME milestone'.by # Nobody, ~milestone'.whole
      PROVE  Importing(milestone.by)' /\ stage'[milestone'.by] = "milestoneFill"
  <2>1. milestone \in [by : Calls \cup {Nobody}, whole : BOOLEAN]
    BY <1>1 DEF FilesTypeOK
  <2>2. ASSUME NEW c \in Calls, CreateMilestone(c), Importing(c), ~UNCHANGED milestone
        PROVE  Importing(milestone.by)' /\ stage'[milestone'.by] = "milestoneFill"
    <3>1. milestone'.by = c /\ stage' = [stage EXCEPT ![c] = "milestoneFill"] /\ UNCHANGED request
      BY <2>2 DEF CreateMilestone, Stage
    <3> QED BY <1>1, <2>2, <3>1 DEF Importing
  <2>3. ASSUME NEW c \in Calls, FillMilestone(c)  PROVE FALSE
    BY <1>7, <2>1, <2>3 DEF FillMilestone
  <2>4. CASE UNCHANGED milestone
    <3> DEFINE by == milestone.by
    <3>1. by \in Calls /\ Importing(by) /\ stage[by] = "milestoneFill" /\ pc[by] = "idle"
      <4>1. by \in Calls /\ Importing(by) /\ stage[by] = "milestoneFill"
        BY <1>3, <1>7, <2>1, <2>4
      <4> QED BY <1>1, <4>1 DEF StepsFit
    <3>2. Idles(by)
      <4>1. ~ScriptStep(by)
        BY <3>1 DEF ScriptStep, ReadSecond, CaptureCreate, CaptureFill, BacklogScan, BacklogCreate, BacklogFill, TakeLock,
           ScanFolder, MakePackage, ReleaseLock, WriteTemporary, RenameSpec, RemovePackage, At
      <4>2. ImportStep(by) => FillMilestone(by)
        BY <3>1 DEF ImportStep, ReadMvpSource, CreateMilestone, InboxReturned, BacklogReturned, WriteEvidence,
           SpecReturned, WriteDraft, OpenBacklog, Promote, ChildFailed, Awaits, Returned
      <4>3. ~Passing(by)
        BY <3>1 DEF Passing, ContextSteps
      <4>4. ~FillMilestone(by)
        BY <2>3, <3>1
      <4> HIDE DEF by
      <4> QED BY <1>2, <3>1, <4>1, <4>2, <4>3, <4>4, NoFaults
    <3>3. Importing(by)' /\ stage'[by] = "milestoneFill"
      BY <2>4, <3>1, <3>2 DEF Idles, Importing
    <3>4. milestone'.by = by
      BY <2>4
    <3> QED BY <3>3, <3>4
  <2> QED BY <2>2, <2>3, <2>4, MilestoneChanges
<1> QED BY <1>4, <1>5, <1>6, <1>7, <1>8

-----------------------------------------------------------------------------
(* The theorems. *)

(* Whatever the scripts and imports do, in any order and with any faults: the  *)
(* files have their types, every process is at a step of its script, the lock  *)
(* has one holder, and every file is as far as its author is with it.          *)
THEOREM FilesHold == Spec => []FilesInv
<1>1. FilesInv /\ [Next]_allVars => FilesInv'
  <2> SUFFICES ASSUME FilesInv, [Next]_allVars PROVE FilesInv'
    OBVIOUS
  <2>1. FileNext
    BY StepsAreFileSteps
  <2>2. ProcessesInv'
    BY <2>1, ProcessesStay
  <2>3. FilesTypeOK' /\ NumbersFit'
    BY <2>1, FileTypesStay
  <2>4. LockFits' /\ ScansFit' /\ SpecNumbersAreUnique'
    BY <2>1, LockStays, ScansStay, NumbersStayUnique
  <2>5. PackagesFit' /\ BacklogsFit' /\ InboxesFit' /\ UnspecifiedFit' /\ EmptyFit'
    BY <2>1, PackagesStay, BacklogsStay, InboxesStay, UnspecifiedStay, EmptyStay
  <2> QED BY <2>2, <2>3, <2>4, <2>5 DEF FilesInv, ProcessesInv
<1> QED BY <1>1, FilesInitially, PTL DEF Spec

(* Packages that scripts and imports number at the same time, while people     *)
(* move packages from folder to folder, have different numbers                 *)
(* (allocateSpec of iniciar_spec.mjs).                                         *)
THEOREM NumbersAreUnique == Spec => []SpecNumbersAreUnique
<1>1. FilesInv => SpecNumbersAreUnique
  BY DEF FilesInv
<1> QED BY <1>1, FilesHold, PTL

(* The lock and a package without spec.md outlive only runs that were killed,  *)
(* an empty file only one that met a fault: the flag wx, the temporary file    *)
(* and the catch and finally of iniciar_spec.mjs see to it.                    *)
THEOREM DebrisComesOfFaults == Spec => []OnlyFaultsLeaveDebris
<1>1. FilesInv => OnlyFaultsLeaveDebris
  <2> SUFFICES ASSUME FilesInv PROVE OnlyFaultsLeaveDebris
    OBVIOUS
  <2>1. StepsFit /\ LockFits /\ UnspecifiedFit /\ EmptyFit
    BY DEF FilesInv
  <2>2. ASSUME NEW n \in DOMAIN specs, specs[n].text \in {"none", "temporary"}
        PROVE  pc[specs[n].item[1]] \in {"unlock", "temporary", "rename", "undo", "killed"}
    BY <2>1, <2>2 DEF UnspecifiedFit, Making
  <2>3. ASSUME NEW c \in Calls, faults = 0,
               pc[c] = "captureFill" \/ Rewriting(c) \/ (Importing(c) /\ stage[c] \in {"draft", "milestoneFill"})
        PROVE  Running(c)
    <3> orphans = {}
      BY <2>1, <2>3 DEF EmptyFit
    <3>1. CASE pc[c] \in {"captureFill", "backlogFill"}
      BY <2>1, <3>1 DEF StepsFit, ScriptOf, CaptureSteps, BacklogSteps, Running, Ended
    <3>2. CASE Importing(c) /\ stage[c] \in {"draft", "milestoneFill", "evidence", "promotion"}
      BY <3>2 DEF Running, Ended
    <3> QED BY <2>3, <3>1, <3>2 DEF Rewriting
  <2>4. milestone \in [by : Calls \cup {Nobody}, whole : BOOLEAN]
    BY DEF FilesInv, FilesTypeOK
  <2>5. ASSUME faults = 0
        PROVE  /\ \A n \in DOMAIN inbox : inbox[n].whole \/ Running(inbox[n].item[1])
               /\ \A n \in DOMAIN backlog : backlog[n].text # "empty" \/ Running(backlog[n].item[1])
               /\ \A n \in DOMAIN specs : specs[n].text # "empty" \/ Running(specs[n].item[1])
               /\ milestone.by # Nobody => milestone.whole \/ Running(milestone.by)
    <3>1. \A n \in DOMAIN inbox : inbox[n].whole \/ Running(inbox[n].item[1])
      BY <2>1, <2>3, <2>5 DEF EmptyFit
    <3>2. \A n \in DOMAIN backlog : backlog[n].text # "empty" \/ Running(backlog[n].item[1])
      BY <2>1, <2>3, <2>5 DEF EmptyFit
    <3>3. \A n \in DOMAIN specs : specs[n].text # "empty" \/ Running(specs[n].item[1])
      BY <2>1, <2>3, <2>5 DEF EmptyFit
    <3>4. milestone.by # Nobody => milestone.whole \/ Running(milestone.by)
      BY <2>1, <2>3, <2>4, <2>5 DEF EmptyFit
    <3> QED BY <3>1, <3>2, <3>3, <3>4
  <2> QED BY <2>1, <2>2, <2>5 DEF OnlyFaultsLeaveDebris, LockFits
<1> QED BY <1>1, FilesHold, PTL

(* A package keeps its number and its author through every step, until the     *)
(* author removes it because its spec.md could not be written.                 *)
LEMMA PackagesAreKept ==
  ASSUME FilesInv, FileNext, NEW n \in DOMAIN specs
  PROVE  \/ \E m \in DOMAIN specs' : m[2] = n[2] /\ specs'[m].item = specs[n].item
         \/ specs[n].text \in {"none", "temporary"} /\ At(specs[n].item[1], "undo")
<1>1. specs[n] \in [item : Authors, gaps : SUBSET Fields, text : {"none", "temporary", "template", "empty", "drafted"}]
  BY DEF FilesInv, FilesTypeOK
<1> DEFINE Untouched == \E m \in DOMAIN specs' : m[2] = n[2] /\ specs'[m].item = specs[n].item
           Undone == specs[n].text \in {"none", "temporary"} /\ At(specs[n].item[1], "undo")
<1>2. CASE n \in DOMAIN specs' /\ specs'[n].item = specs[n].item
  BY <1>2
<1>3. ASSUME NEW c \in Calls, MakePackage(c)  PROVE Untouched
  <2> DEFINE name == <<"draft", my[c].top + 1, job[c].slug>>
             made == [item |-> job[c].item, text |-> "none", gaps |-> {}]
  <2>1. UNCHANGED specs \/ (name \notin DOMAIN specs /\ specs' = With(specs, name, made))
    BY <1>3 DEF MakePackage
  <2> HIDE DEF name, made
  <2>2. n \in DOMAIN specs' /\ specs'[n] = specs[n]
    BY <2>1 DEF With
  <2> QED BY <1>2, <2>2
<1>4. ASSUME NEW name, NEW s, specs' = [specs EXCEPT ![name].text = s]  PROVE Untouched
  BY <1>1, <1>2, <1>4
<1>5. ASSUME NEW c \in Calls, WriteTemporary(c) \/ RenameSpec(c) \/ SpecReturned(c)  PROVE Untouched
  BY <1>4, <1>5 DEF WriteTemporary, RenameSpec, SpecReturned
<1>6. ASSUME NEW c \in Calls, WriteDraft(c)  PROVE Untouched
  <2> DEFINE p == PackageName(c)
             half == [specs EXCEPT ![p].text = "drafted"]
             g == Gaps(ThemesOf(c)[theme[c]])
  <2>1. specs' = [half EXCEPT ![p].gaps = g]
    BY <1>6 DEF WriteDraft
  <2>2. DOMAIN half = DOMAIN specs /\ half[n].item = specs[n].item
        /\ half[n] \in [item : Authors, gaps : SUBSET Fields, text : {"none", "temporary", "template", "empty", "drafted"}]
    BY <1>1
  <2> HIDE DEF half, g, p
  <2>3. n \in DOMAIN specs' /\ specs'[n].item = specs[n].item
    BY <2>1, <2>2
  <2> QED BY <1>2, <2>3
<1>7. ASSUME NEW c \in Calls, RemovePackage(c)  PROVE Untouched \/ Undone
  <2>1. CASE n = PackageName(c)
    <3>1. Making(c) /\ pc[c] = "undo"
      BY <1>7 DEF RemovePackage, Making, At
    <3>2. specs[n].item[1] = c
      BY <2>1, <3>1, PackagesHaveAuthors
    <3>3. specs[n].text \in {"none", "temporary"}
      BY <2>1, <3>1 DEF FilesInv, PackagesFit
    <3> QED BY <3>1, <3>2, <3>3 DEF At
  <2>2. CASE n # PackageName(c)
    <3>1. n \in DOMAIN specs' /\ specs'[n] = specs[n]
      BY <1>7, <2>2 DEF RemovePackage, WithoutPackage, Without, Restrict
    <3> QED BY <1>2, <3>1
  <2> QED BY <2>1, <2>2
<1>8. ASSUME NEW name \in DOMAIN specs, Transition(name)  PROVE Untouched
  <2>1. PICK moved : /\ moved[2] = name[2] /\ DOMAIN specs' = (DOMAIN specs \ {name}) \cup {moved}
                     /\ \A m \in DOMAIN specs' : specs'[m] = IF m = moved THEN specs[name] ELSE specs[m]
    BY <1>8, MovedSimply, Zenon
  <2>2. CASE n = name
    <3>1. moved \in DOMAIN specs' /\ moved[2] = n[2] /\ specs'[moved].item = specs[n].item
      BY <2>1, <2>2
    <3> QED BY <3>1
  <2>3. CASE n # name
    <3>1. n # moved
      BY <2>1, <2>3 DEF FilesInv, SpecNumbersAreUnique
    <3> QED BY <1>2, <2>1, <2>3, <3>1
  <2> QED BY <2>2, <2>3
<1>9. UNCHANGED specs => Untouched
  BY <1>2
<1> HIDE DEF Untouched, Undone
<1>10. Untouched \/ Undone
  BY <1>3, <1>5, <1>6, <1>7, <1>8, <1>9, SpecsChange
<1> QED BY <1>10 DEF Untouched, Undone

(* No run replaces or removes what another one has made: not an Inbox, a       *)
(* backlog item or the milestone, which are created with the flag wx, nor a    *)
(* package, which keeps its number wherever it is moved.                       *)
THEOREM FilesStayWithTheirAuthors == Spec => FilesStayTheirAuthors
<1> DEFINE Stay ==
      /\ \A n \in DOMAIN inbox : n \in DOMAIN inbox' /\ inbox'[n].item = inbox[n].item
      /\ \A n \in DOMAIN backlog : n \in DOMAIN backlog' /\ backlog'[n].item = backlog[n].item
      /\ milestone.by # Nobody => milestone'.by = milestone.by
      /\ \A n \in DOMAIN specs :
           \/ \E m \in DOMAIN specs' : m[2] = n[2] /\ specs'[m].item = specs[n].item
           \/ specs[n].text \in {"none", "temporary"} /\ At(specs[n].item[1], "undo")
<1>1. FilesInv /\ [Next]_allVars => Stay
  <2> SUFFICES ASSUME FilesInv, [Next]_allVars PROVE Stay
    OBVIOUS
  <2>1. FileNext
    BY StepsAreFileSteps
  <2>2. milestone.by # Nobody => milestone'.by = milestone.by
    <3>1. milestone \in [by : Calls \cup {Nobody}, whole : BOOLEAN]
      BY DEF FilesInv, FilesTypeOK
    <3>2. ASSUME NEW c \in Calls, CreateMilestone(c)  PROVE milestone.by # Nobody => UNCHANGED milestone
      BY <3>2 DEF CreateMilestone
    <3>3. ASSUME NEW c \in Calls, FillMilestone(c)  PROVE milestone'.by = milestone.by
      BY <3>1, <3>3 DEF FillMilestone
    <3> QED BY <2>1, <3>2, <3>3, MilestoneChanges
  <2> QED BY <2>1, <2>2, InboxesAreKept, BacklogItemsAreKept, PackagesAreKept
<1>2. [Next]_allVars /\ FilesInv => [Stay]_vars
  BY <1>1
<1> HIDE DEF Stay
<1>3. Spec => [][Stay]_vars
  BY <1>2, FilesHold, PTL DEF Spec
<1> QED BY <1>3 DEF FilesStayTheirAuthors, Stay
-----------------------------------------------------------------------------
(* The trail of an import. *)

DevelopableAt(c, i) == Developable(ThemesOf(c)[i])
Captured(c, i) == \E n \in InboxOf(c, i) : inbox[n].whole /\ inbox[n].kept = ~DevelopableAt(c, i)

(* Who is at a theme, or through them all, has made the milestone; before that *)
(* there is no theme.                                                          *)
MilestoneFits ==
  \A c \in Calls : Importing(c) =>
    /\ stage[c] \in ThemeStages \cup {"milestoneFill", "done"} => milestone.by = c
    /\ stage[c] \in {"source", "milestone", "milestoneFill"} => theme[c] = 0

(* No theme has two files of a kind, none of a later kind without one of the   *)
(* earlier, and a theme that is yet to come has none.                          *)
TrailFits ==
  \A c \in Calls, i \in Nat : Importing(c) =>
    /\ \A m, n \in InboxOf(c, i) : m = n
    /\ \A m, n \in BacklogOf(c, i) : m = n
    /\ \A m, n \in SpecOf(c, i) : m = n
    /\ SpecOf(c, i) # {} => BacklogOf(c, i) # {}
    /\ BacklogOf(c, i) # {} => \E n \in InboxOf(c, i) : ~inbox[n].kept
    /\ i = 0 \/ i > theme[c] \/ milestone.by # c => InboxOf(c, i) = {}

(* The Inbox of the theme an import is at. *)
InboxHere(c, i) ==
  /\ stage[c] = "capture" /\ pc[c] \in {"second", "captureCreate"} => InboxOf(c, i) = {}
  /\ pc[c] = "captureFill" => inbox[InboxName(c)].kept = ~DevelopableAt(c, i)
  /\ Back(c, "capture") \/ stage[c] # "capture" => Captured(c, i)
  /\ stage[c] # "capture" => DevelopableAt(c, i)

(* Its backlog item, once there is one, with the gaps of the theme. *)
BacklogHere(c, i) ==
  /\ stage[c] = "capture" \/ pc[c] \in {"backlogScan", "backlogCreate"} => BacklogOf(c, i) = {}
  /\ Filed(c) => backlog[BacklogName(c)].gaps = Gaps(ThemesOf(c)[i]) \cap InboxFields

(* Its draft, which the backlog item is about to name. *)
SpecHere(c, i) ==
  /\ stage[c] \in {"capture", "backlog", "evidence"} \/ pc[c] \in {"lock", "scan", "make"} => SpecOf(c, i) = {}
  /\ stage[c] \in {"promote", "promotion"} =>
       \E n \in SpecOf(c, i) : /\ n[2] = my[c].number
                               /\ specs[n].text = "drafted" /\ specs[n].gaps = Gaps(ThemesOf(c)[i])

PresentFits ==
  \A c \in Calls, i \in Nat : AtTheme(c) /\ i = theme[c] => InboxHere(c, i) /\ BacklogHere(c, i) /\ SpecHere(c, i)

PastFits ==
  \A c \in Calls : Importing(c) =>
    /\ \A i \in 1 .. theme[c] - 1 : Imported(c, i)
    /\ stage[c] = "done" => \A i \in 1 .. Len(ThemesOf(c)) : Imported(c, i)

TrailInv == FilesInv /\ MilestoneFits /\ TrailFits /\ PresentFits /\ PastFits

(* What a step does to the Inboxes of a theme, *)
SameInboxes(c, i) ==
  InboxOf(c, i)' = InboxOf(c, i) /\ \A n \in InboxOf(c, i) : inbox'[n] = inbox[n]
NewInbox(c, i) ==
  /\ CaptureCreate(c) /\ UNCHANGED Rest /\ UNCHANGED <<my, job>> /\ pc'[c] = "captureFill"
  /\ InboxName(c) \notin DOMAIN inbox
  /\ InboxOf(c, i)' = InboxOf(c, i) \cup {InboxName(c)}
  /\ inbox'[InboxName(c)].kept = job[c].kept
  /\ \A n \in InboxOf(c, i) : inbox'[n] = inbox[n]
WholeInbox(c, i) ==
  /\ CaptureFill(c) /\ UNCHANGED Rest /\ UNCHANGED <<my, job>> /\ pc'[c] = "done"
  /\ InboxOf(c, i)' = InboxOf(c, i)
  /\ InboxName(c) \in InboxOf(c, i)
  /\ inbox'[InboxName(c)].whole /\ inbox'[InboxName(c)].kept = inbox[InboxName(c)].kept
  /\ \A n \in InboxOf(c, i) : n # InboxName(c) => inbox'[n] = inbox[n]

(* to its backlog items, *)
SameBacklogs(c, i) ==
  BacklogOf(c, i)' = BacklogOf(c, i) /\ \A n \in BacklogOf(c, i) : backlog'[n] = backlog[n]
NewBacklog(c, i) ==
  /\ BacklogCreate(c) /\ UNCHANGED Rest /\ UNCHANGED <<my, job>> /\ pc'[c] = "backlogFill"
  /\ BacklogName(c) \notin DOMAIN backlog
  /\ BacklogOf(c, i)' = BacklogOf(c, i) \cup {BacklogName(c)}
  /\ backlog'[BacklogName(c)].gaps = job[c].gaps
  /\ \A n \in BacklogOf(c, i) : backlog'[n] = backlog[n]
Rewritten(c, i) ==
  /\ \/ BacklogFill(c) /\ UNCHANGED Rest
     \/ BacklogReturned(c) \/ WriteEvidence(c) \/ OpenBacklog(c) \/ Promote(c)
  /\ BacklogOf(c, i)' = BacklogOf(c, i)
  /\ BacklogName(c) \in BacklogOf(c, i)
  /\ backlog'[BacklogName(c)].gaps = backlog[BacklogName(c)].gaps
  /\ Promote(c) => /\ backlog'[BacklogName(c)].text = "promoted"
                   /\ backlog'[BacklogName(c)].spec = my[c].number
  /\ \A n \in BacklogOf(c, i) : n # BacklogName(c) => backlog'[n] = backlog[n]

(* A process works for one item, that of its theme. *)
LEMMA OwnItem ==
  ASSUME FilesInv, NEW a \in Calls, Working(a), NEW c \in Calls, NEW i \in Nat
  PROVE  (job[a].item = <<c, i>>) <=> (a = c /\ i = theme[a])
<1>1. TypesFit /\ RequestsFit /\ StepsFit /\ JobsFit
  BY DEF FilesInv
<1>2. job[a].item = <<a, theme[a]>>
  BY <1>1, JobsAreTyped
<1> QED BY <1>2

(* The Inboxes of a theme change only as the import at it makes and fills one. *)
LEMMA InboxSteps ==
  ASSUME FilesInv, FileNext, NEW c \in Calls, NEW i \in Nat
  PROVE  SameInboxes(c, i) \/ (i = theme[c] /\ (NewInbox(c, i) \/ WholeInbox(c, i)))
<1>1. TypesFit /\ StepsFit /\ InboxesFit /\ pc = [o \in Calls |-> pc[o]]
  BY DEF FilesInv, TypesFit
<1>2. CASE UNCHANGED inbox
  BY <1>2 DEF SameInboxes, InboxOf
<1>3. ASSUME NEW a \in Calls, CaptureCreate(a), UNCHANGED Rest, ~UNCHANGED inbox
      PROVE  SameInboxes(c, i) \/ (i = theme[c] /\ NewInbox(c, i))
  <2> DEFINE made == [item |-> job[a].item, whole |-> FALSE, gaps |-> job[a].gaps, kept |-> job[a].kept]
  <2>1. /\ InboxName(a) \notin DOMAIN inbox /\ inbox' = With(inbox, InboxName(a), made)
        /\ Go(a, "captureFill") /\ UNCHANGED <<my, job>> /\ pc[a] = "captureCreate"
    BY <1>3 DEF CaptureCreate, NameIsTaken, At
  <2>2. made.item = job[a].item /\ made.kept = job[a].kept
    OBVIOUS
  <2>3. pc'[a] = "captureFill"
    BY <1>1, <2>1 DEF Go
  <2>4. (job[a].item = <<c, i>>) <=> (a = c /\ i = theme[a])
    BY <2>1, OwnItem DEF Working, FileSteps, CaptureSteps
  <2> HIDE DEF made
  <2>5. DOMAIN inbox' = DOMAIN inbox \cup {InboxName(a)} /\ inbox'[InboxName(a)] = made
        /\ \A n \in DOMAIN inbox : inbox'[n] = inbox[n]
    BY <2>1 DEF With
  <2>6. CASE a = c /\ i = theme[a]
    BY <1>3, <2>1, <2>2, <2>3, <2>4, <2>5, <2>6 DEF NewInbox, InboxOf
  <2>7. CASE ~(a = c /\ i = theme[a])
    BY <2>1, <2>2, <2>4, <2>5, <2>7 DEF SameInboxes, InboxOf
  <2> QED BY <2>6, <2>7
<1>4. ASSUME NEW a \in Calls, CaptureFill(a), UNCHANGED Rest
      PROVE  SameInboxes(c, i) \/ (i = theme[c] /\ WholeInbox(c, i))
  <2>1. /\ inbox' = [inbox EXCEPT ![InboxName(a)].whole = TRUE]
        /\ Go(a, "done") /\ UNCHANGED <<my, job>> /\ pc[a] = "captureFill"
    BY <1>4 DEF CaptureFill, At
  <2>2. InboxName(a) \in DOMAIN inbox /\ inbox[InboxName(a)].item = job[a].item
    BY <1>1, <2>1 DEF InboxesFit, Has
  <2>3. inbox[InboxName(a)] \in [item : Items, whole : BOOLEAN, gaps : SUBSET Fields, kept : BOOLEAN]
    BY <2>2 DEF FilesInv, FilesTypeOK
  <2>4. pc'[a] = "done"
    BY <1>1, <2>1 DEF Go
  <2>5. (job[a].item = <<c, i>>) <=> (a = c /\ i = theme[a])
    BY <2>1, OwnItem DEF Working, FileSteps, CaptureSteps
  <2>6. /\ DOMAIN inbox' = DOMAIN inbox
        /\ inbox'[InboxName(a)].item = inbox[InboxName(a)].item /\ inbox'[InboxName(a)].kept = inbox[InboxName(a)].kept
        /\ inbox'[InboxName(a)].whole = TRUE
        /\ \A n \in DOMAIN inbox : n # InboxName(a) => inbox'[n] = inbox[n]
    BY <2>1, <2>2, <2>3
  <2>7. InboxOf(c, i)' = InboxOf(c, i)
    BY <2>6 DEF InboxOf
  <2>8. CASE a = c /\ i = theme[a]
    BY <1>4, <2>1, <2>2, <2>4, <2>5, <2>6, <2>7, <2>8 DEF WholeInbox, InboxOf
  <2>9. CASE ~(a = c /\ i = theme[a])
    BY <2>2, <2>5, <2>6, <2>7, <2>9 DEF SameInboxes, InboxOf
  <2> QED BY <2>8, <2>9
<1> QED BY <1>2, <1>3, <1>4, InboxChanges

(* So do its backlog items. *)
LEMMA ItemSteps ==
  ASSUME FilesInv, FileNext, NEW c \in Calls, NEW i \in Nat
  PROVE  SameBacklogs(c, i) \/ (i = theme[c] /\ (NewBacklog(c, i) \/ Rewritten(c, i)))
<1>1. /\ TypesFit /\ RequestsFit /\ StepsFit /\ JobsFit /\ BacklogsFit /\ pc = [o \in Calls |-> pc[o]]
  BY DEF FilesInv, TypesFit
<1>2. CASE UNCHANGED backlog
  BY <1>2 DEF SameBacklogs, BacklogOf
<1>3. ASSUME NEW a \in Calls, BacklogCreate(a), UNCHANGED Rest, ~UNCHANGED backlog
      PROVE  SameBacklogs(c, i) \/ (i = theme[c] /\ NewBacklog(c, i))
  <2> DEFINE made == [item |-> job[a].item, text |-> "empty", gaps |-> job[a].gaps, spec |-> 0]
  <2>1. /\ BacklogName(a) \notin DOMAIN backlog /\ backlog' = With(backlog, BacklogName(a), made)
        /\ Go(a, "backlogFill") /\ UNCHANGED <<my, job>> /\ pc[a] = "backlogCreate"
    BY <1>3 DEF BacklogCreate, At
  <2>2. made.item = job[a].item /\ made.gaps = job[a].gaps
    OBVIOUS
  <2>3. pc'[a] = "backlogFill"
    BY <1>1, <2>1 DEF Go
  <2>4. (job[a].item = <<c, i>>) <=> (a = c /\ i = theme[a])
    BY <2>1, OwnItem DEF Working, FileSteps, BacklogSteps
  <2> HIDE DEF made
  <2>5. DOMAIN backlog' = DOMAIN backlog \cup {BacklogName(a)} /\ backlog'[BacklogName(a)] = made
        /\ \A n \in DOMAIN backlog : backlog'[n] = backlog[n]
    BY <2>1 DEF With
  <2>6. CASE a = c /\ i = theme[a]
    BY <1>3, <2>1, <2>2, <2>3, <2>4, <2>5, <2>6 DEF NewBacklog, BacklogOf
  <2>7. CASE ~(a = c /\ i = theme[a])
    BY <2>1, <2>2, <2>4, <2>5, <2>7 DEF SameBacklogs, BacklogOf
  <2> QED BY <2>6, <2>7
<1>4. ASSUME NEW a \in Calls,
             \/ BacklogFill(a) /\ UNCHANGED Rest
             \/ BacklogReturned(a) \/ WriteEvidence(a) \/ OpenBacklog(a) \/ Promote(a)
      PROVE  SameBacklogs(c, i) \/ (i = theme[c] /\ Rewritten(c, i))
  <2>1. Filed(a) /\ Working(a)
    <3>1. CASE BacklogFill(a)
      BY <3>1 DEF BacklogFill, At, Filed, Working, FileSteps, BacklogSteps
    <3>2. CASE BacklogReturned(a) \/ WriteEvidence(a) \/ OpenBacklog(a) \/ Promote(a)
      <4>1. Back(a, "backlog") \/ stage[a] \in {"evidence", "promote", "promotion"}
        BY <3>2 DEF BacklogReturned, WriteEvidence, OpenBacklog, Promote, Returned, Back, At
      <4>2. stage[a] \in {"backlog", "evidence", "promote", "promotion"}
        BY <4>1 DEF Back
      <4>3. Importing(a)
        BY <1>1, <4>2 DEF StepsFit
      <4> QED BY <4>1, <4>2, <4>3 DEF Filed, Working, AtTheme, ThemeStages
    <3> QED BY <1>4, <3>1, <3>2
  <2> DEFINE name == BacklogName(a)
             File == [item : Items, text : {"empty", "captured", "evidenced", "promoted"},
                      gaps : SUBSET Fields, spec : 0 .. MaxNumber]
  <2>2. name \in DOMAIN backlog /\ backlog[name].item = job[a].item
    BY <1>1, <2>1 DEF BacklogsFit, Has
  <2>3. backlog[name] \in File
    BY <2>2 DEF FilesInv, FilesTypeOK
  <2>4. (job[a].item = <<c, i>>) <=> (a = c /\ i = theme[a])
    BY <2>1, OwnItem
  <2>5. /\ DOMAIN backlog' = DOMAIN backlog
        /\ backlog'[name].item = backlog[name].item /\ backlog'[name].gaps = backlog[name].gaps
        /\ Promote(a) => backlog'[name].text = "promoted" /\ backlog'[name].spec = my[a].number
        /\ \A n \in DOMAIN backlog : n # name => backlog'[n] = backlog[n]
    <3>1. CASE Promote(a)
      <4> DEFINE half == [backlog EXCEPT ![name].text = "promoted"]
      <4>1. /\ DOMAIN half = DOMAIN backlog /\ half[name].item = backlog[name].item
            /\ half[name].gaps = backlog[name].gaps /\ half[name].text = "promoted"
            /\ half[name] \in File /\ \A n \in DOMAIN backlog : n # name => half[n] = backlog[n]
        BY <2>2, <2>3
      <4>2. backlog' = [half EXCEPT ![name].spec = my[a].number]
        BY <3>1 DEF Promote
      <4> HIDE DEF half, name
      <4> QED BY <2>2, <4>1, <4>2
    <3>2. CASE ~Promote(a)
      <4>1. PICK s : backlog' = [backlog EXCEPT ![name].text = s]
        BY <1>4, <3>2 DEF BacklogFill, BacklogReturned, WriteEvidence, OpenBacklog
      <4> HIDE DEF name
      <4> QED BY <2>2, <2>3, <3>2, <4>1
    <3> QED BY <3>1, <3>2
  <2> HIDE DEF name
  <2>7. BacklogOf(c, i)' = BacklogOf(c, i)
    BY <2>5 DEF BacklogOf
  <2>8. CASE a = c /\ i = theme[a]
    BY <1>4, <2>2, <2>4, <2>5, <2>7, <2>8 DEF Rewritten, BacklogOf, name
  <2>9. CASE ~(a = c /\ i = theme[a])
    BY <2>2, <2>4, <2>5, <2>7, <2>9 DEF SameBacklogs, BacklogOf
  <2> QED BY <2>8, <2>9
<1> QED BY <1>2, <1>3, <1>4, BacklogChanges

(* and to its packages. *)
SameSpecs(c, i) ==
  SpecOf(c, i)' = SpecOf(c, i) /\ \A n \in SpecOf(c, i) : specs'[n] = specs[n]
MovedSpec(c, i) ==
  /\ UNCHANGED <<inbox, backlog, job, pc, my>> /\ UNCHANGED Rest
  /\ \E name \in SpecOf(c, i) : \E moved :
       /\ moved[2] = name[2] /\ SpecOf(c, i)' = (SpecOf(c, i) \ {name}) \cup {moved}
       /\ specs'[moved] = specs[name] /\ \A n \in SpecOf(c, i) \ {name} : specs'[n] = specs[n]
NewSpec(c, i) ==
  /\ MakePackage(c) /\ UNCHANGED Rest /\ pc'[c] = "unlock"
  /\ \E name : SpecOf(c, i)' = SpecOf(c, i) \cup {name}
WrittenSpec(c, i) ==
  /\ \/ (WriteTemporary(c) \/ RenameSpec(c)) /\ UNCHANGED Rest
     \/ SpecReturned(c) \/ WriteDraft(c)
  /\ SpecOf(c, i)' = SpecOf(c, i)
  /\ PackageName(c) \in SpecOf(c, i)
  /\ WriteDraft(c) => /\ specs'[PackageName(c)].text = "drafted"
                      /\ specs'[PackageName(c)].gaps = Gaps(ThemesOf(c)[theme[c]])
RemovedSpec(c, i) ==
  /\ RemovePackage(c) /\ UNCHANGED Rest
  /\ SpecOf(c, i)' = SpecOf(c, i) \ {PackageName(c)}

(* So do its packages, which people move as well. *)
LEMMA SpecSteps ==
  ASSUME FilesInv, FileNext, NEW c \in Calls, NEW i \in Nat
  PROVE  \/ SameSpecs(c, i) \/ MovedSpec(c, i)
         \/ i = theme[c] /\ (NewSpec(c, i) \/ WrittenSpec(c, i) \/ RemovedSpec(c, i))
<1>1. /\ SpecNumbersAreUnique /\ TypesFit /\ RequestsFit /\ StepsFit /\ JobsFit /\ pc = [o \in Calls |-> pc[o]]
  BY DEF FilesInv, TypesFit
<1>2. CASE UNCHANGED specs
  BY <1>2 DEF SameSpecs, SpecOf
<1>3. ASSUME NEW a \in Calls, MakePackage(a), UNCHANGED Rest, ~UNCHANGED specs
      PROVE  SameSpecs(c, i) \/ (i = theme[c] /\ NewSpec(c, i))
  <2> DEFINE name == <<"draft", my[a].top + 1, job[a].slug>>
             made == [item |-> job[a].item, text |-> "none", gaps |-> {}]
  <2>1. name \notin DOMAIN specs /\ specs' = With(specs, name, made) /\ Go(a, "unlock") /\ pc[a] = "make"
    BY <1>3 DEF MakePackage, At
  <2>2. made.item = job[a].item
    OBVIOUS
  <2>3. pc'[a] = "unlock"
    BY <1>1, <2>1 DEF Go
  <2>4. (job[a].item = <<c, i>>) <=> (a = c /\ i = theme[a])
    BY <2>1, OwnItem DEF Working, FileSteps, SpecifySteps
  <2> HIDE DEF name, made
  <2>5. DOMAIN specs' = DOMAIN specs \cup {name} /\ specs'[name] = made
        /\ \A n \in DOMAIN specs : specs'[n] = specs[n]
    BY <2>1 DEF With
  <2>6. CASE a = c /\ i = theme[a]
    <3>1. SpecOf(c, i)' = SpecOf(c, i) \cup {name}
      BY <2>2, <2>4, <2>5, <2>6 DEF SpecOf
    <3> QED BY <1>3, <2>3, <2>6, <3>1 DEF NewSpec
  <2>7. CASE ~(a = c /\ i = theme[a])
    BY <2>1, <2>2, <2>4, <2>5, <2>7 DEF SameSpecs, SpecOf
  <2> QED BY <2>6, <2>7
<1>4. ASSUME NEW a \in Calls,
             \/ (WriteTemporary(a) \/ RenameSpec(a) \/ RemovePackage(a)) /\ UNCHANGED Rest
             \/ SpecReturned(a) \/ WriteDraft(a)
      PROVE  SameSpecs(c, i) \/ (i = theme[c] /\ (WrittenSpec(c, i) \/ RemovedSpec(c, i)))
  <2>1. (Making(a) \/ Drafting(a)) /\ Working(a)
    <3>1. WriteTemporary(a) \/ RenameSpec(a) \/ RemovePackage(a) => Making(a) /\ pc[a] \in FileSteps
      BY DEF WriteTemporary, RenameSpec, RemovePackage, Making, At, FileSteps, SpecifySteps
    <3>2. SpecReturned(a) \/ WriteDraft(a) => stage[a] \in {"specify", "draft"} /\ (stage[a] = "draft" \/ Back(a, "specify"))
      BY DEF SpecReturned, WriteDraft, Returned, Back, At
    <3>3. stage[a] # "done" => Importing(a)
      BY <1>1 DEF StepsFit
    <3> QED BY <1>4, <3>1, <3>2, <3>3 DEF Drafting, Working, AtTheme, ThemeStages
  <2> DEFINE name == PackageName(a)
             File == [item : Authors, gaps : SUBSET Fields,
                      text : {"none", "temporary", "template", "empty", "drafted"}]
  <2>2. name \in DOMAIN specs /\ specs[name].item = job[a].item
    BY <2>1, PackagesHaveAuthors
  <2>3. specs[name] \in File
    BY <2>2 DEF FilesInv, FilesTypeOK
  <2>4. (job[a].item = <<c, i>>) <=> (a = c /\ i = theme[a])
    BY <2>1, OwnItem
  <2>5. CASE RemovePackage(a)
    <3>1. DOMAIN specs' = DOMAIN specs \ {name} /\ \A n \in DOMAIN specs' : specs'[n] = specs[n]
      BY <2>5 DEF RemovePackage, WithoutPackage, Without, Restrict
    <3>2. UNCHANGED Rest
      <4>1. ~WriteTemporary(a) /\ ~RenameSpec(a)
        BY <2>5 DEF RemovePackage, WriteTemporary, RenameSpec, At
      <4>2. SpecReturned(a) \/ WriteDraft(a) => pc[a] = "done"
        BY <1>1 DEF SpecReturned, WriteDraft, Returned, Back, At, StepsFit
      <4> QED BY <1>4, <2>5, <4>1, <4>2 DEF RemovePackage, At
    <3> HIDE DEF name
    <3>3. CASE a = c /\ i = theme[a]
      <4>1. SpecOf(c, i)' = SpecOf(c, i) \ {name}
        BY <3>1 DEF SpecOf
      <4> QED BY <2>5, <3>2, <3>3, <4>1 DEF RemovedSpec, name
    <3>4. CASE ~(a = c /\ i = theme[a])
      BY <2>2, <2>4, <3>1, <3>4 DEF SameSpecs, SpecOf
    <3> QED BY <3>3, <3>4
  <2>6. CASE ~RemovePackage(a)
    <3>1. /\ DOMAIN specs' = DOMAIN specs /\ specs'[name].item = specs[name].item
          /\ WriteDraft(a) => /\ specs'[name].text = "drafted"
                              /\ specs'[name].gaps = Gaps(ThemesOf(a)[theme[a]])
          /\ \A n \in DOMAIN specs : n # name => specs'[n] = specs[n]
      <4>1. CASE WriteDraft(a)
        <5> DEFINE half == [specs EXCEPT ![name].text = "drafted"]
                   gaps == Gaps(ThemesOf(a)[theme[a]])
        <5>1. /\ DOMAIN half = DOMAIN specs /\ half[name].item = specs[name].item /\ half[name].text = "drafted"
              /\ half[name] \in File /\ \A n \in DOMAIN specs : n # name => half[n] = specs[n]
          BY <2>2, <2>3
        <5>2. specs' = [half EXCEPT ![name].gaps = gaps]
          BY <4>1 DEF WriteDraft
        <5> HIDE DEF half, name, gaps
        <5>3. specs'[name].gaps = gaps /\ specs'[name].text = "drafted" /\ specs'[name].item = specs[name].item
          BY <2>2, <5>1, <5>2
        <5> QED BY <2>2, <5>1, <5>2, <5>3 DEF gaps
      <4>2. CASE ~WriteDraft(a)
        <5>1. PICK s : specs' = [specs EXCEPT ![name].text = s]
          BY <1>4, <2>6, <4>2 DEF WriteTemporary, RenameSpec, SpecReturned
        <5> HIDE DEF name
        <5> QED BY <2>2, <2>3, <4>2, <5>1
      <4> QED BY <4>1, <4>2
    <3> HIDE DEF name
    <3>2. SpecOf(c, i)' = SpecOf(c, i)
      BY <3>1 DEF SpecOf
    <3>3. CASE a = c /\ i = theme[a]
      BY <1>4, <2>2, <2>4, <2>6, <3>1, <3>2, <3>3 DEF WrittenSpec, SpecOf, name
    <3>4. CASE ~(a = c /\ i = theme[a])
      BY <2>2, <2>4, <3>1, <3>2, <3>4 DEF SameSpecs, SpecOf
    <3> QED BY <3>3, <3>4
  <2> QED BY <2>5, <2>6
<1>5. ASSUME NEW name \in DOMAIN specs, Transition(name), UNCHANGED Rest
      PROVE  SameSpecs(c, i) \/ MovedSpec(c, i)
  <2>1. PICK moved : /\ moved[2] = name[2] /\ DOMAIN specs' = (DOMAIN specs \ {name}) \cup {moved}
                     /\ \A m \in DOMAIN specs' : specs'[m] = IF m = moved THEN specs[name] ELSE specs[m]
    BY <1>5, MovedSimply, Zenon
  <2>2. \A n \in DOMAIN specs : n # name => n # moved
    BY <1>1, <2>1 DEF SpecNumbersAreUnique
  <2>3. specs'[moved] = specs[name] /\ \A n \in DOMAIN specs : n # name => n \in DOMAIN specs' /\ specs'[n] = specs[n]
    BY <2>1, <2>2
  <2>4. UNCHANGED <<inbox, backlog, job, pc, my>>
    BY <1>5 DEF Transition
  <2>5. CASE name \in SpecOf(c, i)
    <3>1. SpecOf(c, i)' = (SpecOf(c, i) \ {name}) \cup {moved}
      BY <2>1, <2>2, <2>3, <2>5 DEF SpecOf
    <3>2. \A n \in SpecOf(c, i) \ {name} : specs'[n] = specs[n]
      BY <2>3 DEF SpecOf
    <3> QED BY <1>5, <2>1, <2>3, <2>4, <2>5, <3>1, <3>2 DEF MovedSpec
  <2>6. CASE name \notin SpecOf(c, i)
    BY <2>1, <2>2, <2>3, <2>6 DEF SpecOf, SameSpecs
  <2> QED BY <2>5, <2>6
<1> QED BY <1>2, <1>3, <1>4, <1>5, SpecsChange

(* Where an import goes next: to the next theme, to its end, *)
Completes(c) ==
  \/ FillMilestone(c) /\ theme[c] = 0
  \/ InboxReturned(c) /\ AtTheme(c) /\ ~DevelopableAt(c, theme[c])
  \/ Promote(c) /\ AtTheme(c)
Enters(c) ==
  /\ Completes(c) /\ theme'[c] = theme[c] + 1 /\ stage'[c] = "capture" /\ pc'[c] \in {"second", "failed"}
Finishes(c) ==
  /\ Completes(c) /\ theme'[c] = theme[c] /\ stage'[c] = "done" /\ theme[c] + 1 > Len(ThemesOf(c))
(* to the next stage of its theme, *)
Proceeds(c) ==
  /\ AtTheme(c) /\ theme'[c] = theme[c]
  /\ \/ /\ InboxReturned(c) /\ DevelopableAt(c, theme[c])
        /\ stage'[c] = "backlog" /\ pc'[c] \in {"backlogScan", "failed"}
     \/ BacklogReturned(c) /\ stage'[c] = "evidence" /\ pc'[c] = "done"
     \/ WriteEvidence(c) /\ stage'[c] = "specify" /\ pc'[c] \in {"lock", "failed"}
     \/ SpecReturned(c) /\ stage'[c] = "draft" /\ pc'[c] = "done"
     \/ WriteDraft(c) /\ stage'[c] = "promote" /\ pc'[c] = "done"
     \/ OpenBacklog(c) /\ stage'[c] = "promotion" /\ pc'[c] = "done"
(* to its first theme, or away from them. *)
Prepares(c) ==
  /\ theme'[c] = theme[c]
  /\ \/ stage[c] = "source" /\ stage'[c] = "milestone"
     \/ stage[c] = "milestone" /\ stage'[c] = "milestoneFill" /\ milestone'.by = c
     \/ stage'[c] \in {"failed", "killed"}
(* A script of its child makes a step, or fails to write. *)
Waits(c) ==
  /\ AtTheme(c) /\ UNCHANGED job /\ stage'[c] = stage[c] /\ theme'[c] = theme[c]
  /\ \/ ScriptStep(c)
     \/ /\ WriteFails(c) /\ my'[c] = my[c]
        /\ \/ pc[c] \in {"captureFill", "backlogFill"} /\ pc'[c] = "failed"
           \/ pc[c] \in {"temporary", "rename"} /\ pc'[c] = "undo"

(* Nobody changes what a process runs. *)
LEMMA RequestsStay ==
  ASSUME FilesInv, FileNext
  PROVE  request' = request
<1>1. TypesFit /\ RequestsFit /\ StepsFit /\ JobsFit
  BY DEF FilesInv
<1>2. ASSUME NEW c \in Calls, ImportStep(c)  PROVE request' = request
  BY <1>1, <1>2, ImportMoves
<1>3. ASSUME NEW c \in Calls, Passing(c) \/ Killed(c) \/ Orphaned(c) \/ ImportWriteFails(c)  PROVE request' = request
  BY <1>3 DEF Passing, Killed, Orphaned, ImportWriteFails
<1> QED BY <1>2, <1>3 DEF FileNext, Rest, vars

(* There is no other way. *)
LEMMA ImportPaths ==
  ASSUME FilesInv, MilestoneFits, FileNext, NEW c \in Calls, Importing(c)
  PROVE  Idles(c) \/ Waits(c) \/ Enters(c) \/ Finishes(c) \/ Proceeds(c) \/ Prepares(c)
<1>1. /\ FilesTypeOK /\ TypesFit /\ RequestsFit /\ StepsFit /\ TriesFit /\ JobsFit /\ ScansFit /\ NumbersFit
      /\ pc = [o \in Calls |-> pc[o]] /\ stage = [o \in Calls |-> stage[o]] /\ theme = [o \in Calls |-> theme[o]]
      /\ my = [o \in Calls |-> my[o]] /\ theme[c] \in Nat
  BY DEF FilesInv, TypesFit
<1>2. CASE ScriptStep(c) /\ UNCHANGED Rest
  <2>1. UNCHANGED job /\ pc[c] \in FileSteps
    BY <1>1, <1>2, ScriptMoves DEF FileSteps
  <2>2. AtTheme(c)
    BY <1>1, <2>1, ScriptsAtWork
  <2> QED BY <1>2, <2>1, <2>2 DEF Waits, Rest
<1>3. CASE WriteFails(c) /\ UNCHANGED Rest
  <2>1. /\ UNCHANGED <<job, my>>
        /\ \/ pc[c] \in {"captureFill", "backlogFill"} /\ Go(c, "failed")
           \/ pc[c] \in {"temporary", "rename"} /\ Go(c, "undo")
    BY <1>3 DEF WriteFails
  <2>2. AtTheme(c)
    BY <1>1, <2>1, ScriptsAtWork DEF FileSteps, CaptureSteps, BacklogSteps, SpecifySteps
  <2>3. \/ pc[c] \in {"captureFill", "backlogFill"} /\ pc'[c] = "failed"
        \/ pc[c] \in {"temporary", "rename"} /\ pc'[c] = "undo"
    BY <1>1, <2>1 DEF Go
  <2> QED BY <1>3, <2>1, <2>2, <2>3 DEF Waits, Rest
<1>4. CASE Passing(c)
  BY <1>4 DEF Passing, Contextual, Importing, Scripts
<1>5. CASE Killed(c)
  BY <1>1, <1>5 DEF Killed, Prepares
<1>6. CASE ImportWriteFails(c)
  BY <1>1, <1>6 DEF ImportWriteFails, Stage, Prepares
<1>7. CASE ImportStep(c)
  <2>1. stage[c] \in ThemeStages => AtTheme(c) /\ Source(c) \in Texts /\ theme[c] \in 1 .. Len(ThemesOf(c))
    BY <1>1 DEF AtTheme, JobsFit, ThemeStages
  <2>2. ASSUME NEW s, Stage(c, s)  PROVE stage'[c] = s
    BY <1>1, <2>2 DEF Stage
  <2>3. ASSUME NEW i \in 1 .. Len(ThemesOf(c)), NEW script \in {"capture", "backlog", "specify"},
               Source(c) \in Texts, Run(c, i, script)
        PROVE  /\ stage'[c] = script
               /\ script = "capture" => pc'[c] \in {"second", "failed"}
               /\ script = "backlog" => pc'[c] \in {"backlogScan", "failed"}
               /\ script = "specify" => pc'[c] \in {"lock", "failed"}
    <3>1. stage'[c] = script /\ pc'[c] = Entry(Child(c, i, script))
      BY <1>1, <2>3 DEF Run, Go
    <3> QED BY <2>3, <3>1, EntriesAreSteps
  <2>4. ASSUME Completes(c), Source(c) \in Texts, Continue(c, theme[c] + 1)
        PROVE  Enters(c) \/ Finishes(c)
    <3>1. CASE NoThemeLeft(c, theme[c] + 1)
      <4>1. Stage(c, "done") /\ UNCHANGED theme
        BY <2>4, <3>1 DEF Continue
      <4> QED BY <2>2, <2>4, <3>1, <4>1 DEF Finishes, NoThemeLeft
    <3>2. CASE ~NoThemeLeft(c, theme[c] + 1)
      <4>1. Run(c, theme[c] + 1, "capture") /\ theme' = [theme EXCEPT ![c] = theme[c] + 1]
        BY <2>4, <3>2 DEF Continue
      <4>2. Len(ThemesOf(c)) \in Nat
        BY <2>4 DEF Texts, ThemesOf
      <4>3. theme[c] + 1 \in 1 .. Len(ThemesOf(c))
        BY <1>1, <3>2, <4>2 DEF NoThemeLeft
      <4>4. stage'[c] = "capture" /\ pc'[c] \in {"second", "failed"}
        BY <2>3, <2>4, <4>1, <4>3
      <4>5. theme'[c] = theme[c] + 1
        BY <1>1, <4>1
      <4> QED BY <2>4, <4>4, <4>5 DEF Enters
    <3> QED BY <3>1, <3>2
  <2>5. CASE ReadMvpSource(c)
    <3>1. stage[c] = "source" /\ UNCHANGED theme /\ (Stage(c, "failed") \/ Stage(c, "milestone"))
      BY <2>5 DEF ReadMvpSource
    <3> QED BY <2>2, <3>1 DEF Prepares
  <2>6. CASE CreateMilestone(c)
    <3>1. /\ stage[c] = "milestone" /\ UNCHANGED theme
          /\ Stage(c, "failed") \/ (Stage(c, "milestoneFill") /\ milestone' = [by |-> c, whole |-> FALSE])
      BY <2>6 DEF CreateMilestone
    <3> QED BY <2>2, <3>1 DEF Prepares
  <2>7. CASE FillMilestone(c)
    <3>1. stage[c] = "milestoneFill" /\ Continue(c, 1)
      BY <2>7 DEF FillMilestone
    <3>2. theme[c] = 0 /\ Source(c) \in Texts
      BY <1>1, <3>1 DEF MilestoneFits, JobsFit
    <3>3. Continue(c, theme[c] + 1)
      BY <3>1, <3>2
    <3> QED BY <2>4, <2>7, <3>2, <3>3 DEF Completes
  <2>8. CASE InboxReturned(c)
    <3>1. stage[c] = "capture"
      BY <2>8 DEF InboxReturned, Returned, Back
    <3>2. CASE DevelopableAt(c, theme[c])
      <4>1. Run(c, theme[c], "backlog") /\ UNCHANGED theme
        BY <2>8, <3>2 DEF InboxReturned, DevelopableAt
      <4> QED BY <2>1, <2>3, <2>8, <3>1, <3>2, <4>1 DEF Proceeds, ThemeStages
    <3>3. CASE ~DevelopableAt(c, theme[c])
      <4>1. Continue(c, theme[c] + 1)
        BY <2>8, <3>3 DEF InboxReturned, DevelopableAt
      <4> QED BY <2>1, <2>4, <2>8, <3>1, <3>3, <4>1 DEF Completes, ThemeStages
    <3> QED BY <3>2, <3>3
  <2>9. CASE BacklogReturned(c)
    BY <2>1, <2>2, <2>9 DEF BacklogReturned, Returned, Back, At, Proceeds, ThemeStages
  <2>10. CASE WriteEvidence(c)
    BY <2>1, <2>3, <2>10 DEF WriteEvidence, Proceeds, ThemeStages
  <2>11. CASE SpecReturned(c)
    BY <2>1, <2>2, <2>11 DEF SpecReturned, Returned, Back, At, Proceeds, ThemeStages
  <2>12. CASE WriteDraft(c)
    BY <1>1, <2>1, <2>2, <2>12 DEF WriteDraft, Proceeds, ThemeStages, StepsFit
  <2>13. CASE OpenBacklog(c)
    BY <1>1, <2>1, <2>2, <2>13 DEF OpenBacklog, Proceeds, ThemeStages, StepsFit
  <2>14. CASE Promote(c)
    <3>1. stage[c] = "promotion" /\ Continue(c, theme[c] + 1)
      BY <2>14 DEF Promote
    <3> QED BY <2>1, <2>4, <2>14, <3>1 DEF Completes, ThemeStages
  <2>15. CASE ChildFailed(c)
    BY <2>2, <2>15 DEF ChildFailed, Prepares
  <2> QED BY <1>7, <2>5, <2>6, <2>7, <2>8, <2>9, <2>10, <2>11, <2>12, <2>13, <2>14, <2>15 DEF ImportStep
<1> QED BY <1>2, <1>3, <1>4, <1>5, <1>6, <1>7, ActsOrStays

(* Nobody takes over a milestone. *)
LEMMA MilestoneIsKept ==
  ASSUME FilesInv, FileNext, milestone.by # Nobody
  PROVE  milestone'.by = milestone.by
<1>1. milestone \in [by : Calls \cup {Nobody}, whole : BOOLEAN]
  BY DEF FilesInv, FilesTypeOK
<1>2. ASSUME NEW c \in Calls, CreateMilestone(c)  PROVE UNCHANGED milestone
  BY <1>2 DEF CreateMilestone
<1>3. ASSUME NEW c \in Calls, FillMilestone(c)  PROVE milestone'.by = milestone.by
  BY <1>1, <1>3 DEF FillMilestone
<1> QED BY <1>2, <1>3, MilestoneChanges

(* An import that is at its themes has made the milestone. *)
LEMMA MilestoneStays ==
  ASSUME FilesInv, MilestoneFits, FileNext
  PROVE  MilestoneFits'
<1>1. request' = request
  BY RequestsStay
<1> SUFFICES ASSUME NEW c \in Calls, Importing(c)
             PROVE  /\ stage'[c] \in ThemeStages \cup {"milestoneFill", "done"} => milestone'.by = c
                    /\ stage'[c] \in {"source", "milestone", "milestoneFill"} => theme'[c] = 0
  BY <1>1 DEF MilestoneFits, Importing
<1>2. milestone.by = c => milestone'.by = c
  BY MilestoneIsKept, NobodyAssumption
<1>3. stage[c] \in ThemeStages \cup {"milestoneFill", "done"} => milestone.by = c
  BY DEF MilestoneFits
<1>4. Completes(c) => stage[c] \in ThemeStages \cup {"milestoneFill"}
  BY DEF Completes, FillMilestone, AtTheme
<1>5. CASE Idles(c)
  BY <1>2, <1>5 DEF MilestoneFits, Idles
<1>6. CASE Waits(c)
  BY <1>2, <1>6 DEF MilestoneFits, Waits
<1>7. CASE Enters(c) \/ Finishes(c)
  BY <1>2, <1>3, <1>4, <1>7 DEF Enters, Finishes
<1>8. CASE Proceeds(c)
  BY <1>2, <1>3, <1>8 DEF Proceeds, AtTheme
<1>9. CASE Prepares(c)
  BY <1>9 DEF Prepares, MilestoneFits, ThemeStages
<1> QED BY <1>5, <1>6, <1>7, <1>8, <1>9, ImportPaths

(* Inboxes remain and keep what they say. *)
LEMMA InboxesRemain ==
  ASSUME FilesInv, FileNext, NEW c \in Calls, NEW i \in Nat, NEW n \in InboxOf(c, i)
  PROVE  /\ n \in InboxOf(c, i)' /\ inbox'[n].kept = inbox[n].kept
         /\ inbox[n].whole => inbox'[n].whole
<1>1. CASE SameInboxes(c, i)
  BY <1>1 DEF SameInboxes
<1>2. CASE NewInbox(c, i)
  BY <1>2 DEF NewInbox
<1>3. CASE WholeInbox(c, i)
  <2>1. CASE n = InboxName(c)
    BY <1>3, <2>1 DEF WholeInbox
  <2>2. CASE n # InboxName(c)
    BY <1>3, <2>2 DEF WholeInbox
  <2> QED BY <2>1, <2>2
<1> QED BY <1>1, <1>2, <1>3, InboxSteps

(* Backlog items remain. *)
LEMMA BacklogsRemain ==
  ASSUME FilesInv, FileNext, NEW c \in Calls, NEW i \in Nat
  PROVE  BacklogOf(c, i) \subseteq BacklogOf(c, i)'
BY ItemSteps DEF SameBacklogs, NewBacklog, Rewritten

(* A theme stays, or is followed by the next one. *)
LEMMA ThemesAdvance ==
  ASSUME FilesInv, MilestoneFits, FileNext, NEW c \in Calls, Importing(c)
  PROVE  theme[c] \in Nat /\ (theme'[c] = theme[c] \/ Enters(c))
<1>1. theme[c] \in Nat
  BY DEF FilesInv, TypesFit
<1> QED BY <1>1, ImportPaths DEF Idles, Waits, Finishes, Proceeds, Prepares

(* What a process at work on a theme has found. *)
LEMMA AtWork ==
  ASSUME FilesInv, PresentFits, NEW c \in Calls, Importing(c), pc[c] \in FileSteps
  PROVE  /\ AtTheme(c) /\ theme[c] \in Nat \ {0}
         /\ InboxHere(c, theme[c]) /\ BacklogHere(c, theme[c]) /\ SpecHere(c, theme[c])
         /\ pc[c] \in CaptureSteps => stage[c] = "capture"
         /\ pc[c] \in BacklogSteps => stage[c] = "backlog"
         /\ pc[c] \in SpecifySteps => stage[c] = "specify"
<1>1. TypesFit /\ StepsFit /\ JobsFit
  BY DEF FilesInv
<1>2. AtTheme(c)
  BY <1>1, ScriptsAtWork
<1>3. theme[c] \in Nat \ {0}
  BY <1>1, <1>2 DEF JobsFit, TypesFit
<1> QED BY <1>1, <1>2, <1>3 DEF PresentFits, StepsFit, ScriptOf

(* No theme gets two files of a kind, or one without the one before it. *)
LEMMA TrailStays ==
  ASSUME FilesInv, MilestoneFits, TrailFits, PresentFits, FileNext
  PROVE  TrailFits'
<1>1. request' = request
  BY RequestsStay
<1> SUFFICES ASSUME NEW c \in Calls, NEW i \in Nat, Importing(c)
             PROVE  /\ \A m, n \in InboxOf(c, i)' : m = n
                    /\ \A m, n \in BacklogOf(c, i)' : m = n
                    /\ \A m, n \in SpecOf(c, i)' : m = n
                    /\ SpecOf(c, i)' # {} => BacklogOf(c, i)' # {}
                    /\ BacklogOf(c, i)' # {} => \E n \in InboxOf(c, i)' : ~inbox'[n].kept
                    /\ i = 0 \/ i > theme'[c] \/ milestone'.by # c => InboxOf(c, i)' = {}
  BY <1>1 DEF TrailFits, Importing
<1>2. /\ \A m, n \in InboxOf(c, i) : m = n
      /\ \A m, n \in BacklogOf(c, i) : m = n
      /\ \A m, n \in SpecOf(c, i) : m = n
      /\ SpecOf(c, i) # {} => BacklogOf(c, i) # {}
      /\ BacklogOf(c, i) # {} => \E n \in InboxOf(c, i) : ~inbox[n].kept
      /\ i = 0 \/ i > theme[c] \/ milestone.by # c => InboxOf(c, i) = {}
  BY DEF TrailFits
<1>3. BacklogsFit
  BY DEF FilesInv
<1>4. AtTheme(c) => milestone.by = c
  BY DEF MilestoneFits, AtTheme
<1>5. milestone.by = c => milestone'.by = c
  BY MilestoneIsKept, NobodyAssumption
<1>6. theme[c] \in Nat /\ (theme'[c] = theme[c] \/ theme'[c] = theme[c] + 1)
  BY ThemesAdvance DEF Enters
<1>7. /\ \A m, n \in InboxOf(c, i)' : m = n
      /\ i = 0 \/ i > theme'[c] \/ milestone'.by # c => InboxOf(c, i)' = {}
  <2>1. CASE SameInboxes(c, i)
    <3>1. InboxOf(c, i)' = InboxOf(c, i)
      BY <2>1 DEF SameInboxes
    <3>2. i = 0 \/ i > theme'[c] \/ milestone'.by # c => i = 0 \/ i > theme[c] \/ milestone.by # c
      BY <1>5, <1>6
    <3> QED BY <1>2, <3>1, <3>2
  <2>2. CASE i = theme[c] /\ NewInbox(c, i)
    <3>1. pc[c] = "captureCreate" /\ UNCHANGED Rest /\ InboxOf(c, i)' = InboxOf(c, i) \cup {InboxName(c)}
      BY <2>2 DEF NewInbox, CaptureCreate, At
    <3>2. AtTheme(c) /\ theme[c] # 0 /\ InboxHere(c, i) /\ stage[c] = "capture"
      BY <2>2, <3>1, AtWork DEF FileSteps, CaptureSteps
    <3>3. InboxOf(c, i) = {}
      BY <3>1, <3>2 DEF InboxHere
    <3>4. ~(i = 0 \/ i > theme'[c] \/ milestone'.by # c)
      BY <1>4, <1>5, <1>6, <2>2, <3>1, <3>2 DEF Rest
    <3> QED BY <3>1, <3>3, <3>4
  <2>3. CASE i = theme[c] /\ WholeInbox(c, i)
    <3>1. pc[c] = "captureFill" /\ UNCHANGED Rest /\ InboxOf(c, i)' = InboxOf(c, i)
      BY <2>3 DEF WholeInbox, CaptureFill, At
    <3>2. AtTheme(c) /\ theme[c] # 0
      BY <3>1, AtWork DEF FileSteps, CaptureSteps
    <3>3. ~(i = 0 \/ i > theme'[c] \/ milestone'.by # c)
      BY <1>4, <1>5, <1>6, <2>3, <3>1, <3>2 DEF Rest
    <3> QED BY <1>2, <3>1, <3>3
  <2> QED BY <2>1, <2>2, <2>3, InboxSteps
<1>8. /\ \A m, n \in BacklogOf(c, i)' : m = n
      /\ BacklogOf(c, i)' # {} => \E n \in InboxOf(c, i)' : ~inbox'[n].kept
  <2>1. (\E n \in InboxOf(c, i) : ~inbox[n].kept) => \E n \in InboxOf(c, i)' : ~inbox'[n].kept
    BY InboxesRemain
  <2>2. CASE SameBacklogs(c, i) \/ Rewritten(c, i)
    BY <1>2, <2>1, <2>2 DEF SameBacklogs, Rewritten
  <2>3. CASE i = theme[c] /\ NewBacklog(c, i)
    <3>1. pc[c] = "backlogCreate" /\ BacklogOf(c, i)' = BacklogOf(c, i) \cup {BacklogName(c)}
      BY <2>3 DEF NewBacklog, BacklogCreate, At
    <3>2. InboxHere(c, i) /\ BacklogHere(c, i) /\ stage[c] = "backlog"
      BY <2>3, <3>1, AtWork DEF FileSteps, BacklogSteps
    <3>3. BacklogOf(c, i) = {}
      BY <3>1, <3>2 DEF BacklogHere
    <3>4. \E n \in InboxOf(c, i) : ~inbox[n].kept
      BY <3>2 DEF InboxHere, Captured
    <3> QED BY <2>1, <3>1, <3>3, <3>4
  <2> QED BY <2>2, <2>3, ItemSteps
<1>9. /\ \A m, n \in SpecOf(c, i)' : m = n
      /\ SpecOf(c, i)' # {} => BacklogOf(c, i)' # {}
  <2>1. BacklogOf(c, i) # {} => BacklogOf(c, i)' # {}
    BY BacklogsRemain
  <2>2. CASE SameSpecs(c, i) \/ WrittenSpec(c, i)
    BY <1>2, <2>1, <2>2 DEF SameSpecs, WrittenSpec
  <2>3. CASE RemovedSpec(c, i)
    BY <1>2, <2>1, <2>3 DEF RemovedSpec
  <2>4. CASE MovedSpec(c, i)
    <3>1. PICK name \in SpecOf(c, i) : \E m : SpecOf(c, i)' = (SpecOf(c, i) \ {name}) \cup {m}
      BY <2>4 DEF MovedSpec
    <3>2. PICK moved : SpecOf(c, i)' = (SpecOf(c, i) \ {name}) \cup {moved}
      BY <3>1
    <3>3. SpecOf(c, i)' = {moved}
      BY <1>2, <3>2
    <3> QED BY <1>2, <2>1, <3>3
  <2>5. CASE i = theme[c] /\ NewSpec(c, i)
    <3>1. PICK name : pc[c] = "make" /\ SpecOf(c, i)' = SpecOf(c, i) \cup {name}
      BY <2>5 DEF NewSpec, MakePackage, At
    <3>2. AtTheme(c) /\ SpecHere(c, i) /\ stage[c] = "specify"
      BY <2>5, <3>1, AtWork DEF FileSteps, SpecifySteps
    <3>3. SpecOf(c, i) = {}
      BY <3>1, <3>2 DEF SpecHere
    <3>4. Filed(c) /\ Working(c)
      BY <3>2 DEF Filed, AtTheme, Working
    <3>5. BacklogName(c) \in DOMAIN backlog /\ backlog[BacklogName(c)].item = job[c].item
      BY <1>3, <3>4 DEF BacklogsFit, Has
    <3>6. job[c].item = <<c, i>>
      BY <2>5, <3>4, OwnItem
    <3>7. BacklogOf(c, i) # {}
      BY <3>5, <3>6 DEF BacklogOf
    <3> QED BY <2>1, <3>1, <3>3, <3>7
  <2> QED BY <2>2, <2>3, <2>4, <2>5, SpecSteps
<1> QED BY <1>7, <1>8, <1>9

(* The theme of an import as it goes on: it was at the same one, or comes to   *)
(* the next one, which has no files.                                           *)
LEMMA ThemesBegin ==
  ASSUME FilesInv, MilestoneFits, TrailFits, PresentFits, FileNext,
         NEW c \in Calls, Importing(c), stage'[c] \in ThemeStages, NEW i \in Nat, i = theme'[c]
  PROVE  \/ /\ Enters(c) /\ i # theme[c]
            /\ InboxOf(c, i) = {} /\ BacklogOf(c, i) = {} /\ SpecOf(c, i) = {}
         \/ /\ AtTheme(c) /\ i = theme[c] /\ InboxHere(c, i) /\ BacklogHere(c, i) /\ SpecHere(c, i)
            /\ Idles(c) \/ Waits(c) \/ Proceeds(c)
<1>1. ASSUME Enters(c)
      PROVE  i # theme[c] /\ InboxOf(c, i) = {} /\ BacklogOf(c, i) = {} /\ SpecOf(c, i) = {}
  <2>1. i > theme[c]
    BY <1>1, ThemesAdvance DEF Enters
  <2> QED BY <2>1, ThemesAdvance DEF TrailFits
<1>2. ASSUME Idles(c) \/ Waits(c) \/ Proceeds(c)
      PROVE  AtTheme(c) /\ i = theme[c]
  BY <1>2 DEF Idles, Waits, Proceeds, AtTheme
<1>3. ASSUME Finishes(c) \/ Prepares(c)
      PROVE  FALSE
  BY <1>3 DEF Finishes, Prepares, ThemeStages
<1> QED BY <1>1, <1>2, <1>3, ImportPaths DEF PresentFits

(* What a child at work does next. *)
LEMMA ChildSteps ==
  ASSUME FilesInv, FileNext, NEW c \in Calls, Waits(c), ScriptStep(c)
  PROVE  /\ pc[c] \in FileSteps
         /\ pc[c] \in CaptureSteps => stage[c] = "capture" /\ pc'[c] \in CaptureSteps \cup {"done"}
         /\ pc[c] \in BacklogSteps => stage[c] = "backlog" /\ pc'[c] \in BacklogSteps \cup {"done", "failed"}
         /\ pc[c] \in SpecifySteps => stage[c] = "specify" /\ pc'[c] \in SpecifySteps \cup {"done", "failed"}
         /\ ScriptOf(c) = stage[c]
<1>1. /\ FilesTypeOK /\ TypesFit /\ TriesFit /\ StepsFit /\ ScansFit /\ NumbersFit
  BY DEF FilesInv
<1>2. /\ \/ pc[c] \in CaptureSteps /\ pc'[c] \in CaptureSteps \cup {"done"}
         \/ pc[c] \in BacklogSteps /\ pc'[c] \in BacklogSteps \cup {"done", "failed"}
         \/ pc[c] \in SpecifySteps /\ pc'[c] \in SpecifySteps \cup {"done", "failed"}
  BY <1>1, ScriptMoves
<1>3. ScriptOf(c) = stage[c]
  BY DEF Waits, AtTheme, ScriptOf
<1> QED BY <1>1, <1>2, <1>3 DEF StepsFit, FileSteps, CaptureSteps, BacklogSteps, SpecifySteps

(* The Inbox of the present theme fits the stage. *)
LEMMA InboxStaysHere ==
  ASSUME FilesInv, MilestoneFits, TrailFits, PresentFits, FileNext,
         NEW c \in Calls, Importing(c), stage'[c] \in ThemeStages, NEW i \in Nat, i = theme'[c]
  PROVE  /\ stage'[c] = "capture" /\ pc'[c] \in {"second", "captureCreate"} => InboxOf(c, i)' = {}
         /\ pc'[c] = "captureFill" => inbox'[InboxName(c)'].kept = ~DevelopableAt(c, i)
         /\ (stage'[c] = "capture" /\ pc'[c] = "done") \/ stage'[c] # "capture" =>
              \E n \in InboxOf(c, i)' : inbox'[n].whole /\ inbox'[n].kept = ~DevelopableAt(c, i)
         /\ stage'[c] # "capture" => DevelopableAt(c, i)
<1>1. /\ FilesTypeOK /\ TypesFit /\ RequestsFit /\ StepsFit /\ JobsFit /\ InboxesFit
      /\ pc = [o \in Calls |-> pc[o]] /\ stage = [o \in Calls |-> stage[o]]
  BY DEF FilesInv, TypesFit
<1> DEFINE CapturedNext == \E n \in InboxOf(c, i)' : inbox'[n].whole /\ inbox'[n].kept = ~DevelopableAt(c, i)
<1>2. Captured(c, i) => CapturedNext
  <2> SUFFICES ASSUME Captured(c, i) PROVE CapturedNext
    OBVIOUS
  <2>1. PICK n \in InboxOf(c, i) : inbox[n].whole /\ inbox[n].kept = ~DevelopableAt(c, i)
    BY DEF Captured
  <2>2. n \in InboxOf(c, i)' /\ inbox'[n].kept = inbox[n].kept /\ inbox'[n].whole
    BY <2>1, InboxesRemain
  <2> QED BY <2>1, <2>2
<1>3. CASE Enters(c) /\ i # theme[c] /\ InboxOf(c, i) = {}
  <2>1. InboxOf(c, i)' = {}
    BY <1>3, InboxSteps DEF SameInboxes
  <2> QED BY <1>3, <2>1 DEF Enters
<1> SUFFICES ASSUME AtTheme(c), i = theme[c], InboxHere(c, i), Idles(c) \/ Waits(c) \/ Proceeds(c)
             PROVE  /\ stage'[c] = "capture" /\ pc'[c] \in {"second", "captureCreate"} => InboxOf(c, i)' = {}
                    /\ pc'[c] = "captureFill" => inbox'[InboxName(c)'].kept = ~DevelopableAt(c, i)
                    /\ (stage'[c] = "capture" /\ pc'[c] = "done") \/ stage'[c] # "capture" => CapturedNext
                    /\ stage'[c] # "capture" => DevelopableAt(c, i)
  BY <1>3, ThemesBegin
<1>4. pc[c] = "captureFill" => InboxName(c) \in InboxOf(c, i)
  <2> SUFFICES ASSUME pc[c] = "captureFill" PROVE InboxName(c) \in InboxOf(c, i)
    OBVIOUS
  <2>1. InboxName(c) \in DOMAIN inbox /\ inbox[InboxName(c)].item = job[c].item
    BY <1>1 DEF InboxesFit, Has
  <2>2. job[c].item = <<c, i>>
    BY OwnItem DEF Working
  <2> QED BY <2>1, <2>2 DEF InboxOf
<1>5. CASE pc'[c] # "captureFill" /\ pc'[c] # "done"
  <2>1. SameInboxes(c, i)
    BY <1>5, InboxSteps DEF NewInbox, WholeInbox
  <2>2. InboxOf(c, i)' = InboxOf(c, i)
    BY <2>1 DEF SameInboxes
  <2>3. CASE stage'[c] = "capture"
    <3>1. stage[c] = "capture"
      BY <2>3 DEF Idles, Waits, Proceeds
    <3>2. pc'[c] \in {"second", "captureCreate"} => pc[c] \in {"second", "captureCreate"}
      <4>1. CASE Idles(c)
        BY <4>1 DEF Idles
      <4>2. CASE Waits(c) /\ ScriptStep(c)
        <5>1. pc[c] \in CaptureSteps
          BY <1>1, <3>1, <4>2, ChildSteps DEF FileSteps
        <5>2. pc[c] = "captureFill" => pc'[c] = "done"
          <6>1. pc[c] = "captureFill" => CaptureFill(c)
            BY <4>2 DEF ScriptStep, ReadSecond, CaptureCreate, BacklogScan, BacklogCreate, BacklogFill, TakeLock,
               ScanFolder, MakePackage, ReleaseLock, WriteTemporary, RenameSpec, RemovePackage, At
          <6> QED BY <1>1, <6>1 DEF CaptureFill, Go
        <5> QED BY <5>1, <5>2 DEF CaptureSteps
      <4>3. CASE Waits(c) /\ ~ScriptStep(c)
        BY <4>3 DEF Waits
      <4>4. CASE Proceeds(c)
        BY <2>3, <4>4 DEF Proceeds
      <4> QED BY <4>1, <4>2, <4>3, <4>4
    <3> QED BY <1>5, <2>2, <2>3, <3>1, <3>2 DEF InboxHere
  <2>4. CASE stage'[c] # "capture"
    <3>1. stage[c] # "capture" \/ (InboxReturned(c) /\ DevelopableAt(c, i))
      BY <2>4 DEF Idles, Waits, Proceeds, BacklogReturned, WriteEvidence, SpecReturned, WriteDraft, OpenBacklog, Returned, Back
    <3>2. InboxReturned(c) => Back(c, "capture")
      BY DEF InboxReturned, Returned, Back, At
    <3> QED BY <1>2, <1>5, <2>4, <3>1, <3>2 DEF InboxHere
  <2> QED BY <2>3, <2>4
<1>6. CASE pc'[c] = "captureFill"
  <2>1. ~Proceeds(c)
    BY <1>6 DEF Proceeds
  <2>2. CASE Idles(c)
    <3>1. pc[c] = "captureFill" /\ InboxName(c)' = InboxName(c)
      BY <1>6, <2>2 DEF Idles, InboxName
    <3>2. inbox'[InboxName(c)].kept = inbox[InboxName(c)].kept
      BY <1>4, <3>1, InboxesRemain
    <3>3. stage'[c] = "capture"
      BY <1>1, <2>2, <3>1 DEF StepsFit, ScriptOf, CaptureSteps, AtTheme, Idles
    <3> QED BY <1>6, <3>1, <3>2, <3>3 DEF InboxHere
  <2>3. CASE Waits(c)
    <3>1. ScriptStep(c)
      BY <1>6, <2>3 DEF Waits
    <3>2. pc[c] \in CaptureSteps /\ stage[c] = "capture" /\ stage'[c] = "capture"
      BY <1>6, <2>3, <3>1, ChildSteps DEF FileSteps, CaptureSteps, BacklogSteps, SpecifySteps, Waits
    <3>3. CaptureCreate(c) /\ pc[c] = "captureCreate"
      <4>1. ReadSecond(c) \/ CaptureCreate(c) \/ CaptureFill(c)
        BY <3>1, <3>2 DEF ScriptStep, BacklogScan, BacklogCreate, BacklogFill, TakeLock,
           ScanFolder, MakePackage, ReleaseLock, WriteTemporary, RenameSpec, RemovePackage, At, CaptureSteps
      <4>2. ReadSecond(c) => pc'[c] = "captureCreate"
        BY <1>1 DEF ReadSecond, Go
      <4>3. CaptureFill(c) => pc'[c] = "done"
        BY <1>1 DEF CaptureFill, Go
      <4> QED BY <1>6, <4>1, <4>2, <4>3 DEF CaptureCreate, At
    <3> DEFINE made == [item |-> job[c].item, whole |-> FALSE, gaps |-> job[c].gaps, kept |-> job[c].kept]
    <3>4. inbox' = With(inbox, InboxName(c), made) /\ UNCHANGED <<my, job>>
      BY <1>6, <3>3 DEF CaptureCreate
    <3>5. inbox'[InboxName(c)].kept = job[c].kept
      <4>1. made.kept = job[c].kept
        OBVIOUS
      <4> HIDE DEF made
      <4> QED BY <3>4, <4>1 DEF With
    <3>6. InboxName(c)' = InboxName(c)
      BY <3>4 DEF InboxName
    <3>7. job[c] = Child(c, i, "capture")
      BY <1>1, <3>2 DEF JobsFit, ChildOf
    <3>8. job[c].kept = ~DevelopableAt(c, i)
      BY <3>7 DEF Child, DevelopableAt
    <3> QED BY <1>6, <3>2, <3>5, <3>6, <3>8
  <2> QED BY <2>1, <2>2, <2>3
<1>7. CASE pc'[c] = "done"
  <2>1. CASE stage[c] # "capture"
    <3>1. stage'[c] # "capture"
      BY <2>1 DEF Idles, Waits, Proceeds
    <3> QED BY <1>2, <1>7, <2>1, <3>1 DEF InboxHere
  <2>2. CASE stage[c] = "capture" /\ pc[c] = "done"
    <3>1. ~Waits(c)
      <4>1. CASE Waits(c) /\ ScriptStep(c)
        BY <2>2, <4>1, ChildSteps DEF FileSteps, CaptureSteps, BacklogSteps, SpecifySteps
      <4> QED BY <2>2, <4>1 DEF Waits
    <3>2. Idles(c) => stage'[c] = "capture"
      BY <2>2 DEF Idles
    <3>3. Proceeds(c) => InboxReturned(c) /\ DevelopableAt(c, i)
      BY <2>2 DEF Proceeds, BacklogReturned, WriteEvidence, SpecReturned, WriteDraft, OpenBacklog, Returned, Back
    <3>4. Captured(c, i)
      BY <2>2 DEF InboxHere, Returned, Back, At
    <3> QED BY <1>2, <1>7, <3>1, <3>2, <3>3, <3>4
  <2>3. CASE stage[c] = "capture" /\ pc[c] # "done"
    <3>1. Waits(c) /\ ScriptStep(c)
      <4>1. ~Idles(c)
        BY <1>7, <2>3 DEF Idles
      <4>2. ~Proceeds(c)
        BY <2>3 DEF Proceeds, InboxReturned, BacklogReturned, WriteEvidence, SpecReturned, WriteDraft, OpenBacklog,
                    Returned, Back, At
      <4> QED BY <1>7, <4>1, <4>2 DEF Waits
    <3>2. pc[c] \in CaptureSteps /\ stage'[c] = "capture"
      BY <2>3, <3>1, ChildSteps DEF FileSteps, Waits
    <3>3. CaptureFill(c) /\ pc[c] = "captureFill"
      <4>1. ReadSecond(c) \/ CaptureCreate(c) \/ CaptureFill(c)
        BY <3>1, <3>2 DEF ScriptStep, BacklogScan, BacklogCreate, BacklogFill, TakeLock,
           ScanFolder, MakePackage, ReleaseLock, WriteTemporary, RenameSpec, RemovePackage, At, CaptureSteps
      <4>2. ReadSecond(c) => pc'[c] = "captureCreate"
        BY <1>1 DEF ReadSecond, Go
      <4>3. ~CaptureCreate(c)
        BY <1>1, <1>7, <2>3 DEF CaptureCreate, Go
      <4> QED BY <1>7, <4>1, <4>2, <4>3 DEF CaptureFill, At
    <3>4. InboxName(c) \in InboxOf(c, i) /\ inbox[InboxName(c)].kept = ~DevelopableAt(c, i)
      BY <1>4, <3>3 DEF InboxHere
    <3>5. InboxName(c) \in InboxOf(c, i)' /\ inbox'[InboxName(c)].kept = inbox[InboxName(c)].kept
      BY <3>4, InboxesRemain
    <3>6. inbox'[InboxName(c)].whole
      <4>1. InboxName(c) \in DOMAIN inbox
        BY <3>4 DEF InboxOf
      <4>2. inbox[InboxName(c)] \in [item : Items, whole : BOOLEAN, gaps : SUBSET Fields, kept : BOOLEAN]
        BY <1>1, <4>1 DEF FilesTypeOK
      <4> QED BY <3>3, <4>1, <4>2 DEF CaptureFill
    <3> QED BY <1>7, <3>2, <3>4, <3>5, <3>6
  <2> QED BY <2>1, <2>2, <2>3
<1> QED BY <1>5, <1>6, <1>7

(* So does its backlog item, *)
LEMMA BacklogStaysHere ==
  ASSUME FilesInv, MilestoneFits, TrailFits, PresentFits, FileNext,
         NEW c \in Calls, Importing(c), stage'[c] \in ThemeStages, NEW i \in Nat, i = theme'[c]
  PROVE  /\ stage'[c] = "capture" \/ pc'[c] \in {"backlogScan", "backlogCreate"} => BacklogOf(c, i)' = {}
         /\ Filed(c)' => backlog'[BacklogName(c)'].gaps = Gaps(ThemesOf(c)[i]) \cap InboxFields
<1>1. /\ FilesTypeOK /\ TypesFit /\ RequestsFit /\ StepsFit /\ JobsFit /\ BacklogsFit
      /\ pc = [o \in Calls |-> pc[o]] /\ stage = [o \in Calls |-> stage[o]]
  BY DEF FilesInv, TypesFit
<1>2. CASE Enters(c) /\ i # theme[c] /\ BacklogOf(c, i) = {}
  <2>1. BacklogOf(c, i)' = {}
    BY <1>2, ItemSteps DEF SameBacklogs
  <2>2. request' = request
    BY RequestsStay
  <2>3. ~Filed(c)'
    BY <1>2, <2>2 DEF Enters, Filed, Returned, Back
  <2> QED BY <2>1, <2>3
<1> SUFFICES ASSUME AtTheme(c), i = theme[c], BacklogHere(c, i), Idles(c) \/ Waits(c) \/ Proceeds(c)
             PROVE  /\ stage'[c] = "capture" \/ pc'[c] \in {"backlogScan", "backlogCreate"} => BacklogOf(c, i)' = {}
                    /\ Filed(c)' => backlog'[BacklogName(c)'].gaps = Gaps(ThemesOf(c)[i]) \cap InboxFields
  BY <1>2, ThemesBegin
<1>3. ASSUME stage'[c] = "capture" \/ pc'[c] \in {"backlogScan", "backlogCreate"}
      PROVE  BacklogOf(c, i)' = {}
  <2>1. stage[c] = "capture" \/ pc[c] \in {"backlogScan", "backlogCreate"}
    <3>1. CASE Idles(c)
      BY <1>3, <3>1 DEF Idles
    <3>2. CASE Waits(c) /\ ~ScriptStep(c)
      BY <1>3, <3>2 DEF Waits
    <3>3. CASE Waits(c) /\ ScriptStep(c) /\ stage'[c] # "capture"
      <4>1. pc[c] \in BacklogSteps
        BY <1>3, <3>3, ChildSteps DEF FileSteps, CaptureSteps, BacklogSteps, SpecifySteps
      <4>2. pc[c] # "backlogFill"
        <5>1. pc[c] = "backlogFill" => BacklogFill(c)
          BY <3>3 DEF ScriptStep, ReadSecond, CaptureCreate, CaptureFill, BacklogScan, BacklogCreate, TakeLock,
             ScanFolder, MakePackage, ReleaseLock, WriteTemporary, RenameSpec, RemovePackage, At
        <5>2. BacklogFill(c) => pc'[c] = "done"
          BY <1>1 DEF BacklogFill, Go
        <5> QED BY <1>3, <3>3, <5>1, <5>2
      <4> QED BY <4>1, <4>2 DEF BacklogSteps
    <3>4. CASE Waits(c) /\ stage'[c] = "capture"
      BY <3>4 DEF Waits
    <3>5. CASE Proceeds(c)
      BY <1>3, <3>5 DEF Proceeds, InboxReturned, Returned, Back
    <3> QED BY <3>1, <3>2, <3>3, <3>4, <3>5
  <2>2. BacklogOf(c, i) = {}
    BY <2>1 DEF BacklogHere
  <2>3. ~NewBacklog(c, i)
    <3>1. NewBacklog(c, i) => pc[c] = "backlogCreate" /\ pc'[c] = "backlogFill" /\ stage'[c] = stage[c]
      BY DEF NewBacklog, BacklogCreate, At, Rest
    <3>2. pc[c] = "backlogCreate" => stage[c] = "backlog"
      BY <1>1 DEF StepsFit, BacklogSteps, ScriptOf, AtTheme
    <3> QED BY <1>3, <3>1, <3>2
  <2> QED BY <2>2, <2>3, ItemSteps DEF SameBacklogs, Rewritten
<1>4. ASSUME Filed(c)'
      PROVE  backlog'[BacklogName(c)'].gaps = Gaps(ThemesOf(c)[i]) \cap InboxFields
  <2>1. CASE BacklogCreate(c) /\ pc'[c] = "backlogFill"
    <3> DEFINE made == [item |-> job[c].item, text |-> "empty", gaps |-> job[c].gaps, spec |-> 0]
    <3>1. backlog' = With(backlog, BacklogName(c), made) /\ UNCHANGED <<my, job>> /\ pc[c] = "backlogCreate"
      BY <1>1, <2>1 DEF BacklogCreate, Go, NumberAgain, At
    <3>2. BacklogName(c)' = BacklogName(c)
      BY <3>1 DEF BacklogName
    <3>3. backlog'[BacklogName(c)].gaps = job[c].gaps
      <4>1. made.gaps = job[c].gaps
        OBVIOUS
      <4> HIDE DEF made
      <4> QED BY <3>1, <4>1 DEF With
    <3>4. stage[c] = "backlog"
      BY <1>1, <3>1 DEF StepsFit, BacklogSteps, ScriptOf, AtTheme
    <3>5. job[c] = Child(c, i, "backlog")
      BY <1>1, <3>4 DEF JobsFit, ChildOf
    <3>6. job[c].gaps = Gaps(ThemesOf(c)[i]) \cap InboxFields
      BY <3>5 DEF Child
    <3> QED BY <3>2, <3>3, <3>6
  <2>2. CASE Filed(c) /\ my'[c].entry = my[c].entry /\ job'[c].slug = job[c].slug /\ job'[c].item = job[c].item
    <3>1. BacklogName(c)' = BacklogName(c)
      BY <2>2 DEF BacklogName
    <3>2. BacklogName(c) \in BacklogOf(c, i)
      <4>1. BacklogName(c) \in DOMAIN backlog /\ backlog[BacklogName(c)].item = job[c].item
        BY <1>1, <2>2 DEF BacklogsFit, Has
      <4>2. job[c].item = <<c, i>>
        BY OwnItem DEF Working
      <4> QED BY <4>1, <4>2 DEF BacklogOf
    <3>3. backlog'[BacklogName(c)].gaps = backlog[BacklogName(c)].gaps
      <4>1. CASE SameBacklogs(c, i)
        BY <3>2, <4>1 DEF SameBacklogs
      <4>2. CASE NewBacklog(c, i)
        BY <3>2, <4>2 DEF NewBacklog
      <4>3. CASE Rewritten(c, i)
        BY <4>3 DEF Rewritten
      <4> QED BY <4>1, <4>2, <4>3, ItemSteps
    <3> QED BY <2>2, <3>1, <3>3 DEF BacklogHere
  <2> QED BY <1>4, <2>1, <2>2, FilingsBegin
<1> QED BY <1>3, <1>4

(* and its package. *)
LEMMA SpecStaysHere ==
  ASSUME FilesInv, MilestoneFits, TrailFits, PresentFits, FileNext,
         NEW c \in Calls, Importing(c), stage'[c] \in ThemeStages, NEW i \in Nat, i = theme'[c]
  PROVE  /\ stage'[c] \in {"capture", "backlog", "evidence"} \/ pc'[c] \in {"lock", "scan", "make"} =>
              SpecOf(c, i)' = {}
         /\ stage'[c] \in {"promote", "promotion"} =>
              \E n \in SpecOf(c, i)' : /\ n[2] = my'[c].number
                                       /\ specs'[n].text = "drafted" /\ specs'[n].gaps = Gaps(ThemesOf(c)[i])
<1>1. /\ FilesTypeOK /\ TypesFit /\ RequestsFit /\ StepsFit /\ JobsFit
      /\ pc = [o \in Calls |-> pc[o]] /\ stage = [o \in Calls |-> stage[o]]
  BY DEF FilesInv, TypesFit
<1>2. CASE Enters(c) /\ i # theme[c] /\ SpecOf(c, i) = {}
  <2>1. SpecOf(c, i)' = {}
    BY <1>2, SpecSteps DEF SameSpecs, MovedSpec
  <2> QED BY <1>2, <2>1 DEF Enters
<1> SUFFICES ASSUME AtTheme(c), i = theme[c], SpecHere(c, i), Idles(c) \/ Waits(c) \/ Proceeds(c)
             PROVE  /\ stage'[c] \in {"capture", "backlog", "evidence"} \/ pc'[c] \in {"lock", "scan", "make"} =>
                         SpecOf(c, i)' = {}
                    /\ stage'[c] \in {"promote", "promotion"} =>
                         \E n \in SpecOf(c, i)' : /\ n[2] = my'[c].number /\ specs'[n].text = "drafted"
                                                  /\ specs'[n].gaps = Gaps(ThemesOf(c)[i])
  BY <1>2, ThemesBegin
<1>3. ASSUME stage'[c] \in {"capture", "backlog", "evidence"} \/ pc'[c] \in {"lock", "scan", "make"}
      PROVE  SpecOf(c, i)' = {}
  <2>1. stage[c] \in {"capture", "backlog", "evidence"} \/ pc[c] \in {"lock", "scan", "make"}
    <3>1. CASE Idles(c)
      BY <1>3, <3>1 DEF Idles
    <3>2. CASE Waits(c) /\ ~ScriptStep(c)
      BY <1>3, <3>2 DEF Waits
    <3>3. CASE Waits(c) /\ ScriptStep(c) /\ stage'[c] \notin {"capture", "backlog", "evidence"}
      <4>1. pc[c] \in SpecifySteps /\ pc'[c] \in {"lock", "scan", "make"}
        BY <1>3, <3>3, ChildSteps DEF FileSteps, CaptureSteps, BacklogSteps, SpecifySteps
      <4>2. ReleaseLock(c) \/ WriteTemporary(c) \/ RenameSpec(c) \/ RemovePackage(c) =>
              pc'[c] \in {"failed", "temporary", "rename", "done"}
        BY <1>1 DEF ReleaseLock, WriteTemporary, RenameSpec, RemovePackage, Go
      <4>3. TakeLock(c) \/ ScanFolder(c) \/ MakePackage(c)
        BY <3>3, <4>1, <4>2 DEF ScriptStep, ReadSecond, CaptureCreate, CaptureFill, BacklogScan, BacklogCreate,
           BacklogFill, At, SpecifySteps
      <4> QED BY <4>3 DEF TakeLock, ScanFolder, MakePackage, At
    <3>4. CASE Waits(c) /\ stage'[c] \in {"capture", "backlog", "evidence"}
      BY <3>4 DEF Waits
    <3>5. CASE Proceeds(c)
      BY <1>3, <3>5 DEF Proceeds, InboxReturned, BacklogReturned, WriteEvidence, Returned, Back
    <3> QED BY <3>1, <3>2, <3>3, <3>4, <3>5
  <2>2. SpecOf(c, i) = {}
    BY <2>1 DEF SpecHere
  <2>3. ~NewSpec(c, i)
    <3>1. NewSpec(c, i) => pc[c] = "make" /\ pc'[c] = "unlock" /\ stage'[c] = stage[c]
      BY DEF NewSpec, MakePackage, At, Rest
    <3>2. pc[c] = "make" => stage[c] = "specify"
      BY <1>1 DEF StepsFit, SpecifySteps, ScriptOf, AtTheme
    <3> QED BY <1>3, <3>1, <3>2
  <2> QED BY <2>2, <2>3, SpecSteps DEF SameSpecs, MovedSpec, WrittenSpec, RemovedSpec
<1>4. ASSUME stage'[c] \in {"promote", "promotion"}
      PROVE  \E n \in SpecOf(c, i)' : /\ n[2] = my'[c].number /\ specs'[n].text = "drafted"
                                      /\ specs'[n].gaps = Gaps(ThemesOf(c)[i])
  <2>1. CASE Proceeds(c) /\ WriteDraft(c)
    <3>1. stage[c] = "draft" /\ UNCHANGED my
      BY <2>1 DEF WriteDraft
    <3>2. Drafting(c)
      BY <3>1 DEF Drafting
    <3> DEFINE name == PackageName(c)
               gaps == Gaps(ThemesOf(c)[i])
               half == [specs EXCEPT ![name].text = "drafted"]
    <3>3. name \in DOMAIN specs /\ specs[name].item = <<c, i>>
      BY <3>2, PackagesHaveAuthors
    <3>4. specs[name] \in [item : Authors, gaps : SUBSET Fields,
                           text : {"none", "temporary", "template", "empty", "drafted"}]
      BY <1>1, <3>3 DEF FilesTypeOK
    <3>5. specs' = [half EXCEPT ![name].gaps = gaps]
      BY <2>1 DEF WriteDraft
    <3>6. name[2] = my'[c].number
      BY <3>1 DEF PackageName
    <3> HIDE DEF name, gaps
    <3>7. /\ DOMAIN half = DOMAIN specs /\ half[name].item = <<c, i>> /\ half[name].text = "drafted"
          /\ half[name] \in [item : Authors, gaps : SUBSET Fields,
                             text : {"none", "temporary", "template", "empty", "drafted"}]
      BY <3>3, <3>4
    <3> HIDE DEF half
    <3>8. /\ DOMAIN specs' = DOMAIN specs /\ specs'[name].item = <<c, i>> /\ specs'[name].text = "drafted"
          /\ specs'[name].gaps = gaps
      BY <3>3, <3>5, <3>7
    <3>9. name \in SpecOf(c, i)'
      BY <3>3, <3>8 DEF SpecOf
    <3> QED BY <3>6, <3>8, <3>9 DEF gaps
  <2>2. CASE ~(Proceeds(c) /\ WriteDraft(c))
    <3>1. stage[c] \in {"promote", "promotion"} /\ pc[c] = "done" /\ my'[c] = my[c]
      <4>1. CASE Idles(c)
        BY <1>1, <1>4, <4>1 DEF Idles, StepsFit, AtTheme
      <4>2. CASE Waits(c)
        <5>1. stage[c] \in {"promote", "promotion"} /\ pc[c] = "done"
          BY <1>1, <1>4, <4>2 DEF Waits, StepsFit, AtTheme
        <5> QED BY <4>2, <5>1, ChildSteps DEF Waits, FileSteps, CaptureSteps, BacklogSteps, SpecifySteps
      <4>3. CASE Proceeds(c)
        BY <1>1, <1>4, <2>2, <4>3 DEF Proceeds, OpenBacklog, StepsFit, AtTheme
      <4> QED BY <4>1, <4>2, <4>3
    <3>2. PICK n \in SpecOf(c, i) : n[2] = my[c].number /\ specs[n].text = "drafted" /\ specs[n].gaps = Gaps(ThemesOf(c)[i])
      BY <3>1 DEF SpecHere
    <3>3. CASE SameSpecs(c, i)
      BY <3>1, <3>2, <3>3 DEF SameSpecs
    <3>4. CASE MovedSpec(c, i)
      <4>1. PICK name \in SpecOf(c, i) : \E m :
              /\ m[2] = name[2] /\ SpecOf(c, i)' = (SpecOf(c, i) \ {name}) \cup {m}
              /\ specs'[m] = specs[name]
        BY <3>4 DEF MovedSpec
      <4>2. PICK moved : /\ moved[2] = name[2] /\ SpecOf(c, i)' = (SpecOf(c, i) \ {name}) \cup {moved}
                         /\ specs'[moved] = specs[name]
        BY <4>1
      <4>3. name = n
        BY <3>2 DEF TrailFits
      <4> QED BY <3>1, <3>2, <4>2, <4>3
    <3>5. ~NewSpec(c, i) /\ ~WrittenSpec(c, i) /\ ~RemovedSpec(c, i)
      BY <1>4, <2>2, <3>1 DEF NewSpec, WrittenSpec, RemovedSpec, MakePackage, WriteTemporary, RenameSpec, SpecReturned,
         WriteDraft, RemovePackage, At, Returned, Back
    <3> QED BY <3>3, <3>4, <3>5, SpecSteps
  <2> QED BY <2>1, <2>2
<1> QED BY <1>3, <1>4

(* The files of the present theme fit the stage. *)
LEMMA PresentStays ==
  ASSUME FilesInv, MilestoneFits, TrailFits, PresentFits, FileNext
  PROVE  PresentFits'
<1>1. request' = request
  BY RequestsStay
<1> SUFFICES ASSUME NEW c \in Calls, NEW i \in Nat, Importing(c), stage'[c] \in ThemeStages, i = theme'[c]
             PROVE  InboxHere(c, i)' /\ BacklogHere(c, i)' /\ SpecHere(c, i)'
  BY <1>1 DEF PresentFits, AtTheme, Importing
<1>2. DevelopableAt(c, i)' = DevelopableAt(c, i) /\ ThemesOf(c)' = ThemesOf(c)
  BY <1>1 DEF DevelopableAt, ThemesOf, Source
<1>3. InboxHere(c, i)'
  BY <1>2, InboxStaysHere DEF InboxHere, Captured, Returned, Back, At
<1>4. BacklogHere(c, i)'
  BY <1>2, BacklogStaysHere DEF BacklogHere
<1>5. SpecHere(c, i)'
  BY <1>2, SpecStaysHere DEF SpecHere
<1> QED BY <1>3, <1>4, <1>5

(* A theme that is imported stays so. *)
LEMMA ImportedIsKept ==
  ASSUME FilesInv, FileNext, NEW c \in Calls, Importing(c), NEW i \in Nat,
         Imported(c, i), i # theme[c] \/ stage[c] = "done"
  PROVE  Imported(c, i)'
<1>1. TypesFit /\ StepsFit
  BY DEF FilesInv
<1>2. DevelopableAt(c, i)' = DevelopableAt(c, i)
  BY RequestsStay DEF DevelopableAt, ThemesOf, Source
<1>3. \E n \in InboxOf(c, i)' : inbox'[n].whole /\ inbox'[n].kept = ~DevelopableAt(c, i)
  <2>1. PICK n \in InboxOf(c, i) : inbox[n].whole /\ inbox[n].kept = ~DevelopableAt(c, i)
    BY DEF Imported, DevelopableAt
  <2>2. n \in InboxOf(c, i)' /\ inbox'[n].kept = inbox[n].kept /\ inbox'[n].whole
    BY <2>1, InboxesRemain
  <2> QED BY <2>1, <2>2
<1>4. SameBacklogs(c, i) /\ (SameSpecs(c, i) \/ MovedSpec(c, i))
  <2>1. stage[c] = "done" => pc[c] \notin FileSteps
    BY <1>1, ScriptsAtWork DEF AtTheme, ThemeStages
  <2>2. stage[c] = "done" => ~NewBacklog(c, i) /\ ~Rewritten(c, i)
    BY <2>1 DEF NewBacklog, Rewritten, BacklogCreate, BacklogFill, BacklogReturned, WriteEvidence, OpenBacklog,
                Promote, Returned, Back, At, FileSteps, BacklogSteps
  <2>3. stage[c] = "done" => ~NewSpec(c, i) /\ ~WrittenSpec(c, i) /\ ~RemovedSpec(c, i)
    BY <2>1 DEF NewSpec, WrittenSpec, RemovedSpec, MakePackage, WriteTemporary, RenameSpec, RemovePackage,
                SpecReturned, WriteDraft, Returned, Back, At, FileSteps, SpecifySteps
  <2> QED BY <2>2, <2>3, ItemSteps, SpecSteps
<1>5. ASSUME DevelopableAt(c, i)
      PROVE  \E b \in BacklogOf(c, i)', n \in SpecOf(c, i)' :
               /\ backlog'[b].text = "promoted" /\ specs'[n].text = "drafted"
               /\ backlog'[b].spec = n[2]
               /\ backlog'[b].gaps = specs'[n].gaps \cap InboxFields
  <2>1. PICK b \in BacklogOf(c, i), n \in SpecOf(c, i) :
               /\ backlog[b].text = "promoted" /\ specs[n].text = "drafted"
               /\ backlog[b].spec = n[2]
               /\ backlog[b].gaps = specs[n].gaps \cap InboxFields
    BY <1>5 DEF Imported, DevelopableAt
  <2>2. b \in BacklogOf(c, i)' /\ backlog'[b] = backlog[b]
    BY <1>4 DEF SameBacklogs
  <2>3. PICK m \in SpecOf(c, i)' : m[2] = n[2] /\ specs'[m] = specs[n]
    BY <1>4 DEF SameSpecs, MovedSpec
  <2> QED BY <2>1, <2>2, <2>3
<1> QED BY <1>2, <1>3, <1>5 DEF Imported, DevelopableAt

(* Whoever goes on from a theme has imported it. *)
LEMMA CompletedIsImported ==
  ASSUME FilesInv, PresentFits, FileNext, NEW c \in Calls, NEW i \in Nat,
         Completes(c), AtTheme(c), i = theme[c]
  PROVE  Imported(c, i)'
<1>1. FilesTypeOK /\ TypesFit /\ StepsFit /\ BacklogsFit
  BY DEF FilesInv
<1>2. InboxHere(c, i) /\ BacklogHere(c, i) /\ SpecHere(c, i)
  BY DEF PresentFits
<1>3. DevelopableAt(c, i)' = DevelopableAt(c, i)
  BY RequestsStay DEF DevelopableAt, ThemesOf, Source
<1>4. \E n \in InboxOf(c, i)' : inbox'[n].whole /\ inbox'[n].kept = ~DevelopableAt(c, i)
  <2>1. Captured(c, i)
    BY <1>2 DEF Completes, FillMilestone, InboxReturned, Promote, InboxHere, AtTheme, ThemeStages, Returned, Back, At
  <2>2. PICK n \in InboxOf(c, i) : inbox[n].whole /\ inbox[n].kept = ~DevelopableAt(c, i)
    BY <2>1 DEF Captured
  <2>3. n \in InboxOf(c, i)' /\ inbox'[n].kept = inbox[n].kept /\ inbox'[n].whole
    BY <2>2, InboxesRemain
  <2> QED BY <2>2, <2>3
<1>5. ASSUME DevelopableAt(c, i)
      PROVE  \E b \in BacklogOf(c, i)', n \in SpecOf(c, i)' :
               /\ backlog'[b].text = "promoted" /\ specs'[n].text = "drafted"
               /\ backlog'[b].spec = n[2]
               /\ backlog'[b].gaps = specs'[n].gaps \cap InboxFields
  <2>1. Promote(c) /\ stage[c] = "promotion"
    BY <1>5 DEF Completes, FillMilestone, Promote, AtTheme, ThemeStages
  <2> DEFINE name   == BacklogName(c)
             number == my[c].number
             half   == [backlog EXCEPT ![name].text = "promoted"]
             File   == [item : Items, text : {"empty", "captured", "evidenced", "promoted"},
                        gaps : SUBSET Fields, spec : 0 .. MaxNumber]
  <2>2. name \in DOMAIN backlog /\ backlog[name].item = <<c, i>>
    <3>1. Filed(c) /\ Working(c)
      BY <2>1 DEF Filed, AtTheme, Working
    <3>2. name \in DOMAIN backlog /\ backlog[name].item = job[c].item
      BY <1>1, <3>1 DEF BacklogsFit, Has
    <3> QED BY <3>1, <3>2, OwnItem
  <2>3. backlog[name] \in File
    BY <1>1, <2>2 DEF FilesTypeOK
  <2>4. backlog[name].gaps = Gaps(ThemesOf(c)[i]) \cap InboxFields
    BY <1>2, <2>1 DEF BacklogHere, Filed, AtTheme
  <2>5. backlog' = [half EXCEPT ![name].spec = number] /\ UNCHANGED specs
    BY <2>1 DEF Promote
  <2>6. PICK n \in SpecOf(c, i) : n[2] = number /\ specs[n].text = "drafted" /\ specs[n].gaps = Gaps(ThemesOf(c)[i])
    BY <1>2, <2>1 DEF SpecHere
  <2> HIDE DEF name, number
  <2>7. /\ DOMAIN half = DOMAIN backlog /\ half[name] \in File /\ half[name].item = <<c, i>>
        /\ half[name].text = "promoted" /\ half[name].gaps = backlog[name].gaps
    BY <2>2, <2>3
  <2> HIDE DEF half
  <2>8. /\ DOMAIN backlog' = DOMAIN backlog /\ backlog'[name].item = <<c, i>> /\ backlog'[name].text = "promoted"
        /\ backlog'[name].gaps = backlog[name].gaps /\ backlog'[name].spec = number
    BY <2>2, <2>5, <2>7
  <2>9. name \in BacklogOf(c, i)' /\ n \in SpecOf(c, i)'
    BY <2>2, <2>5, <2>8 DEF BacklogOf, SpecOf
  <2> QED BY <2>4, <2>5, <2>6, <2>8, <2>9
<1> QED BY <1>3, <1>4, <1>5 DEF Imported, DevelopableAt

(* The themes an import has been through are imported. *)
LEMMA PastStays ==
  ASSUME FilesInv, MilestoneFits, PresentFits, PastFits, FileNext
  PROVE  PastFits'
<1>1. request' = request
  BY RequestsStay
<1> SUFFICES ASSUME NEW c \in Calls, Importing(c)
             PROVE  /\ \A i \in 1 .. theme'[c] - 1 : Imported(c, i)'
                    /\ stage'[c] = "done" => \A i \in 1 .. Len(ThemesOf(c)) : Imported(c, i)'
  BY <1>1 DEF PastFits, Importing, ThemesOf, Source
<1>2. theme[c] \in Nat
  BY ThemesAdvance
<1>3. \A i \in 1 .. theme[c] - 1 : Imported(c, i)'
  BY <1>2, ImportedIsKept DEF PastFits
<1>4. ASSUME Completes(c), NEW i \in 1 .. theme[c]
      PROVE  Imported(c, i)'
  <2>1. CASE i = theme[c]
    <3>1. AtTheme(c)
      BY <1>4, <2>1 DEF Completes
    <3> QED BY <1>4, <2>1, <3>1, CompletedIsImported
  <2>2. CASE i # theme[c]
    BY <1>2, <1>3, <2>2
  <2> QED BY <2>1, <2>2
<1>5. CASE Idles(c)
  <2>1. theme'[c] = theme[c] /\ stage'[c] = stage[c]
    BY <1>5 DEF Idles
  <2>2. ASSUME stage[c] = "done", NEW i \in 1 .. Len(ThemesOf(c))
        PROVE  Imported(c, i)'
    <3>1. i \in Nat
      BY <2>2
    <3> QED BY <2>2, <3>1, ImportedIsKept DEF PastFits
  <2> QED BY <1>3, <2>1, <2>2
<1>6. CASE Waits(c) \/ Proceeds(c) \/ Prepares(c)
  <2>1. theme'[c] = theme[c]
    BY <1>6 DEF Waits, Proceeds, Prepares
  <2>2. stage'[c] # "done"
    BY <1>6 DEF Waits, Proceeds, Prepares, AtTheme, ThemeStages
  <2> QED BY <1>3, <2>1, <2>2
<1>7. CASE Enters(c)
  <2>1. theme'[c] = theme[c] + 1 /\ stage'[c] # "done" /\ Completes(c)
    BY <1>7 DEF Enters
  <2> QED BY <1>2, <1>4, <2>1
<1>8. CASE Finishes(c)
  <2>1. theme'[c] = theme[c] /\ theme[c] + 1 > Len(ThemesOf(c)) /\ Completes(c)
    BY <1>8 DEF Finishes
  <2>2. Len(ThemesOf(c)) \in Nat
    <3>1. stage[c] \notin {"source", "failed", "killed"}
      BY <2>1 DEF Completes, FillMilestone, AtTheme, ThemeStages
    <3>2. Source(c) \in Texts
      BY <3>1 DEF FilesInv, JobsFit
    <3> QED BY <3>2 DEF Texts, ThemesOf
  <2>3. 1 .. Len(ThemesOf(c)) \subseteq 1 .. theme[c]
    BY <1>2, <2>1, <2>2
  <2> QED BY <1>3, <1>4, <2>1, <2>3
<1> QED BY <1>5, <1>6, <1>7, <1>8, ImportPaths

(* At first no import has made anything. *)
LEMMA TrailInitially == Init => MilestoneFits /\ TrailFits /\ PresentFits /\ PastFits
<1> SUFFICES ASSUME Init PROVE MilestoneFits /\ TrailFits /\ PresentFits /\ PastFits
  OBVIOUS
<1>1. PICK s \in Scenarios : Start(s.runs)
  BY DEF Init
<1>2. /\ inbox = <<>> /\ backlog = <<>>
      /\ specs = [n \in Packages |-> [item |-> Nobody, text |-> "drafted", gaps |-> {}]]
      /\ stage = [c \in Calls |-> IF Importing(c) THEN "source" ELSE "done"]
      /\ theme = [c \in Calls |-> 0] /\ orphans = {}
  BY <1>1 DEF Start
<1>3. ASSUME NEW c \in Calls, Importing(c)
      PROVE  stage[c] = "source" /\ theme[c] = 0 /\ ~AtTheme(c)
  BY <1>2, <1>3 DEF AtTheme, ThemeStages
<1>4. ASSUME NEW c \in Calls, NEW i \in Nat
      PROVE  InboxOf(c, i) = {} /\ BacklogOf(c, i) = {} /\ SpecOf(c, i) = {}
  <2>1. <<c, i>> # Nobody
    BY NobodyAssumption DEF Items
  <2>2. DOMAIN inbox = {} /\ DOMAIN backlog = {}
    BY <1>2
  <2>3. \A n \in DOMAIN specs : specs[n].item = Nobody
    BY <1>2
  <2> QED BY <2>1, <2>2, <2>3 DEF InboxOf, BacklogOf, SpecOf
<1>5. MilestoneFits
  BY <1>3 DEF MilestoneFits, ThemeStages
<1>6. TrailFits
  BY <1>4 DEF TrailFits
<1>7. PresentFits
  BY <1>3 DEF PresentFits, AtTheme
<1>8. PastFits
  <2>1. 1 .. 0 - 1 = {}
    OBVIOUS
  <2>2. ASSUME NEW c \in Calls, Importing(c)
        PROVE  1 .. theme[c] - 1 = {} /\ stage[c] # "done"
    BY <1>3, <2>1, <2>2
  <2> QED BY <2>2 DEF PastFits
<1> QED BY <1>5, <1>6, <1>7, <1>8

(* Whatever runs beside it and wherever it stops: the files of an import fit   *)
(* its stage and its theme, and the themes it has been through are imported.   *)
THEOREM TrailHolds == Spec => []TrailInv
<1>1. Init => TrailInv
  BY FilesInitially, TrailInitially DEF TrailInv
<1>2. FilesInv /\ FilesInv' /\ TrailInv /\ [Next]_allVars => TrailInv'
  BY StepsAreFileSteps, MilestoneStays, TrailStays, PresentStays, PastStays DEF TrailInv
<1> QED BY <1>1, <1>2, FilesHold, PTL DEF Spec

(* A set whose members are all the same has at most one.                       *)
LEMMA AtMostOne ==
  ASSUME NEW S, \A m, n \in S : m = n
  PROVE  Cardinality(S) <= 1
<1>1. CASE S = {}
  BY <1>1, FS_EmptySet
<1>2. CASE S # {}
  <2>1. PICK m \in S : S = {m}
    BY <1>2
  <2>2. Cardinality({m}) = 1
    BY FS_Singleton
  <2> QED BY <2>1, <2>2
<1> QED BY <1>1, <1>2

(* An import leaves a trail that can be followed, at every moment and after    *)
(* every fault: nothing twice, no file without the one it comes from, every    *)
(* theme before the present one complete, and all of them at its end           *)
(* (main of importar_mvp.mjs).                                                 *)
THEOREM ImportsLeaveATrail == Spec => []ImportLeavesATrail
<1>1. TrailInv => ImportLeavesATrail
  <2> SUFFICES ASSUME TrailInv, NEW c \in Calls, Importing(c)
               PROVE  /\ \A i \in 0 .. 3 :
                           /\ milestone.by # c => InboxOf(c, i) = {}
                           /\ SpecOf(c, i) # {} => BacklogOf(c, i) # {}
                           /\ BacklogOf(c, i) # {} => \E n \in InboxOf(c, i) : ~inbox[n].kept
                           /\ Cardinality(InboxOf(c, i)) <= 1 /\ Cardinality(BacklogOf(c, i)) <= 1
                           /\ Cardinality(SpecOf(c, i)) <= 1
                      /\ \A i \in 1 .. theme[c] - 1 : Imported(c, i)
                      /\ stage[c] = "done" => \A i \in 1 .. Len(ThemesOf(c)) : Imported(c, i)
    BY DEF ImportLeavesATrail
  <2>1. TrailFits /\ PastFits
    BY DEF TrailInv
  <2>2. ASSUME NEW i \in Nat
        PROVE  /\ milestone.by # c => InboxOf(c, i) = {}
               /\ SpecOf(c, i) # {} => BacklogOf(c, i) # {}
               /\ BacklogOf(c, i) # {} => \E n \in InboxOf(c, i) : ~inbox[n].kept
               /\ Cardinality(InboxOf(c, i)) <= 1 /\ Cardinality(BacklogOf(c, i)) <= 1
               /\ Cardinality(SpecOf(c, i)) <= 1
    BY <2>1, AtMostOne DEF TrailFits
  <2>3. /\ \A i \in 1 .. theme[c] - 1 : Imported(c, i)
        /\ stage[c] = "done" => \A i \in 1 .. Len(ThemesOf(c)) : Imported(c, i)
    BY <2>1 DEF PastFits
  <2>4. 0 .. 3 \subseteq Nat
    OBVIOUS
  <2> QED BY <2>2, <2>3, <2>4
<1> QED BY <1>1, TrailHolds, PTL

-----------------------------------------------------------------------------
(* The documents that are built. *)

(* What a build writes; texts it can be told apart in, and those it leaves as  *)
(* they are.                                                                   *)
Mark         == "documentator"
Generated(v) == <<<<"generated", v>>>>
Clean(t)     == t \in Seq(Range(t)) /\ MarksInPairs(t, Mark)
Fits(t, v)   == Clean(t) /\ Merge(t, Mark, Generated(v)) = t

(* The least of one number. *)
LEMMA MinOfOne ==
  ASSUME NEW i \in Int
  PROVE  Min({i}) = i
BY DEF Min

(* What merge makes of a text with a pair of marks, or with none. *)
LEMMA MergedText ==
  ASSUME NEW S, NEW t \in Seq(S), MarksInPairs(t, Mark), NEW v
  PROVE  \E a \in 0 .. Len(t), z \in 0 .. Len(t) :
           /\ \A k \in 1 .. a : t[k] # Opens(Mark) /\ t[k] # Ends(Mark)
           /\ \A k \in Len(t) - z + 1 .. Len(t) : t[k] # Opens(Mark) /\ t[k] # Ends(Mark)
           /\ Merge(t, Mark, Generated(v)) =
                SubSeq(t, 1, a) \o Block(Mark, Generated(v)) \o SubSeq(t, Len(t) - z + 1, Len(t))
<1>1. DOMAIN t = 1 .. Len(t) /\ Len(t) \in Nat
  OBVIOUS
<1>2. CASE Where(t, Opens(Mark)) = {} /\ Where(t, Ends(Mark)) = {}
  <2>1. Merge(t, Mark, Generated(v)) = t \o Block(Mark, Generated(v))
    BY <1>2 DEF Merge, Appended
  <2>2. SubSeq(t, 1, Len(t)) = t
    OBVIOUS
  <2>3. SubSeq(t, Len(t) - 0 + 1, Len(t)) = <<>>
    BY <1>1
  <2>4. Block(Mark, Generated(v)) \in Seq({Opens(Mark), <<"generated", v>>, Ends(Mark)})
    BY DEF Block, Generated
  <2>5. t \o Block(Mark, Generated(v)) \o <<>> = t \o Block(Mark, Generated(v))
    <3> DEFINE U == S \cup {Opens(Mark), <<"generated", v>>, Ends(Mark)}
    <3>1. t \in Seq(U) /\ Block(Mark, Generated(v)) \in Seq(U)
      BY <2>4
    <3>2. t \o Block(Mark, Generated(v)) \in Seq(U)
      BY <3>1
    <3> HIDE DEF U
    <3> QED BY <3>2
  <2>6. \A k \in 1 .. Len(t) : t[k] # Opens(Mark) /\ t[k] # Ends(Mark)
    BY <1>1, <1>2 DEF Where
  <2>7. /\ \A k \in Len(t) - 0 + 1 .. Len(t) : t[k] # Opens(Mark) /\ t[k] # Ends(Mark)
        /\ Merge(t, Mark, Generated(v)) =
             SubSeq(t, 1, Len(t)) \o Block(Mark, Generated(v)) \o SubSeq(t, Len(t) - 0 + 1, Len(t))
    BY <1>1, <2>1, <2>2, <2>3, <2>5
  <2>8. Len(t) \in 0 .. Len(t) /\ 0 \in 0 .. Len(t)
    BY <1>1
  <2> QED BY <2>6, <2>7, <2>8
<1>3. CASE \E i, j \in DOMAIN t : i < j /\ Where(t, Opens(Mark)) = {i} /\ Where(t, Ends(Mark)) = {j}
  <2>1. PICK i, j \in DOMAIN t : i < j /\ Where(t, Opens(Mark)) = {i} /\ Where(t, Ends(Mark)) = {j}
    BY <1>3
  <2>2. Min({i}) = i /\ Min({j}) = j
    BY <1>1, MinOfOne
  <2>3. Merge(t, Mark, Generated(v)) = SubSeq(t, 1, i - 1) \o Block(Mark, Generated(v)) \o SubSeq(t, j + 1, Len(t))
    BY <2>1, <2>2 DEF Merge, Before, After
  <2>4. i - 1 \in 0 .. Len(t) /\ Len(t) - j \in 0 .. Len(t) /\ Len(t) - (Len(t) - j) + 1 = j + 1
    BY <1>1
  <2>5. \A k \in 1 .. Len(t) : k # i /\ k # j => t[k] # Opens(Mark) /\ t[k] # Ends(Mark)
    BY <1>1, <2>1 DEF Where
  <2>6. \A k \in 1 .. i - 1 : t[k] # Opens(Mark) /\ t[k] # Ends(Mark)
    BY <1>1, <2>1, <2>5
  <2>7. \A k \in j + 1 .. Len(t) : t[k] # Opens(Mark) /\ t[k] # Ends(Mark)
    BY <1>1, <2>1, <2>5
  <2> QED BY <2>3, <2>4, <2>6, <2>7
<1> QED BY <1>2, <1>3 DEF MarksInPairs

(* A text is the part that has its pieces. *)
LEMMA PartOf ==
  ASSUME NEW U, NEW r \in Seq(U), NEW s \in Seq(U), NEW n \in Nat, n + Len(s) <= Len(r),
         \A k \in 1 .. Len(s) : r[n + k] = s[k]
  PROVE  SubSeq(r, n + 1, n + Len(s)) = s
<1>1. PICK x : x = SubSeq(r, n + 1, n + Len(s))
  OBVIOUS
<1>2. Len(x) = Len(s)
  BY <1>1
<1>3. x \in Seq(U)
  BY <1>1
<1>4. \A k \in 1 .. Len(s) : x[k] = r[n + k]
  BY <1>1
<1> QED BY <1>1, <1>2, <1>3, <1>4, SeqEqual

(* A text made of three, and what can be said of it. *)
Glued(r, p, m, q) == r = p \o m \o q
Laid(U, r, p, m, q) ==
  /\ r \in Seq(U) /\ Len(r) = Len(p) + Len(m) + Len(q)
  /\ \A k \in 1 .. Len(p) : r[k] = p[k]
  /\ \A k \in 1 .. Len(m) : r[Len(p) + k] = m[k]
  /\ \A k \in 1 .. Len(q) : r[Len(p) + Len(m) + k] = q[k]
  /\ SubSeq(r, 1, Len(p)) = p
  /\ SubSeq(r, Len(p) + Len(m) + 1, Len(r)) = q

(* Three texts put together can be found again. *)
LEMMA Pieces ==
  ASSUME NEW U, NEW p \in Seq(U), NEW m \in Seq(U), NEW q \in Seq(U), NEW r, Glued(r, p, m, q)
  PROVE  Laid(U, r, p, m, q)
<1>1. /\ r \in Seq(U) /\ Len(r) = Len(p) + Len(m) + Len(q)
      /\ \A k \in 1 .. Len(p) : r[k] = p[k]
      /\ \A k \in 1 .. Len(m) : r[Len(p) + k] = m[k]
      /\ \A k \in 1 .. Len(q) : r[Len(p) + Len(m) + k] = q[k]
  <2>0. r = p \o m \o q
    BY DEF Glued
  <2>1. PICK h : h = p \o m
    OBVIOUS
  <2>2. h \in Seq(U)
    BY <2>1
  <2>3. Len(h) = Len(p) + Len(m)
    BY <2>1
  <2>4. \A k \in 1 .. Len(p) : h[k] = p[k]
    BY <2>1
  <2>5. \A k \in 1 .. Len(m) : h[Len(p) + k] = m[k]
    BY <2>1
  <2>6. r = h \o q
    BY <2>0, <2>1
  <2>7. r \in Seq(U) /\ Len(r) = Len(h) + Len(q)
    BY <2>2, <2>6
  <2>8. \A k \in 1 .. Len(h) : r[k] = h[k]
    BY <2>2, <2>6
  <2>9. \A k \in 1 .. Len(q) : r[Len(h) + k] = q[k]
    BY <2>2, <2>6
  <2>11. \A k \in 1 .. Len(p) : r[k] = p[k]
    BY <2>2, <2>3, <2>4, <2>8
  <2>12. \A k \in 1 .. Len(m) : r[Len(p) + k] = m[k]
    BY <2>2, <2>3, <2>5, <2>8
  <2> QED BY <2>3, <2>7, <2>9, <2>11, <2>12
<1>2. Len(p) \in Nat /\ Len(m) \in Nat /\ Len(q) \in Nat
  BY LenProperties
<1>3. SubSeq(r, 0 + 1, 0 + Len(p)) = p
  <2>1. 0 \in Nat /\ 0 + Len(p) <= Len(r) /\ \A k \in 1 .. Len(p) : r[0 + k] = p[k]
    BY <1>1, <1>2
  <2>2. r \in Seq(U)
    BY <1>1
  <2> QED BY <2>1, <2>2, PartOf, Zenon
<1>4. SubSeq(r, Len(p) + Len(m) + 1, Len(p) + Len(m) + Len(q)) = q
  <2>1. PICK n \in Nat : n = Len(p) + Len(m)
    BY <1>2
  <2>2. n + Len(q) <= Len(r) /\ \A k \in 1 .. Len(q) : r[n + k] = q[k]
    BY <1>1, <1>2, <2>1
  <2>3. r \in Seq(U)
    BY <1>1
  <2>4. SubSeq(r, n + 1, n + Len(q)) = q
    BY <2>2, <2>3, PartOf, Zenon
  <2> QED BY <2>1, <2>4, Zenon
<1>5. 0 + 1 = 1 /\ 0 + Len(p) = Len(p)
  BY <1>2
<1> QED BY <1>1, <1>3, <1>4, <1>5, Zenon DEF Laid

(* A document that has been built is clean, and building it again changes      *)
(* nothing.                                                                    *)
LEMMA MergeFits ==
  ASSUME NEW t, Clean(t), NEW v
  PROVE  Fits(Merge(t, Mark, Generated(v)), v)
<1> DEFINE m == Block(Mark, Generated(v))
           U == Range(t) \cup {Opens(Mark), <<"generated", v>>, Ends(Mark)}
<1>1. t \in Seq(Range(t)) /\ MarksInPairs(t, Mark)
  BY DEF Clean
<1>2. PICK a \in 0 .. Len(t), z \in 0 .. Len(t) :
        /\ \A k \in 1 .. a : t[k] # Opens(Mark) /\ t[k] # Ends(Mark)
        /\ \A k \in Len(t) - z + 1 .. Len(t) : t[k] # Opens(Mark) /\ t[k] # Ends(Mark)
        /\ Merge(t, Mark, Generated(v)) = SubSeq(t, 1, a) \o m \o SubSeq(t, Len(t) - z + 1, Len(t))
  BY <1>1, MergedText
<1> DEFINE p == SubSeq(t, 1, a)
           q == SubSeq(t, Len(t) - z + 1, Len(t))
           r == p \o m \o q
<1>3. m \in Seq(U) /\ Len(m) = 3 /\ m[1] = Opens(Mark) /\ m[2] = <<"generated", v>> /\ m[3] = Ends(Mark)
  BY DEF Block, Generated
<1>4. t \in Seq(U)
  BY <1>1
<1>5. /\ p \in Seq(U) /\ q \in Seq(U) /\ Len(p) = a /\ Len(q) = z
      /\ \A k \in 1 .. a : p[k] # Opens(Mark) /\ p[k] # Ends(Mark)
      /\ \A k \in 1 .. z : q[k] # Opens(Mark) /\ q[k] # Ends(Mark)
  <2> HIDE DEF U, m
  <2>1. /\ p \in Seq(U) /\ Len(p) = a /\ \A k \in 1 .. a : p[k] = t[k]
    BY <1>4
  <2>2. /\ q \in Seq(U) /\ Len(q) = z /\ \A k \in 1 .. z : q[k] = t[Len(t) - z + k]
    BY <1>4
  <2>3. \A k \in 1 .. z : Len(t) - z + k \in Len(t) - z + 1 .. Len(t)
    BY <1>4
  <2> QED BY <1>2, <2>1, <2>2, <2>3
<1> HIDE DEF m, U, p, q, r
<1>6. /\ r \in Seq(U) /\ Len(r) = a + 3 + z
      /\ \A k \in 1 .. a : r[k] = p[k]
      /\ r[a + 1] = Opens(Mark) /\ r[a + 2] = <<"generated", v>> /\ r[a + 3] = Ends(Mark)
      /\ \A k \in 1 .. z : r[a + 3 + k] = q[k]
      /\ SubSeq(r, 1, a) = p /\ SubSeq(r, a + 4, Len(r)) = q
  <2>1. Glued(r, p, m, q)
    BY DEF Glued, r
  <2>2. p \in Seq(U) /\ m \in Seq(U) /\ q \in Seq(U)
    BY <1>3, <1>5
  <2>3. Laid(U, r, p, m, q)
    BY <2>1, <2>2, Pieces, Zenon
  <2>4. a \in Nat /\ z \in Nat /\ Len(p) = a /\ Len(q) = z /\ Len(m) = 3
    BY <1>3, <1>4, <1>5
  <2>5. /\ r \in Seq(U) /\ Len(r) = a + 3 + z
        /\ \A k \in 1 .. a : r[k] = p[k]
        /\ \A k \in 1 .. 3 : r[a + k] = m[k]
        /\ \A k \in 1 .. z : r[a + 3 + k] = q[k]
        /\ SubSeq(r, 1, a) = p /\ SubSeq(r, a + 3 + 1, Len(r)) = q
    BY <2>3, <2>4, Zenon DEF Laid
  <2>6. a + 3 + 1 = a + 4
    BY <2>4
  <2> QED BY <1>3, <2>5, <2>6
<1>7. r = Merge(t, Mark, Generated(v))
  BY <1>2 DEF p, q, r
<1>8. Opens(Mark) # Ends(Mark) /\ <<"generated", v>> # Opens(Mark) /\ <<"generated", v>> # Ends(Mark)
  BY DEF Opens, Ends
<1>9. \A k \in 1 .. a + 3 + z : /\ r[k] = Opens(Mark) <=> k = a + 1
                                /\ r[k] = Ends(Mark) <=> k = a + 3
  <2> SUFFICES ASSUME NEW k \in 1 .. a + 3 + z
               PROVE  (r[k] = Opens(Mark) <=> k = a + 1) /\ (r[k] = Ends(Mark) <=> k = a + 3)
    OBVIOUS
  <2>1. Len(t) \in Nat
    BY <1>4
  <2>2. CASE k \in 1 .. a
    BY <1>5, <1>6, <2>1, <2>2
  <2>3. CASE k \in {a + 1, a + 2, a + 3}
    BY <1>6, <1>8, <2>1, <2>3
  <2>4. CASE k > a + 3
    <3>1. k - a - 3 \in 1 .. z /\ k = a + 3 + (k - a - 3)
      BY <2>1, <2>4
    <3>2. r[k] = q[k - a - 3]
      BY <1>6, <3>1
    <3> QED BY <1>5, <2>1, <2>4, <3>1, <3>2
  <2> QED BY <2>1, <2>2, <2>3, <2>4
<1>10. Where(r, Opens(Mark)) = {a + 1} /\ Where(r, Ends(Mark)) = {a + 3} /\ a + 1 < a + 3
       /\ a + 1 \in DOMAIN r /\ a + 3 \in DOMAIN r
  <2>1. DOMAIN r = 1 .. a + 3 + z /\ Len(t) \in Nat
    BY <1>4, <1>6
  <2> QED BY <1>9, <2>1 DEF Where
<1>11. MarksInPairs(r, Mark)
  BY <1>10 DEF MarksInPairs
<1>12. r \in Seq(Range(r))
  <2>1. r \in [1 .. Len(r) -> U] /\ Len(r) \in Nat /\ DOMAIN r = 1 .. Len(r)
    BY <1>6, LenProperties
  <2>2. r \in [1 .. Len(r) -> Range(r)]
    BY <2>1 DEF Range
  <2> QED BY <2>1, <2>2
<1>13. Merge(r, Mark, Generated(v)) = r
  <2>1. Min({a + 1}) = a + 1 /\ Min({a + 3}) = a + 3
    BY <1>4, MinOfOne
  <2>2. Before(r, Opens(Mark)) = p /\ After(r, Ends(Mark)) = q
    <3>1. (a + 1) - 1 = a /\ (a + 3) + 1 = a + 4
      BY <1>4
    <3> QED BY <1>6, <1>10, <2>1, <3>1 DEF Before, After
  <2> QED BY <1>10, <2>2 DEF Merge, m, r
<1> QED BY <1>7, <1>11, <1>12, <1>13 DEF Fits, Clean

-----------------------------------------------------------------------------
(* The runs that build. *)

Building(c) == request[c].script = "build"

(* What a run has dealt with already; the builds there are have read the same  *)
(* project as this one.                                                        *)
Dealt(c, i) == line[c] > i \/ pc[c] = "done"
Agreed(c)   == \A o \in Calls : Building(o) /\ pc[o] # "detect" => version[o] = version[c]

LinesFit ==
  /\ line \in [Calls -> Nat] /\ version = [c \in Calls |-> version[c]] /\ text = [c \in Calls |-> text[c]]
  /\ doc = [d \in Docs |-> doc[d]]
  /\ \A c \in Calls : Contextual(c) => /\ line[c] \in 1 .. Len(Plan(request[c]))
                                       /\ pc[c] = "detect" => line[c] = 1

(* Documents that are built are clean, and so is what a build writes.          *)
TextsFit ==
  /\ \A i \in 1 .. 2 : Clean(doc[Targets[i]])
  /\ \A c \in Calls : Contextual(c) /\ pc[c] \in {"write", "fill"} =>
       request[c].script # "check" /\ (Building(c) => Fits(text[c], version[c]))

(* What a build has dealt with is up to date, if the builds agree.             *)
BuiltFit ==
  \A c \in Calls : \A i \in 1 .. 2 :
    Building(c) /\ Agreed(c) /\ Dealt(c, i) /\ Whole(Targets[i]) => Fits(doc[Targets[i]], version[c])

BuildInv == FilesInv /\ LinesFit /\ TextsFit /\ BuiltFit

(* What there is to write: builds and checks go through the documents that are *)
(* built, the other scripts never touch them.                                  *)
LEMMA PlanFits ==
  ASSUME NEW c \in Calls, Contextual(c)
  PROVE  /\ Len(Plan(request[c])) \in Nat \ {0}
         /\ request[c].script \in {"build", "check"} =>
              /\ Len(Plan(request[c])) = 2
              /\ \A k \in 1 .. 2 : Plan(request[c])[k] = Write(Targets[k], "block", Mark)
         /\ request[c].script \notin {"build", "check"} =>
              \A k \in 1 .. Len(Plan(request[c])) : \A i \in 1 .. 2 : Plan(request[c])[k].doc # Targets[i]
<1> DEFINE Untouched == Docs \ {"docs/README.md", "PACKAGES.md"}
           Ways == {"block", "stack", "register", "rule", "create", "speckit"}
           Labels == {"database", "stack", "conversation", "rules", "template", "speckit", "framework"}
           U == {w \in [doc : Untouched, how : Ways, block : Labels] : \A i \in 1 .. 2 : w.doc # Targets[i]}
           P == Plan(request[c])
<1>1. CASE request[c].script \in {"build", "check"}
  <2>1. P = [i \in DOMAIN Targets |-> Write(Targets[i], "block", "documentator")]
    BY <1>1 DEF Plan
  <2>2. DOMAIN Targets = 1 .. 2
    BY DEF Targets
  <2>3. Len(P) = 2 /\ \A k \in 1 .. 2 : P[k] = Write(Targets[k], "block", Mark)
    BY <2>1, <2>2 DEF Mark
  <2> QED BY <1>1, <2>3
<1>2. ASSUME P \in Seq(U), Len(P) # 0, request[c].script \notin {"build", "check"}
      PROVE  Len(P) \in Nat \ {0} /\ \A k \in 1 .. Len(P) : \A i \in 1 .. 2 : P[k].doc # Targets[i]
  <2> HIDE DEF P
  <2>1. \A k \in 1 .. Len(P) : P[k] \in U
    BY <1>2
  <2>2. Len(P) \in Nat \ {0}
    BY <1>2
  <2> QED BY <2>1, <2>2
<1>3. Targets[1] = "docs/README.md" /\ Targets[2] = "PACKAGES.md"
  BY DEF Targets
<1>4. \A d \in Untouched, how \in Ways, block \in Labels : Write(d, how, block) \in U
  BY <1>3 DEF Write
<1> HIDE DEF U
<1>5. CASE request[c].script \in {"database", "stack", "register", "rule"}
  <2>1. \/ P = <<Write("DATABASE.md", "block", "database")>>
        \/ P = <<Write("STACK.md", "stack", "stack")>>
        \/ P = <<Write("DATABASE.md", "register", "conversation")>>
        \/ P = <<Write("RULES.md", "rule", "rules")>>
    BY <1>5 DEF Plan
  <2>2. /\ Write("DATABASE.md", "block", "database") \in U /\ Write("STACK.md", "stack", "stack") \in U
        /\ Write("DATABASE.md", "register", "conversation") \in U /\ Write("RULES.md", "rule", "rules") \in U
    BY <1>4 DEF Docs
  <2> HIDE DEF P
  <2>3. \A w \in U : <<w>> \in Seq(U)
    OBVIOUS
  <2>4. P \in Seq(U) /\ Len(P) # 0
    <3>1. P \in Seq(U)
      BY <2>1, <2>2, <2>3, Zenon
    <3>2. \A w : Len(<<w>>) # 0
      OBVIOUS
    <3> QED BY <2>1, <3>1, <3>2, Zenon
  <2>5. request[c].script \notin {"build", "check"}
    BY <1>5
  <2> QED BY <1>2, <2>4, <2>5 DEF P
<1>6. CASE request[c].script = "setup"
  <2> DEFINE p == [i \in DOMAIN Templates |-> Write(Templates[i], "create", "template")]
             m == IF request[c].constitution THEN <<Write("SPECKIT.md", "speckit", "speckit")>> ELSE <<>>
             q == <<Write("AGENTS.md", "block", "framework")>>
  <2>1. P = p \o m \o q
    BY <1>6 DEF Plan
  <2>2. p \in Seq(U)
    <3>1. \A i \in DOMAIN Templates : Write(Templates[i], "create", "template") \in U
      <4>1. \A i \in DOMAIN Templates : Templates[i] \in Untouched
        BY DEF Templates, Docs
      <4> QED BY <1>4, <4>1
    <3>2. DOMAIN Templates = 1 .. 3
      BY DEF Templates
    <3> QED BY <3>1, <3>2
  <2>3. m \in Seq(U) /\ q \in Seq(U)
    <3>1. Write("SPECKIT.md", "speckit", "speckit") \in U /\ Write("AGENTS.md", "block", "framework") \in U
      BY <1>4 DEF Docs
    <3> QED BY <3>1
  <2> HIDE DEF P, p, m, q
  <2>4. Glued(P, p, m, q)
    BY <2>1 DEF Glued
  <2>5. Laid(U, P, p, m, q)
    BY <2>2, <2>3, <2>4, Pieces, Zenon
  <2>6. Len(p) \in Nat /\ Len(m) \in Nat /\ Len(q) = 1
    BY <2>2, <2>3 DEF q
  <2>7. P \in Seq(U) /\ Len(P) # 0
    BY <2>5, <2>6 DEF Laid
  <2>8. request[c].script \notin {"build", "check"}
    BY <1>6
  <2> QED BY <1>2, <2>7, <2>8 DEF P
<1> QED BY <1>1, <1>5, <1>6 DEF Contextual, Scripts

(* What a run writes now. *)
LEMMA NowFits ==
  ASSUME LinesFit, NEW c \in Calls, Contextual(c)
  PROVE  /\ line[c] \in Nat /\ Len(Plan(request[c])) \in Nat /\ line[c] \in 1 .. Len(Plan(request[c]))
         /\ request[c].script \in {"build", "check"} =>
              Len(Plan(request[c])) = 2 /\ line[c] \in 1 .. 2 /\ Now(c) = Write(Targets[line[c]], "block", Mark)
         /\ request[c].script \notin {"build", "check"} => \A i \in 1 .. 2 : Now(c).doc # Targets[i]
<1>1. line[c] \in 1 .. Len(Plan(request[c])) /\ line[c] \in Nat
  BY DEF LinesFit
<1>2. Now(c) = Plan(request[c])[line[c]]
  BY DEF Now
<1> QED BY <1>1, <1>2, PlanFits

(* The documents that are built are two, and among those there are.            *)
LEMMA TargetsAreDocs == \A i \in 1 .. 2 : Targets[i] \in Docs /\ \A j \in 1 .. 2 : i # j => Targets[i] # Targets[j]
BY DEF Targets, Docs

(* A step is one of a run that keeps documents, a kill, or leaves these runs   *)
(* and the documents alone.                                                    *)
LEMMA DocumentSteps ==
  ASSUME FilesInv, [Next]_allVars
  PROVE  \/ \E a \in Calls : ContextStep(a) /\ \A o \in Calls \ {a} : pc'[o] = pc[o]
         \/ \E a \in Calls : KillRun(a) /\ pc'[a] = "killed" /\ \A o \in Calls \ {a} : pc'[o] = pc[o]
         \/ /\ UNCHANGED <<doc, there, line, version, text, first, damaged>>
            /\ \A o \in Calls : Contextual(o) => pc'[o] = pc[o]
<1> DEFINE Apart == /\ UNCHANGED <<doc, there, line, version, text, first, damaged>>
                    /\ \A o \in Calls : Contextual(o) => pc'[o] = pc[o]
<1>1. /\ FilesTypeOK /\ TypesFit /\ RequestsFit /\ StepsFit /\ TriesFit /\ JobsFit /\ ScansFit /\ NumbersFit
      /\ pc = [o \in Calls |-> pc[o]]
  BY DEF FilesInv, TypesFit
<1>2. ASSUME NEW a \in Calls, ScriptStep(a), UNCHANGED contextVars  PROVE Apart
  <2>1. pc[a] \in FileSteps /\ \A o \in Calls \ {a} : pc'[o] = pc[o]
    BY <1>1, <1>2, ScriptMoves DEF FileSteps
  <2>2. ~Contextual(a)
    BY <1>1, <2>1, ScriptsAtWork
  <2> QED BY <1>2, <2>1, <2>2 DEF contextVars
<1>3. ASSUME NEW a \in Calls, ImportStep(a), UNCHANGED contextVars  PROVE Apart
  <2>1. Importing(a) /\ \A o \in Calls \ {a} : pc'[o] = pc[o]
    BY <1>1, <1>3, ImportMoves DEF Others
  <2>2. ~Contextual(a)
    BY <2>1 DEF Importing, Contextual, Scripts
  <2> QED BY <1>3, <2>1, <2>2 DEF contextVars
<1>4. ASSUME NEW a \in Calls, ContextStep(a)  PROVE \A o \in Calls \ {a} : pc'[o] = pc[o]
  BY <1>1, <1>4, ContextsPass DEF Passing, Go
<1>5. ASSUME NEW a \in Calls, KillRun(a)
      PROVE  Apart \/ (pc'[a] = "killed" /\ \A o \in Calls \ {a} : pc'[o] = pc[o])
  <2>1. CASE Go(a, "killed")
    BY <1>1, <2>1 DEF Go
  <2>2. CASE UNCHANGED pc /\ Awaits(a)
    <3>1. Importing(a) /\ ~Contextual(a)
      BY <1>1, <2>2 DEF StepsFit, Awaits, Importing, Contextual, Scripts
    <3>2. {d \in Docs : InStep(a, d) /\ At(a, "fill")} = {}
      BY <3>1 DEF InStep
    <3>3. UNCHANGED <<doc, there, line, version, text, first, damaged>>
      BY <1>5, <3>2 DEF KillRun
    <3> QED BY <2>2, <3>3
  <2> QED BY <1>5, <2>1, <2>2 DEF KillRun, Kill
<1>6. ASSUME Environment, UNCHANGED contextVars  PROVE Apart
  <2>1. ASSUME NEW a \in Calls, ImportWriteFails(a)  PROVE Apart
    BY <1>6, <2>1 DEF ImportWriteFails, contextVars
  <2>2. ASSUME NEW a \in Calls, WriteFails(a)  PROVE Apart
    <3>1. pc[a] \in FileSteps /\ \A o \in Calls \ {a} : pc'[o] = pc[o]
      BY <1>1, <2>2 DEF WriteFails, Go, FileSteps, CaptureSteps, BacklogSteps, SpecifySteps
    <3>2. ~Contextual(a)
      BY <1>1, <3>1, ScriptsAtWork
    <3> QED BY <1>6, <3>1, <3>2 DEF contextVars
  <2>3. ASSUME NEW name \in DOMAIN specs, Transition(name)  PROVE Apart
    BY <1>6, <2>3 DEF Transition, contextVars
  <2> QED BY <1>6, <2>1, <2>2, <2>3 DEF Environment
<1>7. ASSUME Develop  PROVE Apart
  BY <1>7 DEF Develop, vars, fileVars
<1>8. ASSUME UNCHANGED allVars  PROVE Apart
  BY <1>8 DEF allVars, vars, fileVars, contextVars
<1> HIDE DEF Apart
<1>9. ASSUME NEW a \in Calls, Step(a)
      PROVE  Apart \/ (ContextStep(a) /\ \A o \in Calls \ {a} : pc'[o] = pc[o])
  BY <1>2, <1>3, <1>4, <1>9 DEF Step, Script
<1>10. ASSUME Over  PROVE Apart
  BY <1>8, <1>10 DEF Over
<1>11. CASE \E a \in Calls : Step(a)
  BY <1>9, <1>11 DEF Apart
<1>12. CASE \E a \in Calls : KillRun(a)
  BY <1>5, <1>12 DEF Apart
<1>13. \/ \E a \in Calls : Step(a)
       \/ \E a \in Calls : KillRun(a)
       \/ Apart
  BY <1>6, <1>7, <1>8, <1>10 DEF Next
<1> QED BY <1>11, <1>12, <1>13 DEF Apart

(* Where a run goes from a document it is through with.                        *)
LEMMA Advancing ==
  ASSUME FilesInv, LinesFit, NEW a \in Calls, Contextual(a), NEW found, Advance(a, found)
  PROVE  /\ line' \in [Calls -> Nat] /\ \A o \in Calls \ {a} : line'[o] = line[o]
         /\ \/ line'[a] = line[a] + 1 /\ line'[a] <= Len(Plan(request[a])) /\ pc'[a] = "open"
            \/ line'[a] = line[a] /\ line[a] = Len(Plan(request[a])) /\ pc'[a] \in {"done", "failed"}
<1>1. pc = [o \in Calls |-> pc[o]]
  BY DEF FilesInv, TypesFit
<1>2. line \in [Calls -> Nat] /\ Len(Plan(request[a])) \in Nat /\ line[a] \in 1 .. Len(Plan(request[a]))
  BY NowFits DEF LinesFit
<1> QED BY <1>1, <1>2 DEF Advance, Go

(* A run that detects the project has dealt with nothing yet.                  *)
LEMMA DetectKeeps ==
  ASSUME BuildInv, NEW a \in Calls, Detect(a), \A o \in Calls \ {a} : pc'[o] = pc[o], UNCHANGED request
  PROVE  LinesFit' /\ TextsFit' /\ BuiltFit'
<1> USE DEF BuildInv
<1>1. /\ Contextual(a) /\ pc[a] = "detect" /\ pc'[a] = "open" /\ UNCHANGED <<doc, line, text, damaged>>
      /\ version' = [version EXCEPT ![a] = project]
  BY DEF Detect, At, Go, FilesInv, TypesFit
<1>2. line \in [Calls -> Nat] /\ line[a] = 1 /\ version = [c \in Calls |-> version[c]]
  BY <1>1 DEF LinesFit
<1>3. \A o \in Calls \ {a} : version'[o] = version[o]
  BY <1>1, <1>2
<1>4. LinesFit'
  <2>1. version' = [c \in Calls |-> version'[c]]
    BY <1>1, <1>2
  <2>2. \A c \in Calls : Contextual(c)' => /\ line'[c] \in 1 .. Len(Plan(request'[c]))
                                           /\ pc'[c] = "detect" => line'[c] = 1
    BY <1>1 DEF LinesFit, Contextual
  <2> QED BY <1>1, <2>1, <2>2 DEF LinesFit
<1>5. TextsFit'
  <2>1. \A c \in Calls : Contextual(c)' /\ pc'[c] \in {"write", "fill"} =>
          request'[c].script # "check" /\ (Building(c)' => Fits(text'[c], version'[c]))
    BY <1>1, <1>3 DEF TextsFit, Contextual, Building
  <2>2. \A i \in 1 .. 2 : Clean(doc'[Targets[i]])
    BY <1>1 DEF TextsFit
  <2> QED BY <2>1, <2>2 DEF TextsFit
<1>6. BuiltFit'
  <2> SUFFICES ASSUME NEW c \in Calls, NEW i \in 1 .. 2,
                      Building(c)', Agreed(c)', Dealt(c, i)', Whole(Targets[i])'
               PROVE  Fits(doc'[Targets[i]], version'[c])
    BY DEF BuiltFit
  <2>1. c # a /\ Dealt(c, i)
    BY <1>1, <1>2 DEF Dealt
  <2>2. Building(c) /\ version'[c] = version[c]
    BY <1>3, <2>1 DEF Building
  <2>3. Agreed(c)
    BY <1>1, <1>3, <2>2 DEF Agreed, Building
  <2>4. Whole(Targets[i])
    BY <1>1 DEF Whole, InStep, At, Contextual, Now
  <2>5. Fits(doc[Targets[i]], version[c])
    BY <2>1, <2>2, <2>3, <2>4 DEF BuiltFit
  <2> QED BY <1>1, <2>2, <2>5
<1> QED BY <1>4, <1>5, <1>6

(* A run that is killed leaves what it was filling damaged.                    *)
LEMMA KillKeeps ==
  ASSUME BuildInv, NEW a \in Calls, KillRun(a), pc'[a] = "killed",
         \A o \in Calls \ {a} : pc'[o] = pc[o], UNCHANGED request
  PROVE  LinesFit' /\ TextsFit' /\ BuiltFit'
<1> USE DEF BuildInv
<1>1. /\ UNCHANGED <<doc, line, version, text>>
      /\ damaged' = damaged \cup {d \in Docs : InStep(a, d) /\ At(a, "fill")}
  BY DEF KillRun
<1>2. LinesFit'
  BY <1>1 DEF LinesFit, Contextual
<1>3. TextsFit'
  BY <1>1 DEF TextsFit, Contextual, Building
<1>4. BuiltFit'
  <2> SUFFICES ASSUME NEW c \in Calls, NEW i \in 1 .. 2,
                      Building(c)', Agreed(c)', Dealt(c, i)', Whole(Targets[i])'
               PROVE  Fits(doc'[Targets[i]], version'[c])
    BY DEF BuiltFit
  <2>1. Building(c) /\ Dealt(c, i)
    BY <1>1 DEF Building, Dealt
  <2>2. Agreed(c)
    BY <1>1 DEF Agreed, Building
  <2>3. Whole(Targets[i])
    <3>1. ~(InStep(a, Targets[i]) /\ At(a, "fill"))
      BY <1>1, TargetsAreDocs DEF Whole
    <3>2. \A o \in Calls \ {a} : ~(InStep(o, Targets[i]) /\ At(o, "fill"))
      BY <1>1 DEF Whole, InStep, At, Contextual, Now
    <3> QED BY <1>1, <3>1, <3>2 DEF Whole
  <2>4. Fits(doc[Targets[i]], version[c])
    BY <2>1, <2>2, <2>3 DEF BuiltFit
  <2> QED BY <1>1, <2>4
<1> QED BY <1>2, <1>3, <1>4

(* What other scripts and people do changes nothing here.                      *)
LEMMA OthersKeep ==
  ASSUME BuildInv, UNCHANGED <<doc, line, version, text, damaged, request>>,
         \A o \in Calls : Contextual(o) => pc'[o] = pc[o]
  PROVE  LinesFit' /\ TextsFit' /\ BuiltFit'
<1> USE DEF BuildInv
<1>1. \A o \in Calls : Building(o) => Contextual(o)
  BY DEF Building, Contextual, Scripts
<1>2. LinesFit'
  BY DEF LinesFit, Contextual
<1>3. TextsFit'
  BY DEF TextsFit, Contextual, Building
<1>4. BuiltFit'
  <2> SUFFICES ASSUME NEW c \in Calls, NEW i \in 1 .. 2,
                      Building(c)', Agreed(c)', Dealt(c, i)', Whole(Targets[i])'
               PROVE  Fits(doc'[Targets[i]], version'[c])
    BY DEF BuiltFit
  <2>1. Building(c) /\ Dealt(c, i)
    BY <1>1 DEF Building, Dealt
  <2>2. Agreed(c)
    BY <1>1 DEF Agreed, Building
  <2>3. Whole(Targets[i])
    BY DEF Whole, InStep, At, Contextual, Now
  <2>4. Fits(doc[Targets[i]], version[c])
    BY <2>1, <2>2, <2>3 DEF BuiltFit
  <2> QED BY <2>4
<1> QED BY <1>2, <1>3, <1>4

(* A run that reads a document goes on to write it, or has dealt with it as it *)
(* is.                                                                         *)
LEMMA OpenKeeps ==
  ASSUME BuildInv, NEW a \in Calls, Open(a), \A o \in Calls \ {a} : pc'[o] = pc[o], UNCHANGED request
  PROVE  LinesFit' /\ TextsFit' /\ BuiltFit'
<1> USE DEF BuildInv
<1> DEFINE d == Now(a).doc
           new == Updated(a, doc[d])
           Writes == /\ ~(AlreadyThere(a) \/ NothingNew(a, new)) /\ request[a].script # "check"
                     /\ text' = [text EXCEPT ![a] = new] /\ pc'[a] = "write" /\ line' = line
           Leaves == /\ AlreadyThere(a) \/ NothingNew(a, new) \/ request[a].script = "check"
                     /\ text' = text /\ \E found : Advance(a, found)
           Fails  == Now(a).how = "speckit" /\ pc'[a] = "failed" /\ line' = line /\ text' = text
<1>1. /\ Contextual(a) /\ pc[a] = "open" /\ UNCHANGED <<doc, version>> /\ damaged \subseteq damaged'
      /\ Writes \/ Leaves \/ Fails
  <2>1. pc = [o \in Calls |-> pc[o]]
    BY DEF FilesInv, TypesFit
  <2>2. Contextual(a) /\ pc[a] = "open" /\ UNCHANGED <<doc, version>>
    BY DEF Open, At
  <2>3. damaged \subseteq damaged'
    BY DEF Open
  <2>4. \/ Now(a).how = "speckit" /\ Go(a, "failed") /\ UNCHANGED <<line, text>>
        \/ (AlreadyThere(a) \/ NothingNew(a, new)) /\ Advance(a, stale[a]) /\ UNCHANGED text
        \/ /\ request[a].script = "check"
           /\ Advance(a, stale[a] \cup {d}) /\ UNCHANGED text
        \/ /\ ~(AlreadyThere(a) \/ NothingNew(a, new)) /\ request[a].script # "check"
           /\ text' = [text EXCEPT ![a] = new] /\ Go(a, "write") /\ UNCHANGED line
    BY Zenon DEF Open
  <2> HIDE DEF d, new
  <2>5. \A s : Go(a, s) => pc'[a] = s
    BY <2>1 DEF Go
  <2> QED BY <2>2, <2>3, <2>4, <2>5
<1> HIDE DEF d, new, Writes, Leaves, Fails
<1>2. /\ line \in [Calls -> Nat] /\ text = [c \in Calls |-> text[c]]
      /\ line' \in [Calls -> Nat] /\ text' = [c \in Calls |-> text'[c]]
      /\ \A o \in Calls \ {a} : line'[o] = line[o] /\ text'[o] = text[o]
  <2>1. line \in [Calls -> Nat] /\ text = [c \in Calls |-> text[c]]
    BY DEF LinesFit
  <2>2. CASE Writes
    BY <2>1, <2>2 DEF Writes
  <2>3. CASE Leaves
    BY <1>1, <2>1, <2>3, Advancing DEF Leaves
  <2>4. CASE Fails
    BY <2>1, <2>4 DEF Fails
  <2> QED BY <1>1, <2>2, <2>3, <2>4
<1>3. /\ pc'[a] \in {"write", "open", "done", "failed"} /\ line'[a] \in 1 .. Len(Plan(request[a]))
      /\ pc'[a] = "write" <=> Writes
      /\ \/ line'[a] = line[a] /\ pc'[a] \in {"write", "failed"}
         \/ Leaves /\ line'[a] = line[a] + 1 /\ pc'[a] = "open"
         \/ Leaves /\ line'[a] = line[a] /\ line[a] = Len(Plan(request[a])) /\ pc'[a] \in {"done", "failed"}
  <2>1. line[a] \in Nat /\ Len(Plan(request[a])) \in Nat /\ line[a] \in 1 .. Len(Plan(request[a]))
    BY <1>1, NowFits
  <2>2. CASE Writes
    BY <2>1, <2>2 DEF Writes
  <2>3. CASE Leaves
    BY <1>1, <2>1, <2>3, Advancing DEF Leaves, Writes
  <2>4. CASE Fails
    BY <2>1, <2>4 DEF Fails, Writes
  <2> QED BY <1>1, <2>2, <2>3, <2>4
<1>4. Building(a) => /\ Len(Plan(request[a])) = 2 /\ line[a] \in 1 .. 2 /\ d = Targets[line[a]]
                     /\ new = Merge(doc[d], Mark, Generated(version[a])) /\ ~AlreadyThere(a)
  <2>1. Building(a) => /\ Len(Plan(request[a])) = 2 /\ line[a] \in 1 .. 2
                       /\ Now(a) = Write(Targets[line[a]], "block", Mark)
    BY <1>1, NowFits DEF Building
  <2>2. Now(a) = Write(Targets[line[a]], "block", Mark) =>
          Now(a).doc = Targets[line[a]] /\ Now(a).how = "block" /\ Now(a).block = Mark
    BY DEF Write
  <2>3. Now(a).how = "block" => new = Merge(doc[d], Now(a).block, <<<<"generated", version[a]>>>>)
    BY DEF new, Updated
  <2> QED BY <2>1, <2>2, <2>3 DEF d, AlreadyThere, Generated
<1>5. LinesFit'
  <2>1. \A c \in Calls : Contextual(c)' => /\ line'[c] \in 1 .. Len(Plan(request'[c]))
                                           /\ pc'[c] = "detect" => line'[c] = 1
    BY <1>2, <1>3 DEF LinesFit, Contextual
  <2>2. version' = [c \in Calls |-> version'[c]] /\ doc' = [k \in Docs |-> doc'[k]]
    BY <1>1 DEF LinesFit
  <2> QED BY <1>2, <2>1, <2>2 DEF LinesFit
<1>6. TextsFit'
  <2>1. ASSUME Writes  PROVE request[a].script # "check" /\ (Building(a) => Fits(text'[a], version[a]))
    <3>1. request[a].script # "check" /\ text'[a] = new
      BY <1>2, <2>1 DEF Writes
    <3>2. ASSUME Building(a)  PROVE Fits(new, version[a])
      <4>1. Clean(doc[d])
        BY <1>4, <3>2 DEF TextsFit
      <4> QED BY <1>4, <3>2, <4>1, MergeFits
    <3> QED BY <3>1, <3>2
  <2>2. ASSUME NEW c \in Calls, Contextual(c)', pc'[c] \in {"write", "fill"}
        PROVE  request'[c].script # "check" /\ (Building(c)' => Fits(text'[c], version'[c]))
    <3>1. CASE c = a
      BY <1>1, <1>3, <2>1, <2>2, <3>1 DEF Building
    <3>2. CASE c # a
      BY <1>1, <1>2, <2>2, <3>2 DEF TextsFit, Contextual, Building
    <3> QED BY <3>1, <3>2
  <2>3. \A i \in 1 .. 2 : Clean(doc'[Targets[i]])
    BY <1>1 DEF TextsFit
  <2> QED BY <2>2, <2>3 DEF TextsFit
<1>7. BuiltFit'
  <2> SUFFICES ASSUME NEW c \in Calls, NEW i \in 1 .. 2,
                      Building(c)', Agreed(c)', Dealt(c, i)', Whole(Targets[i])'
               PROVE  Fits(doc'[Targets[i]], version'[c])
    BY DEF BuiltFit
  <2>1. Building(c)
    BY DEF Building
  <2>2. CASE Dealt(c, i)
    <3>1. Agreed(c)
      BY <1>1, <1>3 DEF Agreed, Building
    <3>2. Whole(Targets[i])
      BY <1>1, <1>2 DEF Whole, InStep, At, Contextual, Now
    <3>3. Fits(doc[Targets[i]], version[c])
      BY <2>1, <2>2, <3>1, <3>2 DEF BuiltFit
    <3> QED BY <1>1, <3>3
  <2>3. CASE ~Dealt(c, i)
    <3>1. c = a
      BY <1>2, <2>3 DEF Dealt
    <3>2. Leaves /\ i = line[a]
      BY <1>2, <1>3, <1>4, <2>1, <2>3, <3>1 DEF Dealt
    <3>3. new = doc[d]
      BY <1>4, <2>1, <3>1, <3>2 DEF Leaves, Building, NothingNew, d
    <3>4. Clean(doc[d])
      BY <1>4, <2>1, <3>1 DEF TextsFit
    <3> QED BY <1>1, <1>4, <2>1, <3>1, <3>2, <3>3, <3>4 DEF Fits
  <2> QED BY <2>2, <2>3
<1> QED BY <1>5, <1>6, <1>7

(* A run that empties a document is about to fill it.                          *)
LEMMA EmptyKeeps ==
  ASSUME BuildInv, NEW a \in Calls, Empty(a), \A o \in Calls \ {a} : pc'[o] = pc[o], UNCHANGED request
  PROVE  LinesFit' /\ TextsFit' /\ BuiltFit'
<1> USE DEF BuildInv
<1> DEFINE d == Now(a).doc
<1>1. /\ Contextual(a) /\ pc[a] = "write" /\ pc'[a] = "fill" /\ UNCHANGED <<line, version, text, damaged>>
      /\ doc' = [doc EXCEPT ![d] = <<>>]
  BY DEF Empty, At, Go, FilesInv, TypesFit
<1> HIDE DEF d
<1>2. doc = [k \in Docs |-> doc[k]]
  BY DEF LinesFit
<1>3. doc' = [k \in Docs |-> doc'[k]] /\ \A k \in Docs : doc'[k] = IF k = d THEN <<>> ELSE doc[k]
  BY <1>1, <1>2
<1>4. LinesFit'
  BY <1>1, <1>3 DEF LinesFit, Contextual
<1>5. Clean(<<>>)
  BY DEF Clean, MarksInPairs, Where
<1>6. TextsFit'
  <2>1. \A i \in 1 .. 2 : Clean(doc'[Targets[i]])
    BY <1>3, <1>5, TargetsAreDocs DEF TextsFit
  <2>2. \A c \in Calls : Contextual(c)' /\ pc'[c] \in {"write", "fill"} =>
          request'[c].script # "check" /\ (Building(c)' => Fits(text'[c], version'[c]))
    BY <1>1 DEF TextsFit, Contextual, Building
  <2> QED BY <2>1, <2>2 DEF TextsFit
<1>7. BuiltFit'
  <2> SUFFICES ASSUME NEW c \in Calls, NEW i \in 1 .. 2,
                      Building(c)', Agreed(c)', Dealt(c, i)', Whole(Targets[i])'
               PROVE  Fits(doc'[Targets[i]], version'[c])
    BY DEF BuiltFit
  <2>1. Building(c) /\ Dealt(c, i)
    BY <1>1 DEF Building, Dealt
  <2>2. Agreed(c)
    BY <1>1 DEF Agreed, Building
  <2>3. Targets[i] # d
    BY <1>1 DEF Whole, InStep, At, Contextual, Now, d
  <2>4. Whole(Targets[i])
    BY <1>1 DEF Whole, InStep, At, Contextual, Now
  <2>5. Fits(doc[Targets[i]], version[c])
    BY <2>1, <2>2, <2>4 DEF BuiltFit
  <2> QED BY <1>1, <1>3, <2>3, <2>5, TargetsAreDocs
<1> QED BY <1>4, <1>6, <1>7

(* A build fills a document with what it makes of it, and the builds there are *)
(* make the same of it.                                                        *)
LEMMA FillKeeps ==
  ASSUME BuildInv, NEW a \in Calls, Fill(a), \A o \in Calls \ {a} : pc'[o] = pc[o], UNCHANGED request
  PROVE  LinesFit' /\ TextsFit' /\ BuiltFit'
<1> USE DEF BuildInv
<1> DEFINE d == Now(a).doc
<1>1. /\ Contextual(a) /\ pc[a] = "fill" /\ UNCHANGED <<version, text, damaged>>
      /\ doc' = [doc EXCEPT ![d] = text[a]] /\ Advance(a, stale[a])
  BY DEF Fill, At
<1> HIDE DEF d
<1>2. doc = [k \in Docs |-> doc[k]] /\ version = [c \in Calls |-> version[c]] /\ text = [c \in Calls |-> text[c]]
  BY DEF LinesFit
<1>3. doc' = [k \in Docs |-> doc'[k]] /\ \A k \in Docs : doc'[k] = IF k = d THEN text[a] ELSE doc[k]
  BY <1>1, <1>2
<1>4. /\ line' \in [Calls -> Nat] /\ \A o \in Calls \ {a} : line'[o] = line[o]
      /\ \/ line'[a] = line[a] + 1 /\ line'[a] <= Len(Plan(request[a])) /\ pc'[a] = "open"
         \/ line'[a] = line[a] /\ line[a] = Len(Plan(request[a])) /\ pc'[a] \in {"done", "failed"}
  BY <1>1, Advancing
<1>5. line[a] \in Nat /\ Len(Plan(request[a])) \in Nat /\ line[a] \in 1 .. Len(Plan(request[a]))
  BY <1>1, NowFits
<1>6. LinesFit'
  <2>1. line'[a] \in 1 .. Len(Plan(request[a])) /\ pc'[a] # "detect"
    BY <1>4, <1>5
  <2>2. \A c \in Calls : Contextual(c)' => /\ line'[c] \in 1 .. Len(Plan(request'[c]))
                                           /\ pc'[c] = "detect" => line'[c] = 1
    BY <1>4, <2>1 DEF LinesFit, Contextual
  <2> QED BY <1>1, <1>2, <1>3, <1>4, <2>2 DEF LinesFit
<1>7. Building(a) => Len(Plan(request[a])) = 2 /\ line[a] \in 1 .. 2 /\ d = Targets[line[a]]
  BY <1>1, NowFits DEF Building, Write, d
<1>8. ASSUME NEW i \in 1 .. 2, Targets[i] = d  PROVE Building(a) /\ Fits(text[a], version[a])
  <2>1. request[a].script # "check" /\ (Building(a) => Fits(text[a], version[a]))
    BY <1>1 DEF TextsFit
  <2>2. request[a].script \in {"build", "check"}
    BY <1>1, <1>8, NowFits DEF d
  <2> QED BY <2>1, <2>2 DEF Building
<1>9. TextsFit'
  <2>1. \A i \in 1 .. 2 : Clean(doc'[Targets[i]])
    BY <1>3, <1>8, TargetsAreDocs DEF TextsFit, Fits
  <2>2. \A c \in Calls : Contextual(c)' /\ pc'[c] \in {"write", "fill"} =>
          request'[c].script # "check" /\ (Building(c)' => Fits(text'[c], version'[c]))
    BY <1>1, <1>4 DEF TextsFit, Contextual, Building
  <2> QED BY <2>1, <2>2 DEF TextsFit
<1>10. BuiltFit'
  <2> SUFFICES ASSUME NEW c \in Calls, NEW i \in 1 .. 2,
                      Building(c)', Agreed(c)', Dealt(c, i)', Whole(Targets[i])'
               PROVE  Fits(doc'[Targets[i]], version'[c])
    BY DEF BuiltFit
  <2>1. Building(c) /\ Agreed(c)
    BY <1>1, <1>4 DEF Building, Agreed
  <2>2. CASE Targets[i] = d
    <3>1. Building(a) /\ Fits(text[a], version[a]) /\ doc'[Targets[i]] = text[a]
      BY <1>3, <1>8, <2>2, TargetsAreDocs
    <3>2. version[a] = version[c]
      BY <1>1, <2>1, <3>1 DEF Agreed
    <3> QED BY <1>1, <3>1, <3>2
  <2>3. CASE Targets[i] # d
    <3>1. Dealt(c, i)
      <4>1. CASE c = a
        <5>1. i # line[a] /\ line[a] \in 1 .. 2 /\ Len(Plan(request[a])) = 2
          BY <1>7, <2>1, <2>3, <4>1
        <5> QED BY <1>4, <4>1, <5>1 DEF Dealt
      <4>2. CASE c # a
        BY <1>4, <4>2 DEF Dealt
      <4> QED BY <4>1, <4>2
    <3>2. Whole(Targets[i])
      <4>1. ~InStep(a, Targets[i])
        BY <2>3 DEF InStep, d
      <4>2. \A o \in Calls \ {a} : ~(InStep(o, Targets[i]) /\ At(o, "fill"))
        BY <1>4 DEF Whole, InStep, At, Contextual, Now
      <4> QED BY <1>1, <4>1, <4>2 DEF Whole
    <3>3. Fits(doc[Targets[i]], version[c])
      BY <2>1, <3>1, <3>2 DEF BuiltFit
    <3> QED BY <1>1, <1>3, <2>3, <3>3, TargetsAreDocs
  <2> QED BY <2>2, <2>3
<1> QED BY <1>6, <1>9, <1>10

(* Nothing is dealt with at first, and people's marks are in pairs.            *)
LEMMA BuildInitially == Init => LinesFit /\ TextsFit /\ BuiltFit
<1> SUFFICES ASSUME Init PROVE LinesFit /\ TextsFit /\ BuiltFit
  OBVIOUS
<1>1. PICK s \in Scenarios :
        /\ Start(s.runs)
        /\ doc = [d \in Docs |-> IF d \in DOMAIN s.docs THEN s.docs[d] ELSE <<>>]
        /\ line = [c \in Calls |-> 1]
        /\ version = [c \in Calls |-> project]
        /\ text = [c \in Calls |-> <<>>]
  BY DEF Init
<1>2. \A c \in Calls : Contextual(c) => pc[c] \in {"detect", "failed"}
  <2>1. request = s.runs /\ pc = [c \in Calls |-> IF Importing(c) THEN "idle" ELSE Entry(s.runs[c])]
    BY <1>1 DEF Start
  <2>2. \A c \in Calls : Contextual(c) => ~Importing(c) /\ pc[c] = Entry(request[c])
    BY <2>1 DEF Contextual, Importing, Scripts
  <2>3. \A c \in Calls : Contextual(c) => Entry(request[c]) \in {"detect", "failed"}
    BY DEF Contextual, Scripts, Entry
  <2> QED BY <2>2, <2>3
<1>3. LinesFit
  <2>1. \A c \in Calls : Contextual(c) => line[c] \in 1 .. Len(Plan(request[c])) /\ line[c] = 1
    <3> SUFFICES ASSUME NEW c \in Calls, Contextual(c) PROVE line[c] \in 1 .. Len(Plan(request[c])) /\ line[c] = 1
      OBVIOUS
    <3>1. Len(Plan(request[c])) \in Nat \ {0}
      BY PlanFits
    <3> QED BY <1>1, <3>1
  <2>2. line \in [Calls -> Nat]
    BY <1>1
  <2> QED BY <1>1, <2>1, <2>2 DEF LinesFit
<1>4. TextsFit
  <2>1. Clean(<<>>)
    BY DEF Clean, MarksInPairs, Where
  <2>2. \A i \in 1 .. 2 : Clean(doc[Targets[i]])
    <3> SUFFICES ASSUME NEW i \in 1 .. 2 PROVE Clean(doc[Targets[i]])
      OBVIOUS
    <3>1. Targets[i] \in DOMAIN s.docs => Clean(s.docs[Targets[i]])
      <4> SUFFICES ASSUME Targets[i] \in DOMAIN s.docs PROVE Clean(s.docs[Targets[i]])
        OBVIOUS
      <4>1. Targets[i] \in Docs /\ Targets[i] # "SPECKIT.md"
        BY DEF Targets, Docs
      <4>2. s.docs[Targets[i]] \in Seq(Range(s.docs[Targets[i]])) /\ InOrder(s.docs[Targets[i]])
        BY <4>1, DocumentsAssumption
      <4>3. Mark \in Blocks
        BY DEF Mark, Blocks
      <4> QED BY <4>2, <4>3 DEF Clean, InOrder
    <3>2. doc[Targets[i]] = IF Targets[i] \in DOMAIN s.docs THEN s.docs[Targets[i]] ELSE <<>>
      BY <1>1, TargetsAreDocs
    <3> QED BY <2>1, <3>1, <3>2
  <2> QED BY <1>2, <2>2 DEF TextsFit
<1>5. BuiltFit
  <2> SUFFICES ASSUME NEW c \in Calls, NEW i \in 1 .. 2, Building(c), Dealt(c, i) PROVE FALSE
    BY DEF BuiltFit
  <2>1. Contextual(c)
    BY DEF Building, Contextual, Scripts
  <2> QED BY <1>1, <1>2, <2>1 DEF Dealt
<1> QED BY <1>3, <1>4, <1>5

(* Whatever scripts run, and whatever fails, the documents that builds agree   *)
(* on are up to date (build_documentation.mjs).                                *)
THEOREM BuildHolds == Spec => []BuildInv
<1>1. Init => BuildInv
  BY BuildInitially, FilesInitially DEF BuildInv
<1>2. BuildInv /\ FilesInv' /\ [Next]_allVars => BuildInv'
  <2> SUFFICES ASSUME BuildInv, FilesInv', [Next]_allVars PROVE BuildInv'
    OBVIOUS
  <2>1. FilesInv
    BY DEF BuildInv
  <2>2. request' = request
    BY <2>1, StepsAreFileSteps, RequestsStay
  <2>3. ASSUME NEW a \in Calls, ContextStep(a), \A o \in Calls \ {a} : pc'[o] = pc[o]
        PROVE  LinesFit' /\ TextsFit' /\ BuiltFit'
    BY <2>2, <2>3, DetectKeeps, OpenKeeps, EmptyKeeps, FillKeeps DEF ContextStep
  <2>4. ASSUME NEW a \in Calls, KillRun(a), pc'[a] = "killed", \A o \in Calls \ {a} : pc'[o] = pc[o]
        PROVE  LinesFit' /\ TextsFit' /\ BuiltFit'
    BY <2>2, <2>4, KillKeeps
  <2>5. ASSUME UNCHANGED <<doc, line, version, text, damaged>>, \A o \in Calls : Contextual(o) => pc'[o] = pc[o]
        PROVE  LinesFit' /\ TextsFit' /\ BuiltFit'
    BY <2>2, <2>5, OthersKeep
  <2>6. LinesFit' /\ TextsFit' /\ BuiltFit'
    BY <2>1, <2>3, <2>4, <2>5, DocumentSteps
  <2> QED BY <2>6 DEF BuildInv
<1> QED BY <1>1, <1>2, FilesHold, PTL DEF Spec

(* After a build, building again changes nothing: whoever runs a check of the  *)
(* same project is told nothing is out of date.                                *)
THEOREM BuiltStaysUpToDate == Spec => []BuiltIsUpToDate
<1>1. BuildInv => BuiltIsUpToDate
  <2> SUFFICES ASSUME BuildInv, NEW c \in Calls, request[c].script = "build", At(c, "done"),
                      \A o \in Calls : request[o].script = "build" => At(o, "detect") \/ version[o] = project,
                      NEW i \in DOMAIN Targets, Whole(Targets[i])
               PROVE  Merge(doc[Targets[i]], "documentator", <<<<"generated", project>>>>) = doc[Targets[i]]
    BY DEF BuiltIsUpToDate
  <2>1. i \in 1 .. 2
    BY DEF Targets
  <2>2. Building(c) /\ Dealt(c, i) /\ version[c] = project
    BY DEF Building, Dealt, At
  <2>3. Agreed(c)
    BY <2>2 DEF Agreed, Building, At
  <2>4. Fits(doc[Targets[i]], project)
    BY <2>1, <2>2, <2>3 DEF BuildInv, BuiltFit
  <2> QED BY <2>4 DEF Fits, Mark, Generated
<1> QED BY <1>1, BuildHolds, PTL

-----------------------------------------------------------------------------
(* What is picked from a text. *)

(* A set that holds 0 and the successor of each of its numbers holds them all. *)
LEMMA Counting ==
  ASSUME NEW D, 0 \in D, \A n \in Nat : n \in D => n + 1 \in D
  PROVE  \A n \in Nat : n \in D
<1> SUFFICES ASSUME NEW m \in Nat, m \notin D  PROVE FALSE
  OBVIOUS
<1>1. PICK n \in Nat \ D : \A y \in Nat \ D : n <= y
  BY LeastNatural
<1>2. n - 1 \in Nat /\ n - 1 \in D
  BY <1>1
<1> QED BY <1>1, <1>2

(* h has what is picked up to each place of t. *)
Picking(h, t, I) ==
  /\ h[0] = <<>>
  /\ \A n \in 1 .. Len(t) : h[n] = IF n \in I THEN Append(h[n - 1], t[n]) ELSE h[n - 1]

(* Pieces are picked one after the other, as the definition says. *)
LEMMA PickedUpTo ==
  ASSUME NEW S, NEW t \in Seq(S), NEW I
  PROVE  \E h : Picking(h, t, I) /\ Picked(t, I) = h[Len(t)]
<1> DEFINE Is(h, m) == h = [n \in 0 .. m |-> IF n = 0 THEN <<>>
                                             ELSE IF n \in I THEN Append(h[n - 1], t[n]) ELSE h[n - 1]]
           D == {m \in Nat : \E h : Is(h, m)}
<1>1. 0 \in D
  <2> DEFINE h == [n \in 0 .. 0 |-> <<>>]
  <2>1. Is(h, 0)
    OBVIOUS
  <2> QED BY <2>1
<1>2. ASSUME NEW m \in Nat, m \in D  PROVE m + 1 \in D
  <2>1. PICK h : Is(h, m)
    BY <1>2
  <2> DEFINE x == IF m + 1 \in I THEN Append(h[m], t[m + 1]) ELSE h[m]
             g == [n \in 0 .. m + 1 |-> IF n = m + 1 THEN x ELSE h[n]]
             F(f, n) == IF n = 0 THEN <<>> ELSE IF n \in I THEN Append(f[n - 1], t[n]) ELSE f[n - 1]
  <2>2. \A n \in 0 .. m : h[n] = F(h, n)
    BY <2>1
  <2>3. \A n \in 0 .. m : g[n] = h[n]
    OBVIOUS
  <2>4. \A n \in 0 .. m + 1 : g[n] = F(g, n)
    <3> SUFFICES ASSUME NEW n \in 0 .. m + 1 PROVE g[n] = F(g, n)
      OBVIOUS
    <3>1. n # 0 => n - 1 \in 0 .. m
      OBVIOUS
    <3>2. n # 0 => g[n - 1] = h[n - 1]
      BY <2>3, <3>1
    <3>3. CASE n \in 0 .. m
      <4>1. g[n] = F(h, n)
        BY <2>2, <2>3, <3>3
      <4>2. F(h, n) = F(g, n)
        BY <3>2
      <4> HIDE DEF F, g
      <4> QED BY <4>1, <4>2
    <3>4. CASE n = m + 1
      <4>1. g[n] = x /\ h[m] = g[n - 1] /\ n # 0
        BY <3>2, <3>4
      <4> HIDE DEF g
      <4> QED BY <4>1, <3>4
    <3> QED BY <3>3, <3>4
  <2>5. Is(g, m + 1)
    <3>1. g = [n \in 0 .. m + 1 |-> g[n]]
      OBVIOUS
    <3>2. [n \in 0 .. m + 1 |-> g[n]] = [n \in 0 .. m + 1 |-> F(g, n)]
      <4> HIDE DEF g, F
      <4> QED BY <2>4
    <3> HIDE DEF g
    <3> QED BY <3>1, <3>2
  <2> HIDE DEF g, Is
  <2> QED BY <2>5
<1>3. Len(t) \in Nat /\ Len(t) \in D
  <2> HIDE DEF D
  <2> QED BY <1>1, <1>2, Counting
<1>4. \E h : Is(h, Len(t))
  BY <1>3
<1> DEFINE u == CHOOSE h : Is(h, Len(t))
<1>5. Is(u, Len(t))
  BY <1>4
<1>6. Picked(t, I) = u[Len(t)]
  BY DEF Picked
<1> HIDE DEF u
<1>7. \A n \in 0 .. Len(t) :
        u[n] = IF n = 0 THEN <<>> ELSE IF n \in I THEN Append(u[n - 1], t[n]) ELSE u[n - 1]
  BY <1>5
<1>8. 0 \in 0 .. Len(t) /\ \A n \in 1 .. Len(t) : n \in 0 .. Len(t) /\ n # 0
  BY <1>3
<1>9. Picking(u, t, I)
  <2> HIDE DEF Is
  <2> QED BY <1>7, <1>8 DEF Picking
<1> QED BY <1>6, <1>9

(* No place but one has piece x. *)
NotTwice(t, x) == \A i, j \in 1 .. Len(t) : t[i] = x /\ t[j] = x => i = j

(* s has the pieces of t at places I, and has a piece twice only if t has.     *)
Chosen(s, t, I) ==
  /\ \A k \in 1 .. Len(s) : \E i \in 1 .. Len(t) : i \in I /\ s[k] = t[i]
  /\ \A i \in 1 .. Len(t) : i \in I => \E k \in 1 .. Len(s) : s[k] = t[i]
  /\ \A x : NotTwice(t, x) => NotTwice(s, x)

(* So it is of what is picked. *)
LEMMA PickedPieces ==
  ASSUME NEW S, NEW t \in Seq(S), NEW I
  PROVE  Picked(t, I) \in Seq(S) /\ Chosen(Picked(t, I), t, I)
<1>1. PICK h : Picking(h, t, I) /\ Picked(t, I) = h[Len(t)]
  BY PickedUpTo
<1> DEFINE Good(s, n) ==
             /\ s \in Seq(S)
             /\ \A k \in 1 .. Len(s) : \E i \in 1 .. n : i \in I /\ s[k] = t[i]
             /\ \A i \in 1 .. n : i \in I => \E k \in 1 .. Len(s) : s[k] = t[i]
             /\ \A x : (\A i, j \in 1 .. n : t[i] = x /\ t[j] = x => i = j) => NotTwice(s, x)
           D == {n \in Nat : n <= Len(t) => Good(h[n], n)}
<1>2. Len(t) \in Nat
  OBVIOUS
<1>3. 0 \in D
  <2>1. h[0] = <<>>
    BY <1>1 DEF Picking
  <2>2. Good(<<>>, 0)
    <3>1. <<>> \in Seq(S) /\ Len(<<>>) = 0
      OBVIOUS
    <3>2. \A x : NotTwice(<<>>, x)
      BY <3>1 DEF NotTwice
    <3> QED BY <3>1, <3>2
  <2> HIDE DEF Good
  <2> QED BY <2>1, <2>2
<1>4. ASSUME NEW n \in Nat, n \in D, n + 1 <= Len(t)  PROVE Good(h[n + 1], n + 1)
  <2>1. PICK s : s = h[n]
    OBVIOUS
  <2>2. Good(s, n)
    BY <1>2, <1>4, <2>1
  <2>3. h[n + 1] = IF n + 1 \in I THEN Append(s, t[n + 1]) ELSE s
    <3>1. n + 1 \in 1 .. Len(t) /\ (n + 1) - 1 = n
      BY <1>2, <1>4
    <3> QED BY <1>1, <2>1, <3>1 DEF Picking
  <2>4. t[n + 1] \in S
    BY <1>2, <1>4
  <2>5. CASE n + 1 \notin I
    <3>1. /\ s \in Seq(S)
          /\ \A k \in 1 .. Len(s) : \E i \in 1 .. n + 1 : i \in I /\ s[k] = t[i]
      BY <2>2
    <3>2. \A i \in 1 .. n + 1 : i \in I => i \in 1 .. n
      BY <2>5
    <3>3. \A i \in 1 .. n + 1 : i \in I => \E k \in 1 .. Len(s) : s[k] = t[i]
      BY <2>2, <3>2
    <3>4. ASSUME NEW x, \A i, j \in 1 .. n + 1 : t[i] = x /\ t[j] = x => i = j  PROVE NotTwice(s, x)
      <4>1. \A i, j \in 1 .. n : t[i] = x /\ t[j] = x => i = j
        BY <3>4
      <4> QED BY <2>2, <4>1
    <3>5. Good(s, n + 1)
      BY <3>1, <3>3, <3>4
    <3> QED BY <2>3, <2>5, <3>5
  <2>6. CASE n + 1 \in I
    <3>1. PICK r : r = Append(s, t[n + 1])
      OBVIOUS
    <3>2. /\ r \in Seq(S) /\ Len(r) = Len(s) + 1 /\ Len(s) \in Nat /\ r[Len(s) + 1] = t[n + 1]
          /\ \A k \in 1 .. Len(s) : r[k] = s[k]
      BY <2>2, <2>4, <3>1
    <3>3. \A k \in 1 .. Len(r) : k \in 1 .. Len(s) \/ k = Len(s) + 1
      BY <3>2
    <3>4. \A k \in 1 .. Len(s) : \E i \in 1 .. n + 1 : i \in I /\ r[k] = t[i]
      <4>1. \A k \in 1 .. Len(s) : \E i \in 1 .. n : i \in I /\ s[k] = t[i]
        BY <2>2
      <4>2. \A i \in 1 .. n : i \in 1 .. n + 1
        OBVIOUS
      <4> QED BY <3>2, <4>1, <4>2
    <3>5. \A k \in 1 .. Len(r) : \E i \in 1 .. n + 1 : i \in I /\ r[k] = t[i]
      BY <2>6, <3>2, <3>3, <3>4
    <3>6. \A i \in 1 .. n : i \in I => \E k \in 1 .. Len(r) : r[k] = t[i]
      <4>1. \A k \in 1 .. Len(s) : k \in 1 .. Len(r)
        BY <3>2
      <4> QED BY <2>2, <3>2, <4>1
    <3>7. \A i \in 1 .. n + 1 : i \in I => \E k \in 1 .. Len(r) : r[k] = t[i]
      <4>1. \A i \in 1 .. n + 1 : i \in 1 .. n \/ i = n + 1
        OBVIOUS
      <4>2. Len(s) + 1 \in 1 .. Len(r)
        BY <3>2
      <4> QED BY <3>2, <3>6, <4>1, <4>2
    <3>8. ASSUME NEW x, \A i, j \in 1 .. n + 1 : t[i] = x /\ t[j] = x => i = j  PROVE NotTwice(r, x)
      <4>1. NotTwice(s, x)
        <5>1. \A i, j \in 1 .. n : t[i] = x /\ t[j] = x => i = j
          BY <3>8
        <5> QED BY <2>2, <5>1
      <4>2. t[n + 1] = x => \A k \in 1 .. Len(s) : s[k] # x
        <5> SUFFICES ASSUME t[n + 1] = x, NEW k \in 1 .. Len(s), s[k] = x PROVE FALSE
          OBVIOUS
        <5>1. PICK i \in 1 .. n : s[k] = t[i]
          BY <2>2
        <5>2. i \in 1 .. n + 1 /\ n + 1 \in 1 .. n + 1 /\ i # n + 1
          OBVIOUS
        <5> QED BY <3>8, <5>1, <5>2
      <4> QED BY <3>2, <3>3, <4>1, <4>2 DEF NotTwice
    <3>9. Good(r, n + 1)
      BY <3>2, <3>5, <3>7, <3>8
    <3>10. h[n + 1] = r
      BY <2>3, <2>6, <3>1
    <3> HIDE DEF Good
    <3> QED BY <3>9, <3>10
  <2> QED BY <2>5, <2>6
<1>5. \A n \in Nat : n \in D => n + 1 \in D
  <2> HIDE DEF Good
  <2> SUFFICES ASSUME NEW n \in Nat, n \in D, n + 1 <= Len(t) PROVE Good(h[n + 1], n + 1)
    OBVIOUS
  <2> QED BY <1>4
<1>6. Len(t) \in D
  <2> HIDE DEF D
  <2> QED BY <1>2, <1>3, <1>5, Counting
<1>7. Good(h[Len(t)], Len(t))
  <2> HIDE DEF Good
  <2> QED BY <1>2, <1>6
<1>8. ASSUME NEW x, NotTwice(t, x)  PROVE NotTwice(h[Len(t)], x)
  BY <1>7, <1>8 DEF NotTwice
<1> QED BY <1>1, <1>7, <1>8 DEF Chosen

(* r begins with a pieces of t and ends with z of it. *)
Around(t, r, a, z) ==
  /\ a \in Nat /\ z \in Nat /\ Len(t) \in Nat /\ Len(r) \in Nat
  /\ a + z <= Len(t) /\ a + z <= Len(r)
  /\ \A k \in 1 .. a : r[k] = t[k]
  /\ \A k \in 1 .. z : r[Len(r) - z + k] = t[Len(t) - z + k]

Between(t, a, z) == a + 1 .. Len(t) - z

(* The notes are those around, if there are none between. *)
LEMMA NotesAround ==
  ASSUME NEW S, NEW t \in Seq(S), NEW r \in Seq(S), NEW a, NEW z, Around(t, r, a, z),
         \A k \in Between(t, a, z) : t[k][1] # "note",
         \A k \in Between(r, a, z) : r[k][1] # "note"
  PROVE  Notes(r) = Notes(t)
<1> DEFINE I == {i \in DOMAIN t : t[i][1] = "note"}
           J == {i \in DOMAIN r : r[i][1] = "note"}
           T == Len(t)
           R == Len(r)
<1>0. /\ a \in Nat /\ z \in Nat /\ T \in Nat /\ R \in Nat /\ a + z <= T /\ a + z <= R
      /\ \A k \in 1 .. a : r[k] = t[k]
      /\ \A k \in 1 .. z : r[R - z + k] = t[T - z + k]
      /\ DOMAIN t = 1 .. T /\ DOMAIN r = 1 .. R
  BY DEF Around
<1>1. /\ \A k \in 1 .. a : k \in J <=> k \in I
      /\ \A k \in 1 .. z : R - z + k \in J <=> T - z + k \in I
      /\ \A k \in a + 1 .. T - z : k \notin I
      /\ \A k \in a + 1 .. R - z : k \notin J
  <2>1. \A k \in 1 .. a : k \in 1 .. T /\ k \in 1 .. R
    BY <1>0
  <2>2. \A k \in 1 .. z : R - z + k \in 1 .. R /\ T - z + k \in 1 .. T
    BY <1>0
  <2> QED BY <1>0, <2>1, <2>2 DEF Between
<1>2. PICK g : Picking(g, t, I) /\ Picked(t, I) = g[T]
  BY PickedUpTo
<1>3. PICK h : Picking(h, r, J) /\ Picked(r, J) = h[R]
  BY PickedUpTo
<1>4. /\ g[0] = <<>> /\ h[0] = <<>>
      /\ \A n \in 1 .. T : g[n] = IF n \in I THEN Append(g[n - 1], t[n]) ELSE g[n - 1]
      /\ \A n \in 1 .. R : h[n] = IF n \in J THEN Append(h[n - 1], r[n]) ELSE h[n - 1]
  BY <1>2, <1>3 DEF Picking
<1> HIDE DEF I, J, T, R
<1>5. g[a] = h[a]
  <2> DEFINE D == {n \in Nat : n <= a => g[n] = h[n]}
  <2>1. 0 \in D
    BY <1>4
  <2>2. ASSUME NEW n \in Nat, n \in D  PROVE n + 1 \in D
    <3> SUFFICES ASSUME n + 1 <= a PROVE g[n + 1] = h[n + 1]
      OBVIOUS
    <3>1. n + 1 \in 1 .. a /\ n + 1 \in 1 .. T /\ n + 1 \in 1 .. R /\ (n + 1) - 1 = n /\ g[n] = h[n]
      BY <1>0, <2>2
    <3> QED BY <1>0, <1>1, <1>4, <3>1
  <2> HIDE DEF D
  <2>3. a \in D
    BY <1>0, <2>1, <2>2, Counting
  <2> QED BY <2>3, <1>0 DEF D
<1>6. g[T - z] = g[a]
  <2> DEFINE D == {n \in Nat : a + n <= T - z => g[a + n] = g[a]}
  <2>1. 0 \in D
    BY <1>0
  <2>2. ASSUME NEW n \in Nat, n \in D  PROVE n + 1 \in D
    <3> SUFFICES ASSUME a + (n + 1) <= T - z PROVE g[a + (n + 1)] = g[a]
      OBVIOUS
    <3>1. /\ a + (n + 1) \in a + 1 .. T - z /\ a + (n + 1) \in 1 .. T /\ (a + (n + 1)) - 1 = a + n
          /\ g[a + n] = g[a]
      BY <1>0, <2>2
    <3> QED BY <1>1, <1>4, <3>1
  <2>3. T - z - a \in Nat /\ a + (T - z - a) = T - z /\ T - z <= T - z
    BY <1>0
  <2> HIDE DEF D
  <2>4. T - z - a \in D
    BY <2>1, <2>2, <2>3, Counting
  <2> QED BY <2>3, <2>4 DEF D
<1>7. h[R - z] = h[a]
  <2> DEFINE D == {n \in Nat : a + n <= R - z => h[a + n] = h[a]}
  <2>1. 0 \in D
    BY <1>0
  <2>2. ASSUME NEW n \in Nat, n \in D  PROVE n + 1 \in D
    <3> SUFFICES ASSUME a + (n + 1) <= R - z PROVE h[a + (n + 1)] = h[a]
      OBVIOUS
    <3>1. /\ a + (n + 1) \in a + 1 .. R - z /\ a + (n + 1) \in 1 .. R /\ (a + (n + 1)) - 1 = a + n
          /\ h[a + n] = h[a]
      BY <1>0, <2>2
    <3> QED BY <1>1, <1>4, <3>1
  <2>3. R - z - a \in Nat /\ a + (R - z - a) = R - z /\ R - z <= R - z
    BY <1>0
  <2> HIDE DEF D
  <2>4. R - z - a \in D
    BY <2>1, <2>2, <2>3, Counting
  <2> QED BY <2>3, <2>4 DEF D
<1>8. h[R] = g[T]
  <2> DEFINE D == {n \in Nat : n <= z => h[R - z + n] = g[T - z + n]}
  <2>1. 0 \in D
    BY <1>0, <1>5, <1>6, <1>7
  <2>2. ASSUME NEW n \in Nat, n \in D  PROVE n + 1 \in D
    <3> SUFFICES ASSUME n + 1 <= z PROVE h[R - z + (n + 1)] = g[T - z + (n + 1)]
      OBVIOUS
    <3>1. /\ n + 1 \in 1 .. z /\ R - z + (n + 1) \in 1 .. R /\ T - z + (n + 1) \in 1 .. T
          /\ (R - z + (n + 1)) - 1 = R - z + n /\ (T - z + (n + 1)) - 1 = T - z + n
          /\ h[R - z + n] = g[T - z + n]
      BY <1>0, <2>2
    <3>2. r[R - z + (n + 1)] = t[T - z + (n + 1)] /\ (R - z + (n + 1) \in J <=> T - z + (n + 1) \in I)
      BY <1>0, <1>1, <3>1
    <3> QED BY <1>4, <3>1, <3>2
  <2>3. R - z + z = R /\ T - z + z = T /\ z <= z
    BY <1>0
  <2> HIDE DEF D
  <2>4. z \in D
    BY <1>0, <2>1, <2>2, Counting
  <2> QED BY <2>3, <2>4 DEF D
<1> QED BY <1>2, <1>3, <1>8 DEF Notes, I, J

-----------------------------------------------------------------------------
(* Texts in order. *)

(* The one block b of t is between i and j; there is none; and every piece is  *)
(* something scripts list, a note or a mark.                                   *)
PairAt(t, b, i, j) ==
  /\ i \in 1 .. Len(t) /\ j \in 1 .. Len(t) /\ i < j
  /\ \A k \in 1 .. Len(t) : (t[k] = Opens(b) <=> k = i) /\ (t[k] = Ends(b) <=> k = j)
  /\ \A k \in i + 1 .. j - 1 : Plain(t[k])
NoneOf(t, b) == \A k \in 1 .. Len(t) : t[k] # Opens(b) /\ t[k] # Ends(b)
Known(x)     == Plain(x) \/ x[1] = "note" \/ x \in Marks
AllKnown(t)  == \A k \in 1 .. Len(t) : Known(t[k])

(* Marks are neither notes nor what scripts list, and tell blocks apart. *)
LEMMA MarksDiffer ==
  ASSUME NEW b
  PROVE  /\ Opens(b)[1] = "start" /\ Ends(b)[1] = "end" /\ ~Plain(Opens(b)) /\ ~Plain(Ends(b))
         /\ \A c : Opens(b) # Ends(c) /\ (Opens(b) = Opens(c) => b = c) /\ (Ends(b) = Ends(c) => b = c)
         /\ b \in Blocks => Opens(b) \in Marks /\ Ends(b) \in Marks
BY DEF Opens, Ends, Plain, Marks

(* A text in order has every block once or not at all. *)
LEMMA OrderedText ==
  ASSUME NEW S, NEW t \in Seq(S)
  PROVE  InOrder(t) <=> AllKnown(t) /\ \A b \in Blocks : NoneOf(t, b) \/ \E i, j : PairAt(t, b, i, j)
<1>1. DOMAIN t = 1 .. Len(t) /\ Len(t) \in Nat
  OBVIOUS
<1>2. ASSUME NEW b \in Blocks
      PROVE  (/\ MarksInPairs(t, b)
              /\ \A i \in Where(t, Opens(b)), j \in Where(t, Ends(b)) : \A k \in i + 1 .. j - 1 : Plain(t[k]))
             <=> NoneOf(t, b) \/ \E i, j : PairAt(t, b, i, j)
  <2>1. ASSUME MarksInPairs(t, b),
               \A i \in Where(t, Opens(b)), j \in Where(t, Ends(b)) : \A k \in i + 1 .. j - 1 : Plain(t[k])
        PROVE  NoneOf(t, b) \/ \E i, j : PairAt(t, b, i, j)
    <3>1. CASE Where(t, Opens(b)) = {} /\ Where(t, Ends(b)) = {}
      BY <1>1, <3>1 DEF Where, NoneOf
    <3>2. CASE \E i, j \in DOMAIN t : i < j /\ Where(t, Opens(b)) = {i} /\ Where(t, Ends(b)) = {j}
      <4>1. PICK i, j \in DOMAIN t : i < j /\ Where(t, Opens(b)) = {i} /\ Where(t, Ends(b)) = {j}
        BY <3>2
      <4>2. \A k \in 1 .. Len(t) : (t[k] = Opens(b) <=> k = i) /\ (t[k] = Ends(b) <=> k = j)
        BY <1>1, <4>1 DEF Where
      <4>3. \A k \in i + 1 .. j - 1 : Plain(t[k])
        BY <2>1, <4>1
      <4>4. PairAt(t, b, i, j)
        BY <1>1, <4>1, <4>2, <4>3 DEF PairAt
      <4> QED BY <4>4
    <3> QED BY <2>1, <3>1, <3>2 DEF MarksInPairs
  <2>2. ASSUME NoneOf(t, b)
        PROVE  Where(t, Opens(b)) = {} /\ Where(t, Ends(b)) = {}
    BY <1>1, <2>2 DEF Where, NoneOf
  <2>3. ASSUME NEW i, NEW j, PairAt(t, b, i, j)
        PROVE  /\ i \in DOMAIN t /\ j \in DOMAIN t /\ i < j /\ Where(t, Opens(b)) = {i} /\ Where(t, Ends(b)) = {j}
               /\ \A k \in i + 1 .. j - 1 : Plain(t[k])
    BY <1>1, <2>3 DEF Where, PairAt
  <2> QED BY <2>1, <2>2, <2>3 DEF MarksInPairs
<1>3. (\A i \in DOMAIN t : Plain(t[i]) \/ t[i][1] = "note" \/ t[i] \in Marks) <=> AllKnown(t)
  BY <1>1 DEF AllKnown, Known
<1> QED BY <1>2, <1>3 DEF InOrder

(* Where place i of t is in r. *)
Shifted(t, r, a, i) == IF i <= a THEN i ELSE i + Len(r) - Len(t)

(* The pieces around stay in their order. *)
LEMMA PlacesAround ==
  ASSUME NEW t, NEW r, NEW a, NEW z, Around(t, r, a, z)
  PROVE  /\ \A k \in 1 .. Len(t) : k \notin Between(t, a, z) =>
              /\ Shifted(t, r, a, k) \in 1 .. Len(r) /\ Shifted(t, r, a, k) \notin Between(r, a, z)
              /\ r[Shifted(t, r, a, k)] = t[k]
         /\ \A l \in 1 .. Len(r) : l \notin Between(r, a, z) =>
              \E k \in 1 .. Len(t) : k \notin Between(t, a, z) /\ l = Shifted(t, r, a, k)
         /\ \A k, l \in 1 .. Len(t) : k \notin Between(t, a, z) /\ l \notin Between(t, a, z) =>
              (k < l <=> Shifted(t, r, a, k) < Shifted(t, r, a, l))
<1> DEFINE T == Len(t)
           R == Len(r)
<1>1. /\ a \in Nat /\ z \in Nat /\ T \in Nat /\ R \in Nat /\ a + z <= T /\ a + z <= R
      /\ \A k \in 1 .. a : r[k] = t[k]
      /\ \A k \in 1 .. z : r[R - z + k] = t[T - z + k]
  BY DEF Around
<1> HIDE DEF T, R
<1>2. ASSUME NEW k \in 1 .. T, k \notin a + 1 .. T - z
      PROVE  LET m == IF k <= a THEN k ELSE k + R - T
             IN  m \in 1 .. R /\ m \notin a + 1 .. R - z /\ r[m] = t[k]
  <2>1. CASE k <= a
    BY <1>1, <2>1
  <2>2. CASE k > a
    <3>1. k - (T - z) \in 1 .. z /\ T - z + (k - (T - z)) = k /\ R - z + (k - (T - z)) = k + R - T
      BY <1>1, <1>2, <2>2
    <3>2. r[k + R - T] = t[k]
      BY <1>1, <3>1
    <3> QED BY <1>1, <1>2, <2>2, <3>1, <3>2
  <2> QED BY <1>1, <2>1, <2>2
<1>3. ASSUME NEW l \in 1 .. R, l \notin a + 1 .. R - z
      PROVE  \E k \in 1 .. T : k \notin a + 1 .. T - z /\ l = IF k <= a THEN k ELSE k + R - T
  <2>1. CASE l <= a
    BY <1>1, <2>1
  <2>2. CASE l > a
    <3>1. l + T - R \in 1 .. T /\ l + T - R \notin a + 1 .. T - z /\ ~(l + T - R <= a) /\ l = (l + T - R) + R - T
      BY <1>1, <1>3, <2>2
    <3> QED BY <3>1
  <2> QED BY <1>1, <2>1, <2>2
<1>4. ASSUME NEW k \in 1 .. T, NEW l \in 1 .. T, k \notin a + 1 .. T - z, l \notin a + 1 .. T - z
      PROVE  k < l <=> (IF k <= a THEN k ELSE k + R - T) < (IF l <= a THEN l ELSE l + R - T)
  BY <1>1, <1>4
<1> QED BY <1>2, <1>3, <1>4 DEF Shifted, Between, T, R

(* So do the blocks around. *)
LEMMA PairAround ==
  ASSUME NEW t, NEW r, NEW a, NEW z, Around(t, r, a, z), NEW b, NEW i, NEW j, PairAt(t, b, i, j),
         \A k \in Between(t, a, z) : t[k] # Opens(b) /\ t[k] # Ends(b),
         \A k \in Between(r, a, z) : r[k] # Opens(b) /\ r[k] # Ends(b),
         i <= a /\ j > a => \A k \in Between(r, a, z) : Plain(r[k])
  PROVE  PairAt(r, b, Shifted(t, r, a, i), Shifted(t, r, a, j))
<1> DEFINE M(k) == Shifted(t, r, a, k)
           In(k) == k \in Between(t, a, z)
           New(k) == k \in Between(r, a, z)
<1>1. /\ \A k \in 1 .. Len(t) : ~In(k) => M(k) \in 1 .. Len(r) /\ ~New(M(k)) /\ r[M(k)] = t[k]
      /\ \A l \in 1 .. Len(r) : ~New(l) => \E k \in 1 .. Len(t) : ~In(k) /\ l = M(k)
      /\ \A k, l \in 1 .. Len(t) : ~In(k) /\ ~In(l) => (k < l <=> M(k) < M(l))
  BY PlacesAround
<1>2. /\ i \in 1 .. Len(t) /\ j \in 1 .. Len(t) /\ i < j
      /\ \A k \in 1 .. Len(t) : (t[k] = Opens(b) <=> k = i) /\ (t[k] = Ends(b) <=> k = j)
      /\ \A k \in i + 1 .. j - 1 : Plain(t[k])
  BY DEF PairAt
<1>3. a \in Nat /\ z \in Nat /\ Len(t) \in Nat /\ Len(r) \in Nat /\ a + z <= Len(t) /\ a + z <= Len(r)
  BY DEF Around
<1>4. ~In(i) /\ ~In(j)
  BY <1>2
<1>5. \A k \in 1 .. Len(t) : M(k) \in Int
  BY <1>3 DEF Shifted
<1>6. \A k \in 1 .. Len(t) : k <= a => M(k) = k
  BY DEF Shifted
<1>7. \A k \in Between(r, a, z) : k \in Int /\ k > a /\ k <= Len(r) - z
  BY <1>3 DEF Between
<1>8. \A k \in 1 .. Len(t) : ~In(k) /\ k > a => M(k) > Len(r) - z
  BY <1>3 DEF Shifted, Between
<1> HIDE DEF M, In, New
<1>9. M(i) \in 1 .. Len(r) /\ M(j) \in 1 .. Len(r) /\ M(i) < M(j)
  BY <1>1, <1>2, <1>4
<1>10. ASSUME NEW l \in 1 .. Len(r)
       PROVE  (r[l] = Opens(b) <=> l = M(i)) /\ (r[l] = Ends(b) <=> l = M(j))
  <2>1. CASE New(l)
    <3>1. l # M(i) /\ l # M(j)
      BY <1>1, <1>2, <1>4, <2>1
    <3> QED BY <2>1, <3>1 DEF New
  <2>2. CASE ~New(l)
    <3>1. PICK k \in 1 .. Len(t) : ~In(k) /\ l = M(k)
      BY <1>1, <2>2
    <3>2. r[l] = t[k]
      BY <1>1, <3>1
    <3>3. (k = i <=> M(k) = M(i)) /\ (k = j <=> M(k) = M(j))
      <4>1. \A x, y \in 1 .. Len(t) : ~In(x) /\ ~In(y) /\ M(x) = M(y) => x = y
        BY <1>1, <1>5
      <4> QED BY <1>2, <1>4, <3>1, <4>1
    <3> QED BY <1>2, <3>1, <3>2, <3>3
  <2> QED BY <2>1, <2>2
<1>11. ASSUME NEW l \in M(i) + 1 .. M(j) - 1  PROVE Plain(r[l])
  <2>1. l \in 1 .. Len(r) /\ M(i) < l /\ l < M(j)
    BY <1>9
  <2>2. CASE New(l)
    <3>1. l > a /\ l <= Len(r) - z
      BY <1>7, <2>2 DEF New
    <3>2. i <= a
      <4> SUFFICES ASSUME i > a PROVE FALSE
        BY <1>2, <1>3
      <4>1. M(i) > Len(r) - z
        BY <1>2, <1>4, <1>8
      <4> QED BY <1>3, <1>9, <2>1, <3>1, <4>1
    <3>3. j > a
      <4> SUFFICES ASSUME j <= a PROVE FALSE
        BY <1>2, <1>3
      <4>1. M(j) = j
        BY <1>2, <1>6
      <4> QED BY <1>2, <1>3, <2>1, <3>1, <4>1
    <3> QED BY <2>2, <3>2, <3>3 DEF New
  <2>3. CASE ~New(l)
    <3>1. PICK k \in 1 .. Len(t) : ~In(k) /\ l = M(k)
      BY <1>1, <2>1, <2>3
    <3>2. i < k /\ k < j
      BY <1>1, <1>2, <1>4, <2>1, <3>1
    <3>3. Plain(t[k])
      BY <1>2, <3>2
    <3> QED BY <1>1, <3>1, <3>3
  <2> QED BY <2>2, <2>3
<1> QED BY <1>9, <1>10, <1>11 DEF PairAt, M

(* Nor do blocks appear if none is put between. *)
LEMMA NoneAround ==
  ASSUME NEW t, NEW r, NEW a, NEW z, Around(t, r, a, z), NEW b, NoneOf(t, b),
         \A k \in Between(r, a, z) : r[k] # Opens(b) /\ r[k] # Ends(b)
  PROVE  NoneOf(r, b)
<1> SUFFICES ASSUME NEW l \in 1 .. Len(r), l \notin Between(r, a, z)
             PROVE  r[l] # Opens(b) /\ r[l] # Ends(b)
  BY DEF NoneOf
<1>1. PICK k \in 1 .. Len(t) : k \notin Between(t, a, z) /\ l = Shifted(t, r, a, k)
  BY PlacesAround
<1>2. r[l] = t[k]
  BY <1>1, PlacesAround
<1> QED BY <1>2 DEF NoneOf

(* All pieces stay known. *)
LEMMA KnownAround ==
  ASSUME NEW t, NEW r, NEW a, NEW z, Around(t, r, a, z), AllKnown(t), \A k \in Between(r, a, z) : Known(r[k])
  PROVE  AllKnown(r)
<1> SUFFICES ASSUME NEW l \in 1 .. Len(r), l \notin Between(r, a, z)  PROVE Known(r[l])
  BY DEF AllKnown
<1>1. PICK k \in 1 .. Len(t) : k \notin Between(t, a, z) /\ l = Shifted(t, r, a, k)
  BY PlacesAround
<1>2. r[l] = t[k]
  BY <1>1, PlacesAround
<1> QED BY <1>2 DEF AllKnown

(* Block b of t lists x; it does so once. *)
Lists(t, b, x) == \E i, j : PairAt(t, b, i, j) /\ \E k \in i + 1 .. j - 1 : t[k] = x
Once(t, b, x)  ==
  \E i, j : PairAt(t, b, i, j) /\ \E k \in i + 1 .. j - 1 : t[k] = x /\ \A l \in i + 1 .. j - 1 : t[l] = x => l = k

(* A text has a block in one place. *)
LEMMA OnePair ==
  ASSUME NEW t, NEW b, NEW i, NEW j, PairAt(t, b, i, j), NEW k, NEW l, PairAt(t, b, k, l)
  PROVE  i = k /\ j = l
BY DEF PairAt

(* A block that is around still lists what it did. *)
LEMMA ListsAround ==
  ASSUME NEW t, NEW r, NEW a, NEW z, Around(t, r, a, z), NEW b, NEW i, NEW j, PairAt(t, b, i, j),
         \A k \in Between(t, a, z) : t[k] # Opens(b) /\ t[k] # Ends(b),
         \A k \in Between(r, a, z) : r[k] # Opens(b) /\ r[k] # Ends(b),
         j <= a \/ i > a, NEW x
  PROVE  (Lists(t, b, x) => Lists(r, b, x)) /\ (Once(t, b, x) => Once(r, b, x))
<1>1. /\ a \in Nat /\ z \in Nat /\ Len(t) \in Nat /\ Len(r) \in Nat /\ a + z <= Len(t) /\ a + z <= Len(r)
      /\ \A k \in 1 .. a : r[k] = t[k]
      /\ \A k \in 1 .. z : r[Len(r) - z + k] = t[Len(t) - z + k]
  BY DEF Around
<1>2. i \in 1 .. Len(t) /\ j \in 1 .. Len(t) /\ i < j /\ i \notin Between(t, a, z)
  BY DEF PairAt
<1> DEFINE s == IF j <= a THEN 0 ELSE Len(r) - Len(t)
<1>3. s \in Int /\ \A k \in i .. j : r[k + s] = t[k]
  <2>1. CASE j <= a
    BY <1>1, <1>2, <2>1
  <2>2. CASE ~(j <= a)
    <3>1. i > a
      BY <2>2
    <3>2. i > Len(t) - z
      BY <1>1, <1>2, <3>1 DEF Between
    <3> SUFFICES ASSUME NEW k \in i .. j PROVE r[k + s] = t[k]
      BY <1>1
    <3>3. /\ k - (Len(t) - z) \in 1 .. z /\ Len(t) - z + (k - (Len(t) - z)) = k
          /\ Len(r) - z + (k - (Len(t) - z)) = k + s
      BY <1>1, <1>2, <2>2, <3>2
    <3> HIDE DEF s
    <3> QED BY <1>1, <3>3
  <2> QED BY <2>1, <2>2
<1>4. Shifted(t, r, a, i) = i + s /\ Shifted(t, r, a, j) = j + s
  BY <1>1, <1>2 DEF Shifted
<1>5. PairAt(r, b, Shifted(t, r, a, i), Shifted(t, r, a, j))
  <2>1. ~(i <= a /\ j > a)
    BY <1>1, <1>2
  <2> QED BY <2>1, PairAround
<1>6. PairAt(r, b, i + s, j + s)
  BY <1>4, <1>5
<1> HIDE DEF s
<1>7. ASSUME NEW k \in i + 1 .. j - 1, t[k] = x
      PROVE  k + s \in (i + s) + 1 .. (j + s) - 1 /\ r[k + s] = x
  BY <1>2, <1>3, <1>7
<1>8. ASSUME Lists(t, b, x)  PROVE Lists(r, b, x)
  <2>1. PICK k \in i + 1 .. j - 1 : t[k] = x
    BY <1>8, OnePair DEF Lists
  <2> QED BY <1>6, <1>7, <2>1 DEF Lists
<1>9. ASSUME Once(t, b, x)  PROVE Once(r, b, x)
  <2>1. PICK k \in i + 1 .. j - 1 : t[k] = x /\ \A l \in i + 1 .. j - 1 : t[l] = x => l = k
    BY <1>9, OnePair DEF Once
  <2>2. ASSUME NEW m \in (i + s) + 1 .. (j + s) - 1, r[m] = x  PROVE m = k + s
    <3>1. m - s \in i + 1 .. j - 1 /\ (m - s) + s = m
      BY <1>2, <1>3
    <3>2. t[m - s] = x
      BY <1>2, <1>3, <2>2, <3>1
    <3>3. m - s = k
      BY <2>1, <3>1, <3>2
    <3> QED BY <1>3, <3>1, <3>3
  <2> QED BY <1>6, <1>7, <2>1, <2>2 DEF Once
<1> QED BY <1>8, <1>9

-----------------------------------------------------------------------------
(* Blocks that are filled. *)

(* A text with content in block b, between its marks at i, and what is around. *)
Filled(t, r, b, content, i) ==
  LET n == Len(content)
  IN  /\ i \in 1 .. Len(r) /\ i + n + 1 <= Len(r)
      /\ r[i] = Opens(b) /\ r[i + n + 1] = Ends(b) /\ \A k \in 1 .. n : r[i + k] = content[k]
      /\ \/ \E j : PairAt(t, b, i, j) /\ Around(t, r, i, Len(t) - j + 1) /\ Len(r) - (Len(t) - j + 1) = i + n
         \/ NoneOf(t, b) /\ i = Len(t) + 1 /\ Len(r) = Len(t) + n + 2 /\ Around(t, r, Len(t), 0)

(* What a block is made of. *)
LEMMA BlockPieces ==
  ASSUME NEW S, NEW b, Opens(b) \in S, Ends(b) \in S, NEW content \in Seq(S)
  PROVE  /\ Block(b, content) \in Seq(S) /\ Len(content) \in Nat /\ Len(Block(b, content)) = Len(content) + 2
         /\ Block(b, content)[1] = Opens(b) /\ Block(b, content)[Len(content) + 2] = Ends(b)
         /\ \A k \in 1 .. Len(content) : Block(b, content)[1 + k] = content[k]
<1> DEFINE m == Block(b, content)
           n == Len(content)
           p == <<Opens(b)>>
           q == <<Ends(b)>>
<1>1. Glued(m, p, content, q)
  BY DEF Glued, Block
<1>2. p \in Seq(S) /\ q \in Seq(S) /\ Len(p) = 1 /\ Len(q) = 1 /\ p[1] = Opens(b) /\ q[1] = Ends(b) /\ n \in Nat
  OBVIOUS
<1> HIDE DEF m, p, q
<1>3. Laid(S, m, p, content, q)
  BY <1>1, <1>2, Pieces, Zenon
<1>4. /\ m \in Seq(S) /\ Len(m) = 1 + n + 1
      /\ \A k \in 1 .. 1 : m[k] = p[k]
      /\ \A k \in 1 .. n : m[1 + k] = content[k]
      /\ \A k \in 1 .. 1 : m[1 + n + k] = q[k]
  BY <1>2, <1>3, Zenon DEF Laid
<1>5. 1 \in 1 .. 1 /\ 1 + n + 1 = n + 2
  BY <1>2
<1> QED BY <1>2, <1>4, <1>5 DEF m

(* How long a text is before and after, and what its block lists. *)
Sizes(t, r, content, T, R, n) == T = Len(t) /\ R = Len(r) /\ n = Len(content)

(* Where the pieces of a filled block and of the text around it are. *)
LEMMA FilledAt ==
  ASSUME NEW t, NEW r, NEW b, NEW content, NEW i, NEW j, NEW n \in Nat, NEW T \in Nat, NEW R \in Int,
         Sizes(t, r, content, T, R, n), PairAt(t, b, i, j), R = (i - 1) + (n + 2) + (T - j),
         \A k \in 1 .. i - 1 : r[k] = t[k],
         r[i] = Opens(b), r[i + n + 1] = Ends(b), \A k \in 1 .. n : r[i + k] = content[k],
         \A k \in 1 .. T - j : r[(i - 1) + (n + 2) + k] = t[j + k]
  PROVE  Filled(t, r, b, content, i)
<1>1. i \in 1 .. T /\ j \in 1 .. T /\ i < j /\ t[i] = Opens(b) /\ t[j] = Ends(b)
  BY DEF PairAt, Sizes
<1>2. /\ R \in Nat /\ i \in 1 .. R /\ i + n + 1 <= R /\ R - (T - j + 1) = i + n
      /\ i \in Nat /\ T - j + 1 \in Nat /\ i + (T - j + 1) <= T /\ i + (T - j + 1) <= R
  BY <1>1
<1>3. ASSUME NEW k \in 1 .. i  PROVE r[k] = t[k]
  BY <1>1
<1>4. ASSUME NEW k \in 1 .. T - j + 1  PROVE r[R - (T - j + 1) + k] = t[T - (T - j + 1) + k]
  <2>1. CASE k = 1
    <3>1. R - (T - j + 1) + k = i + n + 1 /\ T - (T - j + 1) + k = j
      BY <1>1, <1>2, <2>1
    <3> QED BY <1>1, <3>1
  <2>2. CASE k # 1
    <3>1. /\ k - 1 \in 1 .. T - j /\ R - (T - j + 1) + k = (i - 1) + (n + 2) + (k - 1)
          /\ T - (T - j + 1) + k = j + (k - 1)
      BY <1>1, <1>2, <2>2
    <3>2. r[(i - 1) + (n + 2) + (k - 1)] = t[j + (k - 1)]
      BY <3>1
    <3> QED BY <3>1, <3>2
  <2> QED BY <2>1, <2>2
<1>5. Around(t, r, i, T - j + 1)
  BY <1>2, <1>3, <1>4 DEF Around, Sizes
<1> QED BY <1>2, <1>5 DEF Filled, Sizes

(* r is t with m for what is from i to j. *)
Replaced(t, r, m, i, j) == r = SubSeq(t, 1, i - 1) \o m \o SubSeq(t, j + 1, Len(t))

(* Where the pieces of such a text are. *)
LaidFrom(S, t, r, m, i, j) ==
  /\ r \in Seq(S) /\ Len(r) = (i - 1) + Len(m) + (Len(t) - j)
  /\ \A k \in 1 .. i - 1 : r[k] = t[k]
  /\ \A k \in 1 .. Len(m) : r[(i - 1) + k] = m[k]
  /\ \A k \in 1 .. Len(t) - j : r[(i - 1) + Len(m) + k] = t[j + k]
Takes(S, t, m, i, j) == m \in Seq(S) /\ t \in Seq(S) /\ i \in 1 .. Len(t) + 1 /\ j \in i - 1 .. Len(t)

LEMMA ReplacedPieces ==
  ASSUME NEW S, NEW t, NEW r, NEW m, NEW i, NEW j, Takes(S, t, m, i, j), Replaced(t, r, m, i, j)
  PROVE  LaidFrom(S, t, r, m, i, j)
<1>1. PICK p : p = SubSeq(t, 1, i - 1)
  OBVIOUS
<1>2. PICK q : q = SubSeq(t, j + 1, Len(t))
  OBVIOUS
<1>0. m \in Seq(S) /\ t \in Seq(S) /\ i \in 1 .. Len(t) + 1 /\ j \in i - 1 .. Len(t)
  BY DEF Takes
<1>3. p \in Seq(S) /\ Len(p) = i - 1 /\ \A k \in 1 .. i - 1 : p[k] = t[k]
  BY <1>0, <1>1
<1>4. q \in Seq(S) /\ Len(q) = Len(t) - j /\ \A k \in 1 .. Len(t) - j : q[k] = t[j + k]
  BY <1>0, <1>2
<1>5. Glued(r, p, m, q)
  BY <1>1, <1>2 DEF Glued, Replaced
<1>6. Laid(S, r, p, m, q)
  BY <1>0, <1>3, <1>4, <1>5, Pieces, Zenon
<1>7. /\ r \in Seq(S) /\ Len(r) = (i - 1) + Len(m) + (Len(t) - j)
      /\ \A k \in 1 .. i - 1 : r[k] = p[k]
      /\ \A k \in 1 .. Len(m) : r[(i - 1) + k] = m[k]
      /\ \A k \in 1 .. Len(t) - j : r[(i - 1) + Len(m) + k] = q[k]
  BY <1>3, <1>4, <1>6, Zenon DEF Laid
<1> QED BY <1>3, <1>4, <1>7 DEF LaidFrom

(* A block put between two texts is filled. *)
LEMMA PairFilled ==
  ASSUME NEW S, NEW b, Opens(b) \in S, Ends(b) \in S, NEW content \in Seq(S), NEW t \in Seq(S),
         NEW i, NEW j, PairAt(t, b, i, j), NEW r, Replaced(t, r, Block(b, content), i, j)
  PROVE  r \in Seq(S) /\ Filled(t, r, b, content, i)
<1>1. PICK m : m = Block(b, content)
  OBVIOUS
<1>2. PICK n : n = Len(content)
  OBVIOUS
<1>3. /\ m \in Seq(S) /\ n \in Nat /\ Len(m) = n + 2 /\ m[1] = Opens(b) /\ m[n + 2] = Ends(b)
      /\ \A k \in 1 .. n : m[1 + k] = content[k]
  BY <1>1, <1>2, BlockPieces
<1>4. i \in 1 .. Len(t) /\ j \in 1 .. Len(t) /\ i < j /\ Len(t) \in Nat
  BY DEF PairAt
<1>5. Replaced(t, r, m, i, j)
  BY <1>1
<1>6. LaidFrom(S, t, r, m, i, j)
  <2>1. i \in 1 .. Len(t) + 1 /\ j \in i - 1 .. Len(t)
    BY <1>4
  <2>2. Takes(S, t, m, i, j)
    BY <1>3, <2>1 DEF Takes
  <2> QED BY <1>5, <2>2, ReplacedPieces
<1>7. PICK T \in Nat : T = Len(t)
  BY <1>4
<1>8. i \in 1 .. T /\ j \in 1 .. T /\ i < j
  BY <1>4, <1>7
<1>9. /\ r \in Seq(S) /\ Len(r) = (i - 1) + (n + 2) + (T - j)
      /\ \A k \in 1 .. i - 1 : r[k] = t[k]
      /\ \A k \in 1 .. n + 2 : r[(i - 1) + k] = m[k]
      /\ \A k \in 1 .. T - j : r[(i - 1) + (n + 2) + k] = t[j + k]
  BY <1>3, <1>6, <1>7, Zenon DEF LaidFrom
<1>10. r[i] = Opens(b) /\ r[i + n + 1] = Ends(b)
  <2>1. 1 \in 1 .. n + 2 /\ (i - 1) + 1 = i /\ n + 2 \in 1 .. n + 2 /\ (i - 1) + (n + 2) = i + n + 1
    BY <1>3, <1>8
  <2> QED BY <1>3, <1>9, <2>1
<1>11. ASSUME NEW k \in 1 .. n PROVE r[i + k] = content[k]
  <2>1. 1 + k \in 1 .. n + 2 /\ (i - 1) + (1 + k) = i + k
    BY <1>3, <1>8
  <2> QED BY <1>3, <1>9, <2>1
<1>12. PICK R \in Int : R = Len(r)
  BY <1>9
<1>13. Filled(t, r, b, content, i)
  <2>1. Sizes(t, r, content, T, R, n)
    BY <1>2, <1>7, <1>12 DEF Sizes
  <2>2. R = (i - 1) + (n + 2) + (T - j)
    BY <1>9, <1>12
  <2> QED BY <1>3, <1>9, <1>10, <1>11, <2>1, <2>2, FilledAt, Zenon
<1> QED BY <1>9, <1>13

Joined(r, p, q) == r = p \o q
LaidInTwo(S, r, p, q) ==
  /\ r \in Seq(S) /\ Len(r) = Len(p) + Len(q)
  /\ \A k \in 1 .. Len(p) : r[k] = p[k]
  /\ \A k \in 1 .. Len(q) : r[Len(p) + k] = q[k]

(* Where the pieces of two texts put together are. *)
LEMMA TwoPieces ==
  ASSUME NEW S, NEW p \in Seq(S), NEW q \in Seq(S), NEW r, Joined(r, p, q)
  PROVE  LaidInTwo(S, r, p, q)
<1>1. r \in Seq(S)
  BY DEF Joined
<1>2. Len(r) = Len(p) + Len(q)
  BY DEF Joined
<1>3. \A k \in 1 .. Len(p) : r[k] = p[k]
  BY DEF Joined
<1>4. \A k \in 1 .. Len(q) : r[Len(p) + k] = q[k]
  BY DEF Joined
<1> QED BY <1>1, <1>2, <1>3, <1>4 DEF LaidInTwo

(* A block put at the end is filled. *)
LEMMA NoneFilled ==
  ASSUME NEW S, NEW b, Opens(b) \in S, Ends(b) \in S, NEW content \in Seq(S), NEW t \in Seq(S),
         NoneOf(t, b)
  PROVE  Appended(t, b, content) \in Seq(S) /\ Filled(t, Appended(t, b, content), b, content, Len(t) + 1)
<1>1. PICK m : m = Block(b, content)
  OBVIOUS
<1>2. PICK n : n = Len(content)
  OBVIOUS
<1>3. /\ m \in Seq(S) /\ n \in Nat /\ Len(m) = n + 2 /\ m[1] = Opens(b) /\ m[n + 2] = Ends(b)
      /\ \A k \in 1 .. n : m[1 + k] = content[k]
  BY <1>1, <1>2, BlockPieces
<1>4. PICK T \in Nat : T = Len(t)
  OBVIOUS
<1>5. PICK r : r = t \o m
  OBVIOUS
<1>6. /\ r \in Seq(S) /\ Len(r) = T + n + 2
      /\ \A k \in 1 .. T : r[k] = t[k]
      /\ \A k \in 1 .. n + 2 : r[T + k] = m[k]
  <2>1. /\ r \in Seq(S) /\ Len(r) = Len(t) + Len(m)
        /\ \A k \in 1 .. Len(t) : r[k] = t[k]
        /\ \A k \in 1 .. Len(m) : r[Len(t) + k] = m[k]
    <3>1. Joined(r, t, m)
      BY <1>5 DEF Joined
    <3>2. LaidInTwo(S, r, t, m)
      BY <1>3, <3>1, TwoPieces, Zenon
    <3> QED BY <3>2, Zenon DEF LaidInTwo
  <2>2. \A i, j \in Nat : i + (j + 2) = i + j + 2
    OBVIOUS
  <2>3. T + (n + 2) = T + n + 2
    BY <1>3, <2>2
  <2> QED BY <1>3, <1>4, <2>1, <2>3
<1>7. r[T + 1] = Opens(b) /\ r[T + 1 + n + 1] = Ends(b)
  <2>1. \A i, j \in Nat : 1 \in 1 .. j + 2 /\ j + 2 \in 1 .. j + 2 /\ i + 1 + j + 1 = i + (j + 2)
    OBVIOUS
  <2>2. 1 \in 1 .. n + 2 /\ n + 2 \in 1 .. n + 2 /\ T + 1 + n + 1 = T + (n + 2)
    BY <1>3, <2>1
  <2> QED BY <1>3, <1>6, <2>2
<1>8. ASSUME NEW k \in 1 .. n PROVE r[(T + 1) + k] = content[k]
  <2>0. \A i, j \in Nat : \A l \in 1 .. j : 1 + l \in 1 .. j + 2 /\ i + (1 + l) = (i + 1) + l
    OBVIOUS
  <2>1. 1 + k \in 1 .. n + 2 /\ T + (1 + k) = (T + 1) + k
    BY <1>3, <2>0
  <2> QED BY <1>3, <1>6, <2>1
<1>9. Around(t, r, T, 0)
  <2>1. /\ T \in Nat /\ 0 \in Nat /\ Len(t) \in Nat /\ Len(r) \in Nat /\ T + 0 <= Len(t) /\ T + 0 <= Len(r)
    BY <1>3, <1>4, <1>6
  <2>2. 1 .. 0 = {}
    OBVIOUS
  <2> QED BY <1>6, <2>1, <2>2 DEF Around
<1>10. T + 1 \in 1 .. Len(r) /\ (T + 1) + n + 1 <= Len(r)
  BY <1>3, <1>6
<1>11. Filled(t, r, b, content, T + 1)
  BY <1>2, <1>4, <1>6, <1>7, <1>8, <1>9, <1>10 DEF Filled
<1>12. r = Appended(t, b, content)
  BY <1>1, <1>5 DEF Appended
<1> QED BY <1>4, <1>6, <1>11, <1>12

(* Where a block is, what it lists and what is behind it. *)
Cut(t, b, i, j) ==
  /\ Before(t, Opens(b)) = SubSeq(t, 1, i - 1) /\ After(t, Ends(b)) = SubSeq(t, j + 1, Len(t))
  /\ HasBlock(t, b) /\ Rows(t, b) = SubSeq(t, i + 1, j - 1) /\ Behind(t, b) = SubSeq(t, j + 1, Len(t))
  /\ Where(t, Opens(b)) # {} /\ Where(t, Ends(b)) # {}

LEMMA PairCut ==
  ASSUME NEW S, NEW t \in Seq(S), NEW b, NEW i, NEW j, PairAt(t, b, i, j)
  PROVE  Cut(t, b, i, j)
<1>1. /\ i \in 1 .. Len(t) /\ j \in 1 .. Len(t) /\ i < j
      /\ \A k \in 1 .. Len(t) : (t[k] = Opens(b) <=> k = i) /\ (t[k] = Ends(b) <=> k = j)
  BY DEF PairAt
<1>2. DOMAIN t = 1 .. Len(t) /\ Len(t) \in Nat
  OBVIOUS
<1>3. Where(t, Opens(b)) = {i} /\ Where(t, Ends(b)) = {j}
  BY <1>1, <1>2 DEF Where
<1>4. Min({i}) = i /\ Min({j}) = j
  BY <1>1, MinOfOne
<1>5. From(t, b) = i
  BY <1>3, <1>4 DEF From
<1>6. Closings(t, b) = {j}
  BY <1>1, <1>3, <1>5 DEF Closings
<1>7. To(t, b) = j
  BY <1>4, <1>6 DEF To
<1>8. Before(t, Opens(b)) = SubSeq(t, 1, i - 1) /\ After(t, Ends(b)) = SubSeq(t, j + 1, Len(t))
  BY <1>3, <1>4 DEF Before, After
<1>9. HasBlock(t, b)
  BY <1>3, <1>6 DEF HasBlock
<1>10. Rows(t, b) = SubSeq(t, i + 1, j - 1) /\ Behind(t, b) = SubSeq(t, j + 1, Len(t))
  BY <1>5, <1>7, <1>9 DEF Rows, Behind
<1> QED BY <1>3, <1>8, <1>9, <1>10 DEF Cut

(* Where there is none. *)
LEMMA NoneCut ==
  ASSUME NEW S, NEW t \in Seq(S), NEW b, NoneOf(t, b)
  PROVE  ~HasBlock(t, b) /\ Rows(t, b) = <<>> /\ Where(t, Opens(b)) = {} /\ Where(t, Ends(b)) = {}
<1>1. DOMAIN t = 1 .. Len(t)
  OBVIOUS
<1>2. Where(t, Opens(b)) = {} /\ Where(t, Ends(b)) = {}
  BY <1>1 DEF NoneOf, Where
<1> QED BY <1>2 DEF HasBlock, Rows

(* Merging fills the block, wherever it is. *)
LEMMA MergeFills ==
  ASSUME NEW S, NEW t \in Seq(S), NEW b, Opens(b) \in S, Ends(b) \in S, NEW content \in Seq(S),
         NoneOf(t, b) \/ \E i, j : PairAt(t, b, i, j)
  PROVE  Merge(t, b, content) \in Seq(S) /\ \E i : Filled(t, Merge(t, b, content), b, content, i)
<1>1. CASE NoneOf(t, b)
  <2>1. Where(t, Opens(b)) = {}
    BY <1>1, NoneCut
  <2>2. Merge(t, b, content) = Appended(t, b, content)
    BY <2>1 DEF Merge
  <2> QED BY <1>1, <2>2, NoneFilled
<1>2. ASSUME NEW i, NEW j, PairAt(t, b, i, j)
      PROVE  Merge(t, b, content) \in Seq(S) /\ \E k : Filled(t, Merge(t, b, content), b, content, k)
  <2>1. Cut(t, b, i, j)
    BY <1>2, PairCut
  <2>2. PICK r : r = Merge(t, b, content)
    OBVIOUS
  <2>3. Replaced(t, r, Block(b, content), i, j)
    BY <2>1, <2>2 DEF Cut, Merge, Replaced
  <2>4. r \in Seq(S) /\ Filled(t, r, b, content, i)
    BY <1>2, <2>3, PairFilled
  <2> QED BY <2>2, <2>4
<1> QED BY <1>1, <1>2

(* Confirming information merges the rows that are kept, and the new one. *)
LEMMA RegisterMerges ==
  ASSUME NEW S, NEW t \in Seq(S), NoneOf(t, "conversation") \/ \E i, j : PairAt(t, "conversation", i, j),
         NEW row, ~Splices(t, row)
  PROVE  Register(t, row) = Merge(t, "conversation", Kept(t, row) \o <<row>>)
<1>1. CASE NoneOf(t, "conversation")
  BY <1>1, NoneCut DEF Register, Merge
<1>2. ASSUME NEW i, NEW j, PairAt(t, "conversation", i, j)
      PROVE  Register(t, row) = Merge(t, "conversation", Kept(t, row) \o <<row>>)
  <2>1. Cut(t, "conversation", i, j)
    BY <1>2, PairCut
  <2> QED BY <2>1 DEF Cut, Register, Merge
<1> QED BY <1>1, <1>2

-----------------------------------------------------------------------------
(* What stays of a text in order that is changed in one place. *)

(* Between a and z of t there is only what scripts list; of r, no note, and no *)
(* mark but those of b.                                                        *)
Changed(t, r, a, z, b) ==
  /\ Around(t, r, a, z)
  /\ \A k \in Between(t, a, z) : Plain(t[k])
  /\ \A k \in Between(r, a, z) :
       /\ Known(r[k]) /\ r[k][1] # "note"
       /\ \A c \in Blocks \ {b} : r[k] # Opens(c) /\ r[k] # Ends(c)

(* No other block has the change between its marks, or it adds nothing but what scripts list. *)
LEMMA OrderAround ==
  ASSUME NEW S, NEW t \in Seq(S), NEW r \in Seq(S), InOrder(t), NEW a, NEW z, NEW b, Changed(t, r, a, z, b),
         b \in Blocks => NoneOf(r, b) \/ \E i, j : PairAt(r, b, i, j),
         \/ \A k \in Between(r, a, z) : Plain(r[k])
         \/ \A c \in Blocks \ {b} : \A i, j : PairAt(t, c, i, j) => j <= a \/ i > a
  PROVE  InOrder(r) /\ Notes(r) = Notes(t)
<1>1. AllKnown(t) /\ \A c \in Blocks : NoneOf(t, c) \/ \E i, j : PairAt(t, c, i, j)
  BY OrderedText
<1>2. Around(t, r, a, z) /\ a \in Nat
  BY DEF Changed, Around
<1>3. \A k \in Between(t, a, z) : Plain(t[k])
  BY DEF Changed
<1>4. \A k \in Between(r, a, z) : Known(r[k]) /\ r[k][1] # "note"
  BY DEF Changed
<1>5. AllKnown(r)
  BY <1>1, <1>2, <1>4, KnownAround
<1>6. Notes(r) = Notes(t)
  <2>1. \A k \in Between(t, a, z) : t[k][1] # "note"
    BY <1>3 DEF Plain
  <2> QED BY <1>2, <1>4, <2>1, NotesAround
<1>7. ASSUME NEW c \in Blocks, c # b  PROVE NoneOf(r, c) \/ \E i, j : PairAt(r, c, i, j)
  <2>1. \A k \in Between(r, a, z) : r[k] # Opens(c) /\ r[k] # Ends(c)
    BY <1>7 DEF Changed
  <2>2. \A k \in Between(t, a, z) : t[k] # Opens(c) /\ t[k] # Ends(c)
    BY <1>3, MarksDiffer
  <2>3. CASE NoneOf(t, c)
    BY <1>2, <2>1, <2>3, NoneAround
  <2>4. ASSUME NEW i, NEW j, PairAt(t, c, i, j)  PROVE \E k, l : PairAt(r, c, k, l)
    <3>1. i \in 1 .. Len(t) /\ j \in 1 .. Len(t)
      BY <2>4 DEF PairAt
    <3>2. i <= a /\ j > a => \A k \in Between(r, a, z) : Plain(r[k])
      <4>1. ~(i <= a /\ j > a /\ (j <= a \/ i > a))
        BY <1>2, <3>1
      <4> QED BY <1>7, <2>4, <4>1
    <3>3. PairAt(r, c, Shifted(t, r, a, i), Shifted(t, r, a, j))
      BY <1>2, <2>1, <2>2, <2>4, <3>2, PairAround
    <3> QED BY <3>3
  <2> QED BY <1>1, <2>3, <2>4
<1>8. \A c \in Blocks : NoneOf(r, c) \/ \E i, j : PairAt(r, c, i, j)
  BY <1>7
<1> QED BY <1>5, <1>6, <1>8, OrderedText

(* r is in order, has the notes of t and lists in other blocks than b what t did. *)
Keeping(t, r, b) ==
  /\ InOrder(r) /\ Notes(r) = Notes(t)
  /\ \A c \in Blocks \ {b} : \A x : (Lists(t, c, x) => Lists(r, c, x)) /\ (Once(t, c, x) => Once(r, c, x))

(* So it is if no other block has the change between its marks. *)
LEMMA KeepingAround ==
  ASSUME NEW S, NEW t \in Seq(S), NEW r \in Seq(S), InOrder(t), NEW a, NEW z, NEW b, Changed(t, r, a, z, b),
         NoneOf(r, b) \/ \E i, j : PairAt(r, b, i, j),
         \A c \in Blocks \ {b} : \A i, j : PairAt(t, c, i, j) => j <= a \/ i > a
  PROVE  Keeping(t, r, b)
<1>1. InOrder(r) /\ Notes(r) = Notes(t)
  BY OrderAround
<1>2. ASSUME NEW c \in Blocks \ {b}, NEW x, NEW i, NEW j, PairAt(t, c, i, j)
      PROVE  (Lists(t, c, x) => Lists(r, c, x)) /\ (Once(t, c, x) => Once(r, c, x))
  <2>1. \A k \in Between(r, a, z) : r[k] # Opens(c) /\ r[k] # Ends(c)
    BY DEF Changed
  <2>2. \A k \in Between(t, a, z) : t[k] # Opens(c) /\ t[k] # Ends(c)
    BY MarksDiffer DEF Changed
  <2>3. Around(t, r, a, z) /\ (j <= a \/ i > a)
    BY <1>2 DEF Changed
  <2> QED BY <1>2, <2>1, <2>2, <2>3, ListsAround
<1>3. \A c, x : Lists(t, c, x) \/ Once(t, c, x) => \E i, j : PairAt(t, c, i, j)
  BY DEF Lists, Once
<1> QED BY <1>1, <1>2, <1>3 DEF Keeping

(* The marks of one block are not between those of another. *)
LEMMA PairsApart ==
  ASSUME NEW t, NEW b, NEW i, NEW j, PairAt(t, b, i, j), NEW c, c # b, NEW k, NEW l, PairAt(t, c, k, l)
  PROVE  l <= i \/ k > i
<1>1. i \in 1 .. Len(t) /\ k \in 1 .. Len(t) /\ l \in 1 .. Len(t) /\ t[i] = Opens(b) /\ t[k] = Opens(c)
  BY DEF PairAt
<1>2. i \notin k + 1 .. l - 1
  BY <1>1, MarksDiffer DEF PairAt
<1>3. i # k
  BY <1>1, MarksDiffer
<1> QED BY <1>1, <1>2, <1>3

(* Filling a block of a text in order with what scripts list keeps the rest. *)
LEMMA FilledKeeps ==
  ASSUME NEW S, NEW t \in Seq(S), NEW r \in Seq(S), InOrder(t), NEW b \in Blocks, NEW content \in Seq(S),
         \A k \in 1 .. Len(content) : Plain(content[k]), NEW i, Filled(t, r, b, content, i)
  PROVE  Keeping(t, r, b) /\ PairAt(r, b, i, i + Len(content) + 1)
<1>1. PICK n \in Nat : n = Len(content)
  OBVIOUS
<1>2. PICK T \in Nat : T = Len(t)
  OBVIOUS
<1>3. PICK R \in Nat : R = Len(r)
  OBVIOUS
<1>4. /\ i \in 1 .. R /\ i + n + 1 <= R
      /\ r[i] = Opens(b) /\ r[i + n + 1] = Ends(b) /\ \A k \in 1 .. n : r[i + k] = content[k]
      /\ \/ \E j : PairAt(t, b, i, j) /\ Around(t, r, i, T - j + 1) /\ R - (T - j + 1) = i + n
         \/ NoneOf(t, b) /\ i = T + 1 /\ R = T + n + 2 /\ Around(t, r, T, 0)
  BY <1>1, <1>2, <1>3 DEF Filled
<1>5. ASSUME NEW k \in i + 1 .. i + n  PROVE Plain(r[k])
  <2>1. k - i \in 1 .. n /\ i + (k - i) = k
    BY <1>4
  <2> QED BY <1>1, <1>4, <2>1
<1>6. ASSUME NEW x, Plain(x)  PROVE Known(x) /\ x[1] # "note" /\ \A c : x # Opens(c) /\ x # Ends(c)
  BY <1>6, MarksDiffer DEF Known, Plain
<1>7. ASSUME NEW x \in {Opens(b), Ends(b)}
      PROVE  Known(x) /\ x[1] # "note" /\ \A c \in Blocks \ {b} : x # Opens(c) /\ x # Ends(c)
  BY MarksDiffer DEF Known
<1>8. ASSUME NEW j, PairAt(t, b, i, j), Around(t, r, i, T - j + 1), R - (T - j + 1) = i + n
      PROVE  Keeping(t, r, b) /\ PairAt(r, b, i, i + n + 1)
  <2>1. i \in 1 .. T /\ j \in 1 .. T /\ i < j /\ \A k \in i + 1 .. j - 1 : Plain(t[k])
    BY <1>2, <1>8 DEF PairAt
  <2>2. Between(t, i, T - j + 1) = i + 1 .. j - 1 /\ Between(r, i, T - j + 1) = i + 1 .. i + n
    <3>1. T - (T - j + 1) = j - 1
      BY <2>1
    <3> QED BY <1>2, <1>3, <1>8, <3>1 DEF Between
  <2>3. Changed(t, r, i, T - j + 1, b)
    BY <1>5, <1>6, <1>8, <2>1, <2>2 DEF Changed
  <2>4. PairAt(r, b, Shifted(t, r, i, i), Shifted(t, r, i, j))
    <3>1. \A k \in Between(t, i, T - j + 1) : t[k] # Opens(b) /\ t[k] # Ends(b)
      BY <1>6, <2>1, <2>2
    <3>2. \A k \in Between(r, i, T - j + 1) : r[k] # Opens(b) /\ r[k] # Ends(b) /\ Plain(r[k])
      BY <1>5, <1>6, <2>2
    <3> QED BY <1>8, <3>1, <3>2, PairAround
  <2>5. Shifted(t, r, i, i) = i /\ Shifted(t, r, i, j) = i + n + 1
    <3>1. ~(j <= i) /\ j + R - T = i + n + 1
      BY <1>8, <2>1
    <3> QED BY <1>2, <1>3, <2>1, <3>1 DEF Shifted
  <2>6. PairAt(r, b, i, i + n + 1)
    BY <2>4, <2>5
  <2>7. \A c \in Blocks \ {b} : \A k, l : PairAt(t, c, k, l) => l <= i \/ k > i
    BY <1>8, PairsApart
  <2>8. Keeping(t, r, b)
    BY <2>3, <2>6, <2>7, KeepingAround
  <2> QED BY <2>6, <2>8
<1>9. ASSUME NoneOf(t, b), i = T + 1, R = T + n + 2, Around(t, r, T, 0)
      PROVE  Keeping(t, r, b) /\ PairAt(r, b, i, i + n + 1)
  <2>1. Between(t, T, 0) = {} /\ Between(r, T, 0) = T + 1 .. R
    BY <1>2, <1>3 DEF Between
  <2>2. \A k \in T + 1 .. R : k = i \/ k = i + n + 1 \/ k \in i + 1 .. i + n
    BY <1>9
  <2>3. ASSUME NEW k \in T + 1 .. R
        PROVE  Known(r[k]) /\ r[k][1] # "note" /\ \A c \in Blocks \ {b} : r[k] # Opens(c) /\ r[k] # Ends(c)
    <3>1. CASE k = i \/ k = i + n + 1
      BY <1>4, <1>7, <3>1
    <3>2. CASE k \in i + 1 .. i + n
      BY <1>5, <1>6, <3>2
    <3> QED BY <2>2, <3>1, <3>2
  <2>4. Changed(t, r, T, 0, b)
    BY <1>9, <2>1, <2>3 DEF Changed
  <2>5. \A k \in 1 .. T : r[k] = t[k]
    BY <1>9 DEF Around
  <2>6. ASSUME NEW k \in 1 .. R
        PROVE  (r[k] = Opens(b) <=> k = i) /\ (r[k] = Ends(b) <=> k = i + n + 1)
    <3>1. CASE k \in 1 .. T
      BY <1>2, <1>9, <2>5, <3>1 DEF NoneOf
    <3>2. CASE k = i \/ k = i + n + 1
      BY <1>4, <3>2, MarksDiffer
    <3>3. CASE k \in i + 1 .. i + n
      BY <1>4, <1>5, <1>6, <3>3
    <3> QED BY <1>9, <2>2, <3>1, <3>2, <3>3
  <2>7. i \in 1 .. R /\ i + n + 1 \in 1 .. R /\ i < i + n + 1 /\ (i + n + 1) - 1 = i + n
    BY <1>4
  <2>8. PairAt(r, b, i, i + n + 1)
    BY <1>3, <1>5, <2>6, <2>7 DEF PairAt
  <2>9. \A c \in Blocks \ {b} : \A k, l : PairAt(t, c, k, l) => l <= T \/ k > T
    BY <1>2 DEF PairAt
  <2>10. Keeping(t, r, b)
    BY <2>4, <2>8, <2>9, KeepingAround
  <2> QED BY <2>8, <2>10
<1> QED BY <1>1, <1>4, <1>8, <1>9

(* A text of any pieces is one of its own. *)
LEMMA Retyped ==
  ASSUME NEW S, NEW t \in Seq(S)
  PROVE  t \in Seq(Range(t))
<1>1. t \in [1 .. Len(t) -> S] /\ Len(t) \in Nat /\ DOMAIN t = 1 .. Len(t)
  BY LenProperties
<1>2. t \in [1 .. Len(t) -> Range(t)]
  BY <1>1 DEF Range
<1> QED BY <1>1, <1>2

(* What a block lists is the rows between its marks. *)
LEMMA ListedIn ==
  ASSUME NEW t, NEW b, NEW i, NEW n \in Nat, NEW s, Len(s) = n, PairAt(t, b, i, i + n + 1),
         \A k \in 1 .. n : t[i + k] = s[k], NEW x
  PROVE  /\ Lists(t, b, x) <=> \E k \in 1 .. n : s[k] = x
         /\ Once(t, b, x) <=> (\E k \in 1 .. n : s[k] = x) /\ NotTwice(s, x)
<1>1. i \in Int /\ \A k, l : PairAt(t, b, k, l) => k = i /\ l = i + n + 1
  BY OnePair DEF PairAt
<1>2. (i + n + 1) - 1 = i + n
  BY <1>1
<1>3. \A k \in 1 .. n : i + k \in i + 1 .. i + n /\ (i + k) - i = k
  BY <1>1
<1>4. \A k \in i + 1 .. i + n : k - i \in 1 .. n /\ i + (k - i) = k
  BY <1>1
<1>5. Lists(t, b, x) <=> \E k \in i + 1 .. i + n : t[k] = x
  BY <1>1, <1>2 DEF Lists
<1>6. Once(t, b, x) <=> \E k \in i + 1 .. i + n : t[k] = x /\ \A l \in i + 1 .. i + n : t[l] = x => l = k
  BY <1>1, <1>2 DEF Once
<1>7. (\E k \in i + 1 .. i + n : t[k] = x) <=> \E k \in 1 .. n : s[k] = x
  BY <1>3, <1>4
<1>8. ASSUME NEW k \in i + 1 .. i + n, t[k] = x, \A l \in i + 1 .. i + n : t[l] = x => l = k
      PROVE  (\E p \in 1 .. n : s[p] = x) /\ NotTwice(s, x)
  <2>1. \A p \in 1 .. n : s[p] = x => p = k - i
    BY <1>1, <1>3, <1>8
  <2> QED BY <1>7, <1>8, <2>1 DEF NotTwice
<1>9. ASSUME NEW k \in 1 .. n, s[k] = x, NotTwice(s, x)
      PROVE  \E p \in i + 1 .. i + n : t[p] = x /\ \A l \in i + 1 .. i + n : t[l] = x => l = p
  <2>1. i + k \in i + 1 .. i + n /\ t[i + k] = x
    BY <1>3, <1>9
  <2>2. ASSUME NEW l \in i + 1 .. i + n, t[l] = x  PROVE l = i + k
    <3>1. l - i \in 1 .. n /\ i + (l - i) = l
      BY <1>4
    <3>2. s[l - i] = x
      BY <2>2, <3>1
    <3>3. l - i = k
      BY <1>9, <3>1, <3>2 DEF NotTwice
    <3> QED BY <1>1, <3>1, <3>3
  <2> QED BY <2>1, <2>2
<1> QED BY <1>5, <1>6, <1>7, <1>8, <1>9

(* Those of a text in order. *)
LEMMA RowsAre ==
  ASSUME NEW S, NEW t \in Seq(S), InOrder(t), NEW b \in Blocks
  PROVE  /\ Rows(t, b) \in Seq(S) /\ \A k \in 1 .. Len(Rows(t, b)) : Plain(Rows(t, b)[k])
         /\ \A x : /\ Lists(t, b, x) <=> \E k \in 1 .. Len(Rows(t, b)) : Rows(t, b)[k] = x
                   /\ Once(t, b, x) <=> (\E k \in 1 .. Len(Rows(t, b)) : Rows(t, b)[k] = x) /\ NotTwice(Rows(t, b), x)
<1>1. NoneOf(t, b) \/ \E i, j : PairAt(t, b, i, j)
  BY OrderedText
<1>2. CASE NoneOf(t, b)
  <2>1. Rows(t, b) = <<>>
    BY <1>2, NoneCut
  <2>2. \A i, j : ~PairAt(t, b, i, j)
    BY <1>2 DEF PairAt, NoneOf
  <2>3. \A x : ~Lists(t, b, x) /\ ~Once(t, b, x)
    BY <2>2 DEF Lists, Once
  <2>4. <<>> \in Seq(S) /\ Len(<<>>) = 0 /\ 1 .. 0 = {}
    OBVIOUS
  <2> QED BY <2>1, <2>3, <2>4
<1>3. ASSUME NEW i, NEW j, PairAt(t, b, i, j)
      PROVE  /\ Rows(t, b) \in Seq(S) /\ \A k \in 1 .. Len(Rows(t, b)) : Plain(Rows(t, b)[k])
             /\ \A x : /\ Lists(t, b, x) <=> \E k \in 1 .. Len(Rows(t, b)) : Rows(t, b)[k] = x
                       /\ Once(t, b, x) <=> (\E k \in 1 .. Len(Rows(t, b)) : Rows(t, b)[k] = x) /\ NotTwice(Rows(t, b), x)
  <2>1. PICK s : s = Rows(t, b)
    OBVIOUS
  <2>2. s = SubSeq(t, i + 1, j - 1)
    BY <1>3, <2>1, PairCut DEF Cut
  <2>3. i \in 1 .. Len(t) /\ j \in 1 .. Len(t) /\ i < j /\ Len(t) \in Nat
    BY <1>3 DEF PairAt
  <2>4. s \in Seq(S) /\ Len(s) = j - i - 1 /\ \A k \in 1 .. j - i - 1 : s[k] = t[i + k]
    BY <2>2, <2>3
  <2>5. PICK n \in Nat : n = j - i - 1 /\ j = i + n + 1
    BY <2>3
  <2>6. Len(s) = n /\ PairAt(t, b, i, i + n + 1) /\ \A k \in 1 .. n : t[i + k] = s[k]
    BY <1>3, <2>4, <2>5
  <2>7. \A x : /\ Lists(t, b, x) <=> \E k \in 1 .. n : s[k] = x
               /\ Once(t, b, x) <=> (\E k \in 1 .. n : s[k] = x) /\ NotTwice(s, x)
    BY <2>6, ListedIn
  <2>8. ASSUME NEW k \in 1 .. n  PROVE Plain(s[k])
    <3>1. i + k \in i + 1 .. j - 1
      BY <2>3, <2>5
    <3> QED BY <1>3, <2>6, <3>1 DEF PairAt
  <2> QED BY <2>1, <2>4, <2>6, <2>7, <2>8
<1> QED BY <1>1, <1>2, <1>3

(* What a merge makes of a text in order. *)
Merged(t, r, b, content) ==
  /\ r \in Seq(Range(r)) /\ Keeping(t, r, b)
  /\ \A x : /\ Lists(r, b, x) <=> \E k \in 1 .. Len(content) : content[k] = x
            /\ Once(r, b, x) <=> (\E k \in 1 .. Len(content) : content[k] = x) /\ NotTwice(content, x)

LEMMA MergeKeeps ==
  ASSUME NEW S, NEW t \in Seq(S), InOrder(t), NEW b \in Blocks, NEW content \in Seq(S),
         \A k \in 1 .. Len(content) : Plain(content[k])
  PROVE  Merged(t, Merge(t, b, content), b, content)
<1>1. PICK U : U = S \cup {Opens(b), Ends(b)}
  OBVIOUS
<1>2. t \in Seq(U) /\ content \in Seq(U) /\ Opens(b) \in U /\ Ends(b) \in U
  BY <1>1
<1>3. PICK r : r = Merge(t, b, content)
  OBVIOUS
<1>4. NoneOf(t, b) \/ \E i, j : PairAt(t, b, i, j)
  BY OrderedText
<1>5. r \in Seq(U) /\ \E i : Filled(t, r, b, content, i)
  BY <1>2, <1>3, <1>4, MergeFills
<1>6. PICK i : Filled(t, r, b, content, i)
  BY <1>5
<1>7. Keeping(t, r, b) /\ PairAt(r, b, i, i + Len(content) + 1)
  BY <1>2, <1>5, <1>6, FilledKeeps
<1>8. PICK n \in Nat : n = Len(content)
  OBVIOUS
<1>9. \A k \in 1 .. n : r[i + k] = content[k]
  BY <1>6, <1>8 DEF Filled
<1>10. PairAt(r, b, i, i + n + 1)
  BY <1>7, <1>8
<1>11. \A x : /\ Lists(r, b, x) <=> \E k \in 1 .. n : content[k] = x
              /\ Once(r, b, x) <=> (\E k \in 1 .. n : content[k] = x) /\ NotTwice(content, x)
  BY <1>8, <1>9, <1>10, ListedIn
<1>12. r \in Seq(Range(r))
  BY <1>5, Retyped
<1> QED BY <1>3, <1>7, <1>8, <1>11, <1>12 DEF Merged

(* In a text in order no block begins twice. *)
LEMMA OrderedOnce ==
  ASSUME NEW S, NEW t \in Seq(S), InOrder(t)
  PROVE  NoBlockTwice(t)
<1>1. DOMAIN t = 1 .. Len(t)
  OBVIOUS
<1>2. AllKnown(t) /\ \A b \in Blocks : NoneOf(t, b) \/ \E i, j : PairAt(t, b, i, j)
  BY OrderedText
<1> SUFFICES ASSUME NEW i \in 1 .. Len(t), NEW j \in 1 .. Len(t), t[i][1] = "start", t[i] = t[j]  PROVE i = j
  BY <1>1 DEF NoBlockTwice
<1>3. t[i] \in Marks
  BY <1>2 DEF AllKnown, Known, Plain
<1>4. PICK b \in Blocks : t[i] \in {Opens(b), Ends(b)}
  BY <1>3 DEF Marks
<1>5. t[i] = Opens(b)
  BY <1>4, MarksDiffer
<1> QED BY <1>2, <1>5 DEF NoneOf, PairAt

-----------------------------------------------------------------------------
(* What each script makes of a document. *)

(* Rows without one of them: the others stay, and none comes twice. *)
Sifted(S, p, s, row) ==
  /\ p \in Seq(S)
  /\ \A k \in 1 .. Len(p) : p[k] # row /\ \E i \in 1 .. Len(s) : p[k] = s[i]
  /\ \A i \in 1 .. Len(s) : s[i] # row => \E k \in 1 .. Len(p) : p[k] = s[i]
  /\ \A x : NotTwice(s, x) => NotTwice(p, x)

LEMMA AllButOne ==
  ASSUME NEW S, NEW s \in Seq(S), NEW row
  PROVE  Sifted(S, AllBut(s, row), s, row)
<1>1. PICK I : I = {i \in DOMAIN s : s[i] # row}
  OBVIOUS
<1>2. AllBut(s, row) = Picked(s, I)
  BY <1>1 DEF AllBut
<1>3. Picked(s, I) \in Seq(S) /\ Chosen(Picked(s, I), s, I)
  BY PickedPieces
<1>4. \A i \in 1 .. Len(s) : i \in I <=> s[i] # row
  BY <1>1
<1> QED BY <1>2, <1>3, <1>4 DEF Chosen, Sifted

(* Information that is kept unless it is confirmed anew. *)
Confirmable(x) == Stays(x) /\ x[2] # "begun"

(* registrar_dados_conversados.mjs: the information is there once, and the other rows are as they were. *)
LEMMA RegisterKeeps ==
  ASSUME NEW S, NEW t \in Seq(S), InOrder(t), NEW row, row[1] = "row", ~Splices(t, row)
  PROVE  /\ Register(t, row) \in Seq(Range(Register(t, row))) /\ Keeping(t, Register(t, row), "conversation")
         /\ Once(Register(t, row), "conversation", row)
         /\ \A x : Confirmable(x) /\ Once(t, "conversation", x) => Once(Register(t, row), "conversation", x)
<1>1. PICK s : s = Rows(t, "conversation")
  OBVIOUS
<1>2. PICK p : p = Kept(t, row)
  OBVIOUS
<1>3. PICK m : m = p \o <<row>>
  OBVIOUS
<1>4. PICK U : U = S \cup {row}
  OBVIOUS
<1>5. t \in Seq(U) /\ <<row>> \in Seq(U) /\ Len(<<row>>) = 1 /\ <<row>>[1] = row
  BY <1>4
<1>6. "conversation" \in Blocks
  BY DEF Blocks
<1>7. /\ s \in Seq(U) /\ \A k \in 1 .. Len(s) : Plain(s[k])
      /\ \A x : Once(t, "conversation", x) <=> (\E k \in 1 .. Len(s) : s[k] = x) /\ NotTwice(s, x)
  BY <1>1, <1>5, <1>6, RowsAre
<1>8. /\ p \in Seq(U)
      /\ \A k \in 1 .. Len(p) : p[k] # row /\ \E i \in 1 .. Len(s) : p[k] = s[i]
      /\ \A i \in 1 .. Len(s) : s[i] # row /\ Confirmable(s[i]) => \E k \in 1 .. Len(p) : p[k] = s[i]
      /\ \A x : NotTwice(s, x) => NotTwice(p, x)
  <2>1. PICK I : I = {i \in DOMAIN s : Stays(s[i]) /\ s[i] \notin {row, Begun(row)}}
    OBVIOUS
  <2>2. p = Picked(s, I)
    BY <1>1, <1>2, <2>1 DEF Kept
  <2>3. p \in Seq(U) /\ Chosen(p, s, I)
    BY <1>7, <2>2, PickedPieces
  <2>4. DOMAIN s = 1 .. Len(s)
    BY <1>7
  <2>5. Begun(row)[2] = "begun"
    BY DEF Begun
  <2>6. \A i \in 1 .. Len(s) : i \in I => s[i] # row
    BY <2>1
  <2>7. \A i \in 1 .. Len(s) : s[i] # row /\ Confirmable(s[i]) => i \in I
    BY <2>1, <2>4, <2>5 DEF Confirmable
  <2> QED BY <2>3, <2>6, <2>7 DEF Chosen
<1>9. /\ m \in Seq(U) /\ Len(m) = Len(p) + 1 /\ Len(p) \in Nat
      /\ \A k \in 1 .. Len(p) : m[k] = p[k]
      /\ m[Len(p) + 1] = row
  <2>1. Joined(m, p, <<row>>)
    BY <1>3 DEF Joined
  <2>2. /\ m \in Seq(U) /\ Len(m) = Len(p) + Len(<<row>>)
        /\ \A k \in 1 .. Len(p) : m[k] = p[k]
        /\ \A k \in 1 .. Len(<<row>>) : m[Len(p) + k] = <<row>>[k]
    <3>1. LaidInTwo(U, m, p, <<row>>)
      BY <1>5, <1>8, <2>1, TwoPieces, Zenon
    <3> QED BY <3>1, Zenon DEF LaidInTwo
  <2>3. 1 \in 1 .. 1 /\ Len(p) \in Nat
    BY <1>8
  <2> QED BY <1>5, <2>2, <2>3
<1>10. \A k \in 1 .. Len(m) : k \in 1 .. Len(p) \/ k = Len(p) + 1
  BY <1>9
<1>11. \A k \in 1 .. Len(p) : k \in 1 .. Len(m) /\ k # Len(p) + 1
  BY <1>9
<1>12. Len(p) + 1 \in 1 .. Len(m)
  BY <1>9
<1>13. \A k \in 1 .. Len(m) : Plain(m[k])
  <2>1. Plain(row)
    BY DEF Plain
  <2> QED BY <1>7, <1>8, <1>9, <1>10, <2>1
<1>14. (\E k \in 1 .. Len(m) : m[k] = row) /\ NotTwice(m, row)
  BY <1>8, <1>9, <1>10, <1>12 DEF NotTwice
<1>15. ASSUME NEW x, x # row, Confirmable(x), \E k \in 1 .. Len(s) : s[k] = x, NotTwice(s, x)
       PROVE  (\E k \in 1 .. Len(m) : m[k] = x) /\ NotTwice(m, x)
  <2>1. (\E k \in 1 .. Len(p) : p[k] = x) /\ NotTwice(p, x)
    BY <1>8, <1>15
  <2>2. \E k \in 1 .. Len(m) : m[k] = x
    BY <1>9, <1>11, <2>1
  <2>3. NotTwice(m, x)
    BY <1>9, <1>10, <1>15, <2>1 DEF NotTwice
  <2> QED BY <2>2, <2>3
<1>16. Merged(t, Merge(t, "conversation", m), "conversation", m)
  BY <1>5, <1>6, <1>9, <1>13, MergeKeeps
<1>17. Register(t, row) = Merge(t, "conversation", m)
  <2>1. NoneOf(t, "conversation") \/ \E i, j : PairAt(t, "conversation", i, j)
    BY <1>6, OrderedText
  <2> QED BY <1>1, <1>2, <1>3, <2>1, RegisterMerges
<1>18. PICK r : r = Register(t, row)
  OBVIOUS
<1>19. /\ r \in Seq(Range(r)) /\ Keeping(t, r, "conversation")
       /\ \A x : Once(r, "conversation", x) <=> (\E k \in 1 .. Len(m) : m[k] = x) /\ NotTwice(m, x)
  BY <1>16, <1>17, <1>18 DEF Merged
<1>20. \A x : Confirmable(x) /\ Once(t, "conversation", x) => Once(r, "conversation", x)
  BY <1>7, <1>14, <1>15, <1>19
<1> QED BY <1>14, <1>18, <1>19, <1>20

(* update_stack.mjs: the new row is listed, and the others still are. *)
LEMMA StackKeeps ==
  ASSUME NEW S, NEW t \in Seq(S), InOrder(t), NEW v, NEW r, r = Merge(t, "stack", Detected(t, v))
  PROVE  /\ r \in Seq(Range(r)) /\ Keeping(t, r, "stack") /\ Lists(r, "stack", <<"row", v>>)
         /\ \A x : Lists(t, "stack", x) => Lists(r, "stack", x)
<1>0. PICK row : row = <<"row", v>>
  OBVIOUS
<1>1. PICK s : s = Rows(t, "stack")
  OBVIOUS
<1>2. PICK p : p = AllBut(s, row)
  OBVIOUS
<1>3. PICK m : m = <<row>> \o p
  OBVIOUS
<1>4. PICK U : U = S \cup {row}
  OBVIOUS
<1>5. t \in Seq(U) /\ <<row>> \in Seq(U) /\ Len(<<row>>) = 1 /\ <<row>>[1] = row
  BY <1>4
<1>6. "stack" \in Blocks
  BY DEF Blocks
<1>7. /\ s \in Seq(U) /\ \A k \in 1 .. Len(s) : Plain(s[k])
      /\ \A x : Lists(t, "stack", x) <=> \E k \in 1 .. Len(s) : s[k] = x
  BY <1>1, <1>5, <1>6, RowsAre
<1>8. /\ p \in Seq(U)
      /\ \A k \in 1 .. Len(p) : \E i \in 1 .. Len(s) : p[k] = s[i]
      /\ \A i \in 1 .. Len(s) : s[i] # row => \E k \in 1 .. Len(p) : p[k] = s[i]
  <2>1. Sifted(U, p, s, row)
    BY <1>2, <1>7, AllButOne
  <2> QED BY <2>1 DEF Sifted
<1>9. /\ m \in Seq(U) /\ Len(m) = 1 + Len(p) /\ Len(p) \in Nat
      /\ m[1] = row /\ \A k \in 1 .. Len(p) : m[1 + k] = p[k]
  <2>1. Joined(m, <<row>>, p)
    BY <1>3 DEF Joined
  <2>2. /\ m \in Seq(U) /\ Len(m) = Len(<<row>>) + Len(p)
        /\ \A k \in 1 .. Len(<<row>>) : m[k] = <<row>>[k]
        /\ \A k \in 1 .. Len(p) : m[Len(<<row>>) + k] = p[k]
    <3>1. LaidInTwo(U, m, <<row>>, p)
      BY <1>5, <1>8, <2>1, TwoPieces, Zenon
    <3> QED BY <3>1, Zenon DEF LaidInTwo
  <2>3. 1 \in 1 .. 1 /\ Len(p) \in Nat
    BY <1>8
  <2> QED BY <1>5, <2>2, <2>3
<1>10. \A k \in 1 .. Len(m) : k = 1 \/ (k - 1 \in 1 .. Len(p) /\ 1 + (k - 1) = k)
  BY <1>9
<1>11. \A k \in 1 .. Len(p) : 1 + k \in 1 .. Len(m)
  BY <1>9
<1>12. 1 \in 1 .. Len(m)
  BY <1>9
<1>13. \A k \in 1 .. Len(m) : Plain(m[k])
  <2>1. Plain(row)
    BY <1>0 DEF Plain
  <2> SUFFICES ASSUME NEW k \in 1 .. Len(m), k - 1 \in 1 .. Len(p), 1 + (k - 1) = k  PROVE Plain(m[k])
    BY <1>9, <1>10, <2>1
  <2>2. m[k] = p[k - 1]
    BY <1>9
  <2> QED BY <1>7, <1>8, <2>2
<1>14. \A x : (x = row \/ \E k \in 1 .. Len(s) : s[k] = x) => \E k \in 1 .. Len(m) : m[k] = x
  <2>1. \E k \in 1 .. Len(m) : m[k] = row
    BY <1>9, <1>12
  <2>2. ASSUME NEW x, x # row, NEW k \in 1 .. Len(s), s[k] = x  PROVE \E l \in 1 .. Len(m) : m[l] = x
    <3>1. PICK l \in 1 .. Len(p) : p[l] = x
      BY <1>8, <2>2
    <3> QED BY <1>9, <1>11, <3>1
  <2> QED BY <2>1, <2>2
<1>15. OldRows(t) = s
  <2>1. CASE NoneOf(t, "stack")
    BY <1>1, <2>1, NoneCut DEF OldRows
  <2>2. ASSUME NEW i, NEW j, PairAt(t, "stack", i, j)  PROVE OldRows(t) = s
    BY <1>1, <2>2, PairCut DEF OldRows, Cut
  <2> QED BY <1>6, <2>1, <2>2, OrderedText
<1>16. Detected(t, v) = m
  BY <1>0, <1>2, <1>3, <1>15 DEF Detected
<1>17. Merged(t, r, "stack", m)
  BY <1>5, <1>6, <1>9, <1>13, <1>16, MergeKeeps
<1> QED BY <1>0, <1>7, <1>14, <1>17 DEF Merged

(* r is t with m put in after place a; a text has a piece. *)
Inserted(t, r, m, a) ==
  /\ a \in 0 .. Len(t) /\ Len(r) = Len(t) + Len(m)
  /\ \A k \in 1 .. a : r[k] = t[k]
  /\ \A k \in 1 .. Len(m) : r[a + k] = m[k]
  /\ \A k \in 1 .. Len(t) - a : r[a + Len(m) + k] = t[a + k]
Includes(t, x) == \E k \in 1 .. Len(t) : t[k] = x

(* Putting what scripts list into a text in order keeps the order, the notes and the pieces. *)
LEMMA InsertedKeeps ==
  ASSUME NEW S, NEW t \in Seq(S), NEW r \in Seq(S), InOrder(t), NEW m \in Seq(S),
         \A k \in 1 .. Len(m) : Plain(m[k]), NEW a, Inserted(t, r, m, a)
  PROVE  /\ InOrder(r) /\ Notes(r) = Notes(t)
         /\ \A x : Includes(r, x) <=> Includes(t, x) \/ Includes(m, x)
         /\ \A x : NotTwice(t, x) /\ NotTwice(m, x) /\ ~(Includes(t, x) /\ Includes(m, x)) => NotTwice(r, x)
<1>1. PICK T \in Nat : T = Len(t)
  OBVIOUS
<1>2. PICK n \in Nat : n = Len(m)
  OBVIOUS
<1>3. PICK R \in Nat : R = Len(r)
  OBVIOUS
<1>4. /\ a \in 0 .. T /\ R = T + n
      /\ \A k \in 1 .. a : r[k] = t[k]
      /\ \A k \in 1 .. n : r[a + k] = m[k]
      /\ \A k \in 1 .. T - a : r[a + n + k] = t[a + k]
  BY <1>1, <1>2, <1>3 DEF Inserted
<1>5. Around(t, r, a, T - a)
  <2>1. \A k \in 1 .. T - a : R - (T - a) + k = a + n + k /\ T - (T - a) + k = a + k
    BY <1>4
  <2>2. \A k \in 1 .. T - a : r[R - (T - a) + k] = t[T - (T - a) + k]
    BY <1>4, <2>1
  <2>3. a \in Nat /\ T - a \in Nat /\ a + (T - a) <= T /\ a + (T - a) <= R
    BY <1>4
  <2> QED BY <1>1, <1>3, <1>4, <2>2, <2>3 DEF Around
<1>6. Between(t, a, T - a) = {} /\ Between(r, a, T - a) = a + 1 .. a + n
  <2>1. T - (T - a) = a /\ R - (T - a) = a + n
    BY <1>4
  <2> QED BY <1>1, <1>3, <1>4, <2>1 DEF Between
<1>7. \A k \in a + 1 .. a + n : Plain(r[k])
  <2> SUFFICES ASSUME NEW k \in a + 1 .. a + n  PROVE Plain(r[k])
    OBVIOUS
  <2>1. k - a \in 1 .. n /\ a + (k - a) = k
    BY <1>4
  <2> QED BY <1>2, <1>4, <2>1
<1>8. Changed(t, r, a, T - a, "rules")
  <2>1. \A x : Plain(x) => Known(x) /\ x[1] # "note" /\ \A c : x # Opens(c) /\ x # Ends(c)
    BY MarksDiffer DEF Known, Plain
  <2> QED BY <1>5, <1>6, <1>7, <2>1 DEF Changed
<1>9. InOrder(r) /\ Notes(r) = Notes(t)
  <2>1. "rules" \notin Blocks
    BY DEF Blocks
  <2> QED BY <1>6, <1>7, <1>8, <2>1, OrderAround
<1>10. ASSUME NEW l \in 1 .. R
       PROVE  \/ l \in 1 .. a /\ l \in 1 .. T /\ r[l] = t[l]
              \/ l - a \in 1 .. n /\ r[l] = m[l - a]
              \/ l - n \in a + 1 .. T /\ l - n \in 1 .. T /\ r[l] = t[l - n]
  <2>1. CASE l <= a
    BY <1>4, <2>1
  <2>2. CASE l > a /\ l <= a + n
    <3>1. l - a \in 1 .. n /\ a + (l - a) = l
      BY <1>4, <2>2
    <3> QED BY <1>4, <3>1
  <2>3. CASE l > a + n
    <3>1. a \in Nat /\ a <= T /\ R = T + n /\ l \in Nat /\ l <= R
      BY <1>4
    <3>2. l - n \in a + 1 .. T /\ l - n \in 1 .. T
      BY <2>3, <3>1
    <3>3. l - n - a \in 1 .. T - a
      BY <2>3, <3>1
    <3>4. a + n + (l - n - a) = l /\ a + (l - n - a) = l - n
      BY <2>3, <3>1
    <3>5. r[l] = t[l - n]
      BY <1>4, <3>3, <3>4
    <3> QED BY <3>2, <3>5
  <2> QED BY <1>4, <2>1, <2>2, <2>3
<1>11. ASSUME NEW x  PROVE Includes(r, x) <=> Includes(t, x) \/ Includes(m, x)
  <2>1. ASSUME NEW k \in 1 .. T, t[k] = x  PROVE \E l \in 1 .. R : r[l] = x
    <3>1. CASE k <= a
      <4>1. k \in 1 .. a /\ k \in 1 .. R
        BY <1>4, <3>1
      <4> QED BY <1>4, <2>1, <4>1
    <3>2. CASE k > a
      <4>1. k - a \in 1 .. T - a /\ a + (k - a) = k /\ a + n + (k - a) \in 1 .. R
        BY <1>4, <3>2
      <4> QED BY <1>4, <2>1, <4>1
    <3> QED BY <1>4, <3>1, <3>2
  <2>2. ASSUME NEW k \in 1 .. n, m[k] = x  PROVE \E l \in 1 .. R : r[l] = x
    <3>1. a + k \in 1 .. R
      BY <1>4
    <3> QED BY <1>4, <2>2, <3>1
  <2>3. ASSUME NEW l \in 1 .. R, r[l] = x
        PROVE  (\E k \in 1 .. T : t[k] = x) \/ \E k \in 1 .. n : m[k] = x
    BY <1>10, <2>3
  <2> QED BY <1>1, <1>2, <1>3, <2>1, <2>2, <2>3 DEF Includes
<1>12. ASSUME NEW x, NotTwice(t, x), NotTwice(m, x), ~(Includes(t, x) /\ Includes(m, x))
       PROVE  NotTwice(r, x)
  <2> SUFFICES ASSUME NEW k \in 1 .. R, NEW l \in 1 .. R, r[k] = x, r[l] = x  PROVE k = l
    BY <1>3 DEF NotTwice
  <2>0. a \in Int /\ n \in Int
    BY <1>4
  <2>1. \A i, j \in 1 .. T : t[i] = x /\ t[j] = x => i = j
    BY <1>1, <1>12 DEF NotTwice
  <2>2. \A i, j \in 1 .. n : m[i] = x /\ m[j] = x => i = j
    BY <1>2, <1>12 DEF NotTwice
  <2>3. ~((\E i \in 1 .. T : t[i] = x) /\ \E i \in 1 .. n : m[i] = x)
    BY <1>1, <1>2, <1>12 DEF Includes
  <2>4. CASE k - a \in 1 .. n /\ m[k - a] = x
    <3>1. l - a \in 1 .. n /\ m[l - a] = x
      BY <1>10, <2>3, <2>4
    <3>2. k - a = l - a
      BY <2>2, <2>4, <3>1
    <3> QED BY <2>0, <3>2
  <2>5. CASE ~(k - a \in 1 .. n /\ m[k - a] = x)
    <3>1. \/ k \in 1 .. a /\ k \in 1 .. T /\ t[k] = x
          \/ k - n \in a + 1 .. T /\ k - n \in 1 .. T /\ t[k - n] = x
      BY <1>10, <2>5
    <3>2. \/ l \in 1 .. a /\ l \in 1 .. T /\ t[l] = x
          \/ l - n \in a + 1 .. T /\ l - n \in 1 .. T /\ t[l - n] = x
      BY <1>10, <2>3, <3>1
    <3>3. \/ k = l
          \/ k \in 1 .. a /\ l - n \in a + 1 .. T /\ k = l - n
          \/ l \in 1 .. a /\ k - n \in a + 1 .. T /\ l = k - n
          \/ k - n = l - n
      BY <2>1, <3>1, <3>2
    <3> QED BY <2>0, <3>3
  <2> QED BY <2>4, <2>5
<1> QED BY <1>9, <1>11, <1>12

(* The words of a rule are somewhere in a text. *)
Says(t, rule) == \E x : Includes(t, x) /\ (x = rule \/ <<x, rule>> \in Wordings)

(* What a rule does to a text. *)
RuleAdded(t, r, rule) ==
  /\ r \in Seq(Range(r)) /\ InOrder(r) /\ Notes(r) = Notes(t) /\ Says(r, rule)
  /\ \A x : Includes(t, x) => Includes(r, x)
  /\ \A x : x[1] = "row" /\ NotTwice(t, x) => NotTwice(r, x)

(* The rule, by itself or below its heading. *)
RuleToPut(m, section, rule) == m = <<rule>> \/ m = <<<<"heading", section>>, rule>>

(* Putting in a rule that is not there yet, by itself or below its heading. *)
LEMMA RulePutIn ==
  ASSUME NEW S, NEW t \in Seq(S), NEW r \in Seq(S), InOrder(t), NEW rule, ~Includes(t, rule), rule[1] = "row",
         NEW m \in Seq(S), NEW section, RuleToPut(m, section, rule), NEW a, Inserted(t, r, m, a)
  PROVE  RuleAdded(t, r, rule)
<1>1. PICK h : h = <<"heading", section>>
  OBVIOUS
<1>2. h[1] = "heading" /\ h # rule
  BY <1>1
<1>3. m = <<rule>> \/ m = <<h, rule>>
  BY <1>1 DEF RuleToPut
<1>4. /\ \A k \in 1 .. Len(m) : m[k] \in {h, rule}
      /\ \E k \in 1 .. Len(m) : m[k] = rule
      /\ \A i, j \in 1 .. Len(m) : m[i] = m[j] => i = j
  <2>1. CASE m = <<rule>>
    <3>1. Len(m) = 1 /\ m[1] = rule
      BY <2>1
    <3> QED BY <3>1
  <2>2. CASE m = <<h, rule>>
    <3>1. Len(m) = 2 /\ m[1] = h /\ m[2] = rule
      BY <2>2
    <3>2. 1 .. 2 = {1, 2}
      OBVIOUS
    <3> QED BY <1>2, <3>1, <3>2
  <2> QED BY <1>3, <2>1, <2>2
<1>5. \A k \in 1 .. Len(m) : Plain(m[k])
  BY <1>2, <1>4 DEF Plain
<1>6. /\ InOrder(r) /\ Notes(r) = Notes(t)
      /\ \A x : Includes(r, x) <=> Includes(t, x) \/ Includes(m, x)
      /\ \A x : NotTwice(t, x) /\ NotTwice(m, x) /\ ~(Includes(t, x) /\ Includes(m, x)) => NotTwice(r, x)
  BY <1>5, InsertedKeeps
<1>7. Includes(m, rule)
  BY <1>4 DEF Includes
<1>8. \A x : NotTwice(m, x)
  BY <1>4 DEF NotTwice
<1>9. \A x : Includes(m, x) => x = h \/ x = rule
  BY <1>4 DEF Includes
<1>10. r \in Seq(Range(r))
  BY Retyped
<1>11. \A x : x[1] = "row" => x # h
  BY <1>2
<1>12. Says(r, rule)
  BY <1>6, <1>7 DEF Says
<1> QED BY <1>6, <1>7, <1>8, <1>9, <1>10, <1>11, <1>12 DEF RuleAdded

(* add_rule.mjs: the rule is said, and is there once unless it was there twice. *)
LEMMA RuleKeeps ==
  ASSUME NEW S, NEW t \in Seq(S), InOrder(t), NEW section, NEW rule, rule[1] = "row"
  PROVE  RuleAdded(t, AddRule(t, section, rule), rule)
<1>1. PICK h : h = <<"heading", section>>
  OBVIOUS
<1>2. PICK U : U = S \cup {h, rule}
  OBVIOUS
<1>3. /\ t \in Seq(U) /\ <<rule>> \in Seq(U) /\ <<h, rule>> \in Seq(U)
      /\ Len(<<rule>>) = 1 /\ Len(<<h, rule>>) = 2
  BY <1>2
<1>4. DOMAIN t = 1 .. Len(t) /\ Len(t) \in Nat
  OBVIOUS
<1>5. \A x : Where(t, x) # {} <=> Includes(t, x)
  BY <1>4 DEF Where, Includes
<1>6. PICK r : r = AddRule(t, section, rule)
  OBVIOUS
<1>10. Saying(t, rule) # {} <=> Says(t, rule)
  BY <1>4 DEF Saying, Says, Includes
<1>11. ~Says(t, rule) => ~Includes(t, rule)
  BY DEF Says
<1>7. CASE Says(t, rule)
  <2>1. r = t
    BY <1>6, <1>7, <1>10 DEF AddRule
  <2>2. t \in Seq(Range(t))
    BY Retyped
  <2> QED BY <1>6, <1>7, <2>1, <2>2 DEF RuleAdded
<1>8. CASE ~Says(t, rule) /\ Where(t, h) = {}
  <2>1. r = t \o <<h, rule>>
    BY <1>1, <1>6, <1>8, <1>10 DEF AddRule
  <2>2. PICK m : m = <<h, rule>>
    OBVIOUS
  <2>3. Joined(r, t, m) /\ m \in Seq(U)
    BY <1>3, <2>1, <2>2 DEF Joined
  <2>4. LaidInTwo(U, r, t, m)
    BY <1>3, <2>3, TwoPieces, Zenon
  <2>5. /\ r \in Seq(U) /\ Len(r) = Len(t) + Len(m)
        /\ \A k \in 1 .. Len(t) : r[k] = t[k]
        /\ \A k \in 1 .. Len(m) : r[Len(t) + k] = m[k]
    BY <2>4, Zenon DEF LaidInTwo
  <2>6. Len(t) \in 0 .. Len(t) /\ 1 .. Len(t) - Len(t) = {}
    BY <1>4
  <2>7. Inserted(t, r, m, Len(t))
    BY <2>5, <2>6 DEF Inserted
  <2>8. RuleToPut(m, section, rule)
    BY <1>1, <2>2 DEF RuleToPut
  <2>9. RuleAdded(t, r, rule)
    BY <1>3, <1>8, <1>11, <2>3, <2>5, <2>7, <2>8, RulePutIn, Zenon
  <2> QED BY <1>6, <2>9
<1>9. CASE ~Says(t, rule) /\ Where(t, h) # {}
  <2>1. PICK w : w = Min(Where(t, h))
    OBVIOUS
  <2>2. w \in 1 .. Len(t)
    <3>1. Where(t, h) \subseteq 1 .. Len(t) /\ Where(t, h) \subseteq Nat
      BY <1>4 DEF Where
    <3>2. \E x \in Where(t, h) : \A y \in Where(t, h) : x <= y
      BY <1>9, <3>1, LeastNatural
    <3> QED BY <2>1, <3>1, <3>2 DEF Min
  <2>3. PICK rest : rest = After(t, h)
    OBVIOUS
  <2>4. rest = SubSeq(t, w + 1, Len(t))
    BY <2>1, <2>3 DEF After
  <2>5. Len(rest) = Len(t) - w /\ DOMAIN rest = 1 .. Len(rest)
    <3>1. w + 1 \in 1 .. Len(t) + 1 /\ Len(t) \in Nat
      BY <1>4, <2>2
    <3>2. Len(SubSeq(t, w + 1, Len(t))) = Len(t) - (w + 1) + 1 /\ SubSeq(t, w + 1, Len(t)) \in Seq(U)
      BY <1>3, <3>1
    <3>3. rest \in Seq(U) /\ Len(rest) = Len(t) - (w + 1) + 1
      BY <2>4, <3>2
    <3>4. DOMAIN rest = 1 .. Len(rest)
      BY <3>3
    <3>5. Len(t) - (w + 1) + 1 = Len(t) - w
      BY <3>1, <2>2
    <3> QED BY <3>3, <3>4, <3>5
  <2>6. PICK later : later = {i \in DOMAIN rest : rest[i][1] = "heading"}
    OBVIOUS
  <2>7. PICK at : at = IF later = {} THEN Len(t) ELSE Len(t) - Len(rest) + Min(later) - 1
    OBVIOUS
  <2>8. later # {} => Min(later) \in 1 .. Len(rest)
    <3>1. later \subseteq 1 .. Len(rest) /\ later \subseteq Nat
      BY <2>5, <2>6
    <3>2. later # {} => \E x \in later : \A y \in later : x <= y
      BY <3>1, LeastNatural
    <3> QED BY <3>1, <3>2 DEF Min
  <2>9. at \in 0 .. Len(t)
    BY <1>4, <2>2, <2>5, <2>7, <2>8
  <2>10. r = SubSeq(t, 1, at) \o <<rule>> \o SubSeq(t, at + 1, Len(t))
    BY <1>1, <1>6, <1>9, <1>10, <2>3, <2>6, <2>7 DEF AddRule
  <2>11. PICK m : m = <<rule>>
    OBVIOUS
  <2>12. m \in Seq(U) /\ Len(m) = 1
    BY <1>3, <2>11
  <2>13. (at + 1) - 1 = at
    BY <2>9
  <2>14. Replaced(t, r, m, at + 1, at)
    BY <2>10, <2>11, <2>13 DEF Replaced
  <2>15. Takes(U, t, m, at + 1, at)
    <3>1. at + 1 \in 1 .. Len(t) + 1 /\ at \in (at + 1) - 1 .. Len(t)
      BY <1>4, <2>9
    <3> QED BY <1>3, <2>12, <3>1 DEF Takes
  <2>16. LaidFrom(U, t, r, m, at + 1, at)
    BY <2>14, <2>15, ReplacedPieces
  <2>17. /\ r \in Seq(U) /\ Len(r) = at + Len(m) + (Len(t) - at)
         /\ \A k \in 1 .. at : r[k] = t[k]
         /\ \A k \in 1 .. Len(m) : r[at + k] = m[k]
         /\ \A k \in 1 .. Len(t) - at : r[at + Len(m) + k] = t[at + k]
    BY <2>13, <2>16, Zenon DEF LaidFrom
  <2>18. Inserted(t, r, m, at)
    <3>1. at + Len(m) + (Len(t) - at) = Len(t) + Len(m)
      BY <1>4, <2>9, <2>12
    <3> QED BY <2>9, <2>17, <3>1 DEF Inserted
  <2>19. RuleToPut(m, section, rule)
    BY <2>11 DEF RuleToPut
  <2>20. RuleAdded(t, r, rule)
    BY <1>3, <1>9, <1>11, <2>12, <2>17, <2>18, <2>19, RulePutIn, Zenon
  <2> QED BY <1>6, <2>20
<1> QED BY <1>7, <1>8, <1>9

-----------------------------------------------------------------------------
(* What runs leave of a document. *)

(* A document d that was f at first is as people have left it but for what     *)
(* scripts list; r still has what scripts have put into t; and t has what a    *)
(* run that was asked for q, of version v of the project, puts there.          *)
Preserved(f, d, t) ==
  /\ f \in Seq(Range(f)) /\ t \in Seq(Range(t)) /\ Notes(t) = Notes(f)
  /\ InOrder(t) \/ (d = "SPECKIT.md" /\ Malformed(t) /\ NoBlockTwice(t))
  /\ d = "RULES.md" => \A x : x[1] = "row" /\ NotTwice(f, x) => NotTwice(t, x)
Remembers(d, t, r) ==
  /\ d = "DATABASE.md" => \A x : Confirmable(x) /\ Once(t, "conversation", x) => Once(r, "conversation", x)
  /\ d = "STACK.md" => \A x : Lists(t, "stack", x) => Lists(r, "stack", x)
  /\ d = "RULES.md" => \A x : Includes(t, x) => Includes(r, x)
Confirms(q, v, t) ==
  /\ q.script = "register" /\ Confirmable(q.row) => Once(t, "conversation", q.row)
  /\ q.script = "stack" => Lists(t, "stack", <<"row", v>>)
  /\ q.script = "rule" => Says(t, q.row)

(* What a run that was asked for q writes at some point. *)
Lasting == {"register", "stack", "rule"}
Kind(q, w) ==
  \/ q.script = "register" /\ w = Write("DATABASE.md", "register", "conversation")
  \/ q.script = "stack" /\ w = Write("STACK.md", "stack", "stack")
  \/ q.script = "rule" /\ w = Write("RULES.md", "rule", "rules")
  \/ /\ q.script \notin Lasting
     /\ w.doc \in Docs
     /\ \/ /\ w.how = "block"
           /\ w.block \in Blocks \ {"conversation", "stack"} /\ w.doc \notin {"STACK.md", "RULES.md", "SPECKIT.md"}
        \/ w.how = "create" /\ w.doc # "SPECKIT.md"
        \/ w.how = "speckit" /\ w.doc = "SPECKIT.md"

(* Each script keeps its own documents. *)
LEMMA PlanKinds ==
  ASSUME NEW q, q.script \in Scripts
  PROVE  /\ Len(Plan(q)) \in Nat /\ \A k \in 1 .. Len(Plan(q)) : Kind(q, Plan(q)[k])
         /\ q.script \in Lasting => Len(Plan(q)) = 1
<1> DEFINE P == Plan(q)
           U == {w \in [doc : Docs, how : {"block", "create", "speckit"},
                        block : Blocks \cup {"template"}] : Kind(q, w)}
<1>1. CASE q.script \in Lasting
  <2>1. \/ q.script = "register" /\ P = <<Write("DATABASE.md", "register", "conversation")>>
        \/ q.script = "stack" /\ P = <<Write("STACK.md", "stack", "stack")>>
        \/ q.script = "rule" /\ P = <<Write("RULES.md", "rule", "rules")>>
    BY <1>1 DEF Plan, Lasting
  <2>2. PICK w : P = <<w>> /\ Kind(q, w)
    BY <2>1 DEF Kind
  <2>3. Len(<<w>>) = 1 /\ <<w>>[1] = w
    OBVIOUS
  <2> QED BY <2>2, <2>3
<1>2. ASSUME P \in Seq(U), q.script \notin Lasting
      PROVE  Len(P) \in Nat /\ \A k \in 1 .. Len(P) : Kind(q, P[k])
  <2> HIDE DEF P
  <2>1. \A k \in 1 .. Len(P) : P[k] \in U
    BY <1>2
  <2> QED BY <1>2, <2>1
<1>3. ASSUME q.script \notin Lasting
      PROVE  /\ \A d \in Docs \ {"STACK.md", "RULES.md", "SPECKIT.md"}, b \in Blocks \ {"conversation", "stack"} :
                  Write(d, "block", b) \in U
             /\ \A d \in Docs \ {"SPECKIT.md"} : Write(d, "create", "template") \in U
             /\ Write("SPECKIT.md", "speckit", "speckit") \in U
  <2>1. "SPECKIT.md" \in Docs /\ "speckit" \in Blocks
    BY DEF Docs, Blocks
  <2>2. \A d, h, b : Write(d, h, b).doc = d /\ Write(d, h, b).how = h /\ Write(d, h, b).block = b
    BY DEF Write
  <2>3. \A d \in Docs, h \in {"block", "create", "speckit"}, b \in Blocks \cup {"template"} :
          Write(d, h, b) \in [doc : Docs, how : {"block", "create", "speckit"}, block : Blocks \cup {"template"}]
    BY DEF Write
  <2> QED BY <1>3, <2>1, <2>2, <2>3 DEF Kind
<1> HIDE DEF U
<1>4. CASE q.script = "database"
  <2>1. P = <<Write("DATABASE.md", "block", "database")>>
    BY <1>4 DEF Plan
  <2>2. q.script \notin Lasting
    BY <1>4 DEF Lasting
  <2>3. Write("DATABASE.md", "block", "database") \in U
    BY <1>3, <2>2 DEF Docs, Blocks
  <2> HIDE DEF P
  <2>4. P \in Seq(U)
    BY <2>1, <2>3
  <2> QED BY <1>2, <2>2, <2>4 DEF P
<1>5. CASE q.script \in {"build", "check"}
  <2>1. P = [i \in DOMAIN Targets |-> Write(Targets[i], "block", "documentator")]
    BY <1>5 DEF Plan
  <2>2. DOMAIN Targets = 1 .. 2 /\ \A i \in 1 .. 2 : Targets[i] \in Docs \ {"STACK.md", "RULES.md", "SPECKIT.md"}
    BY DEF Targets, Docs
  <2>3. q.script \notin Lasting
    BY <1>5 DEF Lasting
  <2>4. \A i \in 1 .. 2 : Write(Targets[i], "block", "documentator") \in U
    BY <1>3, <2>2, <2>3 DEF Blocks
  <2> HIDE DEF P
  <2>5. P \in Seq(U)
    BY <2>1, <2>2, <2>4
  <2> QED BY <1>2, <2>3, <2>5 DEF P
<1>6. CASE q.script = "setup"
  <2> DEFINE p == [i \in DOMAIN Templates |-> Write(Templates[i], "create", "template")]
             m == IF q.constitution THEN <<Write("SPECKIT.md", "speckit", "speckit")>> ELSE <<>>
             z == <<Write("AGENTS.md", "block", "framework")>>
  <2>1. P = p \o m \o z
    BY <1>6 DEF Plan
  <2>2. q.script \notin Lasting
    BY <1>6 DEF Lasting
  <2>3. p \in Seq(U)
    <3>1. DOMAIN Templates = 1 .. 3 /\ \A i \in 1 .. 3 : Templates[i] \in Docs \ {"SPECKIT.md"}
      BY DEF Templates, Docs
    <3>2. \A i \in 1 .. 3 : Write(Templates[i], "create", "template") \in U
      BY <1>3, <2>2, <3>1
    <3> QED BY <3>1, <3>2
  <2>4. m \in Seq(U) /\ z \in Seq(U)
    <3>1. Write("SPECKIT.md", "speckit", "speckit") \in U /\ Write("AGENTS.md", "block", "framework") \in U
      BY <1>3, <2>2 DEF Docs, Blocks
    <3> QED BY <3>1
  <2> HIDE DEF P, p, m, z
  <2>5. Glued(P, p, m, z)
    BY <2>1 DEF Glued
  <2>6. Laid(U, P, p, m, z)
    BY <2>3, <2>4, <2>5, Pieces, Zenon
  <2>7. P \in Seq(U)
    BY <2>6 DEF Laid
  <2> QED BY <1>2, <2>2, <2>7 DEF P
<1>7. q.script \in Lasting \/ q.script = "database" \/ q.script \in {"build", "check"} \/ q.script = "setup"
  BY DEF Scripts, Lasting
<1>8. q.script \in {"database", "build", "check", "setup"} => q.script \notin Lasting
  BY DEF Lasting
<1> QED BY <1>1, <1>4, <1>5, <1>6, <1>7, <1>8

(* So a run is always at one of them, and the last one of those that confirm something is the only one. *)
LEMMA NowKinds ==
  ASSUME LinesFit, NEW c \in Calls, Contextual(c)
  PROVE  Kind(request[c], Now(c)) /\ Now(c).doc \in Docs
<1>1. line[c] \in 1 .. Len(Plan(request[c]))
  BY DEF LinesFit
<1>2. Kind(request[c], Now(c))
  BY <1>1, PlanKinds DEF Contextual, Now
<1> QED BY <1>2 DEF Kind, Write, Docs

(* What is confirmed is not forgotten by what remembers it. *)
LEMMA StillConfirms ==
  ASSUME NEW q, NEW w, Kind(q, w), NEW v, NEW t, NEW r, Remembers(w.doc, t, r), Confirms(q, v, t)
  PROVE  Confirms(q, v, r)
BY DEF Kind, Write, Lasting, Remembers, Confirms, Says

(* Blocks that keep other scripts' rows. *)
LEMMA BlockKeeps ==
  ASSUME NEW f, NEW d, NEW t, Preserved(f, d, t), InOrder(t), d \notin {"STACK.md", "RULES.md"},
         NEW b \in Blocks \ {"conversation", "stack"}, NEW x, Plain(x)
  PROVE  Preserved(f, d, Merge(t, b, <<x>>)) /\ Remembers(d, t, Merge(t, b, <<x>>))
<1>1. PICK r : r = Merge(t, b, <<x>>)
  OBVIOUS
<1>2. PICK U : U = Range(t) \cup {x}
  OBVIOUS
<1>3. t \in Seq(U) /\ <<x>> \in Seq(U)
  BY <1>2 DEF Preserved
<1>4. \A k \in 1 .. Len(<<x>>) : Plain(<<x>>[k])
  OBVIOUS
<1>5. Merged(t, r, b, <<x>>)
  BY <1>1, <1>3, <1>4, MergeKeeps
<1>6. r \in Seq(Range(r)) /\ Keeping(t, r, b)
  BY <1>5 DEF Merged
<1>7. "conversation" \in Blocks \ {b}
  BY DEF Blocks
<1> QED BY <1>1, <1>6, <1>7 DEF Keeping, Preserved, Remembers

(* What a run that confirms something writes. *)
LEMMA Confirming ==
  ASSUME NEW c \in Calls, request[c].script \in Lasting, Kind(request[c], Now(c)),
         request[c].script \in {"register", "rule"} => request[c].row[1] = "row",
         NEW S, NEW t \in Seq(S), InOrder(t), Now(c).how = "register" => ~Splices(t, request[c].row)
  PROVE  Confirms(request[c], version[c], Updated(c, t)) /\ Remembers(Now(c).doc, t, Updated(c, t))
<1>1. CASE request[c].script = "register"
  <2>1. Now(c) = Write("DATABASE.md", "register", "conversation")
    BY <1>1 DEF Kind, Lasting
  <2>2. Updated(c, t) = Register(t, request[c].row)
    BY <2>1 DEF Updated, Write
  <2>3. /\ Once(Register(t, request[c].row), "conversation", request[c].row)
        /\ \A x : Confirmable(x) /\ Once(t, "conversation", x) => Once(Register(t, request[c].row), "conversation", x)
    BY <1>1, <2>1, RegisterKeeps DEF Write
  <2>4. Now(c).doc = "DATABASE.md"
    BY <2>1 DEF Write
  <2> QED BY <1>1, <2>2, <2>3, <2>4 DEF Confirms, Remembers
<1>2. CASE request[c].script = "stack"
  <2>1. Now(c) = Write("STACK.md", "stack", "stack")
    BY <1>2 DEF Kind, Lasting
  <2>2. Updated(c, t) = Merge(t, "stack", Detected(t, version[c]))
    BY <2>1 DEF Updated, Write
  <2>3. /\ Lists(Updated(c, t), "stack", <<"row", version[c]>>)
        /\ \A x : Lists(t, "stack", x) => Lists(Updated(c, t), "stack", x)
    BY <2>2, StackKeeps
  <2>4. Now(c).doc = "STACK.md"
    BY <2>1 DEF Write
  <2> QED BY <1>2, <2>3, <2>4 DEF Confirms, Remembers
<1>3. CASE request[c].script = "rule"
  <2>1. Now(c) = Write("RULES.md", "rule", "rules")
    BY <1>3 DEF Kind, Lasting
  <2>2. Updated(c, t) = AddRule(t, request[c].section, request[c].row)
    BY <2>1 DEF Updated, Write
  <2>3. RuleAdded(t, Updated(c, t), request[c].row)
    BY <1>3, <2>2, RuleKeeps
  <2>4. Now(c).doc = "RULES.md"
    BY <2>1 DEF Write
  <2> QED BY <1>3, <2>3, <2>4 DEF RuleAdded, Confirms, Remembers
<1> QED BY <1>1, <1>2, <1>3 DEF Lasting

(* An empty document has nothing anybody has confirmed. *)
LEMMA NothingConfirmed ==
  ASSUME NEW q, q.script \in {"stack", "rule"}, NEW v
  PROVE  ~Confirms(q, v, <<>>)
<1>1. 1 .. Len(<<>>) = {}
  OBVIOUS
<1> QED BY <1>1 DEF Confirms, Lists, Says, Includes, PairAt

(* Nor is it out of order. *)
LEMMA EmptyInOrder == InOrder(<<>>) /\ <<>> \in Seq({})
BY DEF InOrder, MarksInPairs, Where

(* Nothing is lost of an empty document. *)
LEMMA NothingForgotten ==
  ASSUME NEW d, NEW r
  PROVE  Remembers(d, <<>>, r)
<1>1. 1 .. Len(<<>>) = {}
  OBVIOUS
<1> QED BY <1>1 DEF Remembers, Once, Lists, Includes, PairAt

(* The template of a document that did not exist, without the block of a script. *)
LEMMA TitleKeeps ==
  ASSUME NEW f, NEW d, d # "SPECKIT.md", Preserved(f, d, <<>>)
  PROVE  LET r == <<<<"template", d>>>> IN
         Preserved(f, d, r) /\ InOrder(r) /\ \A b : NoneOf(r, b)
<1>1. PICK t : t = <<>>
  OBVIOUS
<1>2. PICK x : x = <<"template", d>>
  OBVIOUS
<1>3. PICK r : r = <<x>>
  OBVIOUS
<1>4. Len(t) = 0 /\ t \in Seq({x}) /\ Len(r) = 1 /\ r[1] = x /\ r \in Seq({x}) /\ Plain(x) /\ x[1] # "row"
  BY <1>1, <1>2, <1>3 DEF Plain
<1>5. Between(t, 0, 0) = {} /\ Between(r, 0, 0) = 1 .. 1
  BY <1>4 DEF Between
<1>6. Around(t, r, 0, 0)
  BY <1>4 DEF Around
<1>7. Changed(t, r, 0, 0, "rules")
  <2>1. \A y : Plain(y) => Known(y) /\ y[1] # "note" /\ \A c : y # Opens(c) /\ y # Ends(c)
    BY MarksDiffer DEF Known, Plain
  <2> QED BY <1>4, <1>5, <1>6, <2>1 DEF Changed
<1>8. InOrder(t)
  BY <1>1, EmptyInOrder
<1>9. InOrder(r) /\ Notes(r) = Notes(t)
  <2>1. "rules" \notin Blocks
    BY DEF Blocks
  <2>2. \A k \in Between(r, 0, 0) : Plain(r[k])
    BY <1>4, <1>5
  <2> QED BY <1>4, <1>7, <1>8, <2>1, <2>2, OrderAround
<1>10. r \in Seq(Range(r))
  BY <1>4, Retyped
<1>11. \A y : NotTwice(r, y)
  BY <1>4 DEF NotTwice
<1>12. Preserved(f, d, r)
  BY <1>1, <1>9, <1>10, <1>11 DEF Preserved
<1>13. \A b : NoneOf(r, b)
  BY <1>4, MarksDiffer DEF NoneOf
<1> QED BY <1>2, <1>3, <1>9, <1>12, <1>13

(* With it. *)
LEMMA TemplateKeeps ==
  ASSUME NEW f, NEW d, d # "SPECKIT.md", Preserved(f, d, <<>>), NEW v
  PROVE  Preserved(f, d, Template(d, v)) /\ Remembers(d, <<>>, Template(d, v))
<1>1. PICK t : t = <<<<"template", d>>>>
  OBVIOUS
<1>2. Preserved(f, d, t) /\ InOrder(t) /\ \A b : NoneOf(t, b)
  BY <1>1, TitleKeeps
<1>3. PICK x : x = <<"generated", v>>
  OBVIOUS
<1>4. ASSUME NEW b \in {"stack", "database"}, d # "RULES.md"
      PROVE  Preserved(f, d, Appended(t, b, <<x>>))
  <2>1. PICK r : r = Appended(t, b, <<x>>)
    OBVIOUS
  <2>2. t \in Seq(Range(t))
    BY <1>2 DEF Preserved
  <2>3. Where(t, Opens(b)) = {}
    BY <1>2, <2>2, NoneCut
  <2>4. r = Merge(t, b, <<x>>)
    BY <2>1, <2>3 DEF Merge
  <2>5. PICK U : U = Range(t) \cup {x}
    OBVIOUS
  <2>6. t \in Seq(U) /\ <<x>> \in Seq(U) /\ Plain(x) /\ \A k \in 1 .. Len(<<x>>) : Plain(<<x>>[k])
    BY <1>3, <2>2, <2>5 DEF Plain
  <2>7. b \in Blocks
    BY DEF Blocks
  <2>8. Merged(t, r, b, <<x>>)
    BY <1>2, <2>4, <2>6, <2>7, MergeKeeps
  <2> QED BY <1>2, <1>4, <2>1, <2>8 DEF Merged, Keeping, Preserved
<1>5. CASE d = "STACK.md"
  BY <1>1, <1>3, <1>4, <1>5, NothingForgotten DEF Template
<1>6. CASE d = "DATABASE.md"
  BY <1>1, <1>3, <1>4, <1>6, NothingForgotten DEF Template
<1>7. CASE d \notin {"STACK.md", "DATABASE.md"}
  BY <1>1, <1>2, <1>7, NothingForgotten DEF Template
<1> QED BY <1>5, <1>6, <1>7

(* Whatever a script makes of a document, people's notes stay, and what others have confirmed. *)
LEMMA UpdatedKeeps ==
  ASSUME NEW c \in Calls, Kind(request[c], Now(c)),
         request[c].script \in {"register", "rule"} => request[c].row[1] = "row",
         NEW f, NEW t, Preserved(f, Now(c).doc, t),
         ~(Now(c).how = "speckit" /\ Malformed(t)), Now(c).how = "create" => t = <<>>,
         Now(c).how = "register" => ~Splices(t, request[c].row)
  PROVE  /\ Preserved(f, Now(c).doc, Updated(c, t)) /\ Remembers(Now(c).doc, t, Updated(c, t))
         /\ Confirms(request[c], version[c], Updated(c, t))
<1>1. t \in Seq(Range(t))
  BY DEF Preserved
<1>2. InOrder(t)
  <2>1. Now(c).doc = "SPECKIT.md" => Now(c).how = "speckit"
    BY DEF Kind, Write
  <2>2. CASE Now(c).doc = "SPECKIT.md"
    BY <2>1, <2>2 DEF Preserved
  <2>3. CASE Now(c).doc # "SPECKIT.md"
    BY <2>3 DEF Preserved
  <2> QED BY <2>2, <2>3
<1>3. CASE request[c].script \in Lasting
  <2>1. Confirms(request[c], version[c], Updated(c, t)) /\ Remembers(Now(c).doc, t, Updated(c, t))
    BY <1>1, <1>2, <1>3, Confirming
  <2>2. Preserved(f, Now(c).doc, Updated(c, t))
    <3>1. CASE request[c].script = "register"
      <4>1. Now(c) = Write("DATABASE.md", "register", "conversation")
        BY <3>1 DEF Kind, Lasting
      <4>2. Updated(c, t) = Register(t, request[c].row) /\ Now(c).doc = "DATABASE.md"
        BY <4>1 DEF Updated, Write
      <4>3. /\ Updated(c, t) \in Seq(Range(Updated(c, t)))
            /\ InOrder(Updated(c, t)) /\ Notes(Updated(c, t)) = Notes(t)
        BY <1>1, <1>2, <3>1, <4>1, <4>2, RegisterKeeps DEF Keeping, Write
      <4> QED BY <4>2, <4>3 DEF Preserved
    <3>2. CASE request[c].script = "stack"
      <4>1. Now(c) = Write("STACK.md", "stack", "stack")
        BY <3>2 DEF Kind, Lasting
      <4>2. Updated(c, t) = Merge(t, "stack", Detected(t, version[c])) /\ Now(c).doc = "STACK.md"
        BY <4>1 DEF Updated, Write
      <4>3. /\ Updated(c, t) \in Seq(Range(Updated(c, t)))
            /\ InOrder(Updated(c, t)) /\ Notes(Updated(c, t)) = Notes(t)
        BY <1>1, <1>2, <4>2, StackKeeps DEF Keeping
      <4> QED BY <4>2, <4>3 DEF Preserved
    <3>3. CASE request[c].script = "rule"
      <4>1. Now(c) = Write("RULES.md", "rule", "rules")
        BY <3>3 DEF Kind, Lasting
      <4>2. Updated(c, t) = AddRule(t, request[c].section, request[c].row)
        BY <4>1 DEF Updated, Write
      <4>3. RuleAdded(t, Updated(c, t), request[c].row)
        BY <1>1, <1>2, <3>3, <4>2, RuleKeeps
      <4> QED BY <4>3 DEF RuleAdded, Preserved
    <3> QED BY <1>3, <3>1, <3>2, <3>3 DEF Lasting
  <2> QED BY <2>1, <2>2
<1>4. CASE request[c].script \notin Lasting
  <2>1. Confirms(request[c], version[c], Updated(c, t))
    BY <1>4 DEF Lasting, Confirms
  <2>2. \/ /\ Now(c).how = "block" /\ Now(c).block \in Blocks \ {"conversation", "stack"}
           /\ Now(c).doc \notin {"STACK.md", "RULES.md"}
        \/ Now(c).how = "create" /\ Now(c).doc # "SPECKIT.md"
        \/ Now(c).how = "speckit" /\ Now(c).doc = "SPECKIT.md"
    BY <1>4 DEF Kind, Lasting
  <2>3. CASE Now(c).how = "block"
    <3>1. Updated(c, t) = Merge(t, Now(c).block, <<<<"generated", version[c]>>>>)
      BY <2>3 DEF Updated
    <3>2. Plain(<<"generated", version[c]>>)
      BY DEF Plain
    <3> QED BY <1>2, <2>1, <2>2, <2>3, <3>1, <3>2, BlockKeeps
  <2>4. CASE Now(c).how = "create"
    <3>1. Updated(c, t) = Template(Now(c).doc, version[c])
      BY <2>4 DEF Updated
    <3>2. t = <<>> /\ Now(c).doc # "SPECKIT.md"
      BY <2>2, <2>4
    <3> QED BY <2>1, <3>1, <3>2, TemplateKeeps
  <2>5. CASE Now(c).how = "speckit"
    <3>1. Updated(c, t) = Merge(t, "speckit", <<Sources>>)
      BY <2>5 DEF Updated
    <3>2. Plain(Sources)
      BY DEF Plain, Sources
    <3>3. "speckit" \in Blocks \ {"conversation", "stack"}
      BY DEF Blocks
    <3> QED BY <1>2, <2>1, <2>2, <2>5, <3>1, <3>2, <3>3, BlockKeeps
  <2> QED BY <2>2, <2>3, <2>4, <2>5
<1> QED BY <1>3, <1>4

-----------------------------------------------------------------------------
(* What people and scripts have put into the documents, while scripts run. *)

(* A document is being filled; a run that has confirmed something in it.       *)
Filling(d)    == \E c \in Calls : InStep(c, d) /\ pc[c] = "fill"
Through(c, d) == Contextual(c) /\ pc[c] = "done" /\ request[c].script \in Lasting /\ Now(c).doc = d

RowsFit  == \A c \in Calls : request[c].script \in {"register", "rule"} =>
                              request[c].row[1] = "row" /\ request[c].row[2] # "begun"
ThereFit == \A d \in Docs : d \notin there => doc[d] = <<>> /\ ~Filling(d)

(* One run at a time writes the document; it and what the run writes are as    *)
(* people have left them, and have what every run before has confirmed.        *)
OneWrites(d) == \A a, b \in Calls : InStep(a, d) /\ InStep(b, d) => a = b
DocFits(d)   == ~Filling(d) => Preserved(first[d], d, doc[d])
WriterFits(c, d) ==
  /\ Preserved(first[d], d, text[c]) /\ Confirms(request[c], version[c], text[c])
  /\ pc[c] = "write" => Remembers(d, doc[d], text[c])
  /\ pc[c] = "fill" => doc[d] = <<>>
RowsKept(c, d) ==
  /\ ~Filling(d) => Confirms(request[c], version[c], doc[d])
  /\ \A o \in Calls : InStep(o, d) => Confirms(request[c], version[c], text[o])
DocumentFits(d) ==
  /\ OneWrites(d) /\ DocFits(d)
  /\ \A c \in Calls : InStep(c, d) => WriterFits(c, d)
  /\ \A c \in Calls : Through(c, d) => RowsKept(c, d)

DocumentsFit == RowsFit /\ ThereFit /\ \A d \in Docs : d \notin damaged => DocumentFits(d)
NotesInv     == BuildInv /\ DocumentsFit

(* What a run that stays where it is does to documents stays what it was. *)
LEMMA StaysInStep ==
  ASSUME NEW c \in Calls, UNCHANGED request, pc'[c] = pc[c], line'[c] = line[c], NEW d
  PROVE  (InStep(c, d)' <=> InStep(c, d)) /\ (Through(c, d)' <=> Through(c, d))
BY DEF InStep, Through, Contextual, Now

(* A document nobody begins or ends to write stays in order. *)
LEMMA QuietDocument ==
  ASSUME NEW d, DocumentFits(d), doc'[d] = doc[d], UNCHANGED <<first, request>>,
         \A c \in Calls : InStep(c, d)' => /\ InStep(c, d) /\ pc'[c] = pc[c]
                                           /\ text'[c] = text[c] /\ version'[c] = version[c],
         \A c \in Calls : Through(c, d)' => Through(c, d) /\ version'[c] = version[c],
         Filling(d) => Filling(d)'
  PROVE  DocumentFits(d)'
<1>1. Filling(d)' <=> Filling(d)
  BY DEF Filling
<1>2. OneWrites(d)' /\ DocFits(d)'
  BY <1>1 DEF DocumentFits, OneWrites, DocFits
<1>3. ASSUME NEW c \in Calls, InStep(c, d)'  PROVE WriterFits(c, d)'
  BY <1>3 DEF DocumentFits, WriterFits
<1>4. ASSUME NEW c \in Calls, Through(c, d)'  PROVE RowsKept(c, d)'
  BY <1>1, <1>4 DEF DocumentFits, RowsKept
<1> QED BY <1>2, <1>3, <1>4 DEF DocumentFits

(* Rows and rules are what they were given. *)
LEMMA RowsStay == ASSUME RowsFit, UNCHANGED request PROVE RowsFit'
BY DEF RowsFit

(* Documents there are do not go away. *)
LEMMA ThereStays ==
  ASSUME ThereFit, there \subseteq there', NEW d \in Docs, d \notin there', doc'[d] = doc[d],
         \A c \in Calls : InStep(c, d)' /\ pc'[c] = "fill" => InStep(c, d) /\ pc[c] = "fill"
  PROVE  doc'[d] = <<>> /\ ~Filling(d)'
BY DEF ThereFit, Filling

(* A run that detects the project is at no document. *)
LEMMA DetectLeaves ==
  ASSUME NotesInv, NEW a \in Calls, Detect(a), \A o \in Calls \ {a} : pc'[o] = pc[o], UNCHANGED request
  PROVE  DocumentsFit'
<1>1. /\ pc[a] = "detect" /\ pc'[a] = "open" /\ UNCHANGED <<doc, there, line, text, first, damaged>>
      /\ \A o \in Calls \ {a} : version'[o] = version[o]
  <2>1. version = [c \in Calls |-> version[c]] /\ version' = [version EXCEPT ![a] = project]
    BY DEF Detect, NotesInv, BuildInv, LinesFit
  <2>2. \A o \in Calls \ {a} : version'[o] = version[o]
    BY <2>1
  <2> QED BY <2>2 DEF Detect, At, Go, NotesInv, BuildInv, FilesInv, TypesFit
<1>2. ASSUME NEW d \in Docs, d \notin damaged'  PROVE DocumentFits(d)'
  <2>1. DocumentFits(d)
    BY <1>1, <1>2 DEF NotesInv, DocumentsFit
  <2>2. \A c \in Calls \ {a} : (InStep(c, d)' <=> InStep(c, d)) /\ (Through(c, d)' <=> Through(c, d))
    BY <1>1, StaysInStep
  <2>3. ~InStep(a, d) /\ ~InStep(a, d)' /\ ~Through(a, d)'
    BY <1>1 DEF InStep, Through
  <2>4. Filling(d) => Filling(d)'
    BY <2>2, <2>3 DEF Filling
  <2> QED BY <1>1, <2>1, <2>2, <2>3, <2>4, QuietDocument
<1>3. RowsFit' /\ ThereFit'
  <2>1. \A d \in Docs, c \in Calls : InStep(c, d)' /\ pc'[c] = "fill" => InStep(c, d) /\ pc[c] = "fill"
    BY <1>1, StaysInStep DEF InStep
  <2> QED BY <1>1, <2>1, RowsStay, ThereStays DEF NotesInv, DocumentsFit, ThereFit
<1> QED BY <1>2, <1>3 DEF DocumentsFit

(* A run that is killed leaves what it was going to write as it was, or damaged. *)
LEMMA KillLeaves ==
  ASSUME NotesInv, NEW a \in Calls, KillRun(a), pc'[a] = "killed",
         \A o \in Calls \ {a} : pc'[o] = pc[o], UNCHANGED request
  PROVE  DocumentsFit'
<1>1. /\ UNCHANGED <<doc, there, line, version, text, first>>
      /\ damaged' = damaged \cup {d \in Docs : InStep(a, d) /\ pc[a] = "fill"}
  BY DEF KillRun, At
<1>2. ASSUME NEW d \in Docs, d \notin damaged'  PROVE DocumentFits(d)'
  <2>1. DocumentFits(d) /\ ~(InStep(a, d) /\ pc[a] = "fill")
    BY <1>1, <1>2 DEF NotesInv, DocumentsFit
  <2>2. \A c \in Calls \ {a} : (InStep(c, d)' <=> InStep(c, d)) /\ (Through(c, d)' <=> Through(c, d))
    BY <1>1, StaysInStep
  <2>3. ~InStep(a, d)' /\ ~Through(a, d)'
    BY DEF InStep, Through
  <2>4. Filling(d) => Filling(d)'
    BY <2>1, <2>2 DEF Filling
  <2> QED BY <1>1, <2>1, <2>2, <2>3, <2>4, QuietDocument
<1>3. RowsFit' /\ ThereFit'
  <2>1. \A d \in Docs, c \in Calls : InStep(c, d)' /\ pc'[c] = "fill" => InStep(c, d) /\ pc[c] = "fill"
    BY <1>1, StaysInStep DEF InStep
  <2> QED BY <1>1, <2>1, RowsStay, ThereStays DEF NotesInv, DocumentsFit, ThereFit
<1> QED BY <1>2, <1>3 DEF DocumentsFit

(* Nor do other scripts or people touch a document. *)
LEMMA OthersLeave ==
  ASSUME NotesInv, UNCHANGED <<doc, there, line, version, text, first, damaged, request>>,
         \A o \in Calls : Contextual(o) => pc'[o] = pc[o]
  PROVE  DocumentsFit'
<1>1. ASSUME NEW d \in Docs, d \notin damaged'  PROVE DocumentFits(d)'
  <2>1. DocumentFits(d)
    BY <1>1 DEF NotesInv, DocumentsFit
  <2>2. \A c \in Calls : (InStep(c, d)' <=> InStep(c, d)) /\ (Through(c, d)' <=> Through(c, d))
    BY DEF InStep, Through, Contextual, Now
  <2>3. \A c \in Calls : InStep(c, d) => pc'[c] = pc[c]
    BY DEF InStep
  <2>4. Filling(d) => Filling(d)'
    BY <2>2, <2>3 DEF Filling
  <2> QED BY <2>1, <2>2, <2>3, <2>4, QuietDocument
<1>2. RowsFit' /\ ThereFit'
  <2>1. \A d \in Docs, c \in Calls : InStep(c, d)' /\ pc'[c] = "fill" => InStep(c, d) /\ pc[c] = "fill"
    BY DEF InStep, Contextual, Now
  <2> QED BY <2>1, RowsStay, ThereStays DEF NotesInv, DocumentsFit, ThereFit
<1> QED BY <1>1, <1>2 DEF DocumentsFit

(* Nobody else writes d, and no pattern puts anything into it. *)
Unharmed(a, d) == /\ \A o \in Calls \ {a} : ~InStep(o, d)
                  /\ Now(a).how = "register" => ~Splices(doc[d], request[a].row)

(* Where a run goes when it has read a document. *)
LEMMA Opened ==
  ASSUME FilesInv, LinesFit, NEW a \in Calls, Open(a), \A o \in Calls \ {a} : pc'[o] = pc[o], UNCHANGED request,
         NEW d, d = Now(a).doc, NEW t, t = Updated(a, doc[d])
  PROVE  /\ Contextual(a) /\ pc[a] = "open" /\ UNCHANGED <<doc, there, version, first>> /\ damaged \subseteq damaged'
         /\ \A o \in Calls \ {a} : line'[o] = line[o] /\ text'[o] = text[o]
         /\ \/ pc'[a] = "failed"
            \/ pc'[a] = "open"
            \/ /\ pc'[a] = "done" /\ line'[a] = line[a] /\ ~(Now(a).how = "speckit" /\ Malformed(doc[d]))
               /\ Now(a).how = "create" \/ NothingNew(a, t) \/ request[a].script = "check"
            \/ /\ pc'[a] = "write" /\ line'[a] = line[a] /\ ~(Now(a).how = "speckit" /\ Malformed(doc[d]))
               /\ ~AlreadyThere(a) /\ text'[a] = t
               /\ d \notin damaged' => Unharmed(a, d)
<1>1. /\ pc = [o \in Calls |-> pc[o]] /\ line \in [Calls -> Nat] /\ text = [c \in Calls |-> text[c]]
      /\ \A s : Go(a, s) => pc'[a] = s
  BY DEF FilesInv, TypesFit, LinesFit, Go
<1>2. Contextual(a) /\ pc[a] = "open" /\ UNCHANGED <<doc, there, version, first>> /\ damaged \subseteq damaged'
  BY DEF Open, At
<1>3. \/ Go(a, "failed") /\ UNCHANGED <<line, text>>
      \/ /\ ~(Now(a).how = "speckit" /\ Malformed(doc[d]))
         /\ AlreadyThere(a) \/ NothingNew(a, t) \/ request[a].script = "check"
         /\ UNCHANGED text /\ \E found : Advance(a, found)
      \/ /\ ~(Now(a).how = "speckit" /\ Malformed(doc[d]))
         /\ ~AlreadyThere(a) /\ text' = [text EXCEPT ![a] = t] /\ Go(a, "write") /\ UNCHANGED line
         /\ damaged' = IF \/ \E o \in Calls \ {a} : InStep(o, d)
                          \/ Now(a).how = "register" /\ Splices(doc[d], request[a].row)
                       THEN damaged \cup {d} ELSE damaged
  BY Zenon DEF Open
<1>4. CASE Go(a, "failed") /\ UNCHANGED <<line, text>>
  BY <1>1, <1>2, <1>4
<1>5. ASSUME ~(Now(a).how = "speckit" /\ Malformed(doc[d])),
             AlreadyThere(a) \/ NothingNew(a, t) \/ request[a].script = "check",
             UNCHANGED text, NEW found, Advance(a, found)
      PROVE  /\ \A o \in Calls \ {a} : line'[o] = line[o] /\ text'[o] = text[o]
             /\ \/ pc'[a] \in {"failed", "open"}
                \/ /\ pc'[a] = "done" /\ line'[a] = line[a] /\ ~(Now(a).how = "speckit" /\ Malformed(doc[d]))
                   /\ Now(a).how = "create" \/ NothingNew(a, t) \/ request[a].script = "check"
  BY <1>2, <1>5, Advancing DEF AlreadyThere
<1>6. ASSUME ~(Now(a).how = "speckit" /\ Malformed(doc[d])), ~AlreadyThere(a),
             text' = [text EXCEPT ![a] = t], Go(a, "write"), UNCHANGED line,
             damaged' = IF \/ \E o \in Calls \ {a} : InStep(o, d)
                           \/ Now(a).how = "register" /\ Splices(doc[d], request[a].row)
                        THEN damaged \cup {d} ELSE damaged
      PROVE  /\ \A o \in Calls \ {a} : line'[o] = line[o] /\ text'[o] = text[o]
             /\ pc'[a] = "write" /\ line'[a] = line[a] /\ text'[a] = t
             /\ d \notin damaged' => Unharmed(a, d)
  BY <1>1, <1>6 DEF Unharmed
<1> QED BY <1>2, <1>3, <1>4, <1>5, <1>6

(* A run that reads a document is going to write what people and other runs    *)
(* have put there, or has found there what it was going to put.                *)
LEMMA OpenLeaves ==
  ASSUME NotesInv, NEW a \in Calls, Open(a), \A o \in Calls \ {a} : pc'[o] = pc[o], UNCHANGED request
  PROVE  DocumentsFit'
<1>1. PICK d : d = Now(a).doc
  OBVIOUS
<1>2. PICK t : t = Updated(a, doc[d])
  OBVIOUS
<1>3. FilesInv /\ LinesFit
  BY DEF NotesInv, BuildInv
<1>4. /\ Contextual(a) /\ pc[a] = "open" /\ UNCHANGED <<doc, there, version, first>> /\ damaged \subseteq damaged'
      /\ \A o \in Calls \ {a} : line'[o] = line[o] /\ text'[o] = text[o]
  BY <1>1, <1>2, <1>3, Opened
<1>5. \/ pc'[a] = "failed"
      \/ pc'[a] = "open"
      \/ /\ pc'[a] = "done" /\ line'[a] = line[a] /\ ~(Now(a).how = "speckit" /\ Malformed(doc[d]))
         /\ Now(a).how = "create" \/ NothingNew(a, t) \/ request[a].script = "check"
      \/ /\ pc'[a] = "write" /\ line'[a] = line[a] /\ ~(Now(a).how = "speckit" /\ Malformed(doc[d]))
         /\ ~AlreadyThere(a) /\ text'[a] = t
         /\ d \notin damaged' => Unharmed(a, d)
  BY <1>1, <1>2, <1>3, Opened
<1>6. Kind(request[a], Now(a)) /\ d \in Docs
  BY <1>1, <1>3, <1>4, NowKinds
<1>7. request[a].script \in {"register", "rule"} => request[a].row[1] = "row"
  BY DEF NotesInv, DocumentsFit, RowsFit
<1>0. NothingNew(a, t) => t = doc[d] /\ Now(a).how # "register"
  BY <1>1 DEF NothingNew
<1>8. ASSUME NEW k
      PROVE  \A c \in Calls \ {a} : (InStep(c, k)' <=> InStep(c, k)) /\ (Through(c, k)' <=> Through(c, k))
  BY <1>4, StaysInStep
<1>9. \A k : ~InStep(a, k)
  BY <1>4 DEF InStep
<1>10. ASSUME NEW k \in Docs, k \notin damaged', ~InStep(a, k)', ~Through(a, k)'
       PROVE  DocumentFits(k)'
  <2>1. DocumentFits(k)
    BY <1>4, <1>10 DEF NotesInv, DocumentsFit
  <2>2. Filling(k) => Filling(k)'
    BY <1>8, <1>9 DEF Filling
  <2> QED BY <1>4, <1>8, <1>9, <1>10, <2>1, <2>2, QuietDocument
<1>11. ASSUME d \notin damaged', pc'[a] = "done", line'[a] = line[a], ~(Now(a).how = "speckit" /\ Malformed(doc[d])),
              t = doc[d], Now(a).how # "register", Through(a, d)'
       PROVE  DocumentFits(d)'
  <2>1. DocumentFits(d)
    BY <1>4, <1>6, <1>11 DEF NotesInv, DocumentsFit
  <2>2. request[a].script \in Lasting
    BY <1>11 DEF Through
  <2>3. ~Filling(d)
    <3> SUFFICES ASSUME Filling(d) PROVE FALSE
      OBVIOUS
    <3>1. doc[d] = <<>>
      BY <2>1 DEF Filling, DocumentFits, WriterFits
    <3>2. Confirms(request[a], version[a], t)
      BY <1>2, <1>6, <1>7, <1>11, <2>2, <3>1, EmptyInOrder, Confirming
    <3>3. request[a].script \in {"stack", "rule"}
      BY <1>6, <1>11, <2>2 DEF Kind, Write, Lasting
    <3> QED BY <1>11, <3>1, <3>2, <3>3, NothingConfirmed
  <2>4. ~Filling(d)'
    BY <1>8, <1>11, <2>3 DEF Filling
  <2>5. Preserved(first[d], d, doc[d])
    BY <2>1, <2>3 DEF DocumentFits, DocFits
  <2>6. Confirms(request[a], version[a], doc[d])
    <3>1. Now(a).how # "create"
      BY <1>6, <2>2 DEF Kind, Write
    <3> QED BY <1>1, <1>2, <1>6, <1>7, <1>11, <2>5, <3>1, UpdatedKeeps
  <2>7. ASSUME NEW o \in Calls, InStep(o, d)'
        PROVE  InStep(o, d) /\ o # a /\ pc[o] = "write"
    <3>1. o # a
      BY <1>11, <2>7 DEF InStep
    <3>2. InStep(o, d)
      BY <1>8, <2>7, <3>1
    <3> QED BY <2>3, <3>1, <3>2 DEF InStep, Filling
  <2>8. ASSUME NEW o \in Calls, InStep(o, d)'
        PROVE  WriterFits(o, d)' /\ Confirms(request[a], version[a], text'[o])
    <3>1. InStep(o, d) /\ o # a /\ pc[o] = "write" /\ pc'[o] = pc[o] /\ text'[o] = text[o] /\ version'[o] = version[o]
      BY <1>4, <2>7, <2>8
    <3>2. WriterFits(o, d)
      BY <2>1, <3>1 DEF DocumentFits
    <3>3. WriterFits(o, d)'
      BY <1>4, <3>1, <3>2 DEF WriterFits
    <3>4. Remembers(d, doc[d], text[o])
      BY <3>1, <3>2 DEF WriterFits
    <3>5. Confirms(request[a], version[a], text[o])
      BY <1>1, <1>6, <2>6, <3>4, StillConfirms
    <3> QED BY <3>1, <3>3, <3>5
  <2>9. ASSUME NEW c \in Calls, Through(c, d)'  PROVE RowsKept(c, d)'
    <3>1. CASE c = a
      BY <1>4, <2>6, <2>8, <3>1 DEF RowsKept
    <3>2. CASE c # a
      <4>1. RowsKept(c, d)
        BY <1>8, <2>1, <2>9, <3>2 DEF DocumentFits
      <4> QED BY <1>4, <2>3, <2>7, <4>1 DEF RowsKept
    <3> QED BY <3>1, <3>2
  <2>10. OneWrites(d)' /\ DocFits(d)'
    <3>1. OneWrites(d)'
      BY <2>1, <2>7 DEF DocumentFits, OneWrites
    <3>2. DocFits(d)'
      BY <1>4, <2>5 DEF DocFits
    <3> QED BY <3>1, <3>2
  <2> QED BY <2>8, <2>9, <2>10 DEF DocumentFits
<1>12. ASSUME d \notin damaged', pc'[a] = "write", line'[a] = line[a], ~(Now(a).how = "speckit" /\ Malformed(doc[d])),
              ~AlreadyThere(a), text'[a] = t, Unharmed(a, d)
       PROVE  DocumentFits(d)'
  <2>1. DocumentFits(d)
    BY <1>4, <1>6, <1>12 DEF NotesInv, DocumentsFit
  <2>2. \A o \in Calls : InStep(o, d)' => o = a
    BY <1>8, <1>12 DEF Unharmed
  <2>3. ~Filling(d) /\ ~Filling(d)'
    BY <1>9, <1>12, <2>2 DEF Filling, Unharmed
  <2>4. Preserved(first[d], d, doc[d])
    BY <2>1, <2>3 DEF DocumentFits, DocFits
  <2>5. Now(a).how = "create" => doc[d] = <<>>
    BY <1>1, <1>6, <1>12 DEF AlreadyThere, NotesInv, DocumentsFit, ThereFit
  <2>6. Preserved(first[d], d, t) /\ Remembers(d, doc[d], t) /\ Confirms(request[a], version[a], t)
    BY <1>1, <1>2, <1>6, <1>7, <1>12, <2>4, <2>5, UpdatedKeeps DEF Unharmed
  <2>7. WriterFits(a, d)'
    BY <1>4, <1>12, <2>6 DEF WriterFits
  <2>8. ASSUME NEW c \in Calls, Through(c, d)'  PROVE RowsKept(c, d)'
    <3>1. c # a
      BY <1>12, <2>8 DEF Through
    <3>2. Through(c, d)
      BY <1>8, <2>8, <3>1
    <3>3. Confirms(request[c], version[c], doc[d])
      BY <2>1, <2>3, <3>2 DEF DocumentFits, RowsKept
    <3>4. Kind(request[c], Now(c)) /\ Now(c).doc = d
      BY <1>3, <3>2, NowKinds DEF Through
    <3>5. Confirms(request[c], version[c], t)
      BY <2>6, <3>3, <3>4, StillConfirms
    <3> QED BY <1>4, <1>12, <2>2, <3>3, <3>5 DEF RowsKept
  <2>9. OneWrites(d)' /\ DocFits(d)'
    BY <1>4, <2>2, <2>4 DEF OneWrites, DocFits
  <2> QED BY <2>2, <2>7, <2>8, <2>9 DEF DocumentFits
<1>13. ASSUME NEW k \in Docs, k \notin damaged'  PROVE DocumentFits(k)'
  <2>1. CASE pc'[a] \in {"failed", "open"}
    BY <1>10, <1>13, <2>1 DEF InStep, Through
  <2>2. pc'[a] \in {"done", "write"} /\ line'[a] = line[a] => Now(a)' = Now(a)
    BY DEF Now
  <2>3. CASE pc'[a] = "done"
    <3>1. ~InStep(a, k)'
      BY <2>3 DEF InStep
    <3>2. CASE ~Through(a, k)'
      BY <1>10, <1>13, <3>1, <3>2
    <3>3. CASE Through(a, k)'
      <4>1. k = d
        BY <1>1, <1>5, <2>2, <2>3, <3>3 DEF Through
      <4>2. request[a].script \in Lasting
        BY <3>3 DEF Through
      <4>3. t = doc[d] /\ Now(a).how # "register"
        BY <1>0, <1>5, <1>6, <2>3, <4>2 DEF Kind, Write, Lasting
      <4> QED BY <1>5, <1>11, <1>13, <2>3, <3>3, <4>1, <4>3
    <3> QED BY <3>2, <3>3
  <2>4. CASE pc'[a] = "write"
    <3>1. CASE k = d
      BY <1>5, <1>12, <1>13, <2>4, <3>1
    <3>2. CASE k # d
      <4>1. ~InStep(a, k)' /\ ~Through(a, k)'
        BY <1>1, <1>5, <2>2, <2>4, <3>2 DEF InStep, Through
      <4> QED BY <1>10, <1>13, <4>1
    <3> QED BY <3>1, <3>2
  <2> QED BY <1>5, <2>1, <2>3, <2>4
<1>14. RowsFit' /\ ThereFit'
  <2>1. \A k \in Docs, c \in Calls : InStep(c, k)' /\ pc'[c] = "fill" => InStep(c, k) /\ pc[c] = "fill"
    BY <1>5, <1>8
  <2> QED BY <1>4, <2>1, RowsStay, ThereStays DEF NotesInv, DocumentsFit, ThereFit
<1> QED BY <1>13, <1>14 DEF DocumentsFit

(* A run that empties a document has in mind all there was. *)
LEMMA EmptyLeaves ==
  ASSUME NotesInv, NEW a \in Calls, Empty(a), \A o \in Calls \ {a} : pc'[o] = pc[o], UNCHANGED request
  PROVE  DocumentsFit'
<1>1. PICK d : d = Now(a).doc
  OBVIOUS
<1>2. /\ Contextual(a) /\ pc[a] = "write" /\ pc'[a] = "fill" /\ UNCHANGED <<line, version, text, first, damaged>>
      /\ doc' = [doc EXCEPT ![d] = <<>>] /\ there' = there \cup {d}
  BY <1>1 DEF Empty, At, Go, NotesInv, BuildInv, FilesInv, TypesFit
<1>3. doc = [k \in Docs |-> doc[k]] /\ d \in Docs
  BY <1>1, <1>2, NowKinds DEF NotesInv, BuildInv, LinesFit
<1>4. \A k \in Docs : doc'[k] = IF k = d THEN <<>> ELSE doc[k]
  BY <1>2, <1>3
<1>5. ASSUME NEW k
      PROVE  /\ \A c \in Calls : InStep(c, k)' <=> InStep(c, k)
             /\ \A c \in Calls : Through(c, k)' <=> Through(c, k)
  <2>1. \A c \in Calls \ {a} : (InStep(c, k)' <=> InStep(c, k)) /\ (Through(c, k)' <=> Through(c, k))
    BY <1>2, StaysInStep
  <2>2. (InStep(a, k)' <=> InStep(a, k)) /\ (Through(a, k)' <=> Through(a, k))
    BY <1>2 DEF InStep, Through, Contextual, Now
  <2> QED BY <2>1, <2>2
<1>6. \A k : InStep(a, k) <=> k = d
  BY <1>1, <1>2 DEF InStep
<1>7. ASSUME NEW k \in Docs, k \notin damaged', k # d  PROVE DocumentFits(k)'
  <2>1. DocumentFits(k)
    BY <1>2, <1>7 DEF NotesInv, DocumentsFit
  <2>2. \A c \in Calls : InStep(c, k)' => InStep(c, k) /\ pc'[c] = pc[c] /\ text'[c] = text[c] /\ version'[c] = version[c]
    BY <1>2, <1>5, <1>6, <1>7
  <2>3. Filling(k) => Filling(k)'
    BY <1>2, <1>5 DEF Filling
  <2> QED BY <1>2, <1>4, <1>5, <1>7, <2>1, <2>2, <2>3, QuietDocument
<1>8. ASSUME d \notin damaged'  PROVE DocumentFits(d)'
  <2>1. DocumentFits(d)
    BY <1>2, <1>3, <1>8 DEF NotesInv, DocumentsFit
  <2>2. Filling(d)' /\ doc'[d] = <<>>
    BY <1>2, <1>3, <1>4, <1>5, <1>6 DEF Filling
  <2>3. ASSUME NEW c \in Calls, InStep(c, d)'  PROVE WriterFits(c, d)'
    <3>1. InStep(c, d)
      BY <1>5, <2>3
    <3>2. WriterFits(c, d) /\ c = a
      BY <1>6, <2>1, <3>1 DEF DocumentFits, OneWrites
    <3> QED BY <1>2, <2>2, <3>2 DEF WriterFits
  <2>4. ASSUME NEW c \in Calls, Through(c, d)'  PROVE RowsKept(c, d)'
    <3>1. RowsKept(c, d)
      BY <1>5, <2>1, <2>4 DEF DocumentFits
    <3> QED BY <1>2, <1>5, <2>2, <3>1 DEF RowsKept
  <2>5. OneWrites(d)' /\ DocFits(d)'
    BY <1>5, <2>1, <2>2 DEF DocumentFits, OneWrites, DocFits
  <2> QED BY <2>3, <2>4, <2>5 DEF DocumentFits
<1>9. RowsFit' /\ ThereFit'
  <2>1. \A k \in Docs, c \in Calls : k # d /\ InStep(c, k)' /\ pc'[c] = "fill" => InStep(c, k) /\ pc[c] = "fill"
    BY <1>2, <1>5, <1>6
  <2> QED BY <1>2, <1>4, <2>1, RowsStay, ThereStays DEF NotesInv, DocumentsFit, ThereFit
<1> QED BY <1>2, <1>7, <1>8, <1>9 DEF DocumentsFit

(* A run that fills a document puts there all there was, and what it confirms. *)
LEMMA FillLeaves ==
  ASSUME NotesInv, NEW a \in Calls, Fill(a), \A o \in Calls \ {a} : pc'[o] = pc[o], UNCHANGED request
  PROVE  DocumentsFit'
<1>1. PICK d : d = Now(a).doc
  OBVIOUS
<1>2. /\ Contextual(a) /\ pc[a] = "fill" /\ UNCHANGED <<there, version, text, first, damaged>>
      /\ doc' = [doc EXCEPT ![d] = text[a]] /\ Advance(a, stale[a])
  BY <1>1 DEF Fill, At
<1>3. doc = [k \in Docs |-> doc[k]] /\ d \in Docs
  BY <1>1, <1>2, NowKinds DEF NotesInv, BuildInv, LinesFit
<1>4. \A k \in Docs : doc'[k] = IF k = d THEN text[a] ELSE doc[k]
  BY <1>2, <1>3
<1>5. /\ \A o \in Calls \ {a} : line'[o] = line[o]
      /\ pc'[a] \in {"open", "failed"} \/ (line'[a] = line[a] /\ pc'[a] = "done")
  BY <1>2, Advancing DEF NotesInv, BuildInv
<1>6. ASSUME NEW k
      PROVE  \A c \in Calls \ {a} : (InStep(c, k)' <=> InStep(c, k)) /\ (Through(c, k)' <=> Through(c, k))
  BY <1>2, <1>5, StaysInStep
<1>7. \A k : InStep(a, k) <=> k = d
  BY <1>1, <1>2 DEF InStep
<1>8. \A k : ~InStep(a, k)'
  BY <1>5 DEF InStep
<1>9. ASSUME NEW k, Through(a, k)'  PROVE k = d
  BY <1>1, <1>5, <1>9 DEF Through, Now
<1>10. ASSUME NEW k \in Docs, k \notin damaged', k # d  PROVE DocumentFits(k)'
  <2>1. DocumentFits(k)
    BY <1>2, <1>10 DEF NotesInv, DocumentsFit
  <2>2. \A c \in Calls : InStep(c, k)' => InStep(c, k) /\ pc'[c] = pc[c] /\ text'[c] = text[c] /\ version'[c] = version[c]
    BY <1>2, <1>6, <1>8
  <2>3. \A c \in Calls : Through(c, k)' => Through(c, k) /\ version'[c] = version[c]
    BY <1>2, <1>6, <1>9, <1>10
  <2>4. Filling(k) => Filling(k)'
    BY <1>6, <1>7, <1>10 DEF Filling
  <2> QED BY <1>2, <1>4, <1>10, <2>1, <2>2, <2>3, <2>4, QuietDocument
<1>11. ASSUME d \notin damaged'  PROVE DocumentFits(d)'
  <2>1. DocumentFits(d)
    BY <1>2, <1>3, <1>11 DEF NotesInv, DocumentsFit
  <2>2. WriterFits(a, d)
    BY <1>7, <2>1 DEF DocumentFits
  <2>3. \A c \in Calls : ~InStep(c, d)'
    BY <1>6, <1>7, <1>8, <2>1 DEF DocumentFits, OneWrites
  <2>4. doc'[d] = text[a]
    BY <1>3, <1>4
  <2>5. ASSUME NEW c \in Calls, Through(c, d)'  PROVE Confirms(request[c], version[c], text[a])
    <3>1. CASE c = a
      BY <2>2, <3>1 DEF WriterFits
    <3>2. CASE c # a
      <4>1. RowsKept(c, d)
        BY <1>6, <2>1, <2>5, <3>2 DEF DocumentFits
      <4> QED BY <1>7, <4>1 DEF RowsKept
    <3> QED BY <3>1, <3>2
  <2>6. \A c \in Calls : Through(c, d)' => RowsKept(c, d)'
    BY <1>2, <2>3, <2>4, <2>5 DEF RowsKept
  <2>7. OneWrites(d)' /\ DocFits(d)'
    BY <1>2, <2>2, <2>3, <2>4 DEF OneWrites, DocFits, WriterFits
  <2> QED BY <2>3, <2>6, <2>7 DEF DocumentFits
<1>12. RowsFit' /\ ThereFit'
  <2>1. d \in there
    BY <1>2, <1>3, <1>7 DEF NotesInv, DocumentsFit, ThereFit, Filling
  <2>2. \A k \in Docs, c \in Calls : InStep(c, k)' /\ pc'[c] = "fill" => InStep(c, k) /\ pc[c] = "fill"
    BY <1>6, <1>8
  <2> QED BY <1>2, <1>4, <2>1, <2>2, RowsStay, ThereStays DEF NotesInv, DocumentsFit, ThereFit
<1> QED BY <1>2, <1>10, <1>11, <1>12 DEF DocumentsFit

(* Nobody writes at first, and documents are as people have left them. *)
LEMMA NotesInitially == Init => DocumentsFit
<1> SUFFICES ASSUME Init PROVE DocumentsFit
  OBVIOUS
<1>1. PICK s \in Scenarios :
        /\ Start(s.runs)
        /\ doc = [d \in Docs |-> IF d \in DOMAIN s.docs THEN s.docs[d] ELSE <<>>]
        /\ there = DOMAIN s.docs /\ first = doc
  BY DEF Init
<1>2. request = s.runs
  BY <1>1 DEF Start
<1>3. \A c \in Calls : Contextual(c) => pc[c] \in {"detect", "failed"}
  <2>1. pc = [c \in Calls |-> IF Importing(c) THEN "idle" ELSE Entry(s.runs[c])]
    BY <1>1 DEF Start
  <2>2. \A c \in Calls : Contextual(c) => ~Importing(c) /\ pc[c] = Entry(request[c])
    BY <1>2, <2>1 DEF Contextual, Importing, Scripts
  <2>3. \A c \in Calls : Contextual(c) => Entry(request[c]) \in {"detect", "failed"}
    BY DEF Contextual, Scripts, Entry
  <2> QED BY <2>2, <2>3
<1>4. \A d \in Docs, c \in Calls : ~InStep(c, d) /\ ~Through(c, d)
  BY <1>3 DEF InStep, Through
<1>5. ASSUME NEW d \in Docs  PROVE Preserved(first[d], d, doc[d])
  <2>1. doc[d] = (IF d \in DOMAIN s.docs THEN s.docs[d] ELSE <<>>) /\ first[d] = doc[d]
    BY <1>1
  <2>2. CASE d \in DOMAIN s.docs
    <3>1. doc[d] \in Seq(Range(doc[d]))
      BY <2>1, <2>2, DocumentsAssumption
    <3>2. InOrder(doc[d]) \/ (d = "SPECKIT.md" /\ Malformed(doc[d]) /\ NoBlockTwice(doc[d]))
      BY <2>1, <2>2, DocumentsAssumption
    <3> QED BY <2>1, <3>1, <3>2 DEF Preserved
  <2>3. CASE d \notin DOMAIN s.docs
    <3>1. PICK t : t = <<>>
      OBVIOUS
    <3>2. t \in Seq(Range(t)) /\ InOrder(t)
      BY <3>1, EmptyInOrder, Retyped
    <3> QED BY <2>1, <2>3, <3>1, <3>2 DEF Preserved
  <2> QED BY <2>2, <2>3
<1>6. RowsFit
  BY <1>2, DocumentsAssumption DEF RowsFit
<1>7. ThereFit
  BY <1>1, <1>4 DEF ThereFit, Filling
<1>8. \A d \in Docs : DocumentFits(d)
  BY <1>4, <1>5 DEF DocumentFits, OneWrites, DocFits
<1> QED BY <1>6, <1>7, <1>8 DEF DocumentsFit

(* Documents are as people and scripts have left them, whatever scripts run    *)
(* and whatever fails, but where runs overlap or are killed while they write.  *)
THEOREM DocumentsHold == Spec => []NotesInv
<1>1. Init => DocumentsFit
  BY NotesInitially
<1>2. BuildInv /\ DocumentsFit /\ [Next]_allVars => DocumentsFit'
  <2> SUFFICES ASSUME BuildInv, DocumentsFit, [Next]_allVars PROVE DocumentsFit'
    OBVIOUS
  <2>1. FilesInv /\ NotesInv
    BY DEF BuildInv, NotesInv
  <2>2. request' = request
    BY <2>1, StepsAreFileSteps, RequestsStay
  <2>3. ASSUME NEW a \in Calls, ContextStep(a), \A o \in Calls \ {a} : pc'[o] = pc[o]
        PROVE  DocumentsFit'
    BY <2>1, <2>2, <2>3, DetectLeaves, OpenLeaves, EmptyLeaves, FillLeaves DEF ContextStep
  <2>4. ASSUME NEW a \in Calls, KillRun(a), pc'[a] = "killed", \A o \in Calls \ {a} : pc'[o] = pc[o]
        PROVE  DocumentsFit'
    BY <2>1, <2>2, <2>4, KillLeaves
  <2>5. ASSUME UNCHANGED <<doc, there, line, version, text, first, damaged>>,
               \A o \in Calls : Contextual(o) => pc'[o] = pc[o]
        PROVE  DocumentsFit'
    BY <2>1, <2>2, <2>5, OthersLeave
  <2> QED BY <2>1, <2>3, <2>4, <2>5, DocumentSteps
<1> QED BY <1>1, <1>2, BuildHolds, PTL DEF Spec, NotesInv

(* What people have written around the blocks stays, in its order, and no      *)
(* script has two blocks in a document (build_documentation.mjs,               *)
(* setup_context.mjs), whatever runs, one after the other, in whatever order.  *)
THEOREM NotesAreKept == Spec => []NotesStay
<1>1. NotesInv => NotesStay
  <2> SUFFICES ASSUME NotesInv, NEW d \in Docs, Whole(d)
               PROVE  Notes(doc[d]) = Notes(first[d]) /\ NoBlockTwice(doc[d])
    BY DEF NotesStay
  <2>1. ~Filling(d) /\ d \notin damaged
    BY DEF Whole, Filling, At
  <2>2. Preserved(first[d], d, doc[d])
    BY <2>1 DEF NotesInv, DocumentsFit, DocumentFits, DocFits
  <2>3. InOrder(doc[d]) => NoBlockTwice(doc[d])
    BY <2>2, OrderedOnce DEF Preserved
  <2> QED BY <2>2, <2>3 DEF Preserved
<1> QED BY <1>1, DocumentsHold, PTL

(* How often a text has a piece. *)
LEMMA Occurrences ==
  ASSUME NEW S, NEW t \in Seq(S), NEW x
  PROVE  /\ Includes(t, x) <=> Where(t, x) # {}
         /\ Says(t, x) <=> Saying(t, x) # {}
         /\ Includes(t, x) /\ NotTwice(t, x) => Cardinality(Where(t, x)) = 1
         /\ NotTwice(t, x) => Cardinality(Where(t, x)) <= 1
         /\ ~NotTwice(t, x) => Cardinality(Where(t, x)) > 1
<1>1. DOMAIN t = 1 .. Len(t) /\ Len(t) \in Nat
  OBVIOUS
<1>2. PICK W : W = Where(t, x)
  OBVIOUS
<1>3. W = {i \in 1 .. Len(t) : t[i] = x}
  BY <1>1, <1>2 DEF Where
<1>4. Includes(t, x) <=> W # {}
  BY <1>3 DEF Includes
<1>5. ASSUME Includes(t, x), NotTwice(t, x)  PROVE Cardinality(W) = 1
  <2>1. PICK i \in W : W = {i}
    BY <1>3, <1>4, <1>5 DEF NotTwice
  <2> QED BY <2>1, FS_Singleton
<1>6. ASSUME ~NotTwice(t, x)  PROVE Cardinality(W) > 1
  <2>1. PICK i, j \in W : i # j
    BY <1>3, <1>6 DEF NotTwice
  <2>2. Cardinality({i, j}) = 2
    <3>1. Cardinality({i}) = 1 /\ IsFiniteSet({i})
      BY FS_Singleton
    <3>2. {i, j} = {i} \cup {j} /\ j \notin {i}
      BY <2>1
    <3>3. Cardinality({i} \cup {j}) = Cardinality({i}) + 1
      BY <3>1, <3>2, FS_AddElement
    <3>4. \A n : n = 1 => n + 1 = 2
      OBVIOUS
    <3> QED BY <3>1, <3>2, <3>3, <3>4, Zenon
  <2>3. IsFiniteSet(W)
    <3>1. IsFiniteSet(1 .. Len(t)) /\ W \in SUBSET (1 .. Len(t))
      BY <1>1, <1>3, FS_Interval
    <3> QED BY <3>1, FS_Subset
  <2>4. {i, j} \in SUBSET W
    BY <2>1
  <2>5. Cardinality({i, j}) <= Cardinality(W) /\ Cardinality(W) \in Nat
    BY <2>3, <2>4, FS_Subset, FS_CardinalityType
  <2> QED BY <2>2, <2>5
<1>7. ASSUME ~Includes(t, x)  PROVE Cardinality(W) = 0
  BY <1>4, <1>7, FS_EmptySet
<1>8. Says(t, x) <=> Saying(t, x) # {}
  BY <1>1 DEF Says, Saying, Includes
<1> QED BY <1>2, <1>4, <1>5, <1>6, <1>7, <1>8

(* What somebody has confirmed, and what the stack was, is there after runs of *)
(* whatever other scripts, a row and a rule once, but for a row that starts as *)
(* the header does (registrar_dados_conversados.mjs, add_rule.mjs,             *)
(* update_stack.mjs).                                                          *)
THEOREM RowsAreKept == Spec => []ConfirmedRowsStay
<1>1. NotesInv => ConfirmedRowsStay
  <2> SUFFICES ASSUME NotesInv, NEW c \in Calls, Contextual(c), At(c, "done"), Whole(Now(c).doc),
                      NEW d, d = Now(c).doc, NEW t, t = doc[d]
               PROVE  CASE request[c].script = "register" ->
                             Stays(request[c].row) => Cardinality(Where(Rows(t, "conversation"), request[c].row)) = 1
                        [] request[c].script = "rule"  ->
                             /\ Saying(t, request[c].row) # {}
                             /\ \/ Cardinality(Where(t, request[c].row)) <= 1
                                \/ Cardinality(Where(first[d], request[c].row)) > 1
                        [] request[c].script = "stack" -> Where(Rows(t, "stack"), <<"row", version[c]>>) # {}
                        [] OTHER -> TRUE
    BY DEF ConfirmedRowsStay
  <2>1. d \in Docs /\ Kind(request[c], Now(c))
    BY NowKinds DEF NotesInv, BuildInv
  <2>2. ~Filling(d) /\ d \notin damaged
    BY DEF Whole, Filling, At
  <2>3. Preserved(first[d], d, t)
    BY <2>1, <2>2 DEF NotesInv, DocumentsFit, DocumentFits, DocFits
  <2>4. ASSUME request[c].script \in Lasting
        PROVE  Confirms(request[c], version[c], t) /\ InOrder(t)
    <3>1. Through(c, d)
      BY <2>4 DEF Through, At
    <3>2. Confirms(request[c], version[c], t)
      BY <2>1, <2>2, <3>1 DEF NotesInv, DocumentsFit, DocumentFits, RowsKept
    <3>3. d # "SPECKIT.md"
      BY <2>1, <2>4 DEF Kind, Write
    <3> QED BY <2>3, <3>2, <3>3 DEF Preserved
  <2>5. t \in Seq(Range(t)) /\ first[d] \in Seq(Range(first[d]))
    BY <2>3 DEF Preserved
  <2>6. ASSUME request[c].script = "register", Stays(request[c].row)
        PROVE  Cardinality(Where(Rows(t, "conversation"), request[c].row)) = 1
    <3>0. Confirmable(request[c].row)
      BY <2>6 DEF Confirmable, NotesInv, DocumentsFit, RowsFit
    <3>1. Once(t, "conversation", request[c].row) /\ InOrder(t) /\ "conversation" \in Blocks
      BY <2>4, <2>6, <3>0 DEF Lasting, Confirms, Blocks
    <3>2. PICK r : r = Rows(t, "conversation")
      OBVIOUS
    <3>3. r \in Seq(Range(t)) /\ Includes(r, request[c].row) /\ NotTwice(r, request[c].row)
      BY <2>5, <3>1, <3>2, RowsAre DEF Includes
    <3>4. Cardinality(Where(r, request[c].row)) = 1
      BY <3>3, Occurrences
    <3> QED BY <3>2, <3>4
  <2>7. ASSUME request[c].script = "rule"
        PROVE  /\ Saying(t, request[c].row) # {}
               /\ \/ Cardinality(Where(t, request[c].row)) <= 1
                  \/ Cardinality(Where(first[d], request[c].row)) > 1
    <3>1. Says(t, request[c].row)
      BY <2>4, <2>7 DEF Lasting, Confirms
    <3>2. request[c].row[1] = "row" /\ d = "RULES.md"
      BY <2>1, <2>7 DEF NotesInv, DocumentsFit, RowsFit, Kind, Write, Lasting
    <3>3. NotTwice(first[d], request[c].row) => NotTwice(t, request[c].row)
      BY <2>3, <3>2 DEF Preserved
    <3>4. Saying(t, request[c].row) # {} /\ (NotTwice(t, request[c].row) => Cardinality(Where(t, request[c].row)) <= 1)
      BY <2>5, <3>1, Occurrences
    <3>5. ~NotTwice(first[d], request[c].row) => Cardinality(Where(first[d], request[c].row)) > 1
      BY <2>5, Occurrences
    <3> QED BY <3>3, <3>4, <3>5
  <2>8. ASSUME request[c].script = "stack"
        PROVE  Where(Rows(t, "stack"), <<"row", version[c]>>) # {}
    <3>1. Lists(t, "stack", <<"row", version[c]>>) /\ InOrder(t) /\ "stack" \in Blocks
      BY <2>4, <2>8 DEF Lasting, Confirms, Blocks
    <3>2. PICK row : row = <<"row", version[c]>>
      OBVIOUS
    <3>3. PICK r : r = Rows(t, "stack")
      OBVIOUS
    <3>4. r \in Seq(Range(t)) /\ \A x : Lists(t, "stack", x) <=> \E k \in 1 .. Len(r) : r[k] = x
      BY <2>5, <3>1, <3>3, RowsAre
    <3>5. Includes(r, row)
      BY <3>1, <3>2, <3>4 DEF Includes
    <3> QED BY <3>2, <3>3, <3>4, <3>5, Occurrences
  <2> QED BY <2>6, <2>7, <2>8
<1> QED BY <1>1, DocumentsHold, PTL

(* Every variable of the skill scripts keeps its type, those of the documents included. *)
THEOREM TypesHold == Spec => []TypeOK
<1> DEFINE More == /\ there \subseteq Docs /\ damaged \subseteq Docs /\ stale \in [Calls -> SUBSET Docs]
                   /\ project \in Versions /\ changes \in 0 .. MaxChanges
<1>1. Init => More
  <2> SUFFICES ASSUME Init PROVE More
    OBVIOUS
  <2>1. there \subseteq Docs
    BY DocumentsAssumption DEF Init
  <2>2. (CHOOSE v \in Versions : TRUE) \in Versions
    BY ProjectAssumption
  <2>3. stale = [c \in Calls |-> {}]
    BY DEF Init
  <2>4. stale \in [Calls -> SUBSET Docs]
    BY <2>3
  <2> QED BY <2>1, <2>2, <2>4, ProjectAssumption DEF Init
<1>2. NotesInv /\ More /\ [Next]_allVars => More'
  <2> SUFFICES ASSUME NotesInv, More, [Next]_allVars PROVE More'
    OBVIOUS
  <2>1. UNCHANGED <<there, damaged, stale, project, changes>> => More'
    OBVIOUS
  <2>2. UNCHANGED contextVars \/ UNCHANGED allVars => More'
    BY <2>1 DEF allVars, contextVars
  <2>3. ASSUME NEW a \in Calls, ContextStep(a)  PROVE More'
    <3>1. Contextual(a)
      BY <2>3 DEF ContextStep, Detect, Open, Empty, Fill
    <3>2. Now(a).doc \in Docs
      BY <3>1, NowKinds DEF NotesInv, BuildInv
    <3>3. CASE Detect(a)
      BY <2>1, <3>3 DEF Detect
    <3>4. CASE Open(a)
      <4>1. damaged' \subseteq Docs /\ UNCHANGED <<there, project, changes>>
        BY <3>2, <3>4 DEF Open
      <4>2. stale' = stale \/ stale' = [stale EXCEPT ![a] = @ \cup {Now(a).doc}]
        BY <3>4, Zenon DEF Open
      <4>3. stale' \in [Calls -> SUBSET Docs]
        BY <3>2, <4>2
      <4> QED BY <4>1, <4>3
    <3>5. CASE Empty(a)
      BY <3>2, <3>5 DEF Empty
    <3>6. CASE Fill(a)
      BY <2>1, <3>6 DEF Fill
    <3> QED BY <2>3, <3>3, <3>4, <3>5, <3>6 DEF ContextStep
  <2>4. ASSUME NEW a \in Calls, KillRun(a)  PROVE More'
    BY <2>4 DEF KillRun
  <2>5. ASSUME Develop  PROVE More'
    BY <2>5, ProjectAssumption DEF Develop
  <2> HIDE DEF More
  <2> QED BY <2>2, <2>3, <2>4, <2>5 DEF Next, Step, Over
<1>3. NotesInv /\ More => TypeOK
  <2> SUFFICES ASSUME NotesInv, More PROVE TypeOK
    OBVIOUS
  <2>1. FilesTypeOK
    BY DEF NotesInv, BuildInv, FilesInv
  <2>2. \A d \in Docs : doc[d] # <<>> => d \in there
    BY DEF NotesInv, DocumentsFit, ThereFit
  <2>3. \A c \in Calls : Contextual(c) => line[c] \in 1 .. Len(Plan(request[c])) /\ stale[c] \subseteq Docs
    BY DEF NotesInv, BuildInv, LinesFit
  <2> QED BY <2>1, <2>2, <2>3 DEF TypeOK
<1> HIDE DEF More
<1> QED BY <1>1, <1>2, <1>3, DocumentsHold, PTL DEF Spec

=============================================================================
