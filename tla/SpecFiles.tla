----------------------------- MODULE SpecFiles -----------------------------
(***************************************************************************)
(* The three scripts that add files to specs/ while other runs of them do  *)
(* the same: capturar_inbox.mjs (an Inbox named by the second and the      *)
(* title), iniciar_backlog.mjs (a numbered backlog item) and               *)
(* iniciar_spec.mjs (a numbered package with its spec.md, numbered under   *)
(* the directory .specsfy-allocation.lock).  A step is one system call of  *)
(* a script.  A script may be killed between two steps and a write may     *)
(* fail; `specsfy transition` moves packages from folder to folder.        *)
(***************************************************************************)
EXTENDS Naturals, Sequences, FiniteSetsExt

CONSTANTS
  Calls,       \* processes that run scripts, one after the other
  Slugs,       \* what titles become in the name of a file
  Seconds,     \* what the clock shows when an Inbox is captured
  MaxNumber,   \* 9999, the last number of four digits
  MaxAttempts, \* 500, how often the lock is tried for
  MaxFaults,   \* bound: kills and failing writes in a behaviour
  MaxMoves,    \* bound: moves of packages from folder to folder in a behaviour
  Packages,    \* names of the packages there are at first, all of them written
  Nobody       \* the author of what was there at first, the holder of a free lock

ASSUME BoundsAssumption ==
  /\ Slugs # {} /\ Seconds # {}
  /\ MaxNumber \in Nat /\ MaxAttempts \in Nat \ {0} /\ MaxFaults \in Nat /\ MaxMoves \in Nat

(* STATE_FOLDERS, in the order in which they are listed and packages advance.  *)
StateFolders == <<"draft", "defined", "planned", "in-progress", "review", "completed">>
Folders      == {StateFolders[i] : i \in 1 .. Len(StateFolders)}

(* Which theme of which call a file is for; a script run by itself has theme 0. *)
Items   == Calls \X Nat
Authors == Items \cup {Nobody}

ASSUME NobodyAssumption == Nobody \notin Calls \cup Items

InboxNames   == Seconds \X Slugs \X Nat
BacklogNames == Nat \X Slugs
PackageNames == Folders \X Nat \X Slugs

(* Only directories with four digits count, and none was numbered by hand.     *)
ASSUME PackagesAssumption ==
  /\ Packages \subseteq {n \in PackageNames : n[2] <= MaxNumber}
  /\ \A m, n \in Packages : m[2] = n[2] => m = n

(* The arguments of a run: accepted unless one is missing, empty or starts     *)
(* with "--", or the title has no character for a slug.                        *)
Fields == {"problem", "person", "result", "context", "menu"}
Jobs == [script : {"capture", "backlog", "specify"}, slug : Slugs, accepted : BOOLEAN,
         item : Items, gaps : SUBSET Fields, kept : BOOLEAN]

VARIABLES
  inbox,   \* specs/inbox: the files, by name
  backlog, \* specs/backlog: the files, by name
  specs,   \* the packages, by folder, number and slug
  lock,    \* who made specs/.specsfy-allocation.lock
  job,     \* what the script of each call was given
  pc, my,  \* its next system call and its variables
  faults,  \* kills and failing writes so far
  moves    \* moves of packages so far

fileVarsButPc == <<inbox, backlog, specs, lock, job, my, faults, moves>>
fileVars      == <<fileVarsButPc, pc>>

At(c, step) == pc[c] = step
Go(c, step) == pc' = [pc EXCEPT ![c] = step]
With(files, name, content) ==
  [n \in DOMAIN files \cup {name} |-> IF n = name THEN content ELSE files[n]]
Without(files, name) == Restrict(files, DOMAIN files \ {name})

(* A write fails: the disk is full, the file cannot be opened. *)
Fault == faults < MaxFaults /\ faults' = faults + 1

Idle == [second |-> CHOOSE s \in Seconds : TRUE, suffix |-> 1, entry |-> 0,
         number |-> 0, tries |-> 0, folder |-> 1, top |-> 0]

(* The step each script starts with; a run whose arguments are refused ends    *)
(* before it touches a file.  The other scripts are those of ContextFiles.     *)
Entry(j) == IF ~j.accepted THEN "failed"
            ELSE CASE j.script = "capture" -> "second"
                   [] j.script = "backlog" -> "backlogScan"
                   [] j.script = "specify" -> "lock"
                   [] OTHER                -> "detect"

(* Operators whose comment begins with "Mutant" are wrong on purpose: putting  *)
(* one in the place of the definition that follows it must break a property.   *)

-----------------------------------------------------------------------------
(* capturar_inbox.mjs *)

InboxName(c) == <<my[c].second, job[c].slug, my[c].suffix>>

(* The second is read once, before the first name is tried. *)
ReadSecond(c) ==
  /\ At(c, "second")
  /\ \E s \in Seconds : my' = [my EXCEPT ![c].second = s, ![c].suffix = 1]
  /\ Go(c, "captureCreate")
  /\ UNCHANGED <<inbox, backlog, specs, lock, job, faults, moves>>

(* Mutant: writeFile without the flag wx. *)
NameIsNotLookedAt(c) == FALSE

NameIsTaken(c) == InboxName(c) \in DOMAIN inbox

(* writeFile with flag wx: only one run creates a name; another one tries the  *)
(* next suffix.                                                                *)
CaptureCreate(c) ==
  /\ At(c, "captureCreate")
  /\ IF NameIsTaken(c)
     THEN my' = [my EXCEPT ![c].suffix = @ + 1] /\ UNCHANGED <<inbox, pc>>
     ELSE /\ inbox' = With(inbox, InboxName(c),
                         [item |-> job[c].item, whole |-> FALSE, gaps |-> job[c].gaps, kept |-> job[c].kept])
          /\ Go(c, "captureFill") /\ UNCHANGED my
  /\ UNCHANGED <<backlog, specs, lock, job, faults, moves>>

CaptureFill(c) ==
  /\ At(c, "captureFill")
  /\ inbox' = [inbox EXCEPT ![InboxName(c)].whole = TRUE]
  /\ Go(c, "done")
  /\ UNCHANGED <<backlog, specs, lock, job, my, faults, moves>>

-----------------------------------------------------------------------------
(* iniciar_backlog.mjs *)

BacklogName(c) == <<my[c].entry, job[c].slug>>

(* nextNumber: one more than the highest number of a file of specs/backlog. *)
BacklogScan(c) ==
  /\ At(c, "backlogScan")
  /\ LET next == Max({0} \cup {n[1] : n \in DOMAIN backlog}) + 1 IN
     IF next > MaxNumber
     THEN Go(c, "failed") /\ UNCHANGED my
     ELSE my' = [my EXCEPT ![c].entry = next] /\ Go(c, "backlogCreate")
  /\ UNCHANGED <<inbox, backlog, specs, lock, job, faults, moves>>

(* Mutant: the number is not read again. *)
TryAgain == "backlogCreate"

NumberAgain == "backlogScan"

(* The same number and slug may have been taken since: scan again. *)
BacklogCreate(c) ==
  /\ At(c, "backlogCreate")
  /\ IF BacklogName(c) \in DOMAIN backlog
     THEN Go(c, NumberAgain) /\ UNCHANGED backlog
     ELSE /\ backlog' = With(backlog, BacklogName(c),
                           [item |-> job[c].item, text |-> "empty", gaps |-> job[c].gaps, spec |-> 0])
          /\ Go(c, "backlogFill")
  /\ UNCHANGED <<inbox, specs, lock, job, my, faults, moves>>

BacklogFill(c) ==
  /\ At(c, "backlogFill")
  /\ backlog' = [backlog EXCEPT ![BacklogName(c)].text = "captured"]
  /\ Go(c, "done")
  /\ UNCHANGED <<inbox, specs, lock, job, my, faults, moves>>

-----------------------------------------------------------------------------
(* iniciar_spec.mjs *)

PackageName(c) == <<"draft", my[c].number, job[c].slug>>

(* Mutant: the lock is made with mkdir recursive, which accepts a directory.   *)
LockIsShared == TRUE

LockIsFree == lock = Nobody

LastAttempt(c) == my[c].tries + 1 = MaxAttempts

(* mkdir takes the lock; after the last failing attempt the run gives up. *)
TakeLock(c) ==
  /\ At(c, "lock")
  /\ IF LockIsFree
     THEN /\ lock' = c
          /\ my' = [my EXCEPT ![c].folder = 1, ![c].top = 0, ![c].tries = 0]
          /\ Go(c, "scan")
     ELSE /\ my' = [my EXCEPT ![c].tries = @ + 1]
          /\ IF LastAttempt(c) THEN Go(c, "failed") ELSE UNCHANGED pc
          /\ UNCHANGED lock
  /\ UNCHANGED <<inbox, backlog, specs, job, faults, moves>>

(* existingNumbers reads one folder after the other. *)
ScanFolder(c) ==
  /\ At(c, "scan")
  /\ LET here == {n[2] : n \in {n \in DOMAIN specs : n[1] = StateFolders[my[c].folder]}} IN
     my' = [my EXCEPT ![c].top = Max({@} \cup here), ![c].folder = @ + 1]
  /\ IF my[c].folder = Len(StateFolders) THEN Go(c, "make") ELSE UNCHANGED pc
  /\ UNCHANGED <<inbox, backlog, specs, lock, job, faults, moves>>

(* mkdir of the package; without a number, or when there is such a directory,  *)
(* the lock is given back (number 0) and the run fails.                        *)
MakePackage(c) ==
  /\ At(c, "make")
  /\ LET number == my[c].top + 1
         name   == <<"draft", number, job[c].slug>>
     IN IF number > MaxNumber \/ name \in DOMAIN specs
        THEN my' = [my EXCEPT ![c].number = 0] /\ UNCHANGED specs
        ELSE /\ my' = [my EXCEPT ![c].number = number]
             /\ specs' = With(specs, name, [item |-> job[c].item, text |-> "none", gaps |-> {}])
  /\ Go(c, "unlock")
  /\ UNCHANGED <<inbox, backlog, lock, job, faults, moves>>

(* finally: rm takes the lock away, whoever made it. *)
ReleaseLock(c) ==
  /\ At(c, "unlock")
  /\ lock' = Nobody
  /\ Go(c, IF my[c].number = 0 THEN "failed" ELSE "temporary")
  /\ UNCHANGED <<inbox, backlog, specs, job, my, faults, moves>>

(* The text goes to .spec.md.tmp and is renamed. *)
WriteTemporary(c) ==
  /\ At(c, "temporary")
  /\ specs' = [specs EXCEPT ![PackageName(c)].text = "temporary"]
  /\ Go(c, "rename")
  /\ UNCHANGED <<inbox, backlog, lock, job, my, faults, moves>>

RenameSpec(c) ==
  /\ At(c, "rename")
  /\ specs' = [specs EXCEPT ![PackageName(c)].text = "template"]
  /\ Go(c, "done")
  /\ UNCHANGED <<inbox, backlog, lock, job, my, faults, moves>>

(* Mutant: the failing run leaves its directory. *)
PackageStays(c) == specs

WithoutPackage(c) == Without(specs, PackageName(c))

(* catch: rm takes the package away, and the run fails. *)
RemovePackage(c) ==
  /\ At(c, "undo")
  /\ specs' = WithoutPackage(c)
  /\ Go(c, "failed")
  /\ UNCHANGED <<inbox, backlog, lock, job, my, faults, moves>>

-----------------------------------------------------------------------------
(* A write or a rename fails: the package is removed, an Inbox or a backlog    *)
(* item is left as it is.                                                      *)
WriteFails(c) ==
  /\ Fault
  /\ \/ pc[c] \in {"captureFill", "backlogFill"} /\ Go(c, "failed")
     \/ pc[c] \in {"temporary", "rename"} /\ Go(c, "undo")
  /\ UNCHANGED <<inbox, backlog, specs, lock, job, my, moves>>

ScriptStep(c) ==
  \/ ReadSecond(c) \/ CaptureCreate(c) \/ CaptureFill(c)
  \/ BacklogScan(c) \/ BacklogCreate(c) \/ BacklogFill(c)
  \/ TakeLock(c) \/ ScanFolder(c) \/ MakePackage(c) \/ ReleaseLock(c)
  \/ WriteTemporary(c) \/ RenameSpec(c) \/ RemovePackage(c)

(* `specsfy transition` moves a package to the next folder.  It refuses the     *)
(* placeholders of the template, which an import is about to replace.          *)
Transition(name) ==
  /\ \/ specs[name].text = "drafted"
     \/ specs[name].text = "template" /\ specs[name].item[2] = 0
  /\ \E i \in 1 .. Len(StateFolders) - 1 :
       /\ name[1] = StateFolders[i]
       /\ specs' = With(Without(specs, name), <<StateFolders[i + 1], name[2], name[3]>>, specs[name])
  /\ moves < MaxMoves /\ moves' = moves + 1
  /\ UNCHANGED <<inbox, backlog, lock, job, pc, my, faults>>
=============================================================================
