------------------------------ MODULE Baseline ------------------------------
(***************************************************************************)
(* The snapshot of the system's files (src/src/baseline.c): how it is      *)
(* taken and loaded by the scan's thread and loaded once more by the       *)
(* window's (src/src/main.c), how files are compared with it               *)
(* (src/src/scan.c, SCAN_VERIFY), and how one is repaired from Windows'    *)
(* own copies while all of that goes on.                                   *)
(*                                                                         *)
(* A file's content is "orig"inal, an"other" Windows version's, "evil", or *)
(* the file is "absent".  The three places a repair copies from have the   *)
(* same kind of content for every file.                                    *)
(***************************************************************************)
EXTENDS Naturals, FiniteSets

CONSTANTS
  Files,       \* the paths build_walk comes to
  Places,      \* what may be in Windows' cache, the install source and its packed files
  MaxChanges,  \* bound: changes others make to files
  MaxJobs,     \* bound: snapshots and verifications
  MaxRepairs   \* bound: repairs

ASSUME BaseAssumption ==
  /\ MaxChanges \in Nat /\ MaxJobs \in Nat /\ MaxRepairs \in Nat
  /\ Places \subseteq [{"cache", "source", "packed"} -> {"orig", "other", "absent"}]

Contents == {"orig", "other", "evil"}
None == "none"
Maps == [Files -> Contents \cup {None}]
Nothing == [f \in Files |-> None]

VARIABLES
  disk,     \* [Files -> content or "absent"]
  later,    \* [Files -> what MoveFileEx puts there at the next boot, or None]
  places,   \* what there is to copy from
  snap,     \* system.cavb: [state, map]; "no" file, "part" of one or a "whole" one
  base,     \* g_base: [loaded, map]
  job,      \* scan_thread: [at, todo, map]
  mode,     \* g_job.mode
  cancel,   \* g_job.cancel
  done,     \* WM_SCAN_DONE messages posted and not handled
  jobs,
  hits,     \* files reported
  win,      \* window thread: "loop", "free"/"load" in base_load, and where in base_repair
  rep,      \* base_repair: [file, want, from]
  said,     \* what the window said of the last repair
  changes, repairs,
  olds,     \* WM_SCAN_DONE messages that are older than the job (history)
  mistaken, \* one of those was taken for a snapshot's (history)
  suspect,  \* files that differ from their record since a verification began, and could be read (history)
  meddled   \* others have changed the file since it was copied (history)

history == <<olds, mistaken, suspect, meddled>>
vars == <<disk, later, places, snap, base, job, mode, cancel, done, jobs, hits, win, rep,
          said, changes, repairs, olds, mistaken, suspect, meddled>>
repair == <<rep, said, repairs>>
scan == <<job, mode, cancel, done, jobs, hits>>

Repairing == win \in {"copy", "check"}
NoBase == [loaded |-> FALSE, map |-> Nothing]
Idle == [at |-> "idle", todo |-> {}, map |-> Nothing]

Init ==
  /\ disk = [f \in Files |-> "orig"] /\ later = [f \in Files |-> None]
  /\ places \in Places
  /\ snap = [state |-> "no", map |-> Nothing] /\ base = NoBase
  /\ job = Idle /\ mode = None /\ cancel = FALSE /\ done = 0 /\ jobs = 0
  /\ hits = {}
  /\ win = "loop" /\ rep = [file |-> None, want |-> None, from |-> None] /\ said = None
  /\ changes = 0 /\ repairs = 0 /\ olds = 0 /\ mistaken = FALSE /\ suspect = {} /\ meddled = FALSE

-----------------------------------------------------------------------------
\* Variant: the sizes in the header are not compared with what could be read.
LoadedPart(s) == IF s.state # "no" THEN [loaded |-> TRUE, map |-> s.map] ELSE NoBase

\* base_load: the records and the names are there in full, or nothing is loaded.
Loaded(s) == IF s.state = "whole" THEN [loaded |-> TRUE, map |-> s.map] ELSE NoBase

\* base_check_path.
Check(b, f, content) ==
  IF ~b.loaded \/ b.map[f] = None THEN "UNKNOWN"
  ELSE IF b.map[f] = content THEN "CLEAN" ELSE "MODIFIED"

\* A file gets another content: it may be what its record says again.
Put(f, content) ==
  /\ disk' = [disk EXCEPT ![f] = content]
  /\ suspect' = IF Check(base, f, content) = "MODIFIED" THEN suspect ELSE suspect \ {f}

-----------------------------------------------------------------------------
\* The buttons: start_scan with the mode, if no scan runs.
Start(m) ==
  /\ win = "loop" /\ job.at = "idle" /\ jobs < MaxJobs /\ jobs' = jobs + 1
  /\ mode' = m /\ cancel' = FALSE /\ hits' = {} /\ olds' = done
  /\ UNCHANGED <<disk, later, places, snap, base, done, win, repair, changes, mistaken, meddled>>

StartBuild ==
  /\ Start("build") /\ job' = [at |-> "walk", todo |-> Files, map |-> Nothing]
  /\ suspect' = {}

\* The list of what to verify is as long as the snapshot is now.
StartVerify ==
  /\ base.loaded /\ Start("verify")
  /\ LET recorded == {f \in Files : base.map[f] # None} IN
       /\ job' = [at |-> "verify", todo |-> recorded, map |-> Nothing]
       /\ suspect' = {f \in recorded : disk[f] # base.map[f]}

Stop ==
  /\ job.at # "idle" /\ win = "loop" /\ cancel' = TRUE
  /\ UNCHANGED <<disk, later, places, snap, base, job, mode, done, jobs, hits, win, repair,
                 changes, history>>

\* build_walk comes to the next file, and leaves it out when it cannot read it.
BuildFile ==
  /\ job.at = "walk" /\ ~cancel
  /\ \E f \in job.todo :
       \/ disk[f] # "absent" /\ job' = [job EXCEPT !.todo = @ \ {f}, !.map[f] = disk[f]]
       \/ job' = [job EXCEPT !.todo = @ \ {f}]
  /\ UNCHANGED <<disk, later, places, snap, base, mode, cancel, done, jobs, hits, win, repair,
                 changes, history>>

\* The walk is over, or was cancelled; what it has is written all the same.  A
\* file that cannot be created leaves the old snapshot.
BuildOpens ==
  /\ job.at = "walk" /\ (cancel \/ job.todo = {})
  /\ \/ /\ job.map # Nothing /\ snap' = [state |-> "part", map |-> job.map]
        /\ job' = [job EXCEPT !.at = "write"]
     \/ job' = [job EXCEPT !.at = "end"] /\ UNCHANGED snap
  /\ UNCHANGED <<disk, later, places, base, mode, cancel, done, jobs, hits, win, repair,
                 changes, history>>

\* WriteFile, whose result is not looked at, and then base_load's base_free.  The
\* hash that a repair has just looked up goes with it.
BuildWrites ==
  /\ job.at = "write" /\ job' = [job EXCEPT !.at = "load"]
  /\ \/ snap' = [snap EXCEPT !.state = "whole"]
     \/ UNCHANGED snap
  /\ base' = NoBase
  /\ rep' = IF Repairing /\ rep.want # None THEN [rep EXCEPT !.want = "freed"] ELSE rep
  /\ UNCHANGED <<disk, later, places, mode, cancel, done, jobs, hits, win, said, repairs,
                 changes, olds, mistaken, suspect, meddled>>

BuildLoads ==
  /\ job.at = "load" /\ job' = [job EXCEPT !.at = "end"] /\ base' = Loaded(snap)
  /\ UNCHANGED <<disk, later, places, snap, mode, cancel, done, jobs, hits, win, repair,
                 changes, history>>

\* Variant: a file that is missing is passed over.
VerifyPresent ==
  /\ job.at = "verify" /\ ~cancel
  /\ \E f \in job.todo :
       /\ job' = [job EXCEPT !.todo = @ \ {f}]
       /\ IF disk[f] = "absent" \/ Check(base, f, disk[f]) # "MODIFIED"
          THEN UNCHANGED hits
          ELSE hits' = hits \cup {f}
  /\ UNCHANGED <<disk, later, places, snap, base, mode, cancel, done, jobs, win, repair,
                 changes, history>>

\* SCAN_VERIFY: the next record; a file that cannot be read is counted as skipped.
VerifyFile ==
  /\ job.at = "verify" /\ ~cancel
  /\ \E f \in job.todo :
       /\ job' = [job EXCEPT !.todo = @ \ {f}]
       /\ \/ disk[f] # "absent" /\ suspect' = suspect \ {f} /\ UNCHANGED hits
          \/ /\ hits' = IF Check(base, f, disk[f]) = "MODIFIED" THEN hits \cup {f} ELSE hits
             /\ UNCHANGED suspect
  /\ UNCHANGED <<disk, later, places, snap, base, mode, cancel, done, jobs, win, repair,
                 changes, olds, mistaken, meddled>>

VerifyEnds ==
  /\ job.at = "verify" /\ (cancel \/ job.todo = {}) /\ job' = [job EXCEPT !.at = "end"]
  /\ UNCHANGED <<disk, later, places, snap, base, mode, cancel, done, jobs, hits, win, repair,
                 changes, history>>

\* scan_thread posts WM_SCAN_DONE and ends.
JobEnds ==
  /\ job.at = "end" /\ job' = Idle /\ done' = done + 1
  /\ UNCHANGED <<disk, later, places, snap, base, mode, cancel, jobs, hits, win, repair,
                 changes, history>>

\* WM_SCAN_DONE: after a snapshot, and by mistake when one has been started since,
\* the window loads it too.
TakeDone ==
  /\ win = "loop" /\ done > 0 /\ done' = done - 1
  /\ IF mode = "build" THEN base' = NoBase /\ win' = "load" ELSE UNCHANGED <<base, win>>
  /\ mistaken' = (mistaken \/ (mode = "build" /\ olds > 0))
  /\ olds' = IF olds > 0 THEN olds - 1 ELSE 0
  /\ UNCHANGED <<disk, later, places, snap, job, mode, cancel, jobs, hits, repair,
                 changes, suspect, meddled>>

WindowLoads ==
  /\ win = "load" /\ win' = "loop" /\ base' = Loaded(snap)
  /\ UNCHANGED <<disk, later, places, snap, scan, repair, changes, history>>

-----------------------------------------------------------------------------
\* do_sys_repair: a file of the list that is there; base_repair looks up its hash.
RepairBegins(f) ==
  /\ win = "loop" /\ disk[f] # "absent" /\ win' = "copy" /\ meddled' = FALSE
  /\ repairs < MaxRepairs /\ repairs' = repairs + 1
  /\ rep' = [file |-> f, want |-> IF base.loaded THEN base.map[f] ELSE None, from |-> "cache"]
  /\ said' = None
  /\ UNCHANGED <<disk, later, places, snap, base, scan, changes, olds, mistaken, suspect>>

Says(how) == said' = how /\ UNCHANGED repairs /\ rep' = [rep EXCEPT !.from = None]

\* The next place to copy from.
TryNext == UNCHANGED <<said, repairs>> /\ rep' = [rep EXCEPT !.from = IF @ = "cache" THEN "source" ELSE "packed"]

\* try_copy_verify, the copy: over the file, or beside it for the next boot when it
\* is in use.
RepairCopies ==
  /\ win = "copy" /\ rep.from # "packed"
  /\ \/ /\ places[rep.from] # "absent" /\ Put(rep.file, places[rep.from]) /\ meddled' = FALSE
        /\ IF rep.want = None THEN win' = "loop" /\ Says("copied")
                            ELSE win' = "check" /\ UNCHANGED repair
        /\ UNCHANGED later
     \/ /\ places[rep.from] # "absent" /\ later' = [later EXCEPT ![rep.file] = places[rep.from]]
        /\ Says("staged") /\ win' = "loop" /\ UNCHANGED <<disk, suspect, meddled>>
     \/ TryNext /\ UNCHANGED <<disk, later, suspect, win, meddled>>
  /\ UNCHANGED <<places, snap, base, scan, changes, olds, mistaken>>

\* Variant: the copy is taken for good.
RepairTrusts ==
  /\ win = "check" /\ win' = "loop" /\ Says("checked")
  /\ UNCHANGED <<disk, later, places, snap, base, scan, changes, history>>

\* try_copy_verify, the comparison.  The next place is tried, over what has been
\* copied from this one, when it differs or cannot be read.
RepairChecks ==
  /\ win = "check"
  /\ \/ /\ rep.want \in {"freed", disk[rep.file]} /\ Says("checked") /\ win' = "loop"
     \/ TryNext /\ win' = "copy"
  /\ UNCHANGED <<disk, later, places, snap, base, scan, changes, history>>

\* expand.exe; what it has written is not compared.  One that takes more than
\* thirty seconds goes on after it has been given up.
RepairExpands ==
  /\ win = "copy" /\ rep.from = "packed" /\ win' = "loop"
  /\ \/ /\ places["packed"] # "absent" /\ Put(rep.file, places["packed"])
        /\ \E how \in {"expanded", "failed"} : Says(how)
     \/ Says("failed") /\ UNCHANGED <<disk, suspect>>
  /\ UNCHANGED <<later, places, snap, base, scan, changes, olds, mistaken, meddled>>

-----------------------------------------------------------------------------
\* Windows, another program or an infection changes a file.
Change(f, content) ==
  /\ changes < MaxChanges /\ changes' = changes + 1 /\ disk[f] # content /\ Put(f, content)
  /\ meddled' = (meddled \/ rep.file = f)
  /\ UNCHANGED <<later, places, snap, base, scan, win, repair, olds, mistaken>>

\* The program ends, anywhere, and is started again, perhaps by a boot that
\* replaces files first; wWinMain loads what there is.
Restart(boot) ==
  /\ disk' = IF boot THEN [f \in Files |-> IF later[f] = None THEN disk[f] ELSE later[f]] ELSE disk
  /\ later' = IF boot THEN [f \in Files |-> None] ELSE later
  /\ base' = Loaded(snap) /\ job' = Idle /\ mode' = None /\ cancel' = FALSE /\ done' = 0
  /\ hits' = {} /\ win' = "loop" /\ said' = None
  /\ rep' = [file |-> None, want |-> None, from |-> None] /\ suspect' = {} /\ meddled' = FALSE
  /\ mistaken' = FALSE /\ olds' = 0
  /\ UNCHANGED <<places, snap, jobs, changes, repairs>>

Next ==
  \/ StartBuild \/ StartVerify \/ Stop
  \/ BuildFile \/ BuildOpens \/ BuildWrites \/ BuildLoads \/ VerifyFile \/ VerifyEnds \/ JobEnds
  \/ TakeDone \/ WindowLoads
  \/ \E f \in Files : RepairBegins(f)
  \/ RepairCopies \/ RepairChecks \/ RepairExpands
  \/ \E f \in Files, c \in {"orig", "evil", "absent"} : Change(f, c)
  \/ \E boot \in BOOLEAN : Restart(boot)

Spec == Init /\ [][Next]_vars

-----------------------------------------------------------------------------
Snap == [state : {"no", "part", "whole"}, map : Maps]
Base == [loaded : BOOLEAN, map : Maps]
Job  == [at : {"idle", "walk", "write", "load", "verify", "end"}, todo : SUBSET Files, map : Maps]
Repair == [file : Files \cup {None}, want : Contents \cup {None, "freed"},
           from : {None, "cache", "source", "packed"}]

\* Every variable stays in its range; a repair that copies or compares knows which
\* file and from where, and compares only what has a record.
DiskOK ==
  /\ disk \in [Files -> Contents \cup {"absent"}] /\ later \in [Files -> Contents \cup {None}]
  /\ places \in [{"cache", "source", "packed"} -> {"orig", "other", "absent"}]
SnapOK == snap \in Snap
BaseOK == base \in Base /\ (base.map # Nothing => base.loaded)
JobOK == job \in Job /\ mode \in {None, "build", "verify"} /\ cancel \in BOOLEAN /\ jobs \in 0..MaxJobs
DoneOK == done \in Nat /\ olds \in 0..done
FoundOK == hits \subseteq Files /\ suspect \subseteq Files
RepairOK ==
  /\ win \in {"loop", "load", "copy", "check"} /\ rep \in Repair
  /\ said \in {None, "copied", "staged", "checked", "expanded", "failed"}
  /\ Repairing => rep.file \in Files /\ rep.from # None
  /\ win = "check" => rep.from # "packed" /\ rep.want # None
BoundsOK == changes \in 0..MaxChanges /\ repairs \in 0..MaxRepairs
TypeOK == DiskOK /\ SnapOK /\ BaseOK /\ JobOK /\ DoneOK /\ FoundOK /\ RepairOK /\ BoundsOK

\* What is loaded is the snapshot on disk, all of it, but while a new one is written
\* over that; a stop or a failed write in between leaves none.  The scan's thread and
\* the window never load it at the same time, unless one job was started before the
\* end of the one before it had been handled (base_build, base_load).
LoadedIsOnDisk ==
  /\ base.loaded /\ job.at # "write" => snap.state = "whole" /\ base.map = snap.map
  /\ job.at = "load" /\ win = "load" => mistaken

\* A verification that is not stopped reports every recorded file that has differed
\* from its record since it began and could be read, and every missing one
\* (SCAN_VERIFY, while files are repaired and change).
VerifyReportsAll ==
  job.at = "end" /\ mode = "verify" /\ ~cancel => suspect \subseteq hits

\* A file the window calls repaired from a copy it has compared is what its record
\* says, until somebody else changes it; not when a new snapshot was loaded under
\* the repair (base_repair: "verify the result against the baseline hash").
RepairedAsRecorded ==
  said = "checked" /\ ~meddled /\ rep.want # "freed" => disk[rep.file] = rep.want

\* The strengthening that makes these inductive.  The mode is the running job's;
\* while a verification runs nobody loads a snapshot, so a suspect still differs
\* from its record, and is reported or still to come.  Every end not handled while
\* a job runs is an older job's.  What was said of a repair was said of the last.
ModeIsTheJobs ==
  /\ job.at \in {"walk", "write", "load"} => mode = "build"
  /\ job.at = "verify" => mode = "verify" /\ win # "load"
SuspectsToCome ==
  job.at = "verify" =>
    \A f \in suspect : Check(base, f, disk[f]) = "MODIFIED" /\ f \in job.todo \cup hits
EndsAreOlder == job.at # "idle" => olds = done /\ (win = "load" => mistaken)
SaidOfTheLast == (Repairing => said = None) /\ (said = "checked" => rep.file \in Files)
IndInv ==
  /\ TypeOK /\ ModeIsTheJobs /\ SuspectsToCome /\ EndsAreOlder /\ SaidOfTheLast
  /\ LoadedIsOnDisk /\ VerifyReportsAll /\ RepairedAsRecorded
=============================================================================
