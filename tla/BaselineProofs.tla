--------------------------- MODULE BaselineProofs ---------------------------
(***************************************************************************)
(* Theorems about the snapshot of the system's files, for any number of    *)
(* files, jobs, repairs and changes by others.  IndInv (module Baseline)   *)
(* is inductive, and its last three parts are the properties.              *)
(***************************************************************************)
EXTENDS Baseline, TLAPS

-----------------------------------------------------------------------------
(* What is loaded from a snapshot, and what it is compared with.           *)

LEMMA NothingIsMap == Nothing \in Maps
  BY DEF Nothing, Maps

LEMMA NoBaseType == NoBase \in Base /\ NoBase.map = Nothing /\ NoBase.loaded = FALSE
<1>1. NoBase \in Base
  BY NothingIsMap DEF NoBase, Base
<1> QED
  BY <1>1 DEF NoBase

\* base_load loads a whole snapshot as it is, or nothing.
LEMMA LoadedType ==
  ASSUME NEW s \in Snap
  PROVE  /\ Loaded(s) \in Base
         /\ Loaded(s).map # Nothing => Loaded(s).loaded
         /\ Loaded(s).loaded => s.state = "whole" /\ Loaded(s).map = s.map
<1>1. CASE s.state = "whole"
  <2>1. Loaded(s) = [loaded |-> TRUE, map |-> s.map]
    BY <1>1 DEF Loaded
  <2>2. s.map \in Maps
    BY DEF Snap
  <2>3. [loaded |-> TRUE, map |-> s.map] \in Base
    BY <2>2 DEF Base
  <2> QED
    BY <1>1, <2>1, <2>3
<1>2. CASE s.state # "whole"
  <2>1. Loaded(s) = NoBase
    BY <1>2 DEF Loaded
  <2> QED
    BY <2>1, NoBaseType
<1> QED
  BY <1>1, <1>2

\* A record that is there differs from a file that is missing.
LEMMA RecordOf ==
  ASSUME BaseOK, NEW f \in Files
  PROVE  base.map[f] \in Contents \cup {None}
<1>1. base.map \in Maps
  BY DEF BaseOK, Base
<1> QED
  BY <1>1 DEF Maps

-----------------------------------------------------------------------------
(* The type invariant.                                                     *)

LEMMA PutType ==
  ASSUME DiskOK, FoundOK, NEW f \in Files, NEW c \in Contents \cup {"absent"}, Put(f, c)
  PROVE  /\ disk' \in [Files -> Contents \cup {"absent"}]
         /\ suspect' \subseteq suspect /\ suspect' \subseteq Files
         /\ disk'[f] = c /\ \A g \in Files \ {f} : disk'[g] = disk[g]
         /\ f \in suspect' => Check(base, f, c) = "MODIFIED"
<1>1. disk' = [disk EXCEPT ![f] = c]
  BY DEF Put
<1>2. suspect' \in {suspect, suspect \ {f}} /\ (f \in suspect' => Check(base, f, c) = "MODIFIED")
  BY DEF Put
<1> QED
  BY <1>1, <1>2 DEF DiskOK, FoundOK

\* What a repair copies is an original or another version's file.
LEMMA CopyType ==
  ASSUME TypeOK, win = "copy"
  PROVE  /\ rep.file \in Files /\ rep.from \in {"cache", "source", "packed"}
         /\ places[rep.from] \in {"orig", "other", "absent"}
         /\ places["packed"] \in {"orig", "other", "absent"}
<1>1. rep.file \in Files /\ rep.from \in {"cache", "source", "packed"}
  BY DEF TypeOK, RepairOK, Repairing, Repair
<1> QED
  BY <1>1 DEF TypeOK, DiskOK

LEMMA DiskType == TypeOK /\ [Next]_vars => DiskOK'
<1> SUFFICES ASSUME TypeOK, [Next]_vars PROVE DiskOK'
  OBVIOUS
<1>1. CASE RepairCopies
  <2>1. win = "copy"
    BY <1>1 DEF RepairCopies
  <2>2. CASE places[rep.from] # "absent" /\ Put(rep.file, places[rep.from]) /\ UNCHANGED <<later, places>>
    <3>1. places[rep.from] \in Contents \cup {"absent"}
      BY <2>1, CopyType DEF Contents
    <3> QED
      BY <2>1, <2>2, <3>1, CopyType, PutType DEF TypeOK, DiskOK
  <2>3. CASE places[rep.from] # "absent" /\ later' = [later EXCEPT ![rep.file] = places[rep.from]]
             /\ UNCHANGED <<disk, places>>
    <3>1. places[rep.from] \in Contents \cup {None}
      BY <2>1, <2>3, CopyType DEF Contents
    <3> QED
      BY <2>3, <3>1 DEF TypeOK, DiskOK
  <2>4. CASE UNCHANGED <<disk, later, places>>
    BY <2>4 DEF TypeOK, DiskOK
  <2> QED
    BY <1>1, <2>2, <2>3, <2>4 DEF RepairCopies
<1>2. CASE RepairExpands
  <2>1. win = "copy" /\ UNCHANGED <<later, places>>
    BY <1>2 DEF RepairExpands
  <2>2. CASE Put(rep.file, places["packed"])
    <3>1. places["packed"] \in Contents \cup {"absent"}
      BY <2>1, CopyType DEF Contents
    <3> QED
      BY <2>1, <2>2, <3>1, CopyType, PutType DEF TypeOK, DiskOK
  <2>3. CASE UNCHANGED disk
    BY <2>1, <2>3 DEF TypeOK, DiskOK
  <2> QED
    BY <1>2, <2>2, <2>3 DEF RepairExpands
<1>3. ASSUME NEW f \in Files, NEW c \in {"orig", "evil", "absent"}, Change(f, c)
      PROVE DiskOK'
  <2>1. Put(f, c) /\ UNCHANGED <<later, places>> /\ c \in Contents \cup {"absent"}
    BY <1>3 DEF Change, Contents
  <2> QED
    BY <2>1, PutType DEF TypeOK, DiskOK
<1>4. ASSUME NEW boot \in BOOLEAN, Restart(boot)
      PROVE DiskOK'
  <2>1. CASE boot
    <3>1. /\ disk' = [f \in Files |-> IF later[f] = None THEN disk[f] ELSE later[f]]
          /\ later' = [f \in Files |-> None] /\ places' = places
      BY <1>4, <2>1 DEF Restart
    <3>2. \A f \in Files : disk'[f] \in Contents \cup {"absent"}
      BY <3>1 DEF TypeOK, DiskOK
    <3> QED
      BY <3>1, <3>2 DEF TypeOK, DiskOK
  <2>2. CASE ~boot
    BY <1>4, <2>2 DEF Restart, TypeOK, DiskOK
  <2> QED
    BY <2>1, <2>2
<1>5. CASE UNCHANGED <<disk, later, places>>
  BY <1>5 DEF TypeOK, DiskOK
<1> QED
  BY <1>1, <1>2, <1>3, <1>4, <1>5
     DEF Next, Start, StartBuild, StartVerify, Stop, BuildFile, BuildOpens, BuildWrites, BuildLoads,
         VerifyFile, VerifyEnds, JobEnds, TakeDone, WindowLoads, RepairBegins, RepairChecks, vars

LEMMA SnapType == TypeOK /\ [Next]_vars => SnapOK'
<1> SUFFICES ASSUME TypeOK, [Next]_vars PROVE SnapOK'
  OBVIOUS
<1>1. snap' \in {snap, [state |-> "part", map |-> job.map], [snap EXCEPT !.state = "whole"]}
  BY DEF Next, Start, StartBuild, StartVerify, Stop, BuildFile, BuildOpens, BuildWrites, BuildLoads,
         VerifyFile, VerifyEnds, JobEnds, TakeDone, WindowLoads, RepairBegins, RepairCopies,
         RepairChecks, RepairExpands, Change, Restart, vars
<1>2. snap \in Snap /\ job.map \in Maps
  BY DEF TypeOK, SnapOK, JobOK, Job
<1> QED
  BY <1>1, <1>2 DEF SnapOK, Snap

LEMMA BaseType == TypeOK /\ [Next]_vars => BaseOK'
<1> SUFFICES ASSUME TypeOK, [Next]_vars PROVE BaseOK'
  OBVIOUS
<1>1. base' \in {base, NoBase, Loaded(snap)}
  BY DEF Next, Start, StartBuild, StartVerify, Stop, BuildFile, BuildOpens, BuildWrites, BuildLoads,
         VerifyFile, VerifyEnds, JobEnds, TakeDone, WindowLoads, RepairBegins, RepairCopies,
         RepairChecks, RepairExpands, Change, Restart, vars
<1>2. snap \in Snap /\ BaseOK
  BY DEF TypeOK, SnapOK
<1> QED
  BY <1>1, <1>2, NoBaseType, LoadedType DEF BaseOK

LEMMA BuildFileType ==
  ASSUME TypeOK, BuildFile
  PROVE  job' \in Job /\ job'.at = job.at
<1>1. PICK f \in job.todo : job' \in {[job EXCEPT !.todo = @ \ {f}, !.map[f] = disk[f]],
                                      [job EXCEPT !.todo = @ \ {f}]}
                            /\ (disk[f] = "absent" => job' = [job EXCEPT !.todo = @ \ {f}])
  BY DEF BuildFile
<1>2. f \in Files /\ job \in Job /\ disk[f] \in Contents \cup {"absent"}
  BY DEF TypeOK, JobOK, Job, DiskOK
<1>3. [job EXCEPT !.todo = @ \ {f}] \in Job
  BY <1>2 DEF Job
<1>4. CASE disk[f] # "absent"
  <2>1. [job.map EXCEPT ![f] = disk[f]] \in Maps
    BY <1>2, <1>4 DEF Job, Maps
  <2>2. [job EXCEPT !.todo = @ \ {f}, !.map[f] = disk[f]] \in Job
    BY <1>2, <2>1 DEF Job
  <2> QED
    BY <1>1, <1>2, <1>3, <2>2 DEF Job
<1> QED
  BY <1>1, <1>2, <1>3, <1>4 DEF Job

LEMMA JobType == TypeOK /\ [Next]_vars => JobOK'
<1> SUFFICES ASSUME TypeOK, [Next]_vars PROVE JobOK'
  OBVIOUS
<1>0. job \in Job /\ Idle \in Job
  BY NothingIsMap DEF TypeOK, JobOK, Job, Idle
<1>1. CASE StartBuild
  <2>1. [at |-> "walk", todo |-> Files, map |-> Nothing] \in Job
    BY NothingIsMap DEF Job
  <2>2. job' \in Job /\ mode' = "build" /\ cancel' = FALSE /\ jobs < MaxJobs /\ jobs' = jobs + 1
    BY <1>1, <2>1 DEF StartBuild, Start
  <2>3. jobs' \in 0..MaxJobs
    BY <2>2, BaseAssumption DEF TypeOK, JobOK
  <2> QED
    BY <2>2, <2>3 DEF JobOK
<1>2. CASE StartVerify
  <2>1. [at |-> "verify", todo |-> {f \in Files : base.map[f] # None}, map |-> Nothing] \in Job
    BY NothingIsMap DEF Job
  <2>2. job' \in Job /\ mode' = "verify" /\ cancel' = FALSE /\ jobs < MaxJobs /\ jobs' = jobs + 1
    BY <1>2, <2>1 DEF StartVerify, Start
  <2>3. jobs' \in 0..MaxJobs
    BY <2>2, BaseAssumption DEF TypeOK, JobOK
  <2> QED
    BY <2>2, <2>3 DEF JobOK
<1>3. CASE Stop
  BY <1>3 DEF Stop, TypeOK, JobOK
<1>4. CASE BuildFile
  BY <1>4, BuildFileType DEF BuildFile, TypeOK, JobOK
<1>5. CASE BuildOpens \/ BuildWrites \/ BuildLoads \/ VerifyEnds
  <2>1. /\ job' \in {[job EXCEPT !.at = "write"], [job EXCEPT !.at = "end"], [job EXCEPT !.at = "load"]}
        /\ UNCHANGED <<mode, cancel, jobs>>
    BY <1>5 DEF BuildOpens, BuildWrites, BuildLoads, VerifyEnds
  <2>2. job' \in Job
    BY <1>0, <2>1 DEF Job
  <2> QED
    BY <2>1, <2>2 DEF TypeOK, JobOK
<1>6. CASE VerifyFile
  <2>1. PICK f \in job.todo : job' = [job EXCEPT !.todo = @ \ {f}]
    BY <1>6 DEF VerifyFile
  <2>2. job' \in Job
    BY <1>0, <2>1 DEF Job
  <2> QED
    BY <1>6, <2>2 DEF VerifyFile, TypeOK, JobOK
<1>7. CASE JobEnds
  BY <1>0, <1>7 DEF JobEnds, TypeOK, JobOK
<1>8. ASSUME NEW boot \in BOOLEAN, Restart(boot)
      PROVE JobOK'
  BY <1>0, <1>8 DEF Restart, TypeOK, JobOK
<1>9. CASE UNCHANGED <<job, mode, cancel, jobs>>
  BY <1>9 DEF TypeOK, JobOK
<1> QED
  BY <1>1, <1>2, <1>3, <1>4, <1>5, <1>6, <1>7, <1>8, <1>9
     DEF Next, TakeDone, WindowLoads, RepairBegins, RepairCopies, RepairChecks, RepairExpands, Change,
         scan, vars

LEMMA DoneType == TypeOK /\ [Next]_vars => DoneOK'
<1> SUFFICES ASSUME TypeOK, [Next]_vars PROVE DoneOK'
  OBVIOUS
<1>0. done \in Nat /\ olds \in 0..done
  BY DEF TypeOK, DoneOK
<1>1. CASE StartBuild \/ StartVerify
  BY <1>0, <1>1 DEF StartBuild, StartVerify, Start, DoneOK
<1>2. CASE JobEnds
  BY <1>0, <1>2 DEF JobEnds, history, DoneOK
<1>3. CASE TakeDone
  BY <1>0, <1>3 DEF TakeDone, DoneOK
<1>4. ASSUME NEW boot \in BOOLEAN, Restart(boot)
      PROVE DoneOK'
  BY <1>4 DEF Restart, DoneOK
<1>5. CASE UNCHANGED <<done, olds>>
  BY <1>5 DEF TypeOK, DoneOK
<1> QED
  BY <1>1, <1>2, <1>3, <1>4, <1>5
     DEF Next, Stop, BuildFile, BuildOpens, BuildWrites, BuildLoads, VerifyFile, VerifyEnds, WindowLoads,
         RepairBegins, RepairCopies, RepairChecks, RepairExpands, Change, history, scan, vars

\* What can change the suspects and what is reported, once a verification runs.
LEMMA FoundStep ==
  ASSUME TypeOK, [Next]_vars
  PROVE  \/ StartBuild \/ StartVerify \/ VerifyFile \/ \E boot \in BOOLEAN : Restart(boot)
         \/ /\ UNCHANGED hits
            /\ \/ \E f \in Files, c \in Contents \cup {"absent"} : Put(f, c)
               \/ UNCHANGED <<disk, suspect>>
<1>1. ASSUME RepairCopies
      PROVE  UNCHANGED hits /\ \/ \E f \in Files, c \in Contents \cup {"absent"} : Put(f, c)
                               \/ UNCHANGED <<disk, suspect>>
  <2>1. rep.file \in Files /\ places[rep.from] \in Contents \cup {"absent"}
    BY <1>1, CopyType DEF RepairCopies, Contents
  <2> QED
    BY <1>1, <2>1 DEF RepairCopies, scan
<1>2. ASSUME RepairExpands
      PROVE  UNCHANGED hits /\ \/ \E f \in Files, c \in Contents \cup {"absent"} : Put(f, c)
                               \/ UNCHANGED <<disk, suspect>>
  <2>1. rep.file \in Files /\ places["packed"] \in Contents \cup {"absent"}
    BY <1>2, CopyType DEF RepairExpands, Contents
  <2> QED
    BY <1>2, <2>1 DEF RepairExpands, scan
<1>3. ASSUME NEW f \in Files, NEW c \in {"orig", "evil", "absent"}, Change(f, c)
      PROVE  UNCHANGED hits /\ \E g \in Files, d \in Contents \cup {"absent"} : Put(g, d)
  BY <1>3 DEF Change, scan, Contents
<1> QED
  BY <1>1, <1>2, <1>3
     DEF Next, Start, Stop, BuildFile, BuildOpens, BuildWrites, BuildLoads, VerifyEnds, JobEnds, TakeDone,
         WindowLoads, RepairBegins, RepairChecks, history, scan, vars

LEMMA FoundType == TypeOK /\ [Next]_vars => FoundOK'
<1> SUFFICES ASSUME TypeOK, [Next]_vars PROVE FoundOK'
  OBVIOUS
<1>0. FoundOK /\ DiskOK
  BY DEF TypeOK
<1>1. CASE StartBuild \/ StartVerify
  BY <1>1 DEF StartBuild, StartVerify, Start, FoundOK
<1>2. CASE VerifyFile
  <2>1. job.todo \subseteq Files
    BY DEF TypeOK, JobOK, Job
  <2> QED
    BY <1>0, <1>2, <2>1 DEF VerifyFile, FoundOK
<1>3. CASE \E boot \in BOOLEAN : Restart(boot)
  BY <1>3 DEF Restart, FoundOK
<1>4. CASE UNCHANGED hits /\ \E f \in Files, c \in Contents \cup {"absent"} : Put(f, c)
  BY <1>0, <1>4, PutType DEF FoundOK
<1>5. CASE UNCHANGED <<hits, suspect>>
  BY <1>0, <1>5 DEF FoundOK
<1> QED
  BY <1>1, <1>2, <1>3, <1>4, <1>5, FoundStep

LEMMA RepairType == TypeOK /\ [Next]_vars => RepairOK'
<1> SUFFICES ASSUME TypeOK, [Next]_vars PROVE RepairOK'
  OBVIOUS
<1>0. RepairOK /\ rep \in Repair
  BY DEF TypeOK, RepairOK
<1>1. CASE BuildWrites
  <2>1. win' = win /\ said' = said
        /\ rep' = IF Repairing /\ rep.want # None THEN [rep EXCEPT !.want = "freed"] ELSE rep
    BY <1>1 DEF BuildWrites
  <2>2. rep' \in Repair /\ rep'.file = rep.file /\ rep'.from = rep.from
        /\ (rep.want # None => rep'.want # None)
    BY <1>0, <2>1 DEF Repair, None
  <2> QED
    BY <1>0, <2>1, <2>2 DEF RepairOK, Repairing
<1>2. CASE TakeDone \/ WindowLoads
  <2>1. win' \in {"loop", "load", win} /\ UNCHANGED repair
    BY <1>2 DEF TakeDone, WindowLoads
  <2> QED
    BY <1>0, <2>1 DEF RepairOK, Repairing, repair
<1>3. ASSUME NEW f \in Files, RepairBegins(f)
      PROVE RepairOK'
  <2> DEFINE want == IF base.loaded THEN base.map[f] ELSE None
  <2>1. want \in Contents \cup {None}
    BY RecordOf DEF TypeOK
  <2>2. [file |-> f, want |-> want, from |-> "cache"] \in Repair
    BY <2>1 DEF Repair
  <2>3. win' = "copy" /\ said' = None /\ rep' = [file |-> f, want |-> want, from |-> "cache"]
    BY <1>3 DEF RepairBegins
  <2> QED
    BY <2>2, <2>3 DEF RepairOK, Repairing, None
<1>4. ASSUME NEW how \in {"copied", "staged", "checked", "expanded", "failed"}, Says(how), win' = "loop"
      PROVE RepairOK'
  <2>1. rep' = [rep EXCEPT !.from = None] /\ said' = how
    BY <1>4 DEF Says
  <2> QED
    BY <1>0, <1>4, <2>1 DEF RepairOK, Repairing, Repair
<1>5. ASSUME TryNext, win \in {"copy", "check"}, win' = "copy"
      PROVE RepairOK'
  <2>1. rep' = [rep EXCEPT !.from = IF @ = "cache" THEN "source" ELSE "packed"] /\ said' = said
    BY <1>5 DEF TryNext
  <2> QED
    BY <1>0, <1>5, <2>1 DEF RepairOK, Repairing, Repair, None
<1>6. CASE RepairCopies
  <2>1. ASSUME rep.want # None, win' = "check", UNCHANGED repair
        PROVE RepairOK'
    BY <1>0, <1>6, <2>1 DEF RepairCopies, repair, RepairOK, Repairing
  <2>2. win = "copy"
    BY <1>6 DEF RepairCopies
  <2>3. ASSUME TryNext, UNCHANGED win
        PROVE RepairOK'
    BY <1>5, <2>2, <2>3
  <2> QED
    BY <1>4, <1>6, <2>1, <2>3 DEF RepairCopies
<1>7. CASE RepairChecks
  BY <1>4, <1>5, <1>7 DEF RepairChecks
<1>8. CASE RepairExpands
  BY <1>4, <1>8 DEF RepairExpands
<1>9. ASSUME NEW boot \in BOOLEAN, Restart(boot)
      PROVE RepairOK'
  BY <1>9 DEF Restart, RepairOK, Repairing, Repair
<1>10. CASE UNCHANGED <<win, rep, said>>
  BY <1>0, <1>10 DEF RepairOK, Repairing
<1> QED
  BY <1>1, <1>2, <1>3, <1>6, <1>7, <1>8, <1>9, <1>10
     DEF Next, Start, StartBuild, StartVerify, Stop, BuildFile, BuildOpens, BuildLoads, VerifyFile,
         VerifyEnds, JobEnds, Change, repair, vars

LEMMA BoundsType == TypeOK /\ [Next]_vars => BoundsOK'
<1> SUFFICES ASSUME TypeOK, [Next]_vars PROVE BoundsOK'
  OBVIOUS
<1>1. \/ UNCHANGED <<changes, repairs>>
      \/ changes < MaxChanges /\ changes' = changes + 1 /\ UNCHANGED repairs
      \/ repairs < MaxRepairs /\ repairs' = repairs + 1 /\ UNCHANGED changes
  BY DEF Next, Start, StartBuild, StartVerify, Stop, BuildFile, BuildOpens, BuildWrites, BuildLoads,
         VerifyFile, VerifyEnds, JobEnds, TakeDone, WindowLoads, RepairBegins, RepairCopies, Says,
         TryNext, RepairChecks, RepairExpands, Change, Restart, repair, vars
<1> QED
  BY <1>1, BaseAssumption DEF TypeOK, BoundsOK

LEMMA TypeStep == TypeOK /\ [Next]_vars => TypeOK'
  BY DiskType, SnapType, BaseType, JobType, DoneType, FoundType, RepairType, BoundsType DEF TypeOK

-----------------------------------------------------------------------------
(* The parts of the strengthening.                                         *)

LEMMA ModeStep == TypeOK /\ ModeIsTheJobs /\ [Next]_vars => ModeIsTheJobs'
<1> SUFFICES ASSUME TypeOK, ModeIsTheJobs, [Next]_vars PROVE ModeIsTheJobs'
  OBVIOUS
<1>0. job \in Job /\ (win = "check" => win # "load") /\ (win = "copy" => win # "load")
  BY DEF TypeOK, JobOK
<1>1. CASE StartBuild \/ StartVerify
  BY <1>1 DEF StartBuild, StartVerify, Start, ModeIsTheJobs
<1>2. CASE BuildFile
  BY <1>2, BuildFileType DEF BuildFile, ModeIsTheJobs
<1>3. CASE BuildOpens \/ BuildWrites \/ BuildLoads \/ VerifyEnds
  <2>1. /\ \/ job.at \in {"walk", "write"} /\ job'.at \in {"write", "load", "end"}
           \/ job'.at = "end"
        /\ UNCHANGED <<mode, win>>
    BY <1>0, <1>3 DEF BuildOpens, BuildWrites, BuildLoads, VerifyEnds, Job
  <2> QED
    BY <2>1 DEF ModeIsTheJobs
<1>4. CASE VerifyFile
  <2>1. job'.at = job.at /\ UNCHANGED <<mode, win>>
    BY <1>0, <1>4 DEF VerifyFile, Job
  <2> QED
    BY <2>1 DEF ModeIsTheJobs
<1>5. CASE JobEnds \/ \E boot \in BOOLEAN : Restart(boot)
  BY <1>5 DEF JobEnds, Restart, Idle, ModeIsTheJobs
<1>6. CASE UNCHANGED <<job, mode>> /\ (win' = "load" => win = "load" \/ mode = "build")
  BY <1>6 DEF ModeIsTheJobs
<1> QED
  BY <1>1, <1>2, <1>3, <1>4, <1>5, <1>6
     DEF Next, Stop, TakeDone, WindowLoads, RepairBegins, RepairCopies, RepairChecks, RepairExpands,
         Change, scan, vars

LEMMA EndsStep == TypeOK /\ EndsAreOlder /\ [Next]_vars => EndsAreOlder'
<1> SUFFICES ASSUME TypeOK, EndsAreOlder, [Next]_vars PROVE EndsAreOlder'
  OBVIOUS
<1>1. CASE StartBuild \/ StartVerify
  BY <1>1 DEF StartBuild, StartVerify, Start, EndsAreOlder
<1>2. CASE JobEnds \/ \E boot \in BOOLEAN : Restart(boot)
  BY <1>2 DEF JobEnds, Restart, Idle, EndsAreOlder
<1>3. CASE TakeDone
  <2>1. done \in Nat /\ olds \in 0..done
    BY DEF TypeOK, DoneOK
  <2> QED
    BY <1>3, <2>1 DEF TakeDone, EndsAreOlder
<1>4. CASE /\ job.at # "idle" \/ job'.at = "idle"
           /\ UNCHANGED <<done, olds, mistaken>> /\ (win' = "load" => win = "load")
  BY <1>4 DEF EndsAreOlder
<1> QED
  BY <1>1, <1>2, <1>3, <1>4
     DEF Next, Stop, BuildFile, BuildOpens, BuildWrites, BuildLoads, VerifyFile, VerifyEnds, WindowLoads,
         RepairBegins, RepairCopies, RepairChecks, RepairExpands, Change, repair, history, scan, vars

LEMMA SnapStep == TypeOK /\ EndsAreOlder' /\ LoadedIsOnDisk /\ [Next]_vars => LoadedIsOnDisk'
<1> SUFFICES ASSUME TypeOK, EndsAreOlder', LoadedIsOnDisk, [Next]_vars PROVE LoadedIsOnDisk'
  OBVIOUS
<1> DEFINE OnDisk == base.loaded /\ job.at # "write" => snap.state = "whole" /\ base.map = snap.map
<1>1. OnDisk'
  <2>0. job \in Job /\ snap \in Snap
    BY DEF TypeOK, JobOK, SnapOK
  <2>1. CASE BuildOpens
    BY <2>0, <2>1 DEF BuildOpens, LoadedIsOnDisk, Job
  <2>2. CASE BuildWrites
    BY <2>2, NoBaseType DEF BuildWrites
  <2>3. CASE UNCHANGED snap /\ base' = NoBase
    BY <2>3, NoBaseType
  <2>4. CASE UNCHANGED snap /\ base' = Loaded(snap)
    BY <2>0, <2>4, LoadedType
  <2>5. CASE UNCHANGED <<base, snap>> /\ (job.at = "write" => job'.at = "write")
    BY <2>5 DEF LoadedIsOnDisk
  <2>6. ASSUME BuildFile \/ VerifyFile \/ VerifyEnds \/ JobEnds
        PROVE  UNCHANGED <<base, snap>> /\ job.at # "write"
    BY <2>6 DEF BuildFile, VerifyFile, VerifyEnds, JobEnds
  <2> QED
    BY <2>1, <2>2, <2>3, <2>4, <2>5, <2>6
       DEF Next, StartBuild, StartVerify, Start, Stop, BuildLoads, TakeDone, WindowLoads, RepairBegins,
           RepairCopies, RepairChecks, RepairExpands, Change, Restart, scan, vars
<1>2. (job.at = "load" /\ win = "load" => mistaken)'
  BY DEF EndsAreOlder
<1> QED
  BY <1>1, <1>2 DEF LoadedIsOnDisk

\* While a verification runs, what it compares with is not loaded again.
LEMMA VerifyKeeps ==
  ASSUME TypeOK, ModeIsTheJobs, [Next]_vars, job'.at = "verify"
  PROVE  \/ StartVerify
         \/ /\ job.at = "verify" /\ UNCHANGED base
            /\ VerifyFile \/ UNCHANGED job
<1>0. job \in Job
  BY DEF TypeOK, JobOK
<1>1. ASSUME BuildFile
      PROVE  job'.at # "verify"
  BY <1>1, BuildFileType DEF BuildFile
<1>2. ASSUME StartBuild \/ BuildOpens \/ BuildWrites \/ BuildLoads \/ VerifyEnds \/ JobEnds
      PROVE  job'.at # "verify"
  BY <1>0, <1>2 DEF StartBuild, BuildOpens, BuildWrites, BuildLoads, VerifyEnds, JobEnds, Idle, Job
<1>3. ASSUME VerifyFile
      PROVE  job.at = "verify" /\ UNCHANGED base
  BY <1>3 DEF VerifyFile
<1>4. ASSUME TakeDone \/ WindowLoads, job.at = "verify"
      PROVE  UNCHANGED <<job, base>>
  BY <1>4 DEF TakeDone, WindowLoads, ModeIsTheJobs, scan
<1>5. ASSUME TakeDone \/ WindowLoads
      PROVE  UNCHANGED job
  BY <1>5 DEF TakeDone, WindowLoads, scan
<1>6. ASSUME NEW boot \in BOOLEAN, Restart(boot)
      PROVE  job'.at # "verify"
  BY <1>6 DEF Restart, Idle
<1>7. ASSUME \/ Stop \/ RepairCopies \/ RepairChecks \/ RepairExpands \/ UNCHANGED vars
             \/ \E f \in Files : RepairBegins(f)
             \/ \E f \in Files, c \in {"orig", "evil", "absent"} : Change(f, c)
      PROVE  UNCHANGED <<job, base>>
  BY <1>7 DEF Stop, RepairCopies, RepairChecks, RepairExpands, RepairBegins, Change, scan, vars
<1> QED
  BY <1>1, <1>2, <1>3, <1>4, <1>5, <1>6, <1>7 DEF Next

LEMMA SuspectStep == TypeOK /\ ModeIsTheJobs /\ SuspectsToCome /\ [Next]_vars => SuspectsToCome'
<1> SUFFICES ASSUME TypeOK, ModeIsTheJobs, SuspectsToCome, [Next]_vars, job'.at = "verify"
             PROVE  \A f \in suspect' : Check(base', f, disk'[f]) = "MODIFIED" /\ f \in job'.todo \cup hits'
  BY DEF SuspectsToCome, Check
<1>1. CASE StartVerify
  <2>1. /\ base' = base /\ base.loaded /\ disk' = disk
        /\ suspect' = {f \in job'.todo : disk[f] # base.map[f]}
        /\ job'.todo = {f \in Files : base.map[f] # None}
    BY <1>1 DEF StartVerify, Start
  <2> QED
    BY <2>1 DEF Check
<1>2. CASE job.at = "verify" /\ UNCHANGED base /\ VerifyFile
  <2>1. PICK f \in job.todo :
          /\ job' = [job EXCEPT !.todo = @ \ {f}]
          /\ \/ suspect' = suspect \ {f} /\ UNCHANGED hits
             \/ /\ hits' = IF Check(base, f, disk[f]) = "MODIFIED" THEN hits \cup {f} ELSE hits
                /\ UNCHANGED suspect
    BY <1>2 DEF VerifyFile
  <2>2. job'.todo = job.todo \ {f}
    BY <2>1 DEF TypeOK, JobOK, Job
  <2>3. UNCHANGED disk
    BY <1>2 DEF VerifyFile
  <2>4. \A g \in suspect : Check(base, g, disk[g]) = "MODIFIED" /\ g \in job.todo \cup hits
    BY <1>2 DEF SuspectsToCome
  <2>5. \A g \in suspect' : g \in suspect /\ g \in job'.todo \cup hits'
    BY <2>1, <2>2, <2>4
  <2> QED
    BY <1>2, <2>3, <2>4, <2>5
<1>3. CASE job.at = "verify" /\ UNCHANGED <<base, job>> /\ ~VerifyFile
  <2>0. FoundOK /\ DiskOK
    BY DEF TypeOK
  <2>1. \A f \in suspect : Check(base, f, disk[f]) = "MODIFIED" /\ f \in job.todo \cup hits
    BY <1>3 DEF SuspectsToCome
  <2>2. ~StartBuild /\ ~StartVerify /\ ~\E boot \in BOOLEAN : Restart(boot)
    BY <1>3 DEF StartBuild, StartVerify, Start, Restart, Idle
  <2>3. UNCHANGED hits
    BY <1>3, <2>2, FoundStep
  <2>4. CASE \E f \in Files, c \in Contents \cup {"absent"} : Put(f, c)
    <3>1. PICK f \in Files, c \in Contents \cup {"absent"} : Put(f, c)
      BY <2>4
    <3>2. /\ suspect' \subseteq suspect /\ suspect' \subseteq Files
          /\ disk'[f] = c /\ \A g \in Files \ {f} : disk'[g] = disk[g]
          /\ f \in suspect' => Check(base, f, c) = "MODIFIED"
      BY <2>0, <3>1, PutType
    <3> QED
      BY <1>3, <2>1, <2>3, <3>2
  <2>5. CASE UNCHANGED <<disk, suspect>>
    BY <1>3, <2>1, <2>3, <2>5
  <2> QED
    BY <1>3, <2>2, <2>4, <2>5, FoundStep
<1> QED
  BY <1>1, <1>2, <1>3, VerifyKeeps

LEMMA VerifyStep ==
  TypeOK /\ ModeIsTheJobs /\ SuspectsToCome /\ VerifyReportsAll /\ [Next]_vars => VerifyReportsAll'
<1> SUFFICES ASSUME TypeOK, ModeIsTheJobs, SuspectsToCome, VerifyReportsAll, [Next]_vars,
                    job'.at = "end", mode' = "verify", ~cancel'
             PROVE  suspect' \subseteq hits'
  BY DEF VerifyReportsAll
<1>0. job \in Job
  BY DEF TypeOK, JobOK
<1>1. ASSUME StartBuild \/ StartVerify \/ BuildFile \/ BuildWrites \/ VerifyFile \/ JobEnds
             \/ \E boot \in BOOLEAN : Restart(boot)
      PROVE  job'.at # "end"
  <2>1. CASE BuildFile
    BY <2>1, BuildFileType DEF BuildFile
  <2>2. CASE VerifyFile
    BY <1>0, <2>2 DEF VerifyFile, Job
  <2>3. CASE StartBuild \/ StartVerify \/ BuildWrites
    BY <1>0, <2>3 DEF StartBuild, StartVerify, BuildWrites, Job
  <2>4. CASE JobEnds \/ \E boot \in BOOLEAN : Restart(boot)
    BY <2>4 DEF JobEnds, Restart, Idle
  <2> QED
    BY <1>1, <2>1, <2>2, <2>3, <2>4
<1>2. ASSUME BuildOpens \/ BuildLoads
      PROVE  mode' = "build"
  BY <1>2 DEF BuildOpens, BuildLoads, ModeIsTheJobs
<1>3. ASSUME Stop
      PROVE  cancel'
  BY <1>3 DEF Stop
<1>4. CASE VerifyEnds
  BY <1>4 DEF VerifyEnds, SuspectsToCome, history
<1>5. CASE UNCHANGED <<job, mode, cancel>> /\ ~VerifyFile
  <2>0. FoundOK /\ DiskOK
    BY DEF TypeOK
  <2>1. UNCHANGED hits /\ suspect' \subseteq suspect
    BY <1>1, <1>5, <2>0, FoundStep, PutType
  <2> QED
    BY <1>5, <2>1 DEF VerifyReportsAll
<1> QED
  BY <1>1, <1>2, <1>3, <1>4, <1>5
     DEF Next, TakeDone, WindowLoads, RepairBegins, RepairCopies, RepairChecks, RepairExpands, Change,
         scan, vars

LEMMA SaidStep == TypeOK /\ SaidOfTheLast /\ [Next]_vars => SaidOfTheLast'
<1> SUFFICES ASSUME TypeOK, SaidOfTheLast, [Next]_vars PROVE SaidOfTheLast'
  OBVIOUS
<1>0. rep \in Repair /\ (Repairing => rep.file \in Files)
  BY DEF TypeOK, RepairOK
<1>1. CASE RepairCopies \/ RepairChecks \/ RepairExpands
  <2>1. Repairing
    BY <1>1 DEF RepairCopies, RepairChecks, RepairExpands, Repairing
  <2>2. CASE UNCHANGED repair
    BY <1>0, <2>1, <2>2 DEF repair, SaidOfTheLast
  <2>3. CASE TryNext
    <3>1. rep'.file = rep.file /\ said' = said
      BY <1>0, <2>3 DEF TryNext, Repair
    <3> QED
      BY <1>0, <2>1, <3>1 DEF SaidOfTheLast
  <2>4. CASE win' = "loop" /\ \E how \in {"copied", "staged", "checked", "expanded", "failed"} : Says(how)
    <3>1. rep'.file = rep.file
      BY <1>0, <2>4 DEF Says, Repair
    <3> QED
      BY <1>0, <2>1, <2>4, <3>1 DEF SaidOfTheLast, Repairing
  <2> QED
    BY <1>1, <2>2, <2>3, <2>4 DEF RepairCopies, RepairChecks, RepairExpands
<1>2. CASE BuildWrites
  <2>1. rep'.file = rep.file /\ said' = said /\ win' = win
    BY <1>0, <1>2 DEF BuildWrites, Repair
  <2> QED
    BY <2>1 DEF SaidOfTheLast, Repairing
<1>3. CASE \/ \E f \in Files : RepairBegins(f)
           \/ \E boot \in BOOLEAN : Restart(boot)
  BY <1>3 DEF RepairBegins, Restart, SaidOfTheLast, None
<1>4. CASE UNCHANGED repair /\ (Repairing' => Repairing)
  BY <1>4 DEF repair, SaidOfTheLast
<1> QED
  BY <1>1, <1>2, <1>3, <1>4
     DEF Next, Start, StartBuild, StartVerify, Stop, BuildFile, BuildOpens, BuildLoads, VerifyFile,
         VerifyEnds, JobEnds, TakeDone, WindowLoads, Change, Repairing, repair, vars

LEMMA RepairedStep ==
  TypeOK /\ SaidOfTheLast /\ RepairedAsRecorded /\ [Next]_vars => RepairedAsRecorded'
<1> SUFFICES ASSUME TypeOK, SaidOfTheLast, RepairedAsRecorded, [Next]_vars,
                    said' = "checked", ~meddled', rep'.want # "freed"
             PROVE  disk'[rep'.file] = rep'.want
  BY DEF RepairedAsRecorded
<1>0. rep \in Repair
  BY DEF TypeOK, RepairOK
<1>1. CASE RepairChecks
  <2>1. Repairing /\ UNCHANGED disk
    BY <1>1 DEF RepairChecks, Repairing
  <2>2. said = None
    BY <2>1 DEF SaidOfTheLast
  <2>3. rep.want \in {"freed", disk[rep.file]} /\ rep' = [rep EXCEPT !.from = None]
    BY <1>1, <2>2 DEF RepairChecks, TryNext, Says, None
  <2> QED
    BY <1>0, <2>1, <2>3 DEF Repair
<1>2. ASSUME RepairCopies \/ RepairExpands
      PROVE  said' # "checked"
  <2>1. said = None
    BY <1>2 DEF RepairCopies, RepairExpands, SaidOfTheLast, Repairing
  <2> QED
    BY <1>2, <2>1 DEF RepairCopies, RepairExpands, TryNext, Says, repair, None
<1>3. ASSUME BuildWrites
      PROVE  UNCHANGED <<disk, said, meddled, rep>>
  BY <1>3 DEF BuildWrites, SaidOfTheLast, None
<1>4. ASSUME \/ \E f \in Files : RepairBegins(f)
             \/ \E boot \in BOOLEAN : Restart(boot)
      PROVE  said' # "checked"
  BY <1>4 DEF RepairBegins, Restart, None
<1>5. ASSUME NEW f \in Files, NEW c \in {"orig", "evil", "absent"}, Change(f, c)
      PROVE  disk'[rep'.file] = rep'.want
  <2>1. Put(f, c) /\ UNCHANGED repair /\ meddled' = (meddled \/ rep.file = f)
    BY <1>5 DEF Change
  <2>2. rep.file \in Files /\ rep.file # f /\ disk[rep.file] = rep.want
    BY <2>1 DEF repair, SaidOfTheLast, RepairedAsRecorded
  <2>3. \A g \in Files \ {f} : disk'[g] = disk[g]
    BY <2>1 DEF Put, TypeOK, DiskOK
  <2> QED
    BY <2>1, <2>2, <2>3 DEF repair
<1>6. CASE UNCHANGED <<disk, said, meddled, rep>>
  BY <1>6 DEF RepairedAsRecorded
<1> QED
  BY <1>1, <1>2, <1>3, <1>4, <1>5, <1>6
     DEF Next, Start, StartBuild, StartVerify, Stop, BuildFile, BuildOpens, BuildLoads, VerifyFile,
         VerifyEnds, JobEnds, TakeDone, WindowLoads, repair, history, vars

-----------------------------------------------------------------------------
(* The theorems.                                                           *)

LEMMA InitIndInv == Init => IndInv
<1> SUFFICES ASSUME Init PROVE IndInv
  OBVIOUS
<1> USE DEF Init
<1>1. DiskOK
  BY BaseAssumption DEF DiskOK, Contents
<1>2. SnapOK /\ BaseOK
  BY NothingIsMap, NoBaseType DEF SnapOK, Snap, BaseOK
<1>3. JobOK
  <2>1. Idle \in Job /\ 0 \in 0..MaxJobs
    BY NothingIsMap, BaseAssumption DEF Idle, Job
  <2> QED
    BY <2>1 DEF JobOK
<1>4. DoneOK /\ FoundOK
  BY DEF DoneOK, FoundOK
<1>5. RepairOK
  BY DEF RepairOK, Repairing, Repair
<1>6. BoundsOK
  BY BaseAssumption DEF BoundsOK
<1>7. ModeIsTheJobs /\ SuspectsToCome /\ EndsAreOlder /\ VerifyReportsAll
  BY DEF ModeIsTheJobs, SuspectsToCome, EndsAreOlder, VerifyReportsAll, Idle
<1>8. SaidOfTheLast /\ RepairedAsRecorded
  BY DEF SaidOfTheLast, RepairedAsRecorded, Repairing, None
<1>9. LoadedIsOnDisk
  BY NoBaseType DEF LoadedIsOnDisk, Idle
<1> QED
  BY <1>1, <1>2, <1>3, <1>4, <1>5, <1>6, <1>7, <1>8, <1>9 DEF IndInv, TypeOK

LEMMA StepIndInv == IndInv /\ [Next]_vars => IndInv'
  BY TypeStep, ModeStep, EndsStep, SnapStep, SuspectStep, VerifyStep, SaidStep, RepairedStep DEF IndInv

\* The scan's and the window's threads, the user, others who change files, a program
\* that ends anywhere and a boot keep the inductive invariant.
THEOREM Inductive == Spec => []IndInv
  BY InitIndInv, StepIndInv, PTL DEF Spec

\* No variable leaves its range, and a repair copies and compares only a file that
\* it knows, from a place it knows (base_repair, try_copy_verify).
THEOREM TypeCorrect == Spec => []TypeOK
<1>1. IndInv => TypeOK
  BY DEF IndInv
<1> QED
  BY <1>1, Inductive, PTL

\* What is compared with is all of the snapshot on disk, however a snapshot, its
\* loading on two threads and a restart interleave (base_build, base_load).
THEOREM LoadedFromDisk == Spec => []LoadedIsOnDisk
<1>1. IndInv => LoadedIsOnDisk
  BY DEF IndInv
<1> QED
  BY <1>1, Inductive, PTL

\* A verification that is not stopped misses no recorded file that differed all
\* the while and could be read (SCAN_VERIFY).
THEOREM VerifyComplete == Spec => []VerifyReportsAll
<1>1. IndInv => VerifyReportsAll
  BY DEF IndInv
<1> QED
  BY <1>1, Inductive, PTL

\* A file that the window calls repaired from a compared copy is as recorded, until
\* others change it (base_repair).
THEOREM RepairSound == Spec => []RepairedAsRecorded
<1>1. IndInv => RepairedAsRecorded
  BY DEF IndInv
<1> QED
  BY <1>1, Inductive, PTL
=============================================================================
