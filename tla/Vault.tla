------------------------------- MODULE Vault -------------------------------
(***************************************************************************)
(* The quarantine vault of src/src/protect.c: quar_add, quar_list,         *)
(* quar_rewrite_without, quar_restore and quar_delete, run by the threads  *)
(* that call them.  Every shield thread (realtime.c, rt_threat) may call   *)
(* quar_add at any moment; the user-interface thread calls quar_add after  *)
(* a scan and quar_restore / quar_delete from the Quarantine page.  No     *)
(* lock orders them: the only mutual exclusion is the share mode each call *)
(* passes to CreateFile, and that is what the guards below are made of.    *)
(*                                                                         *)
(* A file's bytes are a member of Contents.  Partial is a file that was    *)
(* created and not completely written, Absent no file.  The XOR mask is    *)
(* its own inverse and is applied once on the way in and once on the way   *)
(* out, so a stored copy stands for the bytes it decodes to.  A refused    *)
(* path (path_excluded) returns at once and changes nothing: no action.    *)
(***************************************************************************)
EXTENDS Naturals

CONSTANTS
  Paths,       \* locations on disk a quarantined file can come from
  Contents,    \* what such a file can hold
  Shields,     \* the shield's threads: watchers, process and registry guard
  Ui,          \* the user-interface thread
  Absent, Partial,
  NoItem,      \* the QITEM of a thread that is not in a vault call
  MaxRuns,     \* bound: runs of the program (first start and restarts)
  MaxAdds,     \* bound: calls of quar_add that draw a name, per run
  MaxWrites    \* bound: files written by other programs

Threads == Shields \cup {Ui}
Names   == (1..MaxRuns) \X (1..MaxAdds)      \* <<timestamp, counter>>
Bytes   == Contents \cup {Partial}
Items   == [orig : Paths, stored : Names, what : Bytes]

ASSUME VaultAssumption ==
  /\ Ui \notin Shields
  /\ Absent \notin Bytes
  /\ Partial \notin Contents
  /\ NoItem \notin Items
  /\ MaxRuns \in Nat \ {0} /\ MaxAdds \in Nat /\ MaxWrites \in Nat

VARIABLES
  disk,     \* [Paths -> Bytes \cup {Absent}]: the files themselves
  vault,    \* [Names -> Bytes \cup {Absent}]: the .qtn files
  index,    \* vault.idx, as the set of QITEMs in it
  pending,  \* paths MoveFileEx has scheduled for removal at the next boot
  job,      \* [Threads -> Jobs]: the call a thread is in and its QITEM
  todo,     \* items quar_rewrite_without has read and not yet written back
  shown,    \* g_quar: the list the Quarantine page shows
  grace,    \* paths whose restore grace has not run out
  run,      \* the current run of the program: the timestamp in its names
  count,    \* quar_add's static counter, zero at the start of a run
  writes    \* files other programs have written

vars == <<disk, vault, index, pending, job, todo, shown, grace, run, count, writes>>

\* A thread's position in its call.  "add": open, copy, remove, note, append.
\* "restore": open, copy, drop, read, truncate, rewrite, return, or open, copy, discard.
\* "purge": drop, read, truncate, rewrite, return.
Steps == {"idle", "open", "copy", "remove", "note", "append",
          "discard", "drop", "read", "truncate", "rewrite", "return"}
\* quar_add's outcome for the original: deleted, scheduled, or still there.
Fates == {"none", "deleted", "scheduled", "kept"}
Jobs  == [op : {"none", "add", "restore", "purge"}, pc : Steps,
          it : Items \cup {NoItem}, fate : Fates]

Resting   == [op |-> "none", pc |-> "idle", it |-> NoItem, fate |-> "none"]
At(t, o, l) == job[t].op = o /\ job[t].pc = l
Enter(t, o, l, i) ==
  job' = [job EXCEPT ![t] = [op |-> o, pc |-> l, it |-> i, fate |-> "none"]]
Move(t, l, i, f) ==
  job' = [job EXCEPT ![t] = [op |-> job[t].op, pc |-> l, it |-> i, fate |-> f]]
Goto(t, l)  == Move(t, l, job[t].it, job[t].fate)
Done(t)     == job' = [job EXCEPT ![t] = Resting]

(* Share modes.  Both copy loops hold the file at orig: quar_add for       *)
(* reading, sharing reads only, quar_restore for writing, sharing nothing; *)
(* quar_add holds the stored file it fills and shares it with nobody.      *)
Held(p)     == \E t \in Threads : job[t].pc = "copy" /\ job[t].it.orig = p
Written(p)  == \E t \in Threads : At(t, "restore", "copy") /\ job[t].it.orig = p
Filling(s)  == \E t \in Threads : At(t, "add", "copy") /\ job[t].it.stored = s
Opened(s)   == \E t \in Threads : job[t].pc = "copy" /\ job[t].it.stored = s
IndexBusy   == \E t \in Threads : job[t].pc \in {"append", "rewrite"}

Init ==
  /\ disk \in [Paths -> Contents \cup {Absent}]
  /\ vault = [s \in Names |-> Absent]
  /\ index = {} /\ pending = {} /\ shown = {} /\ grace = {} /\ todo = {}
  /\ job = [t \in Threads |-> Resting]
  /\ run = 1 /\ count = 0 /\ writes = 0

-----------------------------------------------------------------------------
(* quar_add.  The name is drawn from the clock and the interlocked counter *)
(* on entry; `what` is known once the original is open.                    *)

\* Variant: a name is made of the counter alone.
BeginAddUntimed(t, p) ==
  /\ job[t] = Resting
  /\ count < MaxAdds
  /\ count' = count + 1
  /\ Enter(t, "add", "open", [orig |-> p, stored |-> <<1, count + 1>>, what |-> Partial])
  /\ UNCHANGED <<disk, vault, index, pending, todo, shown, grace, run, writes>>

BeginAdd(t, p) ==
  /\ job[t] = Resting
  /\ count < MaxAdds
  /\ count' = count + 1
  /\ Enter(t, "add", "open", [orig |-> p, stored |-> <<run, count + 1>>, what |-> Partial])
  /\ UNCHANGED <<disk, vault, index, pending, todo, shown, grace, run, writes>>

\* rt_check found a threat in a file whose path is not in its grace time; the
\* quarantine it asks for starts later, without looking at the grace again.
ShieldAdds(t, p) ==
  /\ disk[p] \in Contents
  /\ p \notin grace
  /\ BeginAdd(t, p)

AddOpen(t) ==
  LET i == job[t].it IN
  /\ At(t, "add", "open")
  /\ \/ /\ disk[i.orig] # Absent /\ ~Written(i.orig) /\ ~Opened(i.stored)
        /\ vault' = [vault EXCEPT ![i.stored] = Partial]
        /\ Move(t, "copy", [orig |-> i.orig, stored |-> i.stored, what |-> disk[i.orig]], "none")
     \/ Done(t) /\ UNCHANGED vault                    \* either open fails
  /\ UNCHANGED <<disk, index, pending, todo, shown, grace, run, count, writes>>

\* Variant: copy_ok and the byte count are not looked at.
AddCopyUnchecked(t) ==
  LET s == job[t].it.stored IN
  /\ At(t, "add", "copy")
  /\ vault' \in {[vault EXCEPT ![s] = job[t].it.what], [vault EXCEPT ![s] = Partial]}
  /\ Goto(t, "remove")
  /\ UNCHANGED <<disk, index, pending, todo, shown, grace, run, count, writes>>

AddCopy(t) ==
  LET s == job[t].it.stored IN
  /\ At(t, "add", "copy")
  /\ \/ /\ vault' = [vault EXCEPT ![s] = job[t].it.what]
        /\ Goto(t, "remove")
     \/ /\ \E left \in {Absent, Partial} : vault' = [vault EXCEPT ![s] = left]
        /\ Done(t)
  /\ UNCHANGED <<disk, index, pending, todo, shown, grace, run, count, writes>>

AddRemove(t) ==
  LET p       == job[t].it.orig
      Fate(f) == Move(t, "note", job[t].it, f)
  IN
  /\ At(t, "add", "remove")
  /\ \/ /\ disk[p] # Absent /\ ~Held(p)
        /\ disk' = [disk EXCEPT ![p] = Absent]
        /\ Fate("deleted") /\ UNCHANGED pending
     \/ /\ disk[p] # Absent                           \* locked: at next boot
        /\ pending' = pending \cup {p}
        /\ Fate("scheduled") /\ UNCHANGED disk
     \/ Fate("kept") /\ UNCHANGED <<disk, pending>>
  /\ UNCHANGED <<vault, index, todo, shown, grace, run, count, writes>>

\* Opening vault.idx to append; when it cannot be opened the call goes on to
\* return TRUE with no entry.
AddNote(t) ==
  /\ At(t, "add", "note")
  /\ \/ ~IndexBusy /\ Goto(t, "append")
     \/ Done(t)
  /\ UNCHANGED <<disk, vault, index, pending, todo, shown, grace, run, count, writes>>

AddAppend(t) ==
  /\ At(t, "add", "append")
  /\ index' \in {index, index \cup {job[t].it}}       \* WriteFile unchecked
  /\ Done(t)
  /\ UNCHANGED <<disk, vault, pending, todo, shown, grace, run, count, writes>>

-----------------------------------------------------------------------------
(* The Quarantine page.  do_quar_action works on a copy of the entry the   *)
(* user picked from the list last read, and reads the list again after.    *)

\* quar_list: nothing when vault.idx cannot be opened.
Listing == {{}} \cup (IF IndexBusy THEN {} ELSE {index})

PageQuar ==
  /\ job[Ui] = Resting
  /\ shown' \in Listing
  /\ UNCHANGED <<disk, vault, index, pending, job, todo, grace, run, count, writes>>

Pick(op, first) ==
  /\ job[Ui] = Resting
  /\ \E e \in shown : Enter(Ui, op, first, e)
  /\ UNCHANGED <<disk, vault, index, pending, todo, shown, grace, run, count, writes>>

PickRestore == Pick("restore", "open")
PickPurge   == Pick("purge", "drop")

RestoreOpen ==
  LET i == job[Ui].it IN
  /\ At(Ui, "restore", "open")
  /\ \/ /\ vault[i.stored] # Absent /\ ~Filling(i.stored) /\ ~Held(i.orig)
        /\ disk' = [disk EXCEPT ![i.orig] = Partial]  \* CREATE_ALWAYS
        /\ Goto(Ui, "copy") /\ UNCHANGED shown
     \/ Done(Ui) /\ shown' \in Listing /\ UNCHANGED disk
  /\ UNCHANGED <<vault, index, pending, todo, grace, run, count, writes>>

\* Variant: a short or failed write is not noticed and the stored copy dropped.
RestoreCopyUnchecked ==
  LET i == job[Ui].it IN
  /\ At(Ui, "restore", "copy")
  /\ disk' \in {[disk EXCEPT ![i.orig] = b] : b \in {vault[i.stored], Partial}}
  /\ Goto(Ui, "drop")
  /\ UNCHANGED <<vault, index, pending, todo, shown, grace, run, count, writes>>

\* The copy out, to where both handles are closed.
RestoreCopy ==
  LET i == job[Ui].it IN
  /\ At(Ui, "restore", "copy")
  /\ \/ disk' = [disk EXCEPT ![i.orig] = vault[i.stored]] /\ Goto(Ui, "drop")
     \/ Goto(Ui, "discard") /\ UNCHANGED disk
  /\ UNCHANGED <<vault, index, pending, todo, shown, grace, run, count, writes>>

\* After a copy that failed: DeleteFile on the path, whatever is there by now.
RestoreDiscard ==
  LET p == job[Ui].it.orig IN
  /\ At(Ui, "restore", "discard")
  /\ \/ ~Held(p) /\ disk' = [disk EXCEPT ![p] = Absent]
     \/ UNCHANGED disk
  /\ Done(Ui) /\ shown' \in Listing
  /\ UNCHANGED <<vault, index, pending, todo, grace, run, count, writes>>

\* DeleteFile on the stored copy: its result is not looked at.
Drop ==
  LET s == job[Ui].it.stored IN
  /\ job[Ui].pc = "drop"
  /\ vault' \in {vault, [vault EXCEPT ![s] = Absent]}
  /\ Goto(Ui, "read")
  /\ UNCHANGED <<disk, index, pending, todo, shown, grace, run, count, writes>>

ReadIndex ==
  /\ job[Ui].pc = "read"
  /\ \E items \in Listing :
       IF items = {} THEN Goto(Ui, "return") /\ UNCHANGED todo
       ELSE /\ todo' = {e \in items : e.stored # job[Ui].it.stored}
            /\ Goto(Ui, "truncate")
  /\ UNCHANGED <<disk, vault, index, pending, shown, grace, run, count, writes>>

TruncateIndex ==
  /\ job[Ui].pc = "truncate"
  /\ \/ ~IndexBusy /\ index' = {} /\ Goto(Ui, "rewrite") /\ UNCHANGED todo
     \/ todo' = {} /\ Goto(Ui, "return") /\ UNCHANGED index
  /\ UNCHANGED <<disk, vault, pending, shown, grace, run, count, writes>>

RewriteIndex ==
  /\ job[Ui].pc = "rewrite"
  /\ IF todo = {} THEN Goto(Ui, "return") /\ UNCHANGED <<index, todo>>
     ELSE \E e \in todo : /\ index' \in {index, index \cup {e}}   \* unchecked
                          /\ todo' = todo \ {e}
                          /\ UNCHANGED job
  /\ UNCHANGED <<disk, vault, pending, shown, grace, run, count, writes>>

\* grace_add comes last, then do_quar_action reloads the page.
Return ==
  /\ job[Ui].pc = "return"
  /\ grace' = IF job[Ui].op = "restore" THEN grace \cup {job[Ui].it.orig} ELSE grace
  /\ Done(Ui)
  /\ shown' \in Listing
  /\ UNCHANGED <<disk, vault, index, pending, todo, run, count, writes>>

-----------------------------------------------------------------------------
(* The rest of the machine.                                                *)

GraceEnds(p) ==
  /\ p \in grace
  /\ grace' = grace \ {p}
  /\ UNCHANGED <<disk, vault, index, pending, job, todo, shown, run, count, writes>>

\* Another program creates or rewrites a file none of the threads has open.
OtherWrites(p, b) ==
  /\ writes < MaxWrites /\ writes' = writes + 1
  /\ ~Held(p)
  /\ disk' = [disk EXCEPT ![p] = b]
  /\ UNCHANGED <<vault, index, pending, job, todo, shown, grace, run, count>>

\* The program ends at any point (killed, closed, power lost) and is started
\* again in a later second; a reboot also carries out the scheduled removals.
Restart(reboot) ==
  /\ run < MaxRuns /\ run' = run + 1
  /\ count' = 0
  /\ job' = [t \in Threads |-> Resting]
  /\ todo' = {} /\ shown' = {} /\ grace' = {}
  /\ IF reboot
     THEN /\ disk' = [p \in Paths |-> IF p \in pending THEN Absent ELSE disk[p]]
          /\ pending' = {}
     ELSE UNCHANGED <<disk, pending>>
  /\ UNCHANGED <<vault, index, writes>>

AddStep(t) == AddOpen(t) \/ AddCopy(t) \/ AddRemove(t) \/ AddNote(t) \/ AddAppend(t)
UiStep == \/ PageQuar \/ PickRestore \/ PickPurge \/ RestoreOpen \/ RestoreCopy
          \/ RestoreDiscard \/ Drop \/ ReadIndex \/ TruncateIndex \/ RewriteIndex \/ Return

Next ==
  \/ \E t \in Shields, p \in Paths : ShieldAdds(t, p)
  \/ \E p \in Paths : BeginAdd(Ui, p)
  \/ \E t \in Threads : AddStep(t)
  \/ UiStep
  \/ \E p \in Paths : GraceEnds(p)
  \/ \E p \in Paths, b \in Contents : OtherWrites(p, b)
  \/ \E reboot \in BOOLEAN : Restart(reboot)

Spec == Init /\ [][Next]_vars

-----------------------------------------------------------------------------
(* Properties.                                                             *)

\* Every variable stays in its range.
TypeOK ==
  /\ disk \in [Paths -> Bytes \cup {Absent}]
  /\ vault \in [Names -> Bytes \cup {Absent}]
  /\ index \subseteq Items /\ todo \subseteq Items /\ shown \subseteq Items
  /\ pending \subseteq Paths /\ grace \subseteq Paths
  /\ job \in [Threads -> Jobs]
  /\ \A t \in Threads : job[t].it = NoItem <=> job[t].pc = "idle"
  /\ run \in 1..MaxRuns /\ count \in 0..MaxAdds /\ writes \in 0..MaxWrites

\* Whatever an entry of vault.idx points at is the complete copy that was
\* verified when the entry was made, or has been deleted: never a file some
\* other thread, or a later run of the program, is filling (lines 293-335).
IndexedWhole == \A e \in index : vault[e.stored] \in {e.what, Absent}

\* From the moment the copy has been verified until the entry is written,
\* the vault holds exactly the bytes that were read from the original: the
\* file is not removed on the strength of a copy that is gone or another's.
CopyBeforeRemove ==
  \A t \in Threads :
    job[t].op = "add" /\ job[t].pc \in {"remove", "note", "append"}
      => vault[job[t].it.stored] = job[t].it.what

\* Bytes are safe while some file, original or stored, has them in full.
Safe(c) == \/ \E p \in Paths : disk[p] = c
           \/ \E s \in Names : vault[s] = c

\* The ways the last copy of c can go in one step.
UserPurges(c)   == At(Ui, "purge", "drop") /\ vault[job[Ui].it.stored] = c
Overwrites(c)   == writes' # writes
RestoresOver(c) == At(Ui, "restore", "open") /\ disk[job[Ui].it.orig] = c
BootRemoves(c)  == run' # run /\ \E p \in pending : disk[p] = c
RemovesNewer(c) == \E t \in Threads : /\ At(t, "add", "remove")
                                      /\ disk[job[t].it.orig] = c
                                      /\ job[t].it.what # c
DropsReplaced(c) == /\ At(Ui, "restore", "drop")
                    /\ disk[job[Ui].it.orig] \notin {c, Partial}
DiscardsNewer(c) == At(Ui, "restore", "discard") /\ disk[job[Ui].it.orig] = c

Excused(c) == \/ UserPurges(c) \/ Overwrites(c) \/ RestoresOver(c)
              \/ BootRemoves(c) \/ RemovesNewer(c) \/ DropsReplaced(c)
              \/ DiscardsNewer(c)

\* The last complete copy of a file's bytes is lost only when the user purges
\* it, another program overwrites it, a restore is written over it, a removal
\* scheduled for the boot takes it, quar_add removes a file that was replaced
\* after it was copied, a restored file was replaced or removed before its
\* stored copy was dropped, or a restore that failed deletes what another program
\* has meanwhile written there.  No failed call and no other interleaving of the
\* threads loses anything.
NoOtherLoss == [][\A c \in Contents : Safe(c) /\ ~Safe(c)' => Excused(c)]_vars

\* The invariant behind these, strong enough to be inductive.  A name is used
\* once: every name in sight has been issued in this run or an earlier one, and
\* the name of a quar_add in progress is in no entry and no other thread's call.
Calls ==
  \A t \in Threads :
    /\ job[t].op = "none" => job[t] = Resting
    /\ job[t].op = "add" => job[t].pc \in {"open", "copy", "remove", "note", "append"}
    /\ job[t].op = "restore" => /\ t = Ui
                                /\ job[t].pc \in Steps \ {"idle", "remove", "note", "append"}
    /\ job[t].op = "purge" => /\ t = Ui
                              /\ job[t].pc \in {"drop", "read", "truncate", "rewrite", "return"}
Listed    == index \cup todo \cup shown
Issued(s) == s[1] < run \/ (s[1] = run /\ s[2] <= count)
NamesIssued ==
  /\ \A s \in Names : vault[s] # Absent => Issued(s)
  /\ \A e \in Listed : Issued(e.stored)
  /\ \A t \in Threads : job[t].op # "none" => Issued(job[t].it.stored)
OwnName ==
  \A t \in Threads : job[t].op = "add" =>
    /\ \A e \in Listed : e.stored # job[t].it.stored
    /\ \A u \in Threads \ {t} : job[u].op # "none" => job[u].it.stored # job[t].it.stored
ListedWhole ==
  /\ \A e \in Listed : vault[e.stored] \in {e.what, Absent}
  /\ job[Ui].op \in {"restore", "purge"} =>
       vault[job[Ui].it.stored] \in {job[Ui].it.what, Absent}
SourceHeld ==
  \A t \in Threads : At(t, "add", "copy") =>
    /\ disk[job[t].it.orig] = job[t].it.what
    /\ ~Written(job[t].it.orig)
TargetEmpty ==
  \A t \in Threads : job[t].op = "add" /\ job[t].pc \in {"open", "copy"}
    => vault[job[t].it.stored] \in {Absent, Partial}
RestoreSound ==
  /\ At(Ui, "restore", "copy") => /\ vault[job[Ui].it.stored] # Absent
                                  /\ disk[job[Ui].it.orig] = Partial
  /\ At(Ui, "restore", "drop") /\ vault[job[Ui].it.stored] \in Contents
       => disk[job[Ui].it.orig] # Partial
IndInv == /\ TypeOK /\ Calls /\ NamesIssued /\ OwnName /\ ListedWhole
          /\ CopyBeforeRemove /\ SourceHeld /\ TargetEmpty /\ RestoreSound

\* What the vault promises about its stored copies, whatever the threads do:
\* they are sealed from a file on disk, do not change, and go only once put
\* back whole or purged (module Custody).
StoredBytes == [s \in Names |-> IF vault[s] \in Contents THEN vault[s] ELSE Absent]
Dropping(op) == { s \in Names : /\ At(Ui, op, "drop")
                                /\ job[Ui].it.stored = s
                                /\ vault[s] \in Contents }
Promise == INSTANCE Custody WITH sealed <- StoredBytes,
             returned <- Dropping("restore"), givenUp <- Dropping("purge")
PromiseSpec == Promise!Spec
=============================================================================
