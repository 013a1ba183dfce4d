# CarrotAV: a TLA+ verification project

CarrotAV is an antivirus program for Windows 2000 and XP: one window program
(`src/src/`) that scans on demand and watches in real time, and a second
program (`src/updater/`) that downloads and compiles definitions. It runs
entirely in user mode. This project models the parts in which threads, files
and the user interleave, checks them with TLC on small instances, and proves
with TLAPS, for instances of any size, the safety of all of them but one: the
vault, the verdict, the scan session, the three guards of the shield, the
definitions in use and the lookup in them, the baseline, the web shield and the
firewall. What is compiled into the definitions is only model-checked.

How to run, in this directory: `tlc -config MCVault.cfg MCVault`,
likewise for every pair of module and configuration below, and
`tlapm VaultProofs.tla`, likewise for every module named `...Proofs`. `PROJECT.json` lists the
runs, the source lines each definition stands for, the hazards, the theorems,
and for each property a variant of one definition that violates it.

## The system

| component | its state | its operations | modelled in |
|---|---|---|---|
| Quarantine vault, `protect.c` 232-504 | `.qtn` files, `vault.idx`, removals scheduled for the next boot, the originals | `quar_add`, `quar_list`, `quar_restore`, `quar_delete` | `Vault`, `Custody` |
| Scan session, `scan.c` `scan_thread`, `main.c` | `g_job`, `g_thread`, `g_dets`, the rows of the list, the message queue | start, stop, a hit, the end, the question after it, `WM_CLOSE`'s wait | `ScanSession` |
| Verdict, `scan.c` `scan_one`, `realtime.c` `rt_check` | what has been read of one file so far | archive guard, hashes, PE sections, signature, signer, baseline, heuristics, pattern sweep | `Verdict` |
| Shield, file guard and lifecycle, `realtime.c` | `g_rt`, stop event, directory handle, change buffer | `rt_start`, `rt_stop`, `watch_thread` | `Shield` |
| Shield, process guard | the table of ids known | `proc_thread`, `rt_set_kill` | `ProcGuard` |
| Shield, registry guard | the values last read of two Run keys, their notifications | `reg_thread` | `RegGuard` |
| Grace list and exclusions, `protect.c` 60-230 | 32 slots with tick counts; the list of excluded paths | `grace_add`, `grace_active`, `path_excluded` | when they are asked: `Vault`, `Verdict` |
| Definitions in use, `sigdb.c`, `main.c` 836-1021 | `g_db`: one file and its tables; the ring of name buffers | `sigdb_load`, `do_load_defs`, `do_reload_defs`, `do_update_online`, `open_db`, `read_name` | `Definitions` |
| Definitions compiled, `updater/defs_build.c` | the tar parser, three tables, the names | `cvd_compile` and what it calls | `DefsBuild` |
| Signature lookup, `sigdb.c` 264-344 | none | `lookup`, `sigdb_match_hash`, `sigdb_match_sha`, `sigdb_has_sect_size` | `SigDb`; all three in `Signatures` |
| Download and program update, `updater/defupdate.c` | the downloads, `update_check.txt`, the installer | download, compare versions, extract, offer | its effect on the database: `Definitions` |
| System baseline and repair, `baseline.c`, `scan.c` 615-660, `main.c` 1160-1190, 1942-1960 | the snapshot on disk, the tables in memory, a removal or replacement due at the next boot | `base_build`, `base_load`, `base_check_path`, verification, `base_repair` | `Baseline`; the check also in `Verdict` |
| Web shield, `protect.c` 506-723 | a marker block in HOSTS | import, add, clear | `Hosts` |
| Windows 2000 firewall, `fw2k.c`, `main.c` 315-451 | memory, the registry key, the packet filter, TCP/IP filtering | enable, add, remove, defaults, apply, start, stop, tick, uninstall | `Fw2k` |
| Archive guard, PE sections, `archive.c`, `pe.c` | none | thresholds and 32-bit offsets | an input of `Verdict` |
| Program lifecycle, `main.c` | single instance, `g_closing` | hide, close, destroy, `/exitnow` | closing: `ScanSession` (the wait for a scan), `Definitions` (the end of the process) |
| Tray, Windows firewall, hashing, shims, themes, TLS port, installers, Python tools | a balloon timer, none, or third party | | not modelled |

How they interact. The window's thread owns the pages, the scan session and the
user's side of the vault. A scan runs in one thread of its own; the shield runs
up to six folder watchers, the process guard and the registry guard. All of
them ask the *verdict* functions, which read the signature database, the
baseline, the exclusions and the grace list; none of these is protected by a
lock. A scan reports with posted messages and leaves it to the user to
quarantine; a shield thread calls `quar_add` itself and then reports. A restore
writes the file back, which a watcher sees as a change. There is no lock in the
program besides `InterlockedIncrement`: the only mutual exclusion is the share
mode passed to `CreateFile`, the message queue, and the waits of `rt_stop` and
`WM_CLOSE`, which have time limits.

What is hard, component by component, and what makes it correct:

- *Vault.* Several threads at once, each step of a call may fail, the program
  or the machine may stop between two steps. Correct: the original goes only
  while its copy is whole; bytes are lost only when the user gives them up; the
  index never offers a copy that is torn.
- *Scan session.* Flags shared without a lock, messages handled inside message
  boxes, a queue that may refuse one, and one job that every start resets, whoever
  still reads it. Correct: what is quarantined is what was selected; a question is
  about all detections; a scan ends early only when stopped; its end is seen; the
  tables are freed under no scan.
- *Verdict.* A file is opened up to seven times for one verdict and may change
  or refuse in between. Correct: what Windows or Microsoft vouches for is
  spared, and what a signature matches is reported.
- *Shield.* Threads may outlive the context they point into. Correct: a stop
  leaves nothing behind; a watcher uses only its own handles; a change that was
  kept is dealt with.
- *Process guard.* Ids are used again. Correct: what is taken for known was
  checked; what is ended was a hit.
- *Registry guard.* A notification is given once, two keys share a thread, and the
  first error ends the list of a key's values. Correct: no change is forgotten, and what was there before is not reported.
- *Definitions.* Freed and replaced while other threads search them; the file is
  written in place by a program of its own; an update is started from inside
  another's wait. Correct: what is loaded is a whole database and in the end the
  one on disk; a name is read out of the database its key was found in; every wait
  ends.
- *Compilation and lookup.* Input arrives in chunks that end anywhere, and may be
  cut off; records share prefixes, hashes and sizes. Correct: a query is answered
  exactly when a line for it was read.
- *Baseline.* Two threads load one table; a repair takes seconds, and copies from
  several places. Correct: what is loaded is the snapshot on disk; a verification
  misses nothing; what is said to be repaired is what was recorded.
- *HOSTS.* One file, written in place by two processes and others. Correct: the
  others' lines survive; there is one block.
- *Firewall.* Four stores that must agree. Correct: what filters is what the page
  lists, and what is loaded next is what was chosen.

`PROJECT.json` lists every hazard at its line with the properties that cover it.

## The modules

### Vault

`Vault.tla` has one action for each stretch of `quar_add`, `quar_restore` and
`quar_delete` between two points where another thread, a failure or a stop of
the program can come in. `job[t]` is thread `t`'s position in its call and its
`QITEM`. A file's bytes are one of `Contents`, `Partial` (created and not
completely written) or `Absent`. Share modes are guards: `Held` is a file that
`quar_add` has open without `FILE_SHARE_WRITE`, `Filling` and `IndexBusy` those
being written. `AddOpen` draws the name from the seconds and a counter; a name
is a pair of a run and a counter, since a restart is taken to be later than
every name of earlier runs: the model assumes that the local clock is not set
back, as it is at the end of summer time, between two runs that quarantine.
`Restart` stops all threads at any step, with or without a reboot; a reboot
carries out the scheduled removals. `OtherWrites` is another program. A restore
that failed closes what it wrote (`RestoreCopy`) and deletes it by name in a step of
its own (`RestoreDiscard`), after which another program may have written there.

`Custody.tla` is the abstract specification: a stored copy is sealed from a file
on disk, never changes, and is destroyed only after its bytes were put back or
while the user gives it up. `PromiseSpec` states that `Vault` implements it: the
sealed copies are the `.qtn` files that are whole.

### Scan session

`ScanSession.tla`: the scan threads (`Begin`, `Enumerate`, `PassOver`, `Visit`,
`EndWalk`, `PostDone`), the window's handlers of `WM_SCAN_HIT`, `WM_RT_HIT` and
`WM_SCAN_DONE`, the user's buttons, and `WM_CLOSE` with its wait (`ExitAsks`, `Exit`,
`ExitAnswered`, `WaitEnds`). `job` is the one `SCANJOB`. A start resets it (`Launch`:
flags, counter, and as `target` the files that mode and root stand for) and creates
its thread in a second step (`Started`), which may fail; in between and after it, a
thread of an earlier start goes on with whatever is there: it takes the files to
walk from the job when it has counted (`Enumerate`), and asks the mode before each
file (`PassOver`). Each thread's `due` remembers what its own start was for. Message
boxes are a stack: each runs a message loop of its own, so handlers run under it.
`rows` is the list with whatever page filled it, `seen` how many of its rows the user
could have selected, `dets` is `g_dets`. The rest is history: `crossed` of a scan that
shared the job with another, `overlap` (a scan was started before all trace of the
last was gone), `lost` (a message was refused), `mixed` (the rows are not `g_dets`'),
`left` (scans that the window let go of). `MCScanSession.tla` gives the targets.

### Verdict

`Verdict.tla`: both checkers at the same file. A content is the record of the
answers it gives to each question, so the model ranges over every combination of
answers rather than over bytes; `had[k]` collects the contents the file had while
checker `k` was at it, `failed[k]` the opens that failed. The properties speak of
those, and so hold whatever replaced the file and when.

### Shield, process guard, registry guard

`Shield.tla`: the window's thread in `rt_start` and `rt_stop` and one watcher per
start. Handles and events are objects with a number, so a slot, an event value
or a folder handle of a later start can be found in an earlier watcher's hands.
`StopGivesUp` is the three-second limit. A folder's change buffer belongs to its
handle, may be full, and reports a file when it is created and when it is closed.

`ProcGuard.tla`: processes with ids, the walk through a list of ids, and the
three look-ups by id. `RegGuard.tla`: `request[k]` follows one key's
notification; a change of a key whose notification was given and not asked for
again is remembered by the handle (`untold`). A key is read value by value
(`OpenKey`, `NextValue`), while others may change it; the enumeration ends when
there are no more values, at one that is too long for the buffers (`Long`), when the
key has changed under it, or at once for a key that cannot be opened (`Enumerated`),
and `missed[k]` is what it left out. An entry counts as one value with its data;
values that are no strings are passed over and are not modelled.

### Definitions

`Definitions.tla`: a database file is a version cut into parts, and an updater
writes the parts one by one into the file that is there (`UpdaterOpens` empties
it). `upd` is the stack of what the window's thread is in the middle of: updaters
that `do_update_online` waits for, and message boxes, its own (what was loaded, the
offer of a new version) and those of the rest of the program. Messages are handled
in all of them, so a second update, the load of another file and the end of the
program happen inside (`StartUpdate`, `LoadOther`, `Close`), and only the innermost
returns (`Reload`, `BoxGoes`). `Reload` and `LoadOwn`, `LoadOther` and `LoadChosen`,
are `sigdb_free` and `sigdb_load` with the freed state in between. A thread that
looks a hash up finds a key in memory (`LookUp`), opens the file and compares its
length (`OpenFile`), confirms the whole hash and takes one of the shared buffers
(`TakeSlot`), reads the name into it out of the file as it is by then (`ReadName`)
and copies it out (`CopyName`). `stale` remembers the look-ups under which the
tables were freed, or the file was written after its length was compared. For whom
`WM_CLOSE` waits is in `ScanSession` and `Shield`; here the wait may end at any time
(`Destroy`).

### Compilation and lookup

`DefsBuild.tla` is the parser of `defs_build.c` over *cells*: of a header, a line,
padding, the end. A chunk of any size is fed until it is used up, as `tar_feed`
does. A line is a record of its fields and its length; how fields are written is
left out. `SigDb.tla` is the search in a table, over hashes that are pairs of the
prefix in memory and the rest in the file. `Signatures.tla` composes them:
whatever `DefsBuild` has written is loaded and queried, so the properties relate
the lines of the archives to answers, across both programs.

### Baseline

`Baseline.tla`: the scan's thread building or verifying, file by file; the
window's thread that loads the snapshot when it hears of the end, and repairs a
file from a place after another; changes by others; a stop or a boot at any step.
`WM_SCAN_DONE` carries nothing that tells jobs apart: `done` counts the messages
under way, `olds` how many of them belong to an earlier job.

### HOSTS, firewall

`Hosts.tla`: HOSTS is a sequence of lines (markers, blocked domains, the others').
Each process reads, computes the new text, opens the file, which empties it, and
writes; a write may be cut after any line, in it, or before its line end. A marker
is searched for with its line end, so the last line of a file may be a marker that
is not found (`begincut`, `endcut`) until the next import or add ends the line
(`LineEnded`). `Fw2k.tla`: `todo` is the rest of an
operation as a sequence of steps (apply and save, in the order of each handler),
any of which may fail or be the last before the program is ended. `saved`, `live`
and `slips` tell the registry, what is in force since the last boot, and which
failures have happened.

## The runs

| run | what it shows | bounds |
|---|---|---|
| `vault` | `CopyBeforeRemove`, `IndexedWhole`, `NoOtherLoss` and refinement of `Custody`, with two shield threads and the window's, and a stop at any step | 1 path, 2 contents, 2 runs, 2 additions in the first and 1 in the second (`LaterRunsAddOne`), 1 write by others: two threads at the same file, a third at its copy, the file replaced once, an entry of the first run met in the second |
| `scan_session` | `SelectedAreTaken`, `SerialScansReportAll`, `EndsEarlyOnlyIfStopped` | 2 scans of both of 2 files or of none, a queue of 2, one box, no shield report: queue full, a second scan during, over and after the first; 5.4 million states |
| `scan_nested` | `NobodyLeft`, and `EndIsSeen` under boxes two deep, with shield reports | 1 file, 2 scans, a queue of 1, 1 shield report, 2 boxes, the window closed at any point; 2.4 million states |
| `verdict` | `ShieldSparesVouched`, `SignedSkipHeuristics`, `SignatureIsReported`, `ShieldWithinScan` | 14 contents that differ in the answers the properties weigh, every path and option; 1 replacement |
| `shield_watch` | `StopLeavesNothing`, `WatcherOwnsSlot`, `ChangeIsDealtWith`, `StopEnds` | 2 starts, 2 files, 2 writes: a batch of two, a change while busy, a watcher of the last start |
| `proc_guard` | `KnownIsChecked`, `EndsOnlyHits`, `StartedIsChecked` | 3 processes, 2 ids, room for 1 id, 1 failed list: an id is used again and the table overflows |
| `reg_guard` | `WaitsForNothingDue`, `KeptIsNotReported`, `AddedIsRead` | 2 keys, 2 values of which 1 is too long to be read, 2 changes: a key changes while it is read, both while one is compared, an enumeration ends early at any value |
| `fw2k` | `FiltersAsListed`, `OneChoiceBehind`, `OnIsInForce`, `NewAddressIsBound` | both methods, 3 rules with room for 2, 3 addresses with room for 2, 2 interfaces, 2 operations, 2 moves, 1 fault: the list and the table overflow, an address goes while another comes |
| `hosts` | `OneBlock`, `EntriesSurvive`, `ClearLeavesOwn` | 2 processes, 3 operations, 2 edits by others, 2 lines of theirs: an edit between a read and a write, a maimed block and a marker without its line end met by the next operation |
| `definitions` | `InStep`, `NamesKept`, `NamedAsLoaded`, `WaitsEnd` | 2 threads, 2 versions of one and of two parts, a ring of 2 buffers, 2 updates or loads, 1 box besides theirs, 2 buffers handed out while one is held: an update inside another, a box over an update that has ended, a ring that comes round, a file emptied and written while a thread has it open |
| `baseline` | `LoadedIsOnDisk`, `VerifyReportsAll`, `RepairedAsRecorded` | 2 files, 2 jobs, 1 repair, 2 changes by others, 6 mixtures of right, wrong and missing copies |
| `signatures` | `RecordsAsRead`, `FindsWhatIsThere`, `AnswersAsListed` | 258 first archives (a member of up to 2 lines out of 6, of 3 kinds, with or without a last newline) and a second of two members; blocks of 2 cells, lines of up to 2, chunks of up to 3: a chunk ends in every part of every structure, and a line is too long; 18 queries |

State constraints: `LaterRunsAddOne` in `vault` and `StaysOpen` in `scan_session`,
which leaves the exit to `scan_nested`; the other bounds are guards in the
modules, named where they are declared. Symmetry is used in runs without liveness. Every module also has a
`TypeOK` with the ranges of its variables, and ten an `IndInv`: those are what is
proved, and the properties of the runs follow from them.

### What the exceptions stand for

A property with an exception says that it fails in this way and in no other.
The exceptions are behaviours of the code that some comment or message
contradicts, found while modelling:

- `slow` (`Shield`): `rt_stop` clears `g_rt` after three seconds, and a watcher
  that is still scanning goes on to quarantine while the page says that nothing
  is monitored (`realtime.c` 472, `main.c` 194).
- `dropped` (`Shield`): a full change buffer returns zero bytes and its changes
  are never looked at (`realtime.c` 194).
- `overlap` (`ScanSession`): `running` is set by the scan thread and cleared
  before `WM_SCAN_DONE`, so a second start can slip in at either end; two scans
  then share one job, and one may be reported clean for the other (`main.c` 738,
  `scan.c` 576, 691).
- `crossed` (`ScanSession`): the second of two starts in quick succession resets the
  job while the thread of the first reads it, so that one walks what the second is
  for, or a mixture, or nothing (`main.c` 774-781; `scan.c` 585, 610, 665), though
  no Stop was pressed: "This MUST happen: g_job.cancel stays set after a Stop, so
  without clearing it the next scan sees "cancelled" immediately" (`main.c` 770-773)
  has only scans one after another in mind. For the moment of the `memset` its `db`
  is NULL as well; what a thread does with that is not modelled.
- `mixed` (`ScanSession`): No says "quarantine the file(s) I have SELECTED in the
  list" (`main.c` 1985), `g_dets` is said to be "Parallel to the rows in the Scan
  tab's list" (24-26), and row `i` selected hands over `g_dets[i]` (2001-2006). But
  rows are also added for disputed and modified files and for hits of the shield,
  which `g_dets` does not get, and another page fills the same list. In one scan
  by itself, after one disputed file above it, No takes the file of the next
  row below the one selected. `SelectedAreTaken` claims the promise only until the
  first such row or change of page.
- `left` (`ScanSession`): `WM_CLOSE` waits only if `running` is set (2041), which a
  thread just created has not done yet; it waits for the last handle only (2045),
  and not at all if another scan's end has closed that (1948, 1962); and for five
  seconds. After that `WM_DESTROY` frees the tables under the scan.
- `lost` (`ScanSession`): a full queue refuses a hit, or the message that ends
  the scan (`scan.c` 250).
- the cases of `Excused` (`Vault`): a purge by the user; a write by another
  program, also between the end of the copy and the delete (`protect.c` 323-339);
  a restore that overwrites what stands at the path, also when it fails then
  (461-487); a restore that failed and deletes by name what another program has
  written there since its handle was closed (477, 483); a stored copy dropped though
  the restored file was changed or scheduled for removal.
- `failed` (`Verdict`): after an open that failed, the shield goes on without
  asking the baseline (`realtime.c` 116).
- "verified or not" (`SignatureIsReported`): `baseline.c` 6-10 says that a stock XP
  file "(or any file you chose to baseline, like a game folder) can never be reported
  by a signature or a heuristic", and after a snapshot the user reads "These are now
  known-good and will never be reported as threats" (`main.c` 1953-1954). The code
  reports a baselined file with a signature, as disputed (`scan.c` 324-346), as
  the comment at that place (324-329) and the repository's `README.md` 30-31 say. The
  property states what the code does; of the other comment it leaves that
  such a file is not offered for quarantine, and that heuristics pass it over.
- `early`, `wiped` (`RegGuard`): the keys are read before the first notification
  is asked for; both events are reset at the top of the loop.
- `missed`, `gone` (`RegGuard`): the first call that fails ends the list of a key's
  values, also with `ERROR_MORE_DATA` at a value that is too long (`realtime.c`
  311-312), and a key that cannot be opened counts as empty (307). What comes after is
  not reported when it is added, where 10-11 say "reports anything that adds itself to
  autostart"; and a kept value that a read left out is reported as new by the
  next that gives it.
- `reused`, `refused` (`ProcGuard`): an id of the last list is taken for known;
  a process whose image could not be had is not tried again. `EndsOnlyHits`
  lets the guard end a process that took the id of a hit, and counts a heuristic
  finding as a hit, where `realtime.c` 44 says "on a signature hit".

More of them, by component:

- *Vault.* A file that could not be deleted is scheduled for removal at the next
  boot (`protect.c` 343); nothing cancels that when it is restored and its stored
  copy dropped, though `protect.c` 479-481 says "Only drop the vault copy once the
  restored file is known good" (`BootRemoves`).
- *Scan session.* With `overlap`, a Yes also quarantines hits that arrived while
  the question was up, though it says "quarantine all %d detected file(s)"
  (`main.c` 1984, 1992). A thread that could not be created ("never" in
  `EndIsSeen`) leaves the progress timer on (786-790).
- *Shield.* With `slow`, a watcher of the last start closes the folder handle of
  its successor: the page shows "Shield ACTIVE" (`main.c` 186-188) and the folder
  is not watched (`realtime.c` 224-225).
- *Registry guard.* With `wiped`, an entry added while the guard handles the other
  key is not reported, where `realtime.c` 10-11 says "reports anything that adds
  itself to autostart" (367).
- *Firewall* (`slips`). "save": the registry key could not be opened, and nobody is
  told. "cut": the program was ended in mid-operation, or with "save". "write": an
  interface's key could not be opened; starting again does not write again.
  "restart": the program was started again between a change and the boot that puts
  it in force; the page then says "On" without asking for the restart.
- *HOSTS* (`excused`, `maimed`). An edit between a process's read and its write is
  overwritten; a `ReadFile` that fails counts as an empty file; a write that is cut
  loses what follows; below a begin marker without an end marker all is taken for
  the block. `halved`: a write that is cut right after a begin marker and before its
  line end leaves a marker that `strstr` does not find; the next import or add ends
  its line (`protect.c` 648, 714) and puts another block below, so that "our managed
  block" (554) is two, of which `hosts_strip` takes out both with all between them.
  `hosts_import` does not look at `hosts_write`'s result, so the page
  says "N domains are now blocked" of a write that failed.
- *Definitions.* `stale`: "if the file has been replaced since load (an update in
  progress)" nothing is to be reported (`sigdb.c` 217-219), but `open_db` compares the
  length once (228-229) and shares the file with writers; the record is read later
  (289-290) and the name later still (248). An updater that has emptied the file in
  between leaves a blank name or one of another database; so do tables that are freed
  under the look-up. Nor does the length tell one database from
  another that is just as long, or is being written and has grown to just that
  length (the last disjunct of `NamedAsLoaded`). `overlap`: two updaters have written
  the file at once. "bad", "uncopied": a chosen file that is no database has replaced
  the tables with nothing, or was loaded but could not be copied. Tables loaded
  from elsewhere keep that file's path: without it (a stick that is taken out) no
  hash can be confirmed. `Boxed`: an update that was begun inside another, or a box
  beneath which it has ended, keeps it from returning and loading until the user has
  answered (`main.c` 978, 991, 1007), so `WaitsEnd` claims nothing while a box
  is up. When the program is closed while an update is under way, the
  loop of `do_update_online` takes `WM_QUIT` (`main.c` 964) and the process does
  not end: `WaitsEnd` claims an end only of a program closed without one.
- *Baseline.* `cancel`: a snapshot that was stopped replaces the full one by a part
  and is called built. `mistaken`: `WM_SCAN_DONE` of an earlier job is taken for
  the snapshot's. "freed": the snapshot a repair goes by was freed under it.
  `meddled`: others changed the file after the copy. Copies from the cache, the
  source folder or an expanded file that are due at the next boot, and those
  without a record, are not compared, and are not called compared.
- *Compilation.* Of an archive that is damaged or cut off, what comes before is
  compiled, and of two archives whichever could be had; the result replaces the
  old set, and is called an update. Most `fwrite`s are not looked at; the loader
  refuses a file that is too short for its header.

### Fairness

`Spec` has none where only safety is checked. Weak fairness is asked of each
thread's own steps: Windows schedules every ready thread, a wait whose object is
signalled ends, and a wait with a time limit ends. `ScanSession` asks it of each
scan thread and of the window's message loop, which goes on under a box, of
`CreateThread`'s return (`Started`) and of `WM_CLOSE`'s wait, which has a time limit;
the user need never answer a box. `Shield` asks it of each watcher and of the wait in
`rt_stop`, not of its giving up. `Definitions` asks it of the window's thread
(`Returns`: what it can do without the user), of each updater, whose process
ends by itself or is closed, and of boxes only once their window is gone: Windows
takes them away with it. `Fw2k` asks it of the steps of an operation and of the
one-second timer. Starting, stopping, writing files, failing, closing the program
and every other act of the user or of other programs has no fairness. In
`ProcGuard` the number of lists that fail is bounded; a list that fails forever
would check nothing.

### Deadlock

`Vault`, `Fw2k` and `Baseline` are checked for deadlock. The others
stop by design: a verdict or an answer has been given, the shield has been stopped,
the window is gone (`ScanSession`) or the program has ended, or the bounds are used up.

## The proofs

Each holds for every value of the module's constants: any number of files, threads,
starts, scans, ids, keys, versions, contents, lines, lists, rules, addresses or
records, and any value of the bounds. The only assumptions are those the modules name
(`VaultAssumption` and so on): bounds are natural numbers, model values that mean
"none" differ from the others, sets of inputs are what they are declared to be. Three modules
of proofs are about two components each and extend both; for that, what `RegGuard` and
`Hosts` would have in common with `Shield` and `Fw2k` has names of its own there
(`RegSpec`, `RegIndInv`, `HostsSpec`, `HostsIndInv`).

Every component's proof has the same shape. `IndInv`, defined beside the properties, is a
conjunction of named parts; one or more lemmas show that a part is preserved, going
through the actions; `InitIndInv` and `StepIndInv` combine them into
`Inductive`, `Spec => []IndInv`; the properties follow. Each `IndInv` was found to
hold by TLC, on the instances of the runs, before it was proved.

| module | theorems |
|---|---|
| `VaultProofs` | `CopiedBeforeRemoved`, `IndexPointsAtWhole`; the action property `LosesNothingElse`; the refinement of `Custody`, `KeepsPromise` |
| `VerdictProofs` | the verdict: `SparesVouched`, `SignedAreSpared`, `ReportsSignature`, `WithinScan`. The lookup: `FindsAny` |
| `ScanSessionProofs` | `RowIsItsDetection`, `NoneMissing`, `EndsEarlyIfStopped`, `FreedUnderNobody`; and `ActionableOnly`: whatever overlaps, what is quarantined was reported as something to act on (`OnlyActionable`) |
| `ShieldProofs` | the file guard: `SlotOwned`, `StoppedClean`. The registry guard: `NothingForgotten`, `KeptUnreported` |
| `ProcGuardProofs` | `NoneOverlooked`; the action property `OnlyHitsEnd` |
| `DefinitionsProofs` | `LoadedInStep`; the action properties `ReadAsLoaded`, `NamesAreKept` |
| `BaselineProofs` | `LoadedFromDisk`, `VerifyComplete`, `RepairSound` |
| `NetProofs` | the firewall: `FiltersTheList`, `OneBehindAtMost`, `OnAndInForce`. The web shield: `OneBlockAtMost`, `OthersSurvive`; the action property `ClearCleans` |

and `Inductive` and `TypeCorrect` of each component but the lookup (`RegInductive`,
`RegTypeCorrect`, `HostsInductive` and `HostsTypeCorrect` of those two). What the properties need to become inductive:

- *Vault.* That a copy stays whole between `AddCopy` and `AddRemove` needs that
  no other call writes to its name (`OwnName`), which needs that names in use were
  issued (`NamesIssued`) and that a call's steps belong to its operation (`Calls`);
  that an entry points at a whole copy (`ListedWhole`) needs the same of entries
  being rewritten; a restore in progress writes the file whose copy it still has
  (`RestoreSound`, `TargetEmpty`), and the source of a copy cannot change while it
  is held (`SourceHeld`). The refinement is proved step by step: each action seals,
  puts back, gives up or destroys one copy, or changes the rest of the disk.
- *Verdict.* What a checker has learnt came from contents the file had
  (`Present`), a hit has a cause and a hash that was read and not yet weighed
  counts (`HitHasCause`), and what having come to a question implies of earlier
  ones (`ShieldDoubts`, `ScanFoundNone`). `ShieldWithinScan` relates two complete
  runs: neither is mentioned in the other, so `Undisturbed` says of each checker by
  itself what being at a question tells of the file (`Passed`) and what its answer
  says of it (`Concluded`), in terms of the file alone (`Due`).
- *Scan session.* `OnlyActionable` needs that what is kept and what is in the queue
  can be acted on (`KeptCanBeActedOn`), `SelectedAreTaken` that the rows are the
  detections until they are `mixed` (`RowsAreDets`). `SerialScansReportAll`
  needs the protocol between the thread and the window (`InOrder`): one scan is
  under way, its end is the last the queue has of it, one box is about it at most,
  and what it reported is kept or awaited until then. All of it fails with `overlap`.
  `EndsEarlyOnlyIfStopped` needs that `cancel` is the Stop that every scan under way
  has seen (`CancelIsSeen`), and that the job is the business of a scan that shares
  it with none (`JobIsOnes`): what it has not visited is in the job's target, and from
  its walk on among what it has before it (`DueKept`). `NobodyLeft` needs that the
  window holds the handle of such a scan and sees its running flag (`Held`).
- *Shield.* `WatcherOwnsSlot` speaks of watchers that are alive, and a start takes
  the slot over without looking at it; it needs that an open folder has its watcher
  (`OpenIsWatched`), and that `g_rt` and the stop event are the last start's from there
  to the end of its stop (`ContextIsLast`).
- *Process guard.* `KnownIsChecked` speaks of the rest between two passes; during
  one, the ids of both tables, and on the first pass of the whole list, are excused
  but for the one just being looked at (`KnownExcused`, `CurrentExcused`,
  `FirstExcused`); `FoundAtHand` ties the process looked up to the id at hand, and
  that it is a hit to its being ended.
- *Registry guard.* A key that was read and has changed since is due at any time and
  not only in the wait (`NothingDue`); that asking again loses nothing needs that a
  notification that was given leaves its event set until then (`SignalStays`); an
  enumeration under way gives what is there or has gone, and what it has to leave out
  was there from its beginning on (`Enumerating`); what
  was there first is known once read (`BeganIsKnown`).
- *Definitions.* `InStep` needs that what there is of the file is the first parts of
  its version, as many as its one writer has written (`WrittenInOrder`): only so does
  its length tell that it is whole. `NamedAsLoaded` needs that under a look-up that is
  not `stale` the tables are still loaded and the file it has open is still as long as
  they say (`StillLoaded`, `StillAsLong`); `NamesKept` that no two threads hold
  buffers of one age (`BuffersDiffer`).
- *Baseline.* `VerifyReportsAll` speaks of a verification that has ended; while one
  runs, a suspect still differs from its record, and is reported or to be visited
  (`SuspectsToCome`), which needs that nobody loads a snapshot meanwhile
  (`ModeIsTheJobs`, `EndsAreOlder`).
- *Firewall.* The properties speak of the rest between operations, but for
  `OneChoiceBehind`. During one, memory, registry and filter differ, and what is left
  of it (`todo`) must account for that: `todo` is one of the sequences the operations
  have (`Plans`); where binding is not among what is left, each bound address has the
  list (`BoundAsListed`), and where writing is not, so do the registry's values of
  TCP/IP filtering, and while the program is down they are written for what it will
  load (`WrittenAsListed`); `Enabled` is saved before `Ports`, so that between the two
  the key has the new switch, and at most one half of it is behind (`SavedInTurn`);
  and without a restart asked for, what is written is in force (`InForceAsWritten`).
- *Web shield.* `OneBlock` needs that not only the file but every text some process has
  read, and every text it is about to write, has no end marker between two begin
  markers (`OneStretch`), and one begin marker at most unless one was cut (`Blocks`,
  `OneBlockEach`): that `hosts_strip`, `hosts_import` and `hosts_add` keep it is a
  lemma about each on lines of any length. That nobody else writes while a process has
  the file open (`AloneWhileOpen`) makes what a cut write leaves a beginning of its
  text. `EntriesSurvive` speaks of the file while no process has it open, and needs
  that each line of others a process has read outside the block is in what it is about
  to write (`OthersAreKept`); and
  `ClearLeavesOwn` that, as long as nothing was maimed, every text is a whole block
  among others' lines or free of one (`WholeUnlessMaimed`).
- *Lookup.* `FindsWhatIsThere` is about one lookup, in tables that `sigdb_load` lets
  pass (`Loaded`: it refuses a file whose MD5 or section records are out of order, and
  sorts the SHA-256 records itself); `LookUpSpec` is that lookup by itself. While the
  table is halved, what lies below the part still searched is smaller than the query and
  what lies above is not, and `first` is the record just above when it matches
  (`Searched`); for a SHA-256 any record of the hash will do, from which it walks back
  (`FoundAny`); the walk has passed nothing that fits (`Walked`).

Model-checked only:

- liveness, which the proof system does not support: `EndIsSeen`,
  `ChangeIsDealtWith`, `StopEnds`, `AddedIsRead`, `StartedIsChecked`, `WaitsEnd`,
  `NewAddressIsBound`;
- `RecordsAsRead` and `AnswersAsListed`, of `DefsBuild` and `Signatures`: for these it
  would have to be known what cells an archive is made of, a concatenation over its
  members and lines, and what sorting a table gives. The library's operators for both come without facts
  about them, and its induction theorem takes an operator, which the installed provers
  cannot instantiate; a recursion over a number can be reasoned about by its least
  counterexample, as `KeptDomains` of `NetProofs` does for what `hosts_import` keeps of
  a list, but this has not been carried through for the archives;
- that the tables in `Signatures` are in order when a query comes: `Load` there has the
  order `load_keys` checks and `qsort` makes as its guard (`Orders`), which is what
  `FindsAny` assumes of them.

## What is not modelled

Bytes, hashes, paths and texts: contents, names and files stand for them. The
counters shown on the pages, the log and the layout. The limits 64 (values of a
Run key), 512 and others on lists that only truncate a display; the sizes of the
buffers of `hosts_import`. In `Shield`, the directory list and all watchers but
one: they share nothing but `g_rt`. Threads of the process and registry guard that
outlive a stop: as in `Shield`. In `ScanSession`, what the threads do after
`WM_DESTROY` until the process ends, and boxes that change nothing ("Could not start
the scan thread.", the count of the files No has taken).

Modelled in one place and left out in another: a post refused by the queue is in
`ScanSession` and not in `Baseline`, whose verification posts as well; a failed
`open_db` is in `Definitions` and not in `SigDb`; an archive that `arc_inspect` cannot
open is one that is "fine" in `Verdict`. In `Baseline` an `expand.exe` that is still
writing after the 30 seconds the repair waits is one of the changes by others.

Whole parts: the download and the program's own update (`defupdate.c`): its effect
on the database is in `Definitions`, and what it may hand to the compiler, archives
cut off or missing, in `DefsBuild`; `ver_cmp`, the redirects, the installer's
extraction and `update_check.txt` are not modelled. The 32 slots and the tick
arithmetic of the grace list. The thresholds of `arc_inspect` and the offsets of
`pe.c`: pure functions of bytes. `scan_memory`. Single instance, command line, tray.
The Windows firewall (`fw.c`), whose functions are one call each. The TLS port,
which is third-party code, themes, installers and Python tools.

## Plan

Done in this order, the core first: `Vault`, `Custody` and their proofs;
`ScanSession`; `Shield`; `Verdict` and its proofs; `RegGuard`; `ProcGuard`; `Fw2k`;
`Hosts`; `Definitions`; `Baseline`; `DefsBuild`, `SigDb` and `Signatures`; then the
proofs of `Shield`, `Baseline`, `Definitions`, `ScanSession`, `RegGuard`, `ProcGuard`,
`Fw2k`, `Hosts` and `SigDb`.

To come: a model of the grace list's 32 slots and its tick arithmetic, and of
`defupdate.c`'s own steps (`ver_cmp`, the installer's extraction, `update_check.txt`);
for the theorems, what `DefsBuild` compiles, once its archives are defined by recursive
functions of this project.
