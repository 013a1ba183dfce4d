---------------------------- MODULE Definitions ----------------------------
(***************************************************************************)
(* The definitions in use: who reads g_db while it is freed and loaded     *)
(* again (src/src/main.c, src/src/sigdb.c), what a lookup makes of a       *)
(* database file that is written in place meanwhile                        *)
(* (src/updater/defs_build.c), the ring of name buffers, and the end of    *)
(* the program.                                                            *)
(*                                                                         *)
(* The window's thread handles messages in its own loop, in that of every  *)
(* message box and, while an updater it has started runs, in that of       *)
(* do_update_online; an update can be started in any of them.  What began  *)
(* last returns first.  The other threads look things up: each finds a key *)
(* in memory, opens the file and compares its length, confirms the key     *)
(* there, and reads the name into one of a few buffers that all share.     *)
(*                                                                         *)
(* A database is a version cut into parts; its tables are in memory when   *)
(* the file was as long as its header says.                                *)
(***************************************************************************)
EXTENDS Naturals, FiniteSets, Sequences, SequencesExt

CONSTANTS
  Threads,     \* threads that look up: the scan's and the shield's
  Versions,    \* versions of the definitions, numbered
  Full,        \* [Versions -> the number of parts of the file]
  Slots,       \* NAME_SLOTS
  MaxBegun,    \* bound: updates, and loads of a database, that the user asks for
  MaxBoxes,    \* bound: message boxes of the rest of the program over others
  MaxAge       \* bound: buffers handed out while one is held

ASSUME DefsAssumption ==
  /\ Versions \subseteq Nat /\ 1 \in Versions
  /\ Full \in [Versions -> Nat \ {0}] /\ Slots \in Nat \ {0}
  /\ MaxBegun \in Nat /\ MaxBoxes \in Nat /\ MaxAge \in Nat

VARIABLES
  file,     \* carrot.cdb: [ver, parts written]
  upd,      \* what the window's thread is in the middle of, innermost last: [at, ver, pos],
            \* a message "box", or an updater do_update_online waits for (ver, pos while it writes)
  begun,    \* updates and loads the user has asked for so far
  win,      \* window thread: "loop", "free"d and about to load, "wait"s for threads to stop, "gone"
  from,     \* what is loaded or about to be: "own" file, an "other", a "bad" one
  tab,      \* g_db: [loaded, ver, path, whole]
  quit,     \* WM_QUIT: "no", "posted", "lost" or "taken"
  pc,       \* [Threads -> "idle", "found", "open", "name", "copy"]
  age,      \* [Threads -> buffers handed out (g_slot) since the one it holds]
  kept,     \* [Threads -> the buffer it holds has its name]
  stale,    \* threads under whose look-up the tables were freed since it found its key,
            \* or the file was written since it compared the length (history)
  overlap   \* two updaters have had the file open at once (history)

vars == <<file, upd, begun, win, from, tab, quit, pc, age, kept,
          stale, overlap>>

Holders == {t \in Threads : pc[t] \in {"name", "copy"}}
Opened  == {t \in Threads : pc[t] \in {"open", "name"}}
InTables == {t \in Threads : pc[t] \in {"found", "open", "name"}}
Looks == <<pc, age, kept>>
Window == <<win, from, tab, quit>>

NoTab == [loaded |-> FALSE, ver |-> 1, path |-> "own", whole |-> TRUE]

Init ==
  /\ file \in {[ver |-> 1, parts |-> 1..Full[1]], [ver |-> 1, parts |-> {}]}
  /\ tab = (IF file.parts = {} THEN NoTab ELSE [NoTab EXCEPT !.loaded = TRUE])
  /\ upd = <<>> /\ begun = 0 /\ win = "loop" /\ from = "own" /\ quit = "no"
  /\ pc = [t \in Threads |-> "idle"]
  /\ age = [t \in Threads |-> 0] /\ kept = [t \in Threads |-> FALSE]
  /\ stale = {} /\ overlap = FALSE

-----------------------------------------------------------------------------
Length(f) == IF f.parts = {} THEN 0 ELSE CHOOSE n \in f.parts : \A m \in f.parts : m <= n
Writing == \E i \in DOMAIN upd : upd[i].at = "write"
Updating == \E i \in DOMAIN upd : upd[i].at # "box"
Box == [at |-> "box", ver |-> 1, pos |-> 0]

\* sigdb_load: the file is not open for writing, it begins with a header, and
\* it is as long as that says.
Loadable(f) == ~Writing /\ 1 \in f.parts /\ Length(f) = Full[f.ver]

\* Variant: any file will do.
ConfirmableAny == TRUE

\* open_db: the file has the length it had when it was loaded.  Of tables that
\* were freed meanwhile anything may be left.
Confirmable == ~tab.loaded \/ tab.path # "own" \/ Length(file) = Full[tab.ver]

-----------------------------------------------------------------------------
\* sigdb_match_* finds the item in the tables in memory; nothing is found while
\* nothing is loaded.  (A search that finds nothing changes nothing.)
LookUp(t) ==
  /\ pc[t] = "idle" /\ tab.loaded /\ pc' = [pc EXCEPT ![t] = "found"]
  /\ UNCHANGED <<file, upd, begun, Window, age, kept, stale, overlap>>

\* open_db; the file stays open, and others may write it all the same.
OpenFile(t) ==
  /\ pc[t] = "found" /\ Confirmable /\ pc' = [pc EXCEPT ![t] = "open"]
  /\ UNCHANGED <<file, upd, begun, Window, age, kept, stale, overlap>>

\* The file cannot be opened or is of another length, or another record, or none,
\* is at the place; the key that was found counts for nothing.
NotConfirmed(t) ==
  /\ pc[t] \in {"found", "open"} /\ pc' = [pc EXCEPT ![t] = "idle"] /\ stale' = stale \ {t}
  /\ UNCHANGED <<file, upd, begun, Window, age, kept, overlap>>

\* Variant: the counter is read and then written; two threads read the same.
TakeSameSlot(t) ==
  /\ pc[t] = "open" /\ pc' = [pc EXCEPT ![t] = "name"]
  /\ \A u \in Holders : age[u] < MaxAge
  /\ \E n \in {0, 1} : age' = [u \in Threads |-> IF u \in Holders THEN age[u] + n ELSE 0]
  /\ UNCHANGED <<file, upd, begun, Window, kept, stale, overlap>>

\* The record in the file confirms the hash (a SHA-256 is whole in memory, and
\* nothing is read), and read_name takes the next buffer.
TakeSlot(t) ==
  /\ pc[t] = "open" /\ pc' = [pc EXCEPT ![t] = "name"]
  /\ \A u \in Holders : age[u] < MaxAge
  /\ age' = [u \in Threads |-> IF u \in Holders THEN age[u] + 1 ELSE 0]
  /\ UNCHANGED <<file, upd, begun, Window, kept, stale, overlap>>

\* read_name reads the name into it, out of the file as it is by now (a blank one
\* if it is too short), ...
ReadName(t) ==
  /\ pc[t] = "name" /\ pc' = [pc EXCEPT ![t] = "copy"]
  /\ kept' = [u \in Threads |-> u = t \/ (kept[u] /\ age[u] % Slots # age[t] % Slots)]
  /\ stale' = stale \ {t}
  /\ UNCHANGED <<file, upd, begun, Window, age, overlap>>

\* ... and the caller copies it straight away.
CopyName(t) ==
  /\ pc[t] = "copy" /\ pc' = [pc EXCEPT ![t] = "idle"]
  /\ age' = [age EXCEPT ![t] = 0] /\ kept' = [kept EXCEPT ![t] = FALSE]
  /\ UNCHANGED <<file, upd, begun, Window, stale, overlap>>

-----------------------------------------------------------------------------
\* do_update_online starts an updater and handles messages until it has ended.
StartUpdate ==
  /\ win = "loop" /\ begun < MaxBegun /\ begun' = begun + 1
  /\ upd' = Append(upd, [at |-> "fetch", ver |-> 1, pos |-> 0])
  /\ UNCHANGED <<file, Window, Looks, stale, overlap>>

\* cvd_compile empties the file, ...
UpdaterOpens(i) ==
  /\ upd[i].at = "fetch" /\ overlap' = (overlap \/ Writing)
  /\ \E v \in Versions :
       /\ upd' = [upd EXCEPT ![i] = [at |-> "write", ver |-> v, pos |-> 0]]
       /\ file' = [ver |-> v, parts |-> {}]
  /\ stale' = stale \cup Opened
  /\ UNCHANGED <<begun, Window, Looks>>

\* ... writes it part by part, ...
UpdaterWrites(i) ==
  /\ upd[i].at = "write" /\ upd[i].pos < Full[upd[i].ver]
  /\ upd' = [upd EXCEPT ![i].pos = @ + 1]
  /\ file' = [ver |-> upd[i].ver, parts |-> file.parts \cup {upd[i].pos + 1}]
  /\ stale' = stale \cup Opened
  /\ UNCHANGED <<begun, Window, Looks, overlap>>

\* ... and the updater ends: done, failed at any point, or closed by the user.
UpdaterEnds(i) ==
  /\ upd[i].at \in {"fetch", "write"}
  /\ upd' = [upd EXCEPT ![i] = [at |-> "ended", ver |-> 1, pos |-> 0]]
  /\ UNCHANGED <<file, begun, Window, Looks, stale, overlap>>

-----------------------------------------------------------------------------
\* Variant: it looks whether there is a window first.
ReloadShown ==
  /\ win = "loop" /\ upd # <<>> /\ Last(upd).at = "ended"
  /\ upd' = Front(upd) /\ tab' = NoTab /\ from' = "own" /\ win' = "free"
  /\ stale' = stale \cup InTables
  /\ UNCHANGED <<file, begun, quit, Looks, overlap>>

\* Variant: an update inside which another was started does not load again.
ReloadInner ==
  /\ win \in {"loop", "gone"} /\ quit # "posted" /\ upd # <<>> /\ Last(upd).at = "ended"
  /\ upd' = Front(upd)
  /\ IF begun = 1 \/ \E i \in DOMAIN Front(upd) : upd[i].at # "box"
     THEN tab' = NoTab /\ from' = "own" /\ win' = "free" /\ stale' = stale \cup InTables
     ELSE UNCHANGED <<tab, from, win, stale>>
  /\ UNCHANGED <<file, begun, quit, Looks, overlap>>

\* do_reload_defs, when the innermost updater has ended and nothing was begun since
\* that has not returned: the tables are freed, under a thread in the middle of a
\* search too.
Reload ==
  /\ win \in {"loop", "gone"} /\ quit # "posted" /\ upd # <<>> /\ Last(upd).at = "ended"
  /\ upd' = Front(upd) /\ tab' = NoTab /\ from' = "own" /\ win' = "free"
  /\ stale' = stale \cup InTables
  /\ UNCHANGED <<file, begun, quit, Looks, overlap>>

\* do_load_defs: the old tables go before the new file is looked at.
LoadOther ==
  /\ win = "loop" /\ begun < MaxBegun /\ begun' = begun + 1
  /\ win' = "free" /\ from' \in {"own", "other", "bad"} /\ tab' = NoTab
  /\ stale' = stale \cup InTables
  /\ UNCHANGED <<file, upd, quit, Looks, overlap>>

\* What was loaded, and the offer of a new version of the program, is told in a
\* message box; without a window there is none, and without tables perhaps.
Tell == \/ quit = "no" /\ upd' = Append(upd, Box)
        \/ (quit # "no" \/ ~tab'.loaded) /\ UNCHANGED upd

\* sigdb_load of carrot.cdb.
LoadOwn ==
  /\ win = "free" /\ from = "own" /\ win' = IF quit = "no" THEN "loop" ELSE "gone"
  /\ IF Loadable(file)
     THEN tab' = [loaded |-> TRUE, ver |-> file.ver, path |-> "own",
                     whole |-> file.parts = 1..Full[file.ver]]
     ELSE UNCHANGED tab
  /\ Tell
  /\ UNCHANGED <<file, begun, from, quit, Looks, stale, overlap>>

\* sigdb_load of the chosen file, which is then copied to carrot.cdb; nobody
\* looks whether it was.  The tables keep the chosen file's path.
LoadChosen ==
  /\ win = "free" /\ from # "own" /\ win' = "loop"
  /\ \/ from = "bad" /\ UNCHANGED <<tab, file, from, stale>>
     \/ \E v \in Versions :
          /\ from = "other" /\ tab' = [loaded |-> TRUE, ver |-> v, path |-> "other", whole |-> TRUE]
          /\ \/ /\ ~Writing /\ file' = [ver |-> v, parts |-> 1..Full[v]] /\ from' = from
                /\ stale' = stale \cup Opened
             \/ file' = file /\ from' = "uncopied" /\ UNCHANGED stale
  /\ upd' = Append(upd, Box)
  /\ UNCHANGED <<begun, quit, Looks, overlap>>

-----------------------------------------------------------------------------
\* Another message box of the program: a question before an update, the result
\* of a scan, a report of the shield.
ShowBox ==
  /\ win = "loop" /\ Cardinality({i \in DOMAIN upd : upd[i].at = "box"}) < MaxBoxes
  /\ upd' = Append(upd, Box)
  /\ UNCHANGED <<file, begun, Window, Looks, stale, overlap>>

\* The user answers a box, or it goes with the window it belongs to.
BoxGoes ==
  /\ win \in {"loop", "gone"} /\ upd # <<>> /\ Last(upd).at = "box" /\ upd' = Front(upd)
  /\ UNCHANGED <<file, begun, Window, Looks, stale, overlap>>

-----------------------------------------------------------------------------
\* WM_CLOSE when Exit was chosen or nothing keeps the program in the tray: it waits
\* for some threads and for so long (ScanSession, Shield).
Close ==
  /\ win = "loop" /\ win' = "wait"
  /\ UNCHANGED <<file, upd, begun, from, tab, quit, Looks, stale, overlap>>

\* WM_DESTROY frees everything and posts WM_QUIT.
Destroy ==
  /\ win = "wait" /\ win' = "gone"
  /\ tab' = NoTab /\ quit' = "posted" /\ stale' = stale \cup InTables
  /\ UNCHANGED <<file, upd, begun, from, Looks, overlap>>

\* do_update_online's loop takes WM_QUIT out of the queue and goes on; a box that
\* is in its way goes and leaves WM_QUIT there.
PumpTakesQuit ==
  /\ quit = "posted" /\ upd # <<>> /\ Last(upd).at # "box" /\ quit' = "lost"
  /\ UNCHANGED <<file, upd, begun, win, from, tab, Looks, stale, overlap>>

\* The main loop ends on it, and the process with it.
TakeQuit ==
  /\ quit = "posted" /\ upd = <<>> /\ quit' = "taken"
  /\ UNCHANGED <<file, upd, begun, win, from, tab, Looks, stale, overlap>>

Thread(t) ==
  \/ LookUp(t) \/ OpenFile(t) \/ NotConfirmed(t)
  \/ TakeSlot(t) \/ ReadName(t) \/ CopyName(t)

Updater(i) == UpdaterOpens(i) \/ UpdaterWrites(i) \/ UpdaterEnds(i)

Returns == Reload \/ LoadOwn \/ LoadChosen \/ Destroy \/ TakeQuit \/ PumpTakesQuit

Next ==
  \/ quit # "taken" /\ \E t \in Threads : Thread(t)
  \/ \E i \in DOMAIN upd : Updater(i)
  \/ StartUpdate \/ LoadOther \/ Close \/ ShowBox \/ BoxGoes \/ Returns

\* The window's thread never sleeps on what it can do without the user, and a box
\* without a window goes; updaters end.  Nobody need answer a box.
Depth == MaxBegun + MaxBoxes
Spec == Init /\ [][Next]_vars /\ WF_vars(Returns) /\ WF_vars(quit # "no" /\ BoxGoes)
          /\ \A i \in 1..Depth : WF_vars(i \in DOMAIN upd /\ Updater(i))

-----------------------------------------------------------------------------
Update == [at : {"fetch", "write", "ended", "box"}, ver : Versions, pos : Nat]

\* Every variable stays in its range; an updater is never past the end of its version,
\* a buffer has its name only while its holder is to copy it, and a program that was
\* closed neither waits nor is in its loop.
FileOK == file \in [ver : Versions, parts : SUBSET UNION {1..Full[v] : v \in Versions}]
UpdatersOK ==
  /\ upd \in Seq(Update) /\ \A i \in DOMAIN upd : upd[i].pos <= Full[upd[i].ver]
  /\ begun \in 0..MaxBegun
WindowOK ==
  /\ win \in {"loop", "free", "wait", "gone"}
  /\ from \in {"own", "other", "bad", "uncopied"}
  /\ quit \in {"no", "posted", "lost", "taken"} /\ (win = "gone" => quit # "no")
  /\ quit # "no" => win \in {"free", "gone"}
TableOK == tab \in [loaded : BOOLEAN, ver : Versions, path : {"own", "other"}, whole : BOOLEAN]
ThreadsOK ==
  /\ pc \in [Threads -> {"idle", "found", "open", "name", "copy"}]
  /\ age \in [Threads -> 0..MaxAge] /\ kept \in [Threads -> BOOLEAN]
  /\ \A t \in Threads : kept[t] => pc[t] = "copy"
TypeOK == FileOK /\ UpdatersOK /\ WindowOK /\ TableOK /\ ThreadsOK /\ stale \subseteq Threads /\ overlap \in BOOLEAN

\* The name a thread is about to copy is overwritten only by, or because of, one
\* that holds its buffer for as long as the others take all the rest (read_name:
\* "64 slots is far more hits than can be in flight").
NamesKept ==
  [][\A t \in Threads :
       kept[t] /\ pc'[t] = "copy" /\ ~kept'[t] => \E u \in Holders : age[u] >= Slots]_vars

\* When a name is read (read_name), the file is the whole database its key was
\* found in, or another that is at that moment just as long (open_db compares the
\* length alone), unless the tables were freed since the key was found, the file was
\* emptied or written since its length was compared (nothing is compared again), or
\* two updaters have written it at once.
NamedAsLoaded ==
  [][\A t \in Threads :
       pc[t] = "name" /\ pc'[t] = "copy" /\ tab.path = "own" /\ t \notin stale /\ ~overlap
         => \/ file = [ver |-> tab.ver, parts |-> 1..Full[tab.ver]]
            \/ file.ver # tab.ver /\ Length(file) = Full[tab.ver]]_vars

\* However an update is cut short, what is loaded from a file that is written in
\* place is a whole database, unless two updaters have written it at once.  When no
\* update is under way it is the one on disk, if that can be loaded, whichever of
\* several updates ended first; not after a file was chosen that is no database, nor
\* when the chosen one could not be copied (sigdb_load, cvd_compile, do_reload_defs).
InStep ==
  /\ tab.whole \/ overlap
  /\ win = "loop" /\ ~Updating /\ from \notin {"bad", "uncopied"} /\ Loadable(file)
       => tab.loaded /\ tab.ver = file.ver

\* The strengthening that makes these inductive.  Until two updaters have written at
\* once, what there is of the file is the first parts of its version, as many as its
\* writer has written; a closed program loads its own file; no two threads hold
\* buffers of the same age; and under a look-up that is not stale the tables are
\* those it found its key in, and the file it has open as long as they say.
WrittenInOrder ==
  ~overlap =>
    /\ \E n \in 0..Full[file.ver] : file.parts = 1..n
    /\ \A i \in DOMAIN upd : upd[i].at = "write" => upd[i].ver = file.ver /\ file.parts = 1..upd[i].pos
    /\ \A i, j \in DOMAIN upd : upd[i].at = "write" /\ upd[j].at = "write" => i = j
ClosedLoadsOwn == quit # "no" /\ win = "free" => from = "own"
BuffersDiffer == \A t, u \in Holders : age[t] = age[u] => t = u
StillLoaded ==
  /\ win = "free" => ~tab.loaded
  /\ InTables \ stale # {} => tab.loaded
StillAsLong == Opened \ stale # {} /\ tab.path = "own" => Length(file) = Full[tab.ver]
IndInv ==
  /\ TypeOK /\ WrittenInOrder /\ ClosedLoadsOwn /\ BuffersDiffer
  /\ StillLoaded /\ StillAsLong /\ InStep

\* Every check for updates comes back and loads what there is, with others started
\* from inside it and with the window closed meanwhile, unless a message box waits
\* for its answer; and a program that is closed while none is under way and no box
\* is up ends (do_update_online, WM_CLOSE, WM_DESTROY, wWinMain).
Boxed == \E i \in DOMAIN upd : upd[i].at = "box"
WaitsEnd ==
  /\ Updating ~> (~Updating /\ win # "free") \/ Boxed
  /\ (win = "wait" /\ upd = <<>>) ~> quit = "taken"
=============================================================================
