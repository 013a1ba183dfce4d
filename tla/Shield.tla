------------------------------- MODULE Shield -------------------------------
(***************************************************************************)
(* The shield's file guard and its lifecycle, src/src/realtime.c: rt_start *)
(* and rt_stop on the window's thread, watch_thread for one folder.  All   *)
(* share g_rt without a lock, and a watcher keeps a pointer into it: its   *)
(* WATCHER slot, with the folder's name and handle.  rt_stop waits three   *)
(* seconds for the thread and then clears g_rt whether it has ended or     *)
(* not, so a watcher that is still scanning a file outlives the stop.      *)
(*                                                                         *)
(* Start g creates stop event g and watcher thread g, which opens folder   *)
(* handle g.  A closed event's handle value can be that of an event        *)
(* created later.  The folder's changes are buffered by its handle from    *)
(* the first read on it; a full buffer loses them all and the read returns *)
(* nothing.  Writing a file reports it when it is created and closed.      *)
(***************************************************************************)
EXTENDS Naturals

CONSTANTS
  Files,      \* files in the watched folder
  MaxStarts,  \* bound: calls of rt_start that start the shield
  MaxWrites   \* bound: files written

ASSUME ShieldAssumption == MaxStarts \in Nat /\ MaxWrites \in Nat

Starts == 1..MaxStarts
Null   == 0

VARIABLES
  ctx,     \* g_rt: run, stopev, and of its watcher dir (is set), dirh, thread
  ui,      \* the window's thread is in rt_stop's wait, or not
  starts,  \* starts so far
  event,   \* [Starts -> state of the stop event]
  folder,  \* [Starts -> the folder handle: its state and buffered changes]
  watcher, \* [Starts -> the thread: where it is, waits[1], its pending read,
           \*            the changes it has read and not checked, the threat]
  file,    \* [Files -> what a file is; busy while its writer has it open]
  unseen,  \* files whose last change came while their folder was not watched (history)
  dropped, \* files whose last change a full buffer has lost (history)
  tried,   \* files the shield has quarantined, or tried to, since their last change
  slow,    \* rt_stop has given up waiting once (history)
  writes   \* files written

vars == <<ctx, ui, starts, event, folder, watcher, file, unseen, dropped, tried, slow, writes>>

NoContext == [run |-> FALSE, stopev |-> Null, dir |-> FALSE, dirh |-> Null, thread |-> Null]
Unopened  == [state |-> "none", reading |-> FALSE, buf |-> {}, full |-> FALSE]
NotBegun  == [pc |-> "none", stopev |-> Null, read |-> Null, batch |-> {}, threat |-> {}]
Alive(g)  == watcher[g].pc \notin {"none", "refused", "over"}

Init ==
  /\ ctx = NoContext /\ ui = "idle" /\ starts = 0
  /\ event = [g \in Starts |-> "none"]
  /\ folder = [g \in Starts |-> Unopened]
  /\ watcher = [g \in Starts |-> NotBegun]
  /\ file \in [Files -> {"absent", "good", "bad"}]
  /\ unseen = Files /\ dropped = {} /\ tried = {} /\ slow = FALSE /\ writes = 0

-----------------------------------------------------------------------------
(* rt_start and rt_stop.                                                   *)

StartShield ==
  LET g == starts + 1 IN
  /\ ui = "idle" /\ ~ctx.run
  /\ starts < MaxStarts /\ starts' = g
  /\ ctx' = [run |-> TRUE, stopev |-> g, dir |-> TRUE, dirh |-> Null, thread |-> g]
  /\ event' = [event EXCEPT ![g] = "open"]
  /\ watcher' = [watcher EXCEPT ![g].pc = "open"]
  /\ unseen' = Files /\ dropped' = {}
  /\ UNCHANGED <<ui, folder, file, tried, slow, writes>>

\* Variant: the stop event is forgotten; the watcher stays in its wait.
StopShieldUnsignalled ==
  /\ ui = "idle" /\ ctx.run
  /\ ctx' = [ctx EXCEPT !.run = FALSE]
  /\ ui' = "stopping"
  /\ UNCHANGED <<starts, event, folder, watcher, file, unseen, dropped, tried, slow, writes>>

\* CancelIo cancels only reads issued by the calling thread: none.
StopShield ==
  /\ ui = "idle" /\ ctx.run
  /\ ctx' = [ctx EXCEPT !.run = FALSE]
  /\ event' = [event EXCEPT ![ctx.stopev] = "set"]
  /\ ui' = "stopping"
  /\ UNCHANGED <<starts, folder, watcher, file, unseen, dropped, tried, slow, writes>>

Clear ==
  /\ event' = [event EXCEPT ![ctx.stopev] = "closed"]
  /\ ctx' = NoContext
  /\ ui' = "idle"
  /\ UNCHANGED <<starts, folder, watcher, file, unseen, dropped, tried, writes>>

\* Variant: the wait for the thread is left out.
StoppedAtOnce ==
  /\ ui = "stopping"
  /\ Clear /\ UNCHANGED slow

Stopped ==
  /\ ui = "stopping" /\ ~Alive(ctx.thread)
  /\ Clear /\ UNCHANGED slow

\* Three seconds have passed while the watcher was at its changes (a pause of
\* 120 ms and a scan for each): the result of the wait is not looked at.
StopGivesUp ==
  /\ ui = "stopping" /\ watcher[ctx.thread].pc \in {"check", "act"}
  /\ Clear /\ slow' = TRUE

-----------------------------------------------------------------------------
(* watch_thread.                                                           *)

Set(g, w)    == watcher' = [watcher EXCEPT ![g] = w]
Go(g, pc)    == Set(g, [watcher[g] EXCEPT !.pc = pc])
NextPc(left) == IF left = {} THEN "arm" ELSE "check"

Open(g) ==
  /\ watcher[g].pc = "open"
  /\ \/ /\ ctx.dir                    \* an empty name after rt_stop's memset
        /\ folder' = [folder EXCEPT ![g].state = "open"]
        /\ ctx' = [ctx EXCEPT !.dirh = g]
        /\ Set(g, [watcher[g] EXCEPT !.pc = "arm", !.stopev = ctx.stopev])
     \/ Go(g, "refused") /\ ctx' = [ctx EXCEPT !.dirh = Null] /\ UNCHANGED folder
  /\ UNCHANGED <<ui, starts, event, file, unseen, dropped, tried, slow, writes>>

\* The loop's test of run, then ReadDirectoryChangesW on whatever handle the
\* slot holds now.
Arm(g) ==
  LET h == ctx.dirh IN
  /\ watcher[g].pc = "arm"
  /\ IF ctx.run /\ h # Null
     THEN /\ folder' = [folder EXCEPT ![h].reading = TRUE]
          /\ Set(g, [watcher[g] EXCEPT !.pc = "wait", !.read = h])
     ELSE Go(g, "leave") /\ UNCHANGED folder
  /\ UNCHANGED <<ctx, ui, starts, event, file, unseen, dropped, tried, slow, writes>>

\* The event waits[1] names: none if closed, or one that has got its value.
Named(g) ==
  LET s == watcher[g].stopev IN
  CASE s = Null            -> {Null}
    [] event[s] # "closed" -> {s}
    [] OTHER               -> {Null} \cup {e \in {ctx.stopev} : e > s}
CanWait(g) == Named(g) # {Null}

\* The wait fails on a handle that names nothing, and ends on the stop event.
WaitEnds(g) ==
  /\ watcher[g].pc = "wait"
  /\ Null \in Named(g) \/ \E e \in Named(g) \ {Null} : event[e] = "set"
  /\ Set(g, [watcher[g] EXCEPT !.pc = "leave", !.read = Null])
  /\ UNCHANGED <<ctx, ui, starts, event, folder, file, unseen, dropped, tried, slow, writes>>

Readable(g) == LET h == watcher[g].read IN
  watcher[g].pc = "wait" /\ folder[h].state = "open" /\ (folder[h].buf # {} \/ folder[h].full)

\* Variant: each read is on a buffer emptied first, so changes made while the
\* last batch was checked are gone.
TakeFresh(g) ==
  LET h == watcher[g].read IN
  /\ Readable(g) /\ CanWait(g)
  /\ folder' = [folder EXCEPT ![h].buf = {}, ![h].full = FALSE]
  /\ \E f \in folder[h].buf :
       Set(g, [watcher[g] EXCEPT !.pc = IF ctx.run THEN NextPc({f}) ELSE "leave",
                                 !.read = Null, !.batch = {f}])
  /\ UNCHANGED <<ctx, ui, starts, event, file, unseen, dropped, tried, slow, writes>>

\* The read completes; a full buffer has given it nothing (bytes = 0).
Take(g) ==
  LET h == watcher[g].read IN
  /\ Readable(g) /\ CanWait(g)
  /\ folder' = [folder EXCEPT ![h].buf = {}, ![h].full = FALSE]
  /\ Set(g, [watcher[g] EXCEPT !.pc = IF ctx.run THEN NextPc(folder[h].buf) ELSE "leave",
                               !.read = Null, !.batch = folder[h].buf])
  /\ UNCHANGED <<ctx, ui, starts, event, file, unseen, dropped, tried, slow, writes>>

\* The handle was closed under the read, which completes with nothing.
ReadCancelled(g) ==
  /\ watcher[g].pc = "wait" /\ folder[watcher[g].read].state = "closed"
  /\ CanWait(g)
  /\ Set(g, [watcher[g] EXCEPT !.pc = IF ctx.run THEN "arm" ELSE "leave", !.read = Null])
  /\ UNCHANGED <<ctx, ui, starts, event, folder, file, unseen, dropped, tried, slow, writes>>

\* rt_check on one change: the path starts with the slot's folder name, and a
\* file its writer still has open cannot be read.
Check(g, f) ==
  LET left == watcher[g].batch \ {f} IN
  /\ watcher[g].pc = "check" /\ f \in watcher[g].batch
  /\ IF ctx.dir /\ file[f] = "bad"
     THEN Set(g, [watcher[g] EXCEPT !.pc = "act", !.batch = left, !.threat = {f}])
     ELSE Set(g, [watcher[g] EXCEPT !.pc = NextPc(left), !.batch = left])
  /\ UNCHANGED <<ctx, ui, starts, event, folder, file, unseen, dropped, tried, slow, writes>>

\* rt_threat: quar_add removes the file or fails; its result is not looked at.
Act(g) ==
  LET f == CHOOSE x \in watcher[g].threat : TRUE IN
  /\ watcher[g].pc = "act"
  /\ Set(g, [watcher[g] EXCEPT !.pc = NextPc(watcher[g].batch), !.threat = {}])
  /\ file' \in {file, IF file[f] = "busy" THEN file ELSE [file EXCEPT ![f] = "absent"]}
  /\ tried' = IF file[f] = "bad" THEN tried \cup {f} ELSE tried
  /\ UNCHANGED <<ctx, ui, starts, event, folder, unseen, dropped, slow, writes>>

\* Variant: the folder's handle stays open.
LeaveKeepsHandle(g) ==
  /\ watcher[g].pc = "leave"
  /\ ctx' = [ctx EXCEPT !.dirh = Null]
  /\ Go(g, "over")
  /\ UNCHANGED <<ui, starts, event, folder, file, unseen, dropped, tried, slow, writes>>

\* Out of the loop: the slot's handle is closed, whoever opened it.
Leave(g) ==
  /\ watcher[g].pc = "leave"
  /\ folder' = [h \in Starts |-> IF h = ctx.dirh THEN [Unopened EXCEPT !.state = "closed"]
                                                 ELSE folder[h]]
  /\ ctx' = [ctx EXCEPT !.dirh = Null]
  /\ Go(g, "over")
  /\ UNCHANGED <<ui, starts, event, file, unseen, dropped, tried, slow, writes>>

WatcherStep(g) ==
  \/ Open(g) \/ Arm(g) \/ WaitEnds(g) \/ Take(g) \/ ReadCancelled(g)
  \/ (\E f \in Files : Check(g, f)) \/ Act(g) \/ Leave(g)

-----------------------------------------------------------------------------
(* Other programs.                                                         *)

\* A change of f reaches every handle that is being read; one more change in a
\* buffer that holds some already may be more than it takes.
Report(f) ==
  /\ \E filled \in SUBSET {h \in Starts : folder[h].buf # {}} :
       folder' = [h \in Starts |->
         IF folder[h].state # "open" \/ ~folder[h].reading THEN folder[h]
         ELSE IF folder[h].full \/ h \in filled THEN [folder[h] EXCEPT !.buf = {}, !.full = TRUE]
         ELSE [folder[h] EXCEPT !.buf = @ \cup {f}]]
  /\ LET mine == ctx.dirh
         lost == IF folder'[mine].full THEN {f} \cup folder[mine].buf ELSE {}
     IN IF mine # Null /\ folder[mine].reading
        THEN unseen' = unseen \ {f} /\ dropped' = (dropped \ {f}) \cup lost
        ELSE unseen' = unseen \cup {f} /\ dropped' = dropped \ {f}

BeginWrite(f) ==
  /\ writes < MaxWrites /\ writes' = writes + 1
  /\ file[f] # "busy"
  /\ file' = [file EXCEPT ![f] = "busy"]
  /\ tried' = tried \ {f}
  /\ Report(f)
  /\ UNCHANGED <<ctx, ui, starts, event, watcher, slow>>

EndWrite(f, b) ==
  /\ file[f] = "busy"
  /\ file' = [file EXCEPT ![f] = b]
  /\ Report(f)
  /\ UNCHANGED <<ctx, ui, starts, event, watcher, tried, slow, writes>>

Next ==
  \/ StartShield \/ StopShield \/ Stopped \/ StopGivesUp
  \/ \E g \in Starts : WatcherStep(g)
  \/ \E f \in Files : BeginWrite(f) \/ EndWrite(f, "good") \/ EndWrite(f, "bad")

Spec == Init /\ [][Next]_vars
FairSpec == Spec /\ WF_vars(Stopped) /\ \A g \in Starts : WF_vars(WatcherStep(g))

-----------------------------------------------------------------------------
(* Properties.                                                             *)

\* Every variable stays in its range, and a watcher has a pending read, a
\* threat or changes left exactly where its loop says.
Watcher == [pc : {"none", "open", "refused", "arm", "wait", "check", "act", "leave", "over"},
            stopev : Starts \cup {Null}, read : Starts \cup {Null},
            batch : SUBSET Files, threat : SUBSET Files]
Folder == [state : {"none", "open", "closed"}, reading : BOOLEAN, buf : SUBSET Files, full : BOOLEAN]

ContextOK ==
  /\ ctx \in [run : BOOLEAN, stopev : Starts \cup {Null}, dir : BOOLEAN,
               dirh : Starts \cup {Null}, thread : Starts \cup {Null}]
  /\ ui \in {"idle", "stopping"} /\ starts \in 0..MaxStarts /\ slow \in BOOLEAN
EventOK == event \in [Starts -> {"none", "open", "set", "closed"}]
FolderOK == folder \in [Starts -> Folder]
WatcherOK == watcher \in [Starts -> Watcher]
InLoop(w) ==
  /\ w.pc = "wait" <=> w.read # Null
  /\ w.pc = "act" <=> w.threat # {}
  /\ w.pc = "check" => w.batch # {}
LoopOK == \A g \in Starts : InLoop(watcher[g])
FilesOK ==
  /\ file \in [Files -> {"absent", "good", "bad", "busy"}]
  /\ unseen \subseteq Files /\ dropped \subseteq Files /\ tried \subseteq Files
WritesOK == writes \in 0..MaxWrites
TypeOK == ContextOK /\ EventOK /\ FolderOK /\ WatcherOK /\ LoopOK /\ FilesOK /\ WritesOK

\* As long as no stop gave up waiting, a stopped shield has left nothing
\* behind: no thread, no handle, no event.
StopLeavesNothing ==
  ~slow /\ ui = "idle" /\ ~ctx.run =>
    \A g \in Starts : /\ ~Alive(g)
                      /\ folder[g].state # "open" /\ event[g] \in {"none", "closed"}

\* As long as no stop gave up waiting, the watcher of a running shield owns
\* its slot: it reads and closes only the handle it opened, waits on the stop
\* event rt_stop will set, and is the only one.
WatcherOwnsSlot ==
  ~slow => \A g \in Starts : Alive(g) =>
    /\ g = ctx.thread
    /\ watcher[g].pc # "open" => /\ ctx.dirh = g /\ folder[g].state = "open"
                                 /\ watcher[g].stopev = ctx.stopev
    /\ watcher[g].read \in {Null, g}

\* The strengthening that makes the two invariants inductive.  The context is
\* that of the last start from there to its stop's end, and the stop event that is
\* not closed is its own; and while no stop gave up, a folder that is open
\* has a watcher, the one the slot's handle is of.
ContextIsLast ==
  /\ IF ctx.run \/ ui = "stopping"
     THEN ctx.stopev = starts /\ ctx.thread = starts /\ ctx.dir /\ starts # Null
     ELSE ctx.stopev = Null /\ ctx.thread = Null
  /\ ctx.run => ui = "idle"
  /\ \A g \in Starts :
       IF g = ctx.stopev THEN event[g] = (IF ctx.run THEN "open" ELSE "set")
                         ELSE event[g] \in {"none", "closed"}
  /\ \A g \in Starts : g > starts => watcher[g].pc = "none"
OpenIsWatched ==
  ~slow =>
    /\ \A g \in Starts : /\ folder[g].state = "open" => g = ctx.dirh
                         /\ watcher[g].pc = "open" => ctx.dirh = Null
    /\ ctx.dirh # Null => Alive(ctx.dirh)
IndInv == TypeOK /\ ContextIsLast /\ OpenIsWatched /\ WatcherOwnsSlot

\* A file that was made bad while the watcher was reading, and whose change the
\* buffer kept, is dealt with although the watcher was busy with others then.
ChangeIsDealtWith ==
  \A f \in Files :
    (file[f] = "bad" /\ f \notin unseen \cup dropped)
      ~> (file[f] # "bad" \/ f \in tried \cup unseen \cup dropped \/ ~ctx.run \/ slow)

\* rt_stop ends by itself: the watcher leaves its wait, or a file it is at is done.
StopEnds == ui = "stopping" ~> ui = "idle"
=============================================================================
